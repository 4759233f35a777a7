-------------------------- MODULE MCReferenceService --------------------------
(* The instances of MCService for the Python implementation.               *)
EXTENDS ReferenceService, MCService
=============================================================================
