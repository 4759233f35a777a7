------------------------------- MODULE MCInputs -------------------------------
(***************************************************************************)
(* The parts that compute and share no state, each explored over bounded   *)
(* inputs: strings, exported documents, and files that are hashed.         *)
(***************************************************************************)
EXTENDS Utf8, CollectionJson, Sha256

VARIABLE subject   \* which of them a behaviour is about

\* Two keys, one of which may be unreadable, and values of every type.
MCSorted(keys) ==
  LET order == <<"bad", "collection", "k1", "k2", "properties", "revision", "s", "schema",
                 "target", "type", "value">>
  IN SelectSeq(order, LAMBDA key : key \in keys)

MCValues ==
  {Bool("true"), [type |-> "number", value |-> <<"2">>], [type |-> "number", value |-> <<"nan">>],
   [type |-> "string", value |-> <<"s">>], [type |-> "string", value |-> <<"bad">>],
   [type |-> "vector3", value |-> <<"1", "2", "1">>]}

MCStored == UNION {[keys -> MCValues] : keys \in {{}, {"k1"}, {"k1", "k2"}, {"bad"}}}

Init ==
  /\ subject \in {"string", "document", "file"}
  /\ StringInit
  /\ DocumentInit /\ (subject # "document" => properties = << >>)
  /\ FileInit /\ (subject # "file" => size = 0 /\ stream = "good")

Next ==
  /\ \/ subject = "string" /\ StringNext /\ UNCHANGED <<document_vars, file_vars>>
     \/ subject = "document" /\ DocumentNext /\ UNCHANGED <<string_vars, file_vars>>
     \/ subject = "file" /\ FileNext /\ UNCHANGED <<string_vars, document_vars>>
  /\ UNCHANGED subject

Spec == Init /\ [][Next]_<<string_vars, document_vars, file_vars, subject>>
=============================================================================
