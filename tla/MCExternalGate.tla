---------------------------- MODULE MCExternalGate ----------------------------
(***************************************************************************)
(* Hooked writes of scripts on five platforms, and calls of the service    *)
(* that fill the collections up to the limit of one property before,       *)
(* between and inside them.                                                *)
(***************************************************************************)
EXTENDS ExternalGate, TLC

CONSTANTS v1, v2

Empties == [r \in CollectionRef |-> Missing]

Ref(name) == [target |-> "world", collection |-> name]

Set(name, key, value) ==
  [kind |-> "set_property", ref |-> Ref(name), key |-> key, value |-> value,
   expected_revision |-> NoRevision]

Rename(from, to) ==
  [kind |-> "rename_collection", target |-> "world", from |-> from, to |-> to,
   expected_source_revision |-> NoRevision, expected_destination_revision |-> NoRevision,
   destination_policy |-> "Merge"]

Move(source, destination) ==
  [kind |-> "transfer_collection", source |-> Ref(source), destination |-> Ref(destination),
   expected_source_revision |-> NoRevision, expected_destination_revision |-> NoRevision,
   destination_policy |-> "Merge", remove_source |-> TRUE]

Clear(name) ==
  [kind |-> "clear_collection", ref |-> Ref(name), expected_revision |-> NoRevision,
   remove_collection |-> TRUE]

\* "foreign" writes where it may not, "late" intercepts after the write.
MCBody ==
  [h \in Hooks |->
     [operation |-> CASE h \in {"set", "late"} -> Set("a", "k2", v1)
                      [] h = "move" -> Move("a", "b")
                      [] h = "foreign" -> Set("b", "k2", v2),
      cancellable |-> h # "late", permitted |-> h # "foreign"]]

\* The platform that the documents describe.
Complete ==
  [hooks |-> {"set", "move", "foreign"}, observation |-> TRUE, cancellation |-> TRUE,
   leased |-> TRUE, revalidates |-> TRUE]

\* A service whose gate is the Python one.
Python == [Complete EXCEPT !.revalidates = FALSE]

\* A platform that can observe at most and keeps no lease.
Observing == [Complete EXCEPT !.hooks = {"set", "foreign"}, !.cancellation = FALSE, !.leased = FALSE]

MCPlatforms ==
  {Complete, Python, [Complete EXCEPT !.hooks = {"late", "foreign"}],
   Observing, [Observing EXCEPT !.observation = FALSE]}

PythonOnly == {Python}

MCApiOperations == {Set("a", "k1", v2), Set("b", "k1", v1), Clear("a"), Rename("b", "a")}
=============================================================================
