------------------------------ MODULE MCAdapter ------------------------------
(***************************************************************************)
(* The in-memory adapter with three collections, two keys and two values,  *)
(* and every kind of operation with every policy and flag.                 *)
(***************************************************************************)
EXTENDS InMemoryAdapter, TLC

CONSTANTS v1, v2

NothingStored == [r \in CollectionRef |-> Missing]

OneKey == [k \in Keys |-> IF k = "k1" THEN v1 ELSE NoValue]

BothKeys == [k \in Keys |-> v2]

None == {NoRevision}

MCOperations ==
  [kind : {"set_property"}, ref : CollectionRef, key : Keys, value : Values,
   expected_revision : None]
  \cup
  [kind : {"set_many"}, ref : CollectionRef, values : {OneKey, BothKeys},
   expected_revision : None]
  \cup
  [kind : {"remove_property"}, ref : CollectionRef, key : Keys,
   expected_revision : None, require_existing : BOOLEAN]
  \cup
  [kind : {"remove_many"}, ref : CollectionRef, keys : {{"k1"}, Keys},
   expected_revision : None, require_all_existing : BOOLEAN]
  \cup
  [kind : {"clear_collection"}, ref : CollectionRef,
   expected_revision : {NoRevision, Collection(OneKey)}, remove_collection : BOOLEAN]
  \cup
  [kind : {"rename_collection"}, target : Targets, from : Names, to : Names,
   expected_source_revision : None, expected_destination_revision : None,
   destination_policy : ImportPolicy]
  \cup
  [kind : {"transfer_property"}, source : CollectionRef, source_key : {"k1"},
   destination : CollectionRef, destination_key : Keys,
   expected_source_revision : None, expected_destination_revision : None,
   remove_source : BOOLEAN, overwrite : BOOLEAN]
  \cup
  [kind : {"transfer_collection"}, source : CollectionRef,
   destination : CollectionRef, expected_source_revision : None,
   expected_destination_revision : {NoRevision, Missing},
   destination_policy : ImportPolicy, remove_source : BOOLEAN]
  \cup
  [kind : {"import_collection"}, destination : CollectionRef,
   properties : {Empty, OneKey}, expected_destination_revision : None,
   policy : ImportPolicy]

\* The second operations: they read or write what the first one left.
MCFollowers ==
  {op \in MCOperations :
     \/ op.kind \in {"set_property", "set_many"} /\ op.ref.collection = "a"
     \/ op.kind = "rename_collection" /\ op.from # op.to
     \/ op.kind = "remove_many" /\ op.require_all_existing /\ op.ref.collection = "b"}
=============================================================================
