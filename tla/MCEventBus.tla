----------------------------- MODULE MCEventBus -----------------------------
(***************************************************************************)
(* Two threads, two events and the filters that tell them apart: a move    *)
(* from collection "a" of the world to "b" of a player, and a write.       *)
(***************************************************************************)
EXTENDS EventBus

World == [kind |-> "World", name |-> "world"]

Player == [kind |-> "Player", name |-> "steve"]

MCEvent ==
  [p \in Publications |->
     IF p = "move"
     THEN [kind |-> "AfterMutation", key |-> Unset,
           collections |-> {[target |-> World, collection |-> "a"],
                            [target |-> Player, collection |-> "b"]}]
     ELSE [kind |-> "BeforeMutation", key |-> "k1",
           collections |-> {[target |-> World, collection |-> "b"]}]]

Everything ==
  [kind |-> Unset, target_kind |-> Unset, target |-> Unset, collection |-> Unset, key |-> Unset]

\* The collection "b" of the world takes part in the write, not in the move,
\* and no collection of the move is a player's and named "a".
MCFilters ==
  {Everything,
   [Everything EXCEPT !.target = World, !.collection = "b"],
   [Everything EXCEPT !.target_kind = "Player", !.collection = "a"],
   [Everything EXCEPT !.key = "k1", !.kind = "BeforeMutation"]}
=============================================================================
