--------------------------- MODULE InMemoryAdapter ---------------------------
(***************************************************************************)
(* InMemoryDynamicPropertyAdapter (src/in_memory_adapter.cpp) on its own:  *)
(* what sequences of operations do to the store, and that the service's    *)
(* prediction of them (validatePropertyLimits) is exact.  Every method of  *)
(* the adapter holds its mutex throughout, so each is one step.            *)
(***************************************************************************)
EXTENDS PropertyStore

CONSTANTS
  Operations,    \* the operations that are tried
  Followers,     \* those that are tried as the second of a transaction
  InitialStore   \* the adapter starts without collections, or with these

ASSUME OperationsAssumption ==
  Followers \subseteq Operations /\ Operations \subseteq Operation /\ InitialStore \in Store

VARIABLES store, available

vars == <<store, available>>

Init == store = InitialStore /\ available = Targets

\* apply(): the service lets no move of a thing onto itself through.
Apply(op, force) ==
  /\ ~ MovesOntoItself(op)
  /\ ApplyStatus(store, available, op, force) = "Applied"
  /\ store' = Effect(store, op)
  /\ UNCHANGED available

\* transact() of two operations.
Transact(ops, force) ==
  /\ \A i \in DOMAIN ops : ~ MovesOntoItself(ops[i])
  /\ TransactStatuses(store, available, ops, force) = <<"Applied", "Applied">>
  /\ store' = Candidates(store, ops)[Len(ops)]
  /\ UNCHANGED available

SetTargetAvailable(target) ==
  /\ available' = IF target \in available THEN available \ {target}
                                          ELSE available \cup {target}
  /\ UNCHANGED store

Next ==
  \/ \E op \in Operations, force \in BOOLEAN : Apply(op, force)
  \/ \E first \in Operations, second \in Followers : Transact(<<first, second>>, FALSE)
  \/ \E target \in Targets : SetTargetAvailable(target)

Spec == Init /\ [][Next]_vars

-----------------------------------------------------------------------------

Views(s) == [r \in CollectionRef |-> ViewOf(s[r])]

\* The prediction of validatePropertyLimits (service.cpp:254-345) is exact: it
\* says that an operation can be applied just when the adapter's branch for it
\* applies it, and it then knows the keys every collection ends up with.
SimulationAgrees ==
  \A op \in Operations :
    ~ MovesOntoItself(op) =>
      /\ CanApply(Views(store), op) <=> BranchStatus(store, op) = "Applied"
      /\ CanApply(Views(store), op) =>
           Views(Effect(store, op)) = SimulateOperation(Views(store), op)

\* The places an operation moves properties from, and to.
Moved(op) ==
  CASE op.kind = "rename_collection" -> {<<k, k>> : k \in KeysOf(store[Source(op)].properties)}
    [] op.kind = "transfer_collection" /\ op.remove_source ->
         {<<k, k>> : k \in KeysOf(store[op.source].properties)}
    [] op.kind = "transfer_property" /\ op.remove_source -> {<<op.source_key, op.destination_key>>}
    [] OTHER -> {}

\* A move that is applied loses nothing and leaves nothing behind: each moved
\* value is at its destination and gone from its source, also when both are
\* in one collection, and whatever was overwritten.
MovesArrive ==
  \A op \in Operations :
    ~ MovesOntoItself(op) /\ ApplyStatus(store, Targets, op, TRUE) = "Applied" =>
      \A move \in Moved(op) :
        LET after == Effect(store, op) IN
        /\ after[Destination(op)].properties[move[2]] = store[Source(op)].properties[move[1]]
        /\ after[Source(op)].properties[move[1]] = NoValue

\* A transaction that passes validatePropertyLimits and that the adapter then
\* applies leaves no more keys than the limit in any collection it involves.
LimitPredictionSound ==
  \A first \in Operations, second \in Followers, limit \in 0..Cardinality(Keys) :
    LET ops == <<first, second>> IN
    /\ ~ MovesOntoItself(first) /\ ~ MovesOntoItself(second)
    /\ TransactStatuses(store, available, ops, FALSE) = <<"Applied", "Applied">>
    /\ ~ ExceedsLimit(store, ops, limit)
    => \A r \in InvolvedRefs(ops) :
         Cardinality(KeysOf(Candidates(store, ops)[2][r].properties)) <= limit
=============================================================================
