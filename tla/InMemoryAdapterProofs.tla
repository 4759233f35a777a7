------------------------ MODULE InMemoryAdapterProofs ------------------------
(***************************************************************************)
(* What the in-memory adapter and the service's prediction of it guarantee *)
(* for any collections, keys, operations and sequences of calls.           *)
(***************************************************************************)
EXTENDS InMemoryAdapter, PropertyStoreProofs

\* The store stays a store, and only known targets are available.
AdapterTypeOK == store \in Store /\ available \in SUBSET Targets

LEMMA AdapterTypesInductive ==
  /\ Init => AdapterTypeOK
  /\ AdapterTypeOK /\ [Next]_vars => AdapterTypeOK'
<1>1. Init => AdapterTypeOK
  BY OperationsAssumption DEF Init, AdapterTypeOK
<1>2. ASSUME AdapterTypeOK, NEW op \in Operations, NEW force \in BOOLEAN, Apply(op, force)
      PROVE  AdapterTypeOK'
  BY <1>2, OperationsAssumption, OperationFollows DEF Apply, AdapterTypeOK, Follows
<1>3. ASSUME AdapterTypeOK, NEW first \in Operations, NEW second \in Followers,
             Transact(<<first, second>>, FALSE)
      PROVE  AdapterTypeOK'
  <2> DEFINE ops == <<first, second>>
  <2>1. ops \in Seq(Operation)
    BY OperationsAssumption
  <2>2. store' = Candidates(store, ops)[Len(ops)] /\ available' = available
    BY <1>3 DEF Transact
  <2> HIDE DEF ops
  <2>3. store \in Store /\ Len(ops) \in 0..Len(ops)
    BY <1>3, <2>1 DEF AdapterTypeOK
  <2>4. Candidates(store, ops)[Len(ops)] \in Store
    BY <2>1, <2>3, CandidatesInStore
  <2> QED
    BY <1>3, <2>2, <2>4 DEF AdapterTypeOK
<1>4. ASSUME AdapterTypeOK, NEW target \in Targets, SetTargetAvailable(target)
      PROVE  AdapterTypeOK'
  BY <1>4 DEF SetTargetAvailable, AdapterTypeOK
<1>5. ASSUME AdapterTypeOK, UNCHANGED vars PROVE AdapterTypeOK'
  BY <1>5 DEF vars, AdapterTypeOK
<1> QED
  BY <1>1, <1>2, <1>3, <1>4, <1>5 DEF Next

\* Every store that sequences of calls build is well formed.
THEOREM AdapterTyped == Spec => []AdapterTypeOK
<1> QED
  BY AdapterTypesInductive, PTL DEF Spec

-----------------------------------------------------------------------------
(* The prediction is exact.                                                *)

\* can_apply (service.cpp:262-293) reads off the views what applyUnlocked
\* (in_memory_adapter.cpp) reads off the store, whatever the operation.
LEMMA CanApplyExact ==
  ASSUME NEW s \in Store, NEW op \in Operation
  PROVE  CanApply(Views(s), op) <=> BranchStatus(s, op) = "Applied"
<1>1. /\ Source(op) \in CollectionRef /\ Destination(op) \in CollectionRef
      /\ \A r \in CollectionRef : Views(s)[r].exists = s[r].exists
                                  /\ Views(s)[r].keys = KeysOf(s[r].properties)
  BY OperationRefs DEF Views, ViewOf
<1>2. CASE op \in SetProperty
  BY <1>2 DEF SetProperty, CanApply, BranchStatus
<1>3. CASE op \in SetMany
  BY <1>3 DEF SetMany, CanApply, BranchStatus
<1>4. CASE op \in RemoveProperty
  BY <1>1, <1>4 DEF RemoveProperty, CanApply, BranchStatus, KeysOf
<1>5. CASE op \in RemoveMany
  BY <1>1, <1>5 DEF RemoveMany, CanApply, BranchStatus
<1>6. CASE op \in ClearCollection
  BY <1>6 DEF ClearCollection, CanApply, BranchStatus
<1>7. CASE op \in RenameCollection
  BY <1>1, <1>7 DEF RenameCollection, CanApply, BranchStatus, Blocked
<1>8. CASE op \in TransferProperty
  BY <1>1, <1>8 DEF TransferProperty, CanApply, BranchStatus, KeysOf
<1>9. CASE op \in TransferCollection
  BY <1>1, <1>9 DEF TransferCollection, CanApply, BranchStatus, Blocked
<1>10. CASE op \in ImportCollection
  BY <1>1, <1>10 DEF ImportCollection, CanApply, BranchStatus, Blocked
<1> QED
  BY <1>2, <1>3, <1>4, <1>5, <1>6, <1>7, <1>8, <1>9, <1>10 DEF Operation

\* validatePropertyLimits (service.cpp:254-345) predicts the adapter exactly,
\* in both directions and for every operation, whatever calls went before: it
\* expects an operation to be applied just when the adapter applies it, and
\* then knows the keys each collection ends up with.
THEOREM PredictionIsExact == Spec => []SimulationAgrees
<1>1. ASSUME AdapterTypeOK, NEW op \in Operations, ~ MovesOntoItself(op)
      PROVE  /\ CanApply(Views(store), op) <=> BranchStatus(store, op) = "Applied"
             /\ CanApply(Views(store), op) =>
                  Views(Effect(store, op)) = SimulateOperation(Views(store), op)
  <2>1. store \in Store /\ op \in Operation
    BY <1>1, OperationsAssumption DEF AdapterTypeOK
  <2>2. CanApply(Views(store), op) <=> BranchStatus(store, op) = "Applied"
    BY <2>1, CanApplyExact
  <2>3. {Source(op), Destination(op)} \subseteq CollectionRef
    BY <2>1, OperationRefs
  <2>4. Seen(store, CollectionRef) = Views(store)
        /\ Seen(Effect(store, op), CollectionRef) = Views(Effect(store, op))
    BY DEF Seen, Views
  <2>5. BranchStatus(store, op) = "Applied" =>
          SimulateOperation(Seen(store, CollectionRef), op) = Seen(Effect(store, op), CollectionRef)
    BY <1>1, <2>1, <2>3, OperationFollows DEF Follows
  <2> QED
    BY <2>2, <2>4, <2>5
<1>2. AdapterTypeOK => SimulationAgrees
  BY <1>1 DEF SimulationAgrees
<1> QED
  BY <1>2, AdapterTypesInductive, PTL DEF Spec

\* A transaction that the prediction lets through and the adapter applies
\* leaves no collection it involves beyond the limit, for every limit, every
\* pair of operations and every store that earlier calls built.
THEOREM PredictionIsSound == Spec => []LimitPredictionSound
<1>1. ASSUME AdapterTypeOK, NEW first \in Operations, NEW second \in Followers,
             NEW limit \in 0..Cardinality(Keys),
             ~ MovesOntoItself(first), ~ MovesOntoItself(second),
             TransactStatuses(store, available, <<first, second>>, FALSE) = <<"Applied", "Applied">>,
             ~ ExceedsLimit(store, <<first, second>>, limit),
             NEW r \in InvolvedRefs(<<first, second>>)
      PROVE  Cardinality(KeysOf(Candidates(store, <<first, second>>)[2][r].properties)) <= limit
  <2> DEFINE ops == <<first, second>>
             force == FALSE
             st == TransactStatuses(store, available, ops, force)
  <2>1. /\ ops \in Seq(Operation) /\ Len(ops) = 2 /\ ops # <<>>
        /\ ops[1] = first /\ ops[2] = second
    BY OperationsAssumption
  <2>2. store \in Store /\ limit \in Nat
    BY <1>1 DEF AdapterTypeOK
  <2>3. \A i \in 1..2 : ops[i] \in Operation /\ ~ MovesOntoItself(ops[i])
    <3>1. \A i \in 1..2 : i = 1 \/ i = 2
      OBVIOUS
    <3> QED
      BY <1>1, <2>1, <3>1, OperationsAssumption
  <2>4. DOMAIN ops = 1..2
    BY <2>1
  <2>5. \A i \in DOMAIN st : st[i] = "Applied"
    <3>1. st = <<"Applied", "Applied">>
      BY <1>1
    <3> HIDE DEF st
    <3> QED
      BY <3>1
  <2>6. st = TransactStatuses(store, available, ops, force)
    OBVIOUS
  <2>7. ~ ExceedsLimit(store, ops, limit)
    BY <1>1
  <2>8. r \in InvolvedRefs(ops)
    BY <1>1
  <2> HIDE DEF ops, st, force
  <2>9. \A i \in 1..Len(ops) :
          ApplyStatus(Candidates(store, ops)[i - 1], available, ops[i], force) = "Applied"
    <3>1. ops \in Seq(Operation)
      BY <2>1
    <3> QED
      BY <2>5, <2>6, <3>1, SuccessIsTotal
  <2>10. Applicable(store, ops)
    BY <2>1, <2>3, <2>9 DEF Applicable, ApplyStatus
  <2>11. InvolvedRefs(ops) \subseteq CollectionRef
    BY <2>3, <2>4, OperationRefs DEF InvolvedRefs
  <2>12. [q \in CollectionRef |-> store[q]] = store
    BY <2>2 DEF Store
  <2>13. Cardinality(KeysOf(Candidates(store, ops)[Len(ops)][r].properties)) <= limit
    BY <2>1, <2>2, <2>7, <2>8, <2>10, <2>11, <2>12, LimitSound
  <2> QED
    BY <2>1, <2>13 DEF ops
<1>2. AdapterTypeOK => LimitPredictionSound
  BY <1>1 DEF LimitPredictionSound
<1> QED
  BY <1>2, AdapterTypesInductive, PTL DEF Spec

-----------------------------------------------------------------------------
(* Moves.                                                                  *)

\* What was added to a collection is there, whatever it held.
LEMMA PlacedArrives ==
  ASSUME NEW policy, NEW s \in Snapshot, NEW added \in PropertyMap, NEW k \in KeysOf(added)
  PROVE  Placed(policy, s, added).properties[k] = added[k]
BY DEF Placed, Collection, MergeInto, KeysOf, PropertyMap

\* A move that is applied loses nothing and leaves nothing behind.
LEMMA MoveArrives ==
  ASSUME store \in Store, NEW op \in Operation, ~ MovesOntoItself(op), NEW move \in Moved(op)
  PROVE  /\ Effect(store, op)[Destination(op)].properties[move[2]]
              = store[Source(op)].properties[move[1]]
         /\ Effect(store, op)[Source(op)].properties[move[1]] = NoValue
<1> DEFINE s == Source(op)
           d == Destination(op)
           from == store[s].properties
<1>1. /\ s \in CollectionRef /\ d \in CollectionRef
      /\ from \in PropertyMap /\ store[d] \in Snapshot /\ store[d].properties \in PropertyMap
  BY OperationRefs, Stored
<1>2. \A k \in Keys : Missing.properties[k] = NoValue
  BY DEF Missing, Empty
<1>3. CASE op \in RenameCollection
  <2>1. op.kind = "rename_collection" /\ op.from # op.to
    BY <1>3 DEF RenameCollection, MovesOntoItself
  <2>2. s # d
    BY <2>1 DEF Source, Destination
  <2>3. PICK k \in KeysOf(from) : move = <<k, k>>
    BY <2>1 DEF Moved
  <2> DEFINE x == Placed(op.destination_policy, store[d], from)
  <2>4. Effect(store, op) = [store EXCEPT ![d] = x, ![s] = Missing]
    BY <1>1, <2>1 DEF Effect, Store
  <2>5. x.properties[k] = from[k] /\ k \in Keys
    BY <1>1, <2>3, PlacedArrives DEF KeysOf
  <2> HIDE DEF x
  <2>6. Effect(store, op)[d] = x /\ Effect(store, op)[s] = Missing
    BY <1>1, <2>2, <2>4 DEF Store
  <2> QED
    BY <1>2, <2>3, <2>5, <2>6
<1>4. CASE op \in TransferCollection
  <2>1. /\ op.kind = "transfer_collection" /\ s = op.source /\ d = op.destination
        /\ op.remove_source
    BY <1>4 DEF TransferCollection, Moved, Source, Destination
  <2>2. s # d
    BY <2>1 DEF MovesOntoItself
  <2>3. PICK k \in KeysOf(from) : move = <<k, k>>
    BY <2>1 DEF Moved
  <2> DEFINE x == Placed(op.destination_policy, store[d], from)
             written == [store EXCEPT ![d] = x]
  <2>4. Effect(store, op) = [written EXCEPT ![s] = Missing]
    BY <1>1, <2>1, <2>2 DEF Effect, Store
  <2>5. x.properties[k] = from[k] /\ k \in Keys
    BY <1>1, <2>3, PlacedArrives DEF KeysOf
  <2> HIDE DEF x
  <2>6. Effect(store, op)[d] = x /\ Effect(store, op)[s] = Missing
    BY <1>1, <2>2, <2>4 DEF Store
  <2> QED
    BY <1>2, <2>3, <2>5, <2>6
<1>5. CASE op \in TransferProperty
  <2>1. /\ op.kind = "transfer_property" /\ s = op.source /\ d = op.destination
        /\ op.source_key \in Keys /\ op.destination_key \in Keys
    BY <1>5 DEF TransferProperty, Source, Destination
  <2>2. op.remove_source /\ move = <<op.source_key, op.destination_key>>
    BY <2>1 DEF Moved
  <2>3. s # d \/ op.source_key # op.destination_key
    BY <2>1, <2>2 DEF MovesOntoItself
  <2> DEFINE value == from[op.source_key]
             m == [store[d].properties EXCEPT ![op.destination_key] = value]
             written == [store EXCEPT ![d] = Collection(m)]
  <2>4. Effect(store, op) = [written EXCEPT ![s].properties[op.source_key] = NoValue]
    BY <2>1, <2>2 DEF Effect
  <2>5. m \in PropertyMap /\ Collection(m) \in Snapshot /\ Collection(m).properties = m
        /\ m[op.destination_key] = value
    <3>1. value \in Values \cup {NoValue}
      BY <1>1, <2>1 DEF PropertyMap
    <3> HIDE DEF value
    <3> QED
      BY <1>1, <2>1, <3>1 DEF PropertyMap, Collection, Snapshot
  <2> HIDE DEF m, value
  <2>6. written \in Store /\ written[d] = Collection(m) /\ (s # d => written[s] = store[s])
    BY <1>1, <2>5 DEF Store
  <2> HIDE DEF written
  <2>7. written[s] \in Snapshot /\ written[s].properties \in PropertyMap
    BY <1>1, <2>6, Stored
  <2> DEFINE y == [written[s] EXCEPT !.properties[op.source_key] = NoValue]
  <2>8. /\ y.properties[op.source_key] = NoValue
        /\ op.source_key # op.destination_key =>
             y.properties[op.destination_key] = written[s].properties[op.destination_key]
    BY <2>1, <2>7 DEF Snapshot, PropertyMap
  <2>9. Effect(store, op) = [written EXCEPT ![s] = y]
    BY <2>4
  <2> HIDE DEF y
  <2>10. Effect(store, op)[s] = y /\ (s # d => Effect(store, op)[d] = Collection(m))
    BY <1>1, <2>6, <2>9 DEF Store
  <2>11. Effect(store, op)[s].properties[op.source_key] = NoValue
    BY <2>8, <2>10
  <2>12. Effect(store, op)[d].properties[op.destination_key] = value
    <3>1. CASE s # d
      BY <2>5, <2>10, <3>1
    <3>2. CASE s = d
      BY <2>3, <2>5, <2>6, <2>8, <2>10, <3>2
    <3> QED
      BY <3>1, <3>2
  <2> QED
    BY <2>2, <2>11, <2>12 DEF value
<1>6. op.kind \in {"rename_collection", "transfer_collection", "transfer_property"}
  BY DEF Moved
<1>7. op \in RenameCollection \cup TransferCollection \cup TransferProperty
  BY <1>6 DEF Operation, SetProperty, SetMany, RemoveProperty, RemoveMany, ClearCollection,
              ImportCollection
<1> QED
  BY <1>3, <1>4, <1>5, <1>7

\* Whatever calls went before: a rename, a transfer of a collection or of a
\* property that is applied has each value at its destination and none left at
\* its source, within one collection too, and whatever was overwritten.
THEOREM MovesAlwaysArrive == Spec => []MovesArrive
<1>1. AdapterTypeOK => MovesArrive
  BY MoveArrives, OperationsAssumption DEF AdapterTypeOK, MovesArrive
<1> QED
  BY <1>1, AdapterTypesInductive, PTL DEF Spec
=============================================================================
