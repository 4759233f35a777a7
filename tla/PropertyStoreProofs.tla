------------------------- MODULE PropertyStoreProofs -------------------------
(***************************************************************************)
(* Facts about the operators of PropertyStore for all targets, names, keys *)
(* and values: what an operation does to the type of the store and to its  *)
(* key sets, and that the limit check of validatePropertyLimits is sound   *)
(* for transactions of any length.                                         *)
(***************************************************************************)
EXTENDS PropertyStore, FiniteSetTheorems, WellFoundedInduction, TLAPS

\* A set of natural numbers that holds 0 and is closed under successor is Nat.
LEMMA SetInduction ==
  ASSUME NEW S \in SUBSET Nat, 0 \in S, \A n \in S : n + 1 \in S
  PROVE  S = Nat
<1> DEFINE T == Nat \ S
           R == OpToRel(<, Nat)
<1> SUFFICES ASSUME T # {} PROVE FALSE
  OBVIOUS
<1>1. PICK x \in T : \A y \in T : ~ (<<y, x>> \in R)
  <2>1. IsWellFoundedOn(R, Nat)
    BY NatLessThanWellFounded
  <2> HIDE DEF R
  <2> QED
    BY <2>1, WFMin
<1>2. x # 0 /\ x - 1 \in Nat /\ x - 1 < x /\ (x - 1) + 1 = x
  OBVIOUS
<1>3. x - 1 \in S
  BY <1>1, <1>2 DEF OpToRel
<1> QED
  BY <1>2, <1>3

-----------------------------------------------------------------------------
(* The recursive runs are the functions their definitions say they are.    *)

\* The candidate stores of a transaction, unfolded once.
LEMMA CandidatesUnfold ==
  ASSUME NEW store, NEW ops, Len(ops) \in Nat
  PROVE  Candidates(store, ops) =
           [i \in 0..Len(ops) |->
              IF i = 0 THEN store ELSE Effect(Candidates(store, ops)[i - 1], ops[i])]
<1> DEFINE Is(f, n) ==
             f = [i \in 0..n |-> IF i = 0 THEN store ELSE Effect(f[i - 1], ops[i])]
           S == {n \in Nat : \E f : Is(f, n)}
<1>1. 0 \in S
  <2>1. Is([i \in 0..0 |-> store], 0)
    OBVIOUS
  <2> QED
    BY <2>1
<1>2. ASSUME NEW n \in S PROVE n + 1 \in S
  <2>1. PICK f : Is(f, n)
    BY <1>2
  <2> DEFINE g == [i \in 0..(n + 1) |-> IF i = n + 1 THEN Effect(f[n], ops[n + 1]) ELSE f[i]]
  <2>2. ASSUME NEW i \in 0..(n + 1)
        PROVE  g[i] = IF i = 0 THEN store ELSE Effect(g[i - 1], ops[i])
    <3>1. CASE i = n + 1
      BY <3>1, <2>1
    <3>2. CASE i # n + 1
      <4>1. i \in 0..n /\ g[i] = f[i]
            /\ f[i] = IF i = 0 THEN store ELSE Effect(f[i - 1], ops[i])
        BY <3>2, <2>1
      <4> QED
        BY <4>1
    <3> QED
      BY <3>1, <3>2
  <2>3. Is(g, n + 1)
    BY <2>2
  <2>4. \E h : Is(h, n + 1)
    <3> HIDE DEF g, Is
    <3> QED
      BY <2>3
  <2> HIDE DEF Is
  <2> QED
    BY <2>4, <1>2
<1>3. S = Nat
  BY <1>1, <1>2, SetInduction
<1>4. PICK f : Is(f, Len(ops))
  BY <1>3
<1> QED
  BY <1>4 DEF Candidates

\* The simulated views of a transaction, unfolded once.
LEMMA SimulationUnfold ==
  ASSUME NEW view, NEW ops, Len(ops) \in Nat
  PROVE  Simulation(view, ops) =
           [i \in 0..Len(ops) |->
              IF i = 0 THEN view
              ELSE SimulateOperation(Simulation(view, ops)[i - 1], ops[i])]
<1> DEFINE Is(f, n) ==
             f = [i \in 0..n |-> IF i = 0 THEN view ELSE SimulateOperation(f[i - 1], ops[i])]
           S == {n \in Nat : \E f : Is(f, n)}
<1>1. 0 \in S
  <2>1. Is([i \in 0..0 |-> view], 0)
    OBVIOUS
  <2> QED
    BY <2>1
<1>2. ASSUME NEW n \in S PROVE n + 1 \in S
  <2>1. PICK f : Is(f, n)
    BY <1>2
  <2> DEFINE g == [i \in 0..(n + 1) |->
                     IF i = n + 1 THEN SimulateOperation(f[n], ops[n + 1]) ELSE f[i]]
  <2>2. ASSUME NEW i \in 0..(n + 1)
        PROVE  g[i] = IF i = 0 THEN view ELSE SimulateOperation(g[i - 1], ops[i])
    <3>1. CASE i = n + 1
      BY <3>1, <2>1
    <3>2. CASE i # n + 1
      <4>1. i \in 0..n /\ g[i] = f[i]
            /\ f[i] = IF i = 0 THEN view ELSE SimulateOperation(f[i - 1], ops[i])
        BY <3>2, <2>1
      <4> QED
        BY <4>1
    <3> QED
      BY <3>1, <3>2
  <2>3. Is(g, n + 1)
    BY <2>2
  <2>4. \E h : Is(h, n + 1)
    <3> HIDE DEF g, Is
    <3> QED
      BY <2>3
  <2> HIDE DEF Is
  <2> QED
    BY <2>4, <1>2
<1>3. S = Nat
  BY <1>1, <1>2, SetInduction
<1>4. PICK f : Is(f, Len(ops))
  BY <1>3
<1> QED
  BY <1>4 DEF Simulation

-----------------------------------------------------------------------------
(* Key sets of property maps.                                              *)

\* Merging unites the key sets.
LEMMA KeysOfMerge ==
  ASSUME NEW m \in PropertyMap, NEW a \in PropertyMap
  PROVE  /\ MergeInto(m, a) \in PropertyMap
         /\ KeysOf(MergeInto(m, a)) = KeysOf(m) \cup KeysOf(a)
BY DEF PropertyMap, MergeInto, KeysOf

\* Setting a key adds it.
LEMMA KeysOfSet ==
  ASSUME NEW m \in PropertyMap, NEW k \in Keys, NEW v \in Values
  PROVE  /\ [m EXCEPT ![k] = v] \in PropertyMap
         /\ KeysOf([m EXCEPT ![k] = v]) = KeysOf(m) \cup {k}
BY KeysAssumption DEF PropertyMap, KeysOf

\* Removing keys takes them away.
LEMMA KeysOfRemove ==
  ASSUME NEW m \in PropertyMap, NEW ks \in SUBSET Keys
  PROVE  /\ [k \in Keys |-> IF k \in ks THEN NoValue ELSE m[k]] \in PropertyMap
         /\ KeysOf([k \in Keys |-> IF k \in ks THEN NoValue ELSE m[k]]) = KeysOf(m) \ ks
BY DEF PropertyMap, KeysOf

\* Removing one key with EXCEPT is removing a singleton.
LEMMA KeysOfRemoveOne ==
  ASSUME NEW m \in PropertyMap, NEW k \in Keys
  PROVE  /\ [m EXCEPT ![k] = NoValue] \in PropertyMap
         /\ KeysOf([m EXCEPT ![k] = NoValue]) = KeysOf(m) \ {k}
BY DEF PropertyMap, KeysOf

\* The empty map has no keys.
LEMMA KeysOfEmpty == Empty \in PropertyMap /\ KeysOf(Empty) = {}
BY DEF PropertyMap, Empty, KeysOf

\* The destination of a rename, a transfer or an import.
LEMMA PlacedView ==
  ASSUME NEW policy, NEW s \in Snapshot, NEW added \in PropertyMap
  PROVE  /\ Placed(policy, s, added) \in Snapshot
         /\ ViewOf(Placed(policy, s, added)) = PlacedKeys(policy, ViewOf(s), KeysOf(added))
<1>1. s.exists \in BOOLEAN /\ s.properties \in PropertyMap
  BY DEF Snapshot
<1>2. MergeInto(s.properties, added) \in PropertyMap
      /\ KeysOf(MergeInto(s.properties, added)) = KeysOf(s.properties) \cup KeysOf(added)
  BY <1>1, KeysOfMerge
<1> HIDE DEF PropertyMap
<1> QED
  BY <1>1, <1>2 DEF Placed, PlacedKeys, ViewOf, Collection, Snapshot

-----------------------------------------------------------------------------
(* One operation: its effect on the store, and on the views the service    *)
(* keeps of the collections in D while it simulates the operation.         *)

\* The views of the collections D of a store.
Seen(store, D) == [r \in D |-> ViewOf(store[r])]

\* An operation changes a store into a store, touches only the collections
\* it names, and if the adapter applies it the simulation follows it.
Follows(store, op) ==
  /\ Effect(store, op) \in Store
  /\ \A r \in CollectionRef :
       r \notin {Source(op), Destination(op)} => Effect(store, op)[r] = store[r]
  /\ \A D \in SUBSET CollectionRef :
       (/\ {Source(op), Destination(op)} \subseteq D
        /\ ~ MovesOntoItself(op)
        /\ BranchStatus(store, op) = "Applied")
       => /\ CanApply(Seen(store, D), op)
          /\ SimulateOperation(Seen(store, D), op) = Seen(Effect(store, op), D)

\* An operation reads and writes collections.
LEMMA OperationRefs ==
  ASSUME NEW op \in Operation
  PROVE  Source(op) \in CollectionRef /\ Destination(op) \in CollectionRef
<1>1. CASE op \in SetProperty
  BY <1>1 DEF SetProperty, Source, Destination
<1>2. CASE op \in SetMany
  BY <1>2 DEF SetMany, Source, Destination
<1>3. CASE op \in RemoveProperty
  BY <1>3 DEF RemoveProperty, Source, Destination
<1>4. CASE op \in RemoveMany
  BY <1>4 DEF RemoveMany, Source, Destination
<1>5. CASE op \in ClearCollection
  BY <1>5 DEF ClearCollection, Source, Destination
<1>6. CASE op \in RenameCollection
  BY <1>6 DEF RenameCollection, Source, Destination, CollectionRef
<1>7. CASE op \in TransferProperty
  BY <1>7 DEF TransferProperty, Source, Destination
<1>8. CASE op \in TransferCollection
  BY <1>8 DEF TransferCollection, Source, Destination
<1>9. CASE op \in ImportCollection
  BY <1>9 DEF ImportCollection, Source, Destination
<1> QED
  BY <1>1, <1>2, <1>3, <1>4, <1>5, <1>6, <1>7, <1>8, <1>9 DEF Operation

\* What is stored under a reference.
LEMMA Stored ==
  ASSUME NEW store \in Store, NEW r \in CollectionRef
  PROVE  /\ store[r] \in Snapshot
         /\ store[r].exists \in BOOLEAN
         /\ store[r].properties \in PropertyMap
BY DEF Store, Snapshot

\* Collections are snapshots and their views show their keys.
LEMMA CollectionView ==
  ASSUME NEW m \in PropertyMap
  PROVE  /\ Collection(m) \in Snapshot
         /\ ViewOf(Collection(m)) = [exists |-> TRUE, keys |-> KeysOf(m)]
BY DEF Collection, Snapshot, ViewOf

\* A collection that is not there.
LEMMA MissingView == Missing \in Snapshot /\ ViewOf(Missing) = NoCollection
BY KeysOfEmpty DEF Missing, Snapshot, ViewOf, NoCollection

\* Replacing the properties of a snapshot replaces the keys of its view.
LEMMA ReplacedView ==
  ASSUME NEW s \in Snapshot, NEW m \in PropertyMap
  PROVE  /\ [s EXCEPT !.properties = m] \in Snapshot
         /\ ViewOf([s EXCEPT !.properties = m]) = [ViewOf(s) EXCEPT !.keys = KeysOf(m)]
BY DEF Snapshot, ViewOf

\* Conditions under which the simulation may be compared with the adapter.
Comparable(store, op, D) ==
  /\ D \in SUBSET CollectionRef
  /\ Source(op) \in D /\ Destination(op) \in D
  /\ ~ MovesOntoItself(op)
  /\ BranchStatus(store, op) = "Applied"

\* An operation that writes one collection is followed if the simulation
\* writes the view of what is written.
LEMMA FollowsOneWrite ==
  ASSUME NEW store \in Store, NEW op, NEW d \in CollectionRef, NEW x \in Snapshot,
         d \in {Source(op), Destination(op)},
         Effect(store, op) = [store EXCEPT ![d] = x],
         \A D : Comparable(store, op, D) =>
           /\ CanApply(Seen(store, D), op)
           /\ SimulateOperation(Seen(store, D), op) = [Seen(store, D) EXCEPT ![d] = ViewOf(x)]
  PROVE  Follows(store, op)
<1>1. /\ Effect(store, op) \in Store
      /\ \A r \in CollectionRef : r # d => Effect(store, op)[r] = store[r]
  BY DEF Store
<1>2. ASSUME NEW D, Comparable(store, op, D)
      PROVE  /\ CanApply(Seen(store, D), op)
             /\ SimulateOperation(Seen(store, D), op) = Seen(Effect(store, op), D)
  <2>1. D \in SUBSET CollectionRef /\ d \in D
    BY <1>2 DEF Comparable
  <2>2. [Seen(store, D) EXCEPT ![d] = ViewOf(x)] = Seen(Effect(store, op), D)
    BY <2>1 DEF Store, Seen
  <2> QED
    BY <1>2, <2>2
<1> QED
  BY <1>1, <1>2 DEF Follows, Comparable

\* The same for an operation that writes its destination, then its source.
LEMMA FollowsTwoWrites ==
  ASSUME NEW store \in Store, NEW op,
         NEW x \in Snapshot, NEW y \in Snapshot,
         Source(op) \in CollectionRef, Destination(op) \in CollectionRef,
         Effect(store, op) = [store EXCEPT ![Destination(op)] = x, ![Source(op)] = y],
         \A D : Comparable(store, op, D) =>
           /\ CanApply(Seen(store, D), op)
           /\ SimulateOperation(Seen(store, D), op)
                = [Seen(store, D) EXCEPT ![Destination(op)] = ViewOf(x),
                                         ![Source(op)] = ViewOf(y)]
  PROVE  Follows(store, op)
<1>1. /\ Effect(store, op) \in Store
      /\ \A r \in CollectionRef :
           r \notin {Source(op), Destination(op)} => Effect(store, op)[r] = store[r]
  BY DEF Store
<1>2. ASSUME NEW D, Comparable(store, op, D)
      PROVE  /\ CanApply(Seen(store, D), op)
             /\ SimulateOperation(Seen(store, D), op) = Seen(Effect(store, op), D)
  <2>1. D \in SUBSET CollectionRef /\ Source(op) \in D /\ Destination(op) \in D
    BY <1>2 DEF Comparable
  <2>2. [Seen(store, D) EXCEPT ![Destination(op)] = ViewOf(x), ![Source(op)] = ViewOf(y)]
          = Seen(Effect(store, op), D)
    BY <2>1 DEF Store, Seen
  <2> QED
    BY <1>2, <2>2
<1> QED
  BY <1>1, <1>2 DEF Follows, Comparable

-----------------------------------------------------------------------------
(* The nine operations.                                                    *)

\* The prediction of validatePropertyLimits follows the adapter on set_property.
LEMMA SetPropertyFollows ==
  ASSUME NEW store \in Store, NEW op \in SetProperty
  PROVE  Follows(store, op)
<1> DEFINE m == [store[op.ref].properties EXCEPT ![op.key] = op.value]
           x == Collection(m)
<1>1. /\ op.kind = "set_property"
      /\ op.ref \in CollectionRef /\ op.key \in Keys /\ op.value \in Values
      /\ Destination(op) = op.ref
  BY DEF SetProperty, Destination
<1>2. m \in PropertyMap /\ KeysOf(m) = KeysOf(store[op.ref].properties) \cup {op.key}
  BY <1>1, Stored, KeysOfSet
<1>3. x \in Snapshot /\ ViewOf(x) = [exists |-> TRUE, keys |-> KeysOf(m)]
  BY <1>2, CollectionView
<1>4. Effect(store, op) = [store EXCEPT ![op.ref] = x]
  BY <1>1 DEF Effect, Store
<1>5. ASSUME NEW D, Comparable(store, op, D)
      PROVE  /\ CanApply(Seen(store, D), op)
             /\ SimulateOperation(Seen(store, D), op) = [Seen(store, D) EXCEPT ![op.ref] = ViewOf(x)]
  <2>1. op.ref \in D /\ Seen(store, D)[op.ref].keys = KeysOf(store[op.ref].properties)
    BY <1>1, <1>5 DEF Comparable, Seen, ViewOf
  <2>2. CanApply(Seen(store, D), op)
    BY <1>1 DEF CanApply
  <2> HIDE DEF x, m
  <2>3. SimulateOperation(Seen(store, D), op)
          = [Seen(store, D) EXCEPT ![op.ref] = [exists |-> TRUE, keys |-> KeysOf(m)]]
    BY <1>1, <1>2, <2>1 DEF SimulateOperation, Seen
  <2> QED
    BY <1>3, <2>2, <2>3
<1> HIDE DEF x
<1> QED
  BY <1>1, <1>3, <1>4, <1>5, FollowsOneWrite

\* The prediction of validatePropertyLimits follows the adapter on set_many.
LEMMA SetManyFollows ==
  ASSUME NEW store \in Store, NEW op \in SetMany
  PROVE  Follows(store, op)
<1> DEFINE m == MergeInto(store[op.ref].properties, op.values)
           x == Collection(m)
<1>1. /\ op.kind = "set_many"
      /\ op.ref \in CollectionRef /\ op.values \in PropertyMap
      /\ Destination(op) = op.ref
  BY DEF SetMany, Destination
<1>2. m \in PropertyMap /\ KeysOf(m) = KeysOf(store[op.ref].properties) \cup KeysOf(op.values)
  BY <1>1, Stored, KeysOfMerge
<1>3. x \in Snapshot /\ ViewOf(x) = [exists |-> TRUE, keys |-> KeysOf(m)]
  BY <1>2, CollectionView
<1>4. Effect(store, op) = [store EXCEPT ![op.ref] = x]
  BY <1>1 DEF Effect, Store
<1>5. ASSUME NEW D, Comparable(store, op, D)
      PROVE  /\ CanApply(Seen(store, D), op)
             /\ SimulateOperation(Seen(store, D), op) = [Seen(store, D) EXCEPT ![op.ref] = ViewOf(x)]
  <2>1. op.ref \in D /\ Seen(store, D)[op.ref].keys = KeysOf(store[op.ref].properties)
    BY <1>1, <1>5 DEF Comparable, Seen, ViewOf
  <2>2. CanApply(Seen(store, D), op)
    BY <1>1 DEF CanApply
  <2> HIDE DEF x, m
  <2>3. SimulateOperation(Seen(store, D), op)
          = [Seen(store, D) EXCEPT ![op.ref] = [exists |-> TRUE, keys |-> KeysOf(m)]]
    BY <1>1, <1>2, <2>1 DEF SimulateOperation, Seen
  <2> QED
    BY <1>3, <2>2, <2>3
<1> HIDE DEF x
<1> QED
  BY <1>1, <1>3, <1>4, <1>5, FollowsOneWrite

\* The prediction of validatePropertyLimits follows the adapter on remove_property.
LEMMA RemovePropertyFollows ==
  ASSUME NEW store \in Store, NEW op \in RemoveProperty
  PROVE  Follows(store, op)
<1> DEFINE m == [store[op.ref].properties EXCEPT ![op.key] = NoValue]
           x == [store[op.ref] EXCEPT !.properties = m]
<1>1. /\ op.kind = "remove_property"
      /\ op.ref \in CollectionRef /\ op.key \in Keys /\ op.require_existing \in BOOLEAN
      /\ Destination(op) = op.ref
  BY DEF RemoveProperty, Destination
<1>2. m \in PropertyMap /\ KeysOf(m) = KeysOf(store[op.ref].properties) \ {op.key}
  BY <1>1, Stored, KeysOfRemoveOne
<1>3. x \in Snapshot /\ ViewOf(x) = [ViewOf(store[op.ref]) EXCEPT !.keys = KeysOf(m)]
  BY <1>1, <1>2, Stored, ReplacedView
<1>4. Effect(store, op) = [store EXCEPT ![op.ref] = x]
  BY <1>1 DEF Effect, Store
<1>5. ASSUME NEW D, Comparable(store, op, D)
      PROVE  /\ CanApply(Seen(store, D), op)
             /\ SimulateOperation(Seen(store, D), op) = [Seen(store, D) EXCEPT ![op.ref] = ViewOf(x)]
  <2>1. /\ op.ref \in D /\ Seen(store, D)[op.ref] = ViewOf(store[op.ref])
        /\ ViewOf(store[op.ref]).keys = KeysOf(store[op.ref].properties)
    BY <1>1, <1>5 DEF Comparable, Seen, ViewOf
  <2>2. op.require_existing => op.key \in KeysOf(store[op.ref].properties)
    BY <1>1, <1>5 DEF Comparable, BranchStatus, KeysOf
  <2>3. CanApply(Seen(store, D), op)
    BY <1>1, <2>1, <2>2 DEF CanApply
  <2> HIDE DEF x, m
  <2>4. SimulateOperation(Seen(store, D), op)
          = [Seen(store, D) EXCEPT ![op.ref] = [ViewOf(store[op.ref]) EXCEPT !.keys = KeysOf(m)]]
    BY <1>1, <1>2, <2>1 DEF SimulateOperation, Seen
  <2> QED
    BY <1>3, <2>3, <2>4
<1> HIDE DEF x
<1> QED
  BY <1>1, <1>3, <1>4, <1>5, FollowsOneWrite

\* The prediction of validatePropertyLimits follows the adapter on remove_many.
LEMMA RemoveManyFollows ==
  ASSUME NEW store \in Store, NEW op \in RemoveMany
  PROVE  Follows(store, op)
<1> DEFINE m == [k \in Keys |-> IF k \in op.keys THEN NoValue ELSE store[op.ref].properties[k]]
           x == [store[op.ref] EXCEPT !.properties = m]
<1>1. /\ op.kind = "remove_many"
      /\ op.ref \in CollectionRef /\ op.keys \in SUBSET Keys
      /\ op.require_all_existing \in BOOLEAN
      /\ Destination(op) = op.ref
  BY DEF RemoveMany, Destination
<1>2. m \in PropertyMap /\ KeysOf(m) = KeysOf(store[op.ref].properties) \ op.keys
  BY <1>1, Stored, KeysOfRemove
<1>3. x \in Snapshot /\ ViewOf(x) = [ViewOf(store[op.ref]) EXCEPT !.keys = KeysOf(m)]
  BY <1>1, <1>2, Stored, ReplacedView
<1>4. Effect(store, op) = [store EXCEPT ![op.ref] = x]
  BY <1>1 DEF Effect, Store
<1>5. ASSUME NEW D, Comparable(store, op, D)
      PROVE  /\ CanApply(Seen(store, D), op)
             /\ SimulateOperation(Seen(store, D), op) = [Seen(store, D) EXCEPT ![op.ref] = ViewOf(x)]
  <2>1. /\ op.ref \in D /\ Seen(store, D)[op.ref] = ViewOf(store[op.ref])
        /\ ViewOf(store[op.ref]).keys = KeysOf(store[op.ref].properties)
    BY <1>1, <1>5 DEF Comparable, Seen, ViewOf
  <2>2. op.require_all_existing => op.keys \subseteq KeysOf(store[op.ref].properties)
    BY <1>1, <1>5 DEF Comparable, BranchStatus
  <2>3. CanApply(Seen(store, D), op)
    BY <1>1, <2>1, <2>2 DEF CanApply
  <2> HIDE DEF x, m
  <2>4. SimulateOperation(Seen(store, D), op)
          = [Seen(store, D) EXCEPT ![op.ref] = [ViewOf(store[op.ref]) EXCEPT !.keys = KeysOf(m)]]
    BY <1>1, <1>2, <2>1 DEF SimulateOperation, Seen
  <2> QED
    BY <1>3, <2>3, <2>4
<1> HIDE DEF x
<1> QED
  BY <1>1, <1>3, <1>4, <1>5, FollowsOneWrite

\* The prediction of validatePropertyLimits follows the adapter on clear_collection.
LEMMA ClearCollectionFollows ==
  ASSUME NEW store \in Store, NEW op \in ClearCollection
  PROVE  Follows(store, op)
<1> DEFINE x == IF op.remove_collection THEN Missing ELSE Collection(Empty)
<1>1. /\ op.kind = "clear_collection"
      /\ op.ref \in CollectionRef /\ op.remove_collection \in BOOLEAN
      /\ Destination(op) = op.ref
  BY DEF ClearCollection, Destination
<1>2. x \in Snapshot /\ ViewOf(x) = [exists |-> ~ op.remove_collection, keys |-> {}]
  BY <1>1, MissingView, KeysOfEmpty, CollectionView DEF NoCollection
<1>3. Effect(store, op) = [store EXCEPT ![op.ref] = x]
  BY <1>1 DEF Effect
<1>4. ASSUME NEW D, Comparable(store, op, D)
      PROVE  /\ CanApply(Seen(store, D), op)
             /\ SimulateOperation(Seen(store, D), op) = [Seen(store, D) EXCEPT ![op.ref] = ViewOf(x)]
  BY <1>1, <1>2 DEF CanApply, SimulateOperation
<1> HIDE DEF x
<1> QED
  BY <1>1, <1>2, <1>3, <1>4, FollowsOneWrite

\* The prediction of validatePropertyLimits follows the adapter on rename_collection.
LEMMA RenameCollectionFollows ==
  ASSUME NEW store \in Store, NEW op \in RenameCollection
  PROVE  Follows(store, op)
<1> DEFINE s == Source(op)
           d == Destination(op)
           from == store[s].properties
           x == Placed(op.destination_policy, store[d], from)
<1>1. op.kind = "rename_collection"
  BY DEF RenameCollection
<1>2. s \in CollectionRef /\ d \in CollectionRef
  BY OperationRefs DEF Operation
<1>3. x \in Snapshot
      /\ ViewOf(x) = PlacedKeys(op.destination_policy, ViewOf(store[d]), KeysOf(from))
  BY <1>2, Stored, PlacedView
<1>4. Effect(store, op) = [store EXCEPT ![d] = x, ![s] = Missing]
  BY <1>1, <1>2 DEF Effect, Store
<1>5. ASSUME NEW D, Comparable(store, op, D)
      PROVE  /\ CanApply(Seen(store, D), op)
             /\ SimulateOperation(Seen(store, D), op)
                  = [Seen(store, D) EXCEPT ![d] = ViewOf(x), ![s] = ViewOf(Missing)]
  <2>1. /\ Seen(store, D)[s] = ViewOf(store[s]) /\ Seen(store, D)[d] = ViewOf(store[d])
        /\ ViewOf(store[s]).keys = KeysOf(from)
        /\ ViewOf(store[s]).exists = store[s].exists
        /\ ViewOf(store[d]).exists = store[d].exists
    BY <1>5 DEF Comparable, Seen, ViewOf
  <2>2. store[s].exists /\ ~ Blocked(op.destination_policy, store[d])
    BY <1>1, <1>5 DEF Comparable, BranchStatus
  <2>3. CanApply(Seen(store, D), op)
    BY <1>1, <2>1, <2>2 DEF CanApply, Blocked
  <2> HIDE DEF x
  <2>4. SimulateOperation(Seen(store, D), op)
          = [Seen(store, D) EXCEPT
               ![d] = PlacedKeys(op.destination_policy, ViewOf(store[d]), KeysOf(from)),
               ![s] = NoCollection]
    BY <1>1, <2>1, <1>5 DEF SimulateOperation, Seen, Comparable
  <2> QED
    BY <1>3, <2>3, <2>4, MissingView
<1> HIDE DEF x
<1> QED
  BY <1>2, <1>3, <1>4, <1>5, MissingView, FollowsTwoWrites

\* The prediction of validatePropertyLimits follows the adapter on transfer_property.
LEMMA TransferPropertyFollows ==
  ASSUME NEW store \in Store, NEW op \in TransferProperty
  PROVE  Follows(store, op)
<1> DEFINE s == op.source
           d == op.destination
           value == store[s].properties[op.source_key]
           m == [store[d].properties EXCEPT ![op.destination_key] = value]
           x == Collection(m)
           written == [store EXCEPT ![d] = x]
           n == [written[s].properties EXCEPT ![op.source_key] = NoValue]
           y == [written[s] EXCEPT !.properties = n]
           seen(D) == [Seen(store, D) EXCEPT ![d] =
                         [exists |-> TRUE, keys |-> @.keys \cup {op.destination_key}]]
<1>1. /\ op.kind = "transfer_property"
      /\ s \in CollectionRef /\ d \in CollectionRef
      /\ Source(op) = s /\ Destination(op) = d
      /\ op.source_key \in Keys /\ op.destination_key \in Keys
      /\ op.remove_source \in BOOLEAN /\ op.overwrite \in BOOLEAN
  BY DEF TransferProperty, Source, Destination
<1>2. m \in PropertyMap
  BY <1>1, Stored DEF PropertyMap
<1>3. x \in Snapshot /\ ViewOf(x) = [exists |-> TRUE, keys |-> KeysOf(m)]
  BY <1>2, CollectionView
<1>4. written \in Store
  BY <1>1, <1>3 DEF Store
<1>5. /\ y \in Snapshot
      /\ ViewOf(y) = [ViewOf(written[s]) EXCEPT !.keys = @ \ {op.source_key}]
  <2>1. written[s] \in Snapshot /\ written[s].properties \in PropertyMap
    BY <1>1, <1>4, Stored
  <2>2. n \in PropertyMap /\ KeysOf(n) = KeysOf(written[s].properties) \ {op.source_key}
    BY <1>1, <2>1, KeysOfRemoveOne
  <2>3. ViewOf(written[s]).keys = KeysOf(written[s].properties)
    BY DEF ViewOf
  <2> HIDE DEF written, n
  <2> QED
    BY <2>1, <2>2, <2>3, ReplacedView
<1>6. Effect(store, op) = IF op.remove_source THEN [written EXCEPT ![s] = y] ELSE written
  BY <1>1 DEF Effect
<1>7. ASSUME NEW D, Comparable(store, op, D)
      PROVE  /\ CanApply(Seen(store, D), op)
             /\ seen(D) = Seen(written, D)
             /\ SimulateOperation(Seen(store, D), op)
                  = IF op.remove_source
                    THEN [seen(D) EXCEPT ![s] =
                            [exists |-> @.exists, keys |-> @.keys \ {op.source_key}]]
                    ELSE seen(D)
  <2>1. /\ Seen(store, D)[s] = ViewOf(store[s]) /\ Seen(store, D)[d] = ViewOf(store[d])
        /\ ViewOf(store[s]).keys = KeysOf(store[s].properties)
        /\ ViewOf(store[d]).keys = KeysOf(store[d].properties)
        /\ D \subseteq CollectionRef /\ s \in D /\ d \in D
    BY <1>1, <1>7 DEF Comparable, Seen, ViewOf
  <2>2. /\ value # NoValue
        /\ op.overwrite \/ store[d].properties[op.destination_key] = NoValue
    BY <1>1, <1>7 DEF Comparable, BranchStatus
  <2>3. CanApply(Seen(store, D), op)
    BY <1>1, <2>1, <2>2 DEF CanApply, KeysOf
  <2>4. KeysOf(m) = KeysOf(store[d].properties) \cup {op.destination_key}
    <3>1. value \in Values
      BY <1>1, <2>2, Stored DEF PropertyMap
    <3> QED
      BY <1>1, <3>1, Stored, KeysOfSet
  <2>5. seen(D) = Seen(written, D)
    <3> HIDE DEF m, x
    <3> QED
      BY <1>1, <1>3, <2>1, <2>4 DEF Seen, Store
  <2>6. SimulateOperation(Seen(store, D), op)
                  = IF op.remove_source
                    THEN [seen(D) EXCEPT ![s] =
                            [exists |-> @.exists, keys |-> @.keys \ {op.source_key}]]
                    ELSE seen(D)
    BY <1>1 DEF SimulateOperation
  <2> QED
    BY <2>3, <2>5, <2>6
<1>8. /\ Effect(store, op) \in Store
      /\ \A r \in CollectionRef :
           r \notin {Source(op), Destination(op)} => Effect(store, op)[r] = store[r]
  <2> HIDE DEF x, y
  <2> QED
    BY <1>1, <1>3, <1>4, <1>5, <1>6 DEF Store
<1>9. ASSUME NEW D, Comparable(store, op, D)
      PROVE  SimulateOperation(Seen(store, D), op) = Seen(Effect(store, op), D)
  <2>1. s \in D /\ D \subseteq CollectionRef
    BY <1>1, <1>9 DEF Comparable
  <2>2. CASE op.remove_source
    <3>1. Seen(written, D)[s] = ViewOf(written[s])
      BY <2>1 DEF Seen
    <3>2. SimulateOperation(Seen(store, D), op) = [Seen(written, D) EXCEPT ![s] = ViewOf(y)]
      <4> DEFINE after == Seen(written, D)
      <4>1. SimulateOperation(Seen(store, D), op) =
              [after EXCEPT ![s] = [exists |-> @.exists, keys |-> @.keys \ {op.source_key}]]
        <5>1. seen(D) = after
          BY <1>7, <1>9
        <5>2. SimulateOperation(Seen(store, D), op) =
                [seen(D) EXCEPT ![s] = [exists |-> @.exists, keys |-> @.keys \ {op.source_key}]]
          BY <1>7, <1>9, <2>2
        <5> HIDE DEF seen, after
        <5> QED
          BY <5>1, <5>2
      <4>2. [exists |-> after[s].exists, keys |-> after[s].keys \ {op.source_key}] = ViewOf(y)
        BY <1>5, <3>1, ZenonT(60) DEF ViewOf
      <4> HIDE DEF y, written
      <4> QED
        BY <4>1, <4>2
    <3> HIDE DEF y, written
    <3> QED
      BY <1>4, <1>6, <2>1, <2>2, <3>2 DEF Seen, Store
  <2>3. CASE ~ op.remove_source
    BY <1>6, <1>7, <1>9, <2>3
  <2> QED
    BY <2>2, <2>3
<1> QED
  BY <1>7, <1>8, <1>9 DEF Follows, Comparable

\* The prediction of validatePropertyLimits follows the adapter on transfer_collection.
LEMMA TransferCollectionFollows ==
  ASSUME NEW store \in Store, NEW op \in TransferCollection
  PROVE  Follows(store, op)
<1> DEFINE s == op.source
           d == op.destination
           from == store[s].properties
           x == Placed(op.destination_policy, store[d], from)
           written == [store EXCEPT ![d] = x]
<1>1. /\ op.kind = "transfer_collection"
      /\ s \in CollectionRef /\ d \in CollectionRef
      /\ Source(op) = s /\ Destination(op) = d
      /\ op.remove_source \in BOOLEAN
  BY DEF TransferCollection, Source, Destination
<1>2. x \in Snapshot
      /\ ViewOf(x) = PlacedKeys(op.destination_policy, ViewOf(store[d]), KeysOf(from))
  BY <1>1, Stored, PlacedView
<1>3. written \in Store
  BY <1>1, <1>2 DEF Store
<1>4. Effect(store, op) =
        IF op.remove_source /\ s # d THEN [written EXCEPT ![s] = Missing] ELSE written
  BY <1>1 DEF Effect
<1>5. ASSUME NEW D, Comparable(store, op, D)
      PROVE  /\ CanApply(Seen(store, D), op)
             /\ SimulateOperation(Seen(store, D), op) = Seen(Effect(store, op), D)
  <2>1. /\ Seen(store, D)[s] = ViewOf(store[s]) /\ Seen(store, D)[d] = ViewOf(store[d])
        /\ ViewOf(store[s]).keys = KeysOf(from)
        /\ ViewOf(store[s]).exists = store[s].exists
        /\ ViewOf(store[d]).exists = store[d].exists
        /\ D \subseteq CollectionRef /\ s \in D /\ d \in D
    BY <1>1, <1>5 DEF Comparable, Seen, ViewOf
  <2>2. store[s].exists /\ ~ Blocked(op.destination_policy, store[d])
    BY <1>1, <1>5 DEF Comparable, BranchStatus
  <2>3. CanApply(Seen(store, D), op)
    BY <1>1, <2>1, <2>2 DEF CanApply, Blocked
  <2>4. op.remove_source => s # d
    BY <1>1, <1>5 DEF Comparable, MovesOntoItself
  <2> HIDE DEF x
  <2> DEFINE seen == [Seen(store, D) EXCEPT ![d] = ViewOf(x)]
  <2>5. seen = Seen(written, D)
    BY <1>1, <2>1 DEF Seen, Store
  <2>6. SimulateOperation(Seen(store, D), op) =
          IF op.remove_source THEN [seen EXCEPT ![s] = NoCollection] ELSE seen
    BY <1>1, <1>2, <2>1 DEF SimulateOperation
  <2>7. [seen EXCEPT ![s] = ViewOf(Missing)] = Seen([written EXCEPT ![s] = Missing], D)
    <3> HIDE DEF seen, written
    <3> QED
      BY <1>1, <1>3, <2>1, <2>5 DEF Seen, Store
  <2> HIDE DEF seen, written
  <2> QED
    BY <1>1, <1>4, <2>3, <2>4, <2>5, <2>6, <2>7, MissingView
<1>6. /\ Effect(store, op) \in Store
      /\ \A r \in CollectionRef :
           r \notin {Source(op), Destination(op)} => Effect(store, op)[r] = store[r]
  <2> HIDE DEF x
  <2> QED
    BY <1>1, <1>2, <1>3, <1>4, MissingView DEF Store
<1> QED
  BY <1>5, <1>6 DEF Follows, Comparable

\* The prediction of validatePropertyLimits follows the adapter on import_collection.
LEMMA ImportCollectionFollows ==
  ASSUME NEW store \in Store, NEW op \in ImportCollection
  PROVE  Follows(store, op)
<1> DEFINE d == op.destination
           x == Placed(op.policy, store[d], op.properties)
<1>1. /\ op.kind = "import_collection"
      /\ d \in CollectionRef /\ op.properties \in PropertyMap
      /\ Destination(op) = d
  BY DEF ImportCollection, Destination
<1>2. x \in Snapshot
      /\ ViewOf(x) = PlacedKeys(op.policy, ViewOf(store[d]), KeysOf(op.properties))
  BY <1>1, Stored, PlacedView
<1>3. Effect(store, op) = [store EXCEPT ![d] = x]
  BY <1>1 DEF Effect
<1>4. ASSUME NEW D, Comparable(store, op, D)
      PROVE  /\ CanApply(Seen(store, D), op)
             /\ SimulateOperation(Seen(store, D), op) = [Seen(store, D) EXCEPT ![d] = ViewOf(x)]
  <2>1. /\ Seen(store, D)[d] = ViewOf(store[d])
        /\ ViewOf(store[d]).exists = store[d].exists
        /\ d \in D
    BY <1>1, <1>4 DEF Comparable, Seen, ViewOf
  <2>2. ~ Blocked(op.policy, store[d])
    BY <1>1, <1>4 DEF Comparable, BranchStatus
  <2>3. CanApply(Seen(store, D), op)
    BY <1>1, <2>1, <2>2 DEF CanApply, Blocked
  <2> HIDE DEF x
  <2> QED
    BY <1>1, <1>2, <2>1, <2>3 DEF SimulateOperation, Seen
<1> HIDE DEF x
<1> QED
  BY <1>1, <1>2, <1>3, <1>4, FollowsOneWrite

\* Whatever the operation, the simulation follows the adapter.
LEMMA OperationFollows ==
  ASSUME NEW store \in Store, NEW op \in Operation
  PROVE  Follows(store, op)
BY SetPropertyFollows, SetManyFollows, RemovePropertyFollows, RemoveManyFollows,
   ClearCollectionFollows, RenameCollectionFollows, TransferPropertyFollows,
   TransferCollectionFollows, ImportCollectionFollows DEF Operation

-----------------------------------------------------------------------------
(* Transactions.                                                           *)

\* One step of the candidate stores.
LEMMA CandidatesStep ==
  ASSUME NEW store, NEW ops \in Seq(Operation)
  PROVE  /\ Candidates(store, ops)[0] = store
         /\ \A i \in 1..Len(ops) :
              Candidates(store, ops)[i] = Effect(Candidates(store, ops)[i - 1], ops[i])
<1>1. Len(ops) \in Nat
  OBVIOUS
<1>2. ASSUME NEW i \in 0..Len(ops)
      PROVE  Candidates(store, ops)[i] =
               IF i = 0 THEN store ELSE Effect(Candidates(store, ops)[i - 1], ops[i])
  <2> DEFINE f == Candidates(store, ops)
  <2>1. f = [j \in 0..Len(ops) |-> IF j = 0 THEN store ELSE Effect(f[j - 1], ops[j])]
    BY <1>1, CandidatesUnfold
  <2> HIDE DEF f
  <2>2. f[i] = IF i = 0 THEN store ELSE Effect(f[i - 1], ops[i])
    BY <2>1
  <2> QED
    BY <2>2 DEF f
<1> QED
  BY <1>1, <1>2

\* One step of the simulated views.
LEMMA SimulationStep ==
  ASSUME NEW view, NEW ops \in Seq(Operation)
  PROVE  /\ Simulation(view, ops)[0] = view
         /\ \A i \in 1..Len(ops) :
              Simulation(view, ops)[i] = SimulateOperation(Simulation(view, ops)[i - 1], ops[i])
<1>1. Len(ops) \in Nat
  OBVIOUS
<1>2. ASSUME NEW i \in 0..Len(ops)
      PROVE  Simulation(view, ops)[i] =
               IF i = 0 THEN view ELSE SimulateOperation(Simulation(view, ops)[i - 1], ops[i])
  <2> DEFINE f == Simulation(view, ops)
  <2>1. f = [j \in 0..Len(ops) |-> IF j = 0 THEN view ELSE SimulateOperation(f[j - 1], ops[j])]
    BY <1>1, SimulationUnfold
  <2> HIDE DEF f
  <2>2. f[i] = IF i = 0 THEN view ELSE SimulateOperation(f[i - 1], ops[i])
    BY <2>1
  <2> QED
    BY <2>2 DEF f
<1> QED
  BY <1>1, <1>2

\* Every candidate of a transaction is a store.
LEMMA CandidatesInStore ==
  ASSUME NEW store \in Store, NEW ops \in Seq(Operation)
  PROVE  \A n \in 0..Len(ops) : Candidates(store, ops)[n] \in Store
<1> DEFINE run == Candidates(store, ops)
           S == {n \in Nat : n <= Len(ops) => run[n] \in Store}
<1>1. 0 \in S
  BY CandidatesStep
<1>2. ASSUME NEW n \in S PROVE n + 1 \in S
  <2> SUFFICES ASSUME n + 1 <= Len(ops) PROVE run[n + 1] \in Store
    OBVIOUS
  <2>1. n \in Nat /\ n + 1 \in 1..Len(ops) /\ (n + 1) - 1 = n /\ run[n] \in Store
    OBVIOUS
  <2>2. run[n + 1] = Effect(run[n], ops[n + 1])
    BY <2>1, CandidatesStep
  <2>3. ops[n + 1] \in Operation
    BY <2>1
  <2> HIDE DEF run
  <2> QED
    BY <2>1, <2>2, <2>3, OperationFollows DEF Follows
<1> HIDE DEF run
<1>3. S = Nat
  BY <1>1, <1>2, SetInduction
<1> QED
  BY <1>3 DEF run

\* The collections an operation of a transaction names.
NamedBy(ops, i) == {Source(ops[i]), Destination(ops[i])}

\* A collection keeps its content up to the first operation that names it.
LEMMA CandidatesFrame ==
  ASSUME NEW store \in Store, NEW ops \in Seq(Operation), NEW r \in CollectionRef,
         NEW m \in 0..Len(ops),
         \A i \in 1..m : r \notin NamedBy(ops, i)
  PROVE  Candidates(store, ops)[m][r] = store[r]
<1> DEFINE run == Candidates(store, ops)
           S == {n \in Nat : n <= m => run[n][r] = store[r]}
<1>1. 0 \in S
  BY CandidatesStep
<1>2. ASSUME NEW n \in S PROVE n + 1 \in S
  <2> SUFFICES ASSUME n + 1 <= m PROVE run[n + 1][r] = store[r]
    OBVIOUS
  <2>1. n \in Nat /\ n + 1 \in 1..Len(ops) /\ (n + 1) - 1 = n /\ n \in 0..Len(ops)
        /\ n + 1 \in 1..m /\ run[n][r] = store[r]
    OBVIOUS
  <2>2. run[n + 1] = Effect(run[n], ops[n + 1])
    BY <2>1, CandidatesStep
  <2>3. ops[n + 1] \in Operation /\ run[n] \in Store
    BY <2>1, CandidatesInStore
  <2>4. r \notin {Source(ops[n + 1]), Destination(ops[n + 1])}
    BY <2>1 DEF NamedBy
  <2> HIDE DEF run
  <2> QED
    BY <2>1, <2>2, <2>3, <2>4, OperationFollows, SMTT(30) DEF Follows
<1> HIDE DEF run
<1>3. S = Nat
  BY <1>1, <1>2, SetInduction
<1>4. m \in S
  BY <1>3
<1> QED
  BY <1>4 DEF run

\* A transaction changes only collections that its operations name.
LEMMA TransactionFrame ==
  ASSUME NEW store \in Store, NEW ops \in Seq(Operation), NEW r \in CollectionRef,
         r \notin InvolvedRefs(ops)
  PROVE  Candidates(store, ops)[Len(ops)][r] = store[r]
<1>1. \A i \in 1..Len(ops) : r \notin NamedBy(ops, i)
  BY DEF InvolvedRefs, NamedBy
<1>2. Len(ops) \in 0..Len(ops)
  OBVIOUS
<1> QED
  BY <1>1, <1>2, CandidatesFrame

\* Operations that the adapter applies one after the other.
Applicable(store, ops) ==
  \A i \in 1..Len(ops) :
    /\ ~ MovesOntoItself(ops[i])
    /\ BranchStatus(Candidates(store, ops)[i - 1], ops[i]) = "Applied"

\* The simulation follows the candidates of such a transaction throughout.
LEMMA TransactionFollows ==
  ASSUME NEW store \in Store, NEW ops \in Seq(Operation),
         NEW D \in SUBSET CollectionRef, InvolvedRefs(ops) \subseteq D,
         Applicable(store, ops)
  PROVE  /\ \A n \in 0..Len(ops) :
              Simulation(Seen(store, D), ops)[n] = Seen(Candidates(store, ops)[n], D)
         /\ \A n \in 1..Len(ops) : CanApply(Simulation(Seen(store, D), ops)[n - 1], ops[n])
<1> DEFINE run == Candidates(store, ops)
           sim == Simulation(Seen(store, D), ops)
           S == {n \in Nat : n <= Len(ops) => sim[n] = Seen(run[n], D)}
<1>0. ASSUME NEW n \in Nat, n + 1 <= Len(ops), sim[n] = Seen(run[n], D)
      PROVE  CanApply(sim[n], ops[n + 1]) /\ sim[n + 1] = Seen(run[n + 1], D)
  <2>1. n + 1 \in 1..Len(ops) /\ (n + 1) - 1 = n /\ n \in 0..Len(ops)
    BY <1>0
  <2>2. run[n + 1] = Effect(run[n], ops[n + 1])
    BY <2>1, CandidatesStep
  <2>3. sim[n + 1] = SimulateOperation(sim[n], ops[n + 1])
    BY <2>1, SimulationStep
  <2>4. ops[n + 1] \in Operation /\ run[n] \in Store
    BY <2>1, CandidatesInStore
  <2>5. {Source(ops[n + 1]), Destination(ops[n + 1])} \subseteq D
    BY <2>1 DEF InvolvedRefs
  <2>6. ~ MovesOntoItself(ops[n + 1]) /\ BranchStatus(run[n], ops[n + 1]) = "Applied"
    BY <2>1 DEF Applicable
  <2> HIDE DEF run, sim
  <2>7. Follows(run[n], ops[n + 1])
    BY <2>4, OperationFollows
  <2> QED
    BY <1>0, <2>2, <2>3, <2>5, <2>6, <2>7 DEF Follows
<1>1. 0 \in S
  BY CandidatesStep, SimulationStep
<1>2. ASSUME NEW n \in S PROVE n + 1 \in S
  BY <1>0, <1>2
<1> HIDE DEF run, sim
<1>3. S = Nat
  BY <1>1, <1>2, SetInduction
<1>4. \A n \in 0..Len(ops) : sim[n] = Seen(run[n], D)
  BY <1>3
<1>5. ASSUME NEW n \in 1..Len(ops) PROVE CanApply(sim[n - 1], ops[n])
  <2>1. n - 1 \in Nat /\ (n - 1) + 1 = n /\ n - 1 \in 0..Len(ops) /\ (n - 1) + 1 <= Len(ops)
    OBVIOUS
  <2>2. sim[n - 1] = Seen(run[n - 1], D)
    BY <1>4, <2>1
  <2>3. CanApply(sim[n - 1], ops[(n - 1) + 1])
    BY <1>0, <2>1, <2>2
  <2> QED
    BY <2>1, <2>3
<1> QED
  BY <1>4, <1>5 DEF run, sim

\* Sets of keys can be counted.
LEMMA KeysCount ==
  ASSUME NEW m
  PROVE  Cardinality(KeysOf(m)) \in Nat
<1>1. KeysOf(m) \subseteq Keys
  BY DEF KeysOf
<1> QED
  BY <1>1, KeysAssumption, FS_Subset, FS_CardinalityType

\* validatePropertyLimits (service.cpp:226-347) is sound: a transaction of any
\* length that passes it and that the adapter then applies leaves at most
\* `limit` properties in every collection it involves.
THEOREM LimitSound ==
  ASSUME NEW store \in Store, NEW ops \in Seq(Operation), NEW limit \in Nat,
         NEW D \in SUBSET CollectionRef, InvolvedRefs(ops) \subseteq D,
         ops # <<>>, Applicable(store, ops),
         ~ ExceedsLimit([r \in D |-> store[r]], ops, limit),
         NEW r \in InvolvedRefs(ops)
  PROVE  Cardinality(KeysOf(Candidates(store, ops)[Len(ops)][r].properties)) <= limit
<1> DEFINE sim == Simulation(Seen(store, D), ops)
           n == Len(ops)
<1>2. n \in Nat \ {0} /\ DOMAIN ops = 1..n /\ n \in 1..n /\ n \in 0..n
  OBVIOUS
<1>3. /\ sim[n] = Seen(Candidates(store, ops)[n], D)
      /\ \A i \in 1..n : CanApply(sim[i - 1], ops[i])
  BY <1>2, TransactionFollows
<1>4. sim[n][r].keys = KeysOf(Candidates(store, ops)[n][r].properties)
  BY <1>3 DEF Seen, ViewOf
<1>5. [q \in DOMAIN [p \in D |-> store[p]] |-> ViewOf([p \in D |-> store[p]][q])] = Seen(store, D)
  BY DEF Seen
<1>6. ~ (\E i \in DOMAIN ops :
           /\ \A j \in 1..i : CanApply(sim[j - 1], ops[j])
           /\ \E q \in InvolvedRefs(ops) : Cardinality(sim[i][q].keys) > limit)
  BY <1>5 DEF ExceedsLimit
<1>7. \A j \in 1..n : CanApply(sim[j - 1], ops[j])
  BY <1>3
<1> HIDE DEF sim, n
<1>8. ~ (Cardinality(sim[n][r].keys) > limit)
  BY <1>2, <1>6, <1>7
<1> QED
  BY <1>4, <1>8, KeysCount DEF n

\* The same for one operation in a store that is within the limit throughout.
LEMMA OneOperationLimited ==
  ASSUME NEW store \in Store, NEW op \in Operation, NEW limit \in Nat,
         ~ MovesOntoItself(op), BranchStatus(store, op) = "Applied",
         ~ ExceedsLimit([r \in InvolvedRefs(<<op>>) |-> store[r]], <<op>>, limit),
         \A r \in CollectionRef : Cardinality(KeysOf(store[r].properties)) <= limit
  PROVE  \A r \in CollectionRef :
           Cardinality(KeysOf(Effect(store, op)[r].properties)) <= limit
<1> DEFINE ops == <<op>>
           D == InvolvedRefs(ops)
<1>1. ops \in Seq(Operation) /\ Len(ops) = 1 /\ ops[1] = op /\ ops # <<>> /\ DOMAIN ops = {1}
  OBVIOUS
<1>2. D = {Source(op), Destination(op)}
  BY <1>1 DEF InvolvedRefs
<1>3. D \in SUBSET CollectionRef
  BY <1>2, OperationRefs
<1>4. Candidates(store, ops)[0] = store /\ Candidates(store, ops)[1] = Effect(store, op)
  <2>1. 1 \in 1..Len(ops) /\ 1 - 1 = 0
    BY <1>1
  <2> HIDE DEF ops
  <2> QED
    BY <1>1, <2>1, CandidatesStep
<1>5. Applicable(store, ops)
  <2>1. \A i \in 1..Len(ops) : i = 1 /\ i - 1 = 0
    BY <1>1
  <2> HIDE DEF ops
  <2> QED
    BY <1>1, <1>4, <2>1 DEF Applicable
<1>6. ~ ExceedsLimit([r \in D |-> store[r]], ops, limit)
  OBVIOUS
<1> HIDE DEF ops
<1>7. ASSUME NEW r \in CollectionRef
      PROVE  Cardinality(KeysOf(Effect(store, op)[r].properties)) <= limit
  <2>1. CASE r \in D
    BY <1>1, <1>3, <1>4, <1>5, <1>6, <2>1, LimitSound
  <2>2. CASE r \notin D
    <3>1. Candidates(store, ops)[Len(ops)][r] = store[r]
      BY <1>1, <2>2, TransactionFrame
    <3> QED
      BY <1>1, <1>4, <3>1
  <2> QED
    BY <2>1, <2>2
<1> QED
  BY <1>7

-----------------------------------------------------------------------------
(* The statuses that the adapter reports.                                  *)

\* A bounded set of natural numbers that is not empty has a greatest element.
LEMMA GreatestElement ==
  ASSUME NEW n \in Nat, NEW S \in SUBSET (0..n), S # {}
  PROVE  \E x \in S : \A y \in S : y <= x
<1> DEFINE Good == {k \in Nat : \A T \in SUBSET (0..k) :
                       T # {} => \E x \in T : \A y \in T : y <= x}
<1>1. 0 \in Good
  <2>1. ASSUME NEW T \in SUBSET (0..0), T # {} PROVE \E x \in T : \A y \in T : y <= x
    <3>1. PICK x : x \in T
      BY <2>1
    <3> QED
      BY <3>1
  <2> QED
    BY <2>1
<1>2. ASSUME NEW k \in Good PROVE k + 1 \in Good
  <2> SUFFICES ASSUME NEW T \in SUBSET (0..(k + 1)), T # {}
               PROVE  \E x \in T : \A y \in T : y <= x
    OBVIOUS
  <2>1. CASE k + 1 \in T
    BY <2>1
  <2>2. CASE k + 1 \notin T
    <3>1. T \in SUBSET (0..k)
      BY <2>2
    <3> QED
      BY <3>1
  <2> QED
    BY <2>1, <2>2
<1>3. Good = Nat
  <2> HIDE DEF Good
  <2> QED
    BY <1>1, <1>2, SetInduction DEF Good
<1> QED
  BY <1>3

StatusesOfApply ==
  {"Applied", "Conflict", "InvalidValue", "NotFound", "TargetUnavailable"}

\* What the branch of an operation may return.
LEMMA BranchStatusType ==
  ASSUME NEW store, NEW op \in Operation
  PROVE  BranchStatus(store, op) \in StatusesOfApply
<1>1. op.kind \in {"set_property", "set_many", "remove_property", "remove_many",
                   "clear_collection", "rename_collection", "transfer_property",
                   "transfer_collection", "import_collection"}
  BY DEF Operation, SetProperty, SetMany, RemoveProperty, RemoveMany, ClearCollection,
         RenameCollection, TransferProperty, TransferCollection, ImportCollection
<1> QED
  BY <1>1 DEF BranchStatus, StatusesOfApply

\* What applyUnlocked may return.
LEMMA ApplyStatusType ==
  ASSUME NEW store, NEW available, NEW op \in Operation, NEW force
  PROVE  ApplyStatus(store, available, op, force) \in StatusesOfApply
<1>1. \A r : RefStatus(store, available, op, force, r) \in StatusesOfApply
  BY DEF RefStatus, StatusesOfApply
<1> QED
  BY <1>1, BranchStatusType DEF ApplyStatus, StatusesOfApply

\* The statuses of a transaction, one per operation that was tried: those of
\* applyUnlocked, and all "Applied" only if every operation is applied.
LEMMA TransactStatusesAre ==
  ASSUME NEW store, NEW available, NEW ops \in Seq(Operation), NEW force
  PROVE  LET statuses == TransactStatuses(store, available, ops, force)
             Status(i) == ApplyStatus(Candidates(store, ops)[i - 1], available, ops[i], force) IN
         /\ statuses \in Seq(StatusesOfApply) /\ Len(statuses) <= Len(ops)
         /\ (\A i \in DOMAIN statuses : statuses[i] = "Applied") =>
              \A i \in 1..Len(ops) : Status(i) = "Applied"
         /\ (\A i \in DOMAIN statuses : statuses[i] = "Applied") => Len(statuses) = Len(ops)
<1> DEFINE Status(i) == ApplyStatus(Candidates(store, ops)[i - 1], available, ops[i], force)
           done == {n \in 0..Len(ops) : \A i \in 1..n : Status(i) = "Applied"}
           last == CHOOSE n \in done : \A m \in done : m <= n
           end == IF last < Len(ops) THEN last + 1 ELSE last
           statuses == [i \in 1..end |-> Status(i)]
<1>1. Len(ops) \in Nat
  OBVIOUS
<1>2. last \in done /\ \A m \in done : m <= last
  <2>1. 0 \in done
    BY <1>1
  <2>2. done \in SUBSET (0..Len(ops))
    OBVIOUS
  <2> HIDE DEF done
  <2>3. \E x \in done : \A y \in done : y <= x
    BY <1>1, <2>1, <2>2, GreatestElement
  <2> QED
    BY <2>3
<1>3. last \in 0..Len(ops) /\ \A i \in 1..last : Status(i) = "Applied"
  <2> HIDE DEF last
  <2> QED
    BY <1>2
<1>4. end \in 0..Len(ops)
  <2> HIDE DEF last
  <2> QED
    BY <1>1, <1>3
<1>5. ASSUME NEW i \in 1..end PROVE Status(i) \in StatusesOfApply
  <2> HIDE DEF end
  <2>1. ops[i] \in Operation
    BY <1>1, <1>4
  <2> QED
    BY <2>1, ApplyStatusType
<1>6. ASSUME \A i \in 1..end : Status(i) = "Applied"
      PROVE  last = Len(ops) /\ end = Len(ops)
  <2> SUFFICES ASSUME last < Len(ops) PROVE FALSE
    <3> HIDE DEF last
    <3> QED
      BY <1>1, <1>3
  <2> HIDE DEF last
  <2>1. last + 1 \in done
    <3> HIDE DEF Status
    <3> QED
      BY <1>1, <1>3, <1>6
  <2> QED
    BY <1>2, <1>3, <2>1
<1>7. statuses = TransactStatuses(store, available, ops, force)
  BY DEF TransactStatuses
<1>8. /\ statuses \in Seq(StatusesOfApply) /\ Len(statuses) <= Len(ops)
      /\ (\A i \in DOMAIN statuses : statuses[i] = "Applied") =>
           \A i \in 1..Len(ops) : Status(i) = "Applied"
      /\ (\A i \in DOMAIN statuses : statuses[i] = "Applied") => Len(statuses) = Len(ops)
  <2> HIDE DEF Status, last, end
  <2> QED
    BY <1>3, <1>4, <1>5, <1>6
<1> HIDE DEF statuses
<1> QED
  BY <1>7, <1>8

\* A transaction all of whose statuses are "Applied" has tried all operations.
LEMMA SuccessIsComplete ==
  ASSUME NEW store, NEW available, NEW ops \in Seq(Operation), NEW force,
         NEW st, st = TransactStatuses(store, available, ops, force),
         \A i \in DOMAIN st : st[i] = "Applied"
  PROVE  Len(st) = Len(ops)
<1>1. (\A i \in DOMAIN st : st[i] = "Applied") => Len(st) = Len(ops)
  BY TransactStatusesAre, SMTT(60)
<1> QED
  BY <1>1

\* Each of its operations can be applied to the store its predecessors left.
LEMMA SuccessIsTotal ==
  ASSUME NEW store, NEW available, NEW ops \in Seq(Operation), NEW force,
         NEW st, st = TransactStatuses(store, available, ops, force),
         \A i \in DOMAIN st : st[i] = "Applied"
  PROVE  \A i \in 1..Len(ops) :
           ApplyStatus(Candidates(store, ops)[i - 1], available, ops[i], force) = "Applied"
<1>1. (\A i \in DOMAIN st : st[i] = "Applied") =>
        \A i \in 1..Len(ops) :
          ApplyStatus(Candidates(store, ops)[i - 1], available, ops[i], force) = "Applied"
  BY TransactStatusesAre, SMTT(60)
<1> QED
  BY <1>1

=============================================================================
