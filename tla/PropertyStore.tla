---------------------------- MODULE PropertyStore ----------------------------
(***************************************************************************)
(* The data of the dynamic-property service: the collections an adapter    *)
(* keeps, the nine mutations, what each of them does to the in-memory      *)
(* adapter (src/in_memory_adapter.cpp), and the simulation of key sets     *)
(* with which the service predicts the outcome before it lets the adapter  *)
(* write (validatePropertyLimits in src/service.cpp).                      *)
(*                                                                         *)
(* A property map is a total function on Keys whose unset keys map to      *)
(* NoValue.  A revision is the content it digests: calculateRevision is a  *)
(* 64-bit hash of exactly (ref, exists, properties), taken as injective.   *)
(***************************************************************************)
EXTENDS Naturals, Sequences, FiniteSets

CONSTANTS
  Targets,      \* the targets (world, players, items, ...) that hold collections
  Names,        \* collection names
  Keys,         \* property keys, each accepted by validateKey
  Values,       \* property values, each accepted by validateValue
  NoValue,      \* marks a key that a property map does not hold
  NoRevision    \* an expected revision that the caller left out

ASSUME KeysAssumption == IsFiniteSet(Keys) /\ NoValue \notin Values

CollectionRef == [target : Targets, collection : Names]

PropertyMap == [Keys -> Values \cup {NoValue}]

Empty == [k \in Keys |-> NoValue]

KeysOf(map) == {k \in Keys : map[k] # NoValue}

\* What capture() returns for a collection; its content is also its revision.
Snapshot == [exists : BOOLEAN, properties : PropertyMap]

Missing == [exists |-> FALSE, properties |-> Empty]

Collection(map) == [exists |-> TRUE, properties |-> map]

Store == [CollectionRef -> Snapshot]

Revision == Snapshot \cup {NoRevision}

ImportPolicy == {"FailIfDestinationExists", "Merge", "Replace"}

-----------------------------------------------------------------------------
(* The operation records of operations.h.                                  *)

SetProperty ==
  [kind : {"set_property"}, ref : CollectionRef, key : Keys, value : Values,
   expected_revision : Revision]

SetMany ==
  [kind : {"set_many"}, ref : CollectionRef, values : PropertyMap,
   expected_revision : Revision]

RemoveProperty ==
  [kind : {"remove_property"}, ref : CollectionRef, key : Keys,
   expected_revision : Revision, require_existing : BOOLEAN]

RemoveMany ==
  [kind : {"remove_many"}, ref : CollectionRef, keys : SUBSET Keys,
   expected_revision : Revision, require_all_existing : BOOLEAN]

ClearCollection ==
  [kind : {"clear_collection"}, ref : CollectionRef,
   expected_revision : Revision, remove_collection : BOOLEAN]

RenameCollection ==
  [kind : {"rename_collection"}, target : Targets, from : Names, to : Names,
   expected_source_revision : Revision,
   expected_destination_revision : Revision, destination_policy : ImportPolicy]

TransferProperty ==
  [kind : {"transfer_property"}, source : CollectionRef, source_key : Keys,
   destination : CollectionRef, destination_key : Keys,
   expected_source_revision : Revision,
   expected_destination_revision : Revision,
   remove_source : BOOLEAN, overwrite : BOOLEAN]

TransferCollection ==
  [kind : {"transfer_collection"}, source : CollectionRef,
   destination : CollectionRef, expected_source_revision : Revision,
   expected_destination_revision : Revision,
   destination_policy : ImportPolicy, remove_source : BOOLEAN]

ImportCollection ==
  [kind : {"import_collection"}, destination : CollectionRef,
   properties : PropertyMap, expected_destination_revision : Revision,
   policy : ImportPolicy]

Operation ==
  SetProperty \cup SetMany \cup RemoveProperty \cup RemoveMany
    \cup ClearCollection \cup RenameCollection \cup TransferProperty
    \cup TransferCollection \cup ImportCollection

\* The collection an operation writes, and the one it reads from.
Destination(op) ==
  CASE op.kind = "rename_collection" ->
         [target |-> op.target, collection |-> op.to]
    [] op.kind \in {"transfer_property", "transfer_collection",
                    "import_collection"} -> op.destination
    [] OTHER -> op.ref

Source(op) ==
  CASE op.kind = "rename_collection" ->
         [target |-> op.target, collection |-> op.from]
    [] op.kind \in {"transfer_property", "transfer_collection"} -> op.source
    [] OTHER -> Destination(op)

OperationCollections(op) == <<Source(op), Destination(op)>>

\* The revision the caller expects of a collection the operation takes part in.
ExpectedRevision(op, ref) ==
  CASE op.kind \in {"rename_collection", "transfer_collection"} ->
         IF ref = Source(op) THEN op.expected_source_revision
                             ELSE op.expected_destination_revision
    [] op.kind = "transfer_property" ->
         IF /\ ref = op.source
            /\ \/ ref # op.destination
               \/ op.expected_source_revision # NoRevision
         THEN op.expected_source_revision
         ELSE op.expected_destination_revision
    [] op.kind = "import_collection" -> op.expected_destination_revision
    [] OTHER -> op.expected_revision

\* A same-collection transfer that expects two different revisions.
ConflictingExpectations(op) ==
  /\ op.kind = "transfer_property"
  /\ op.source = op.destination
  /\ op.expected_source_revision # NoRevision
  /\ op.expected_destination_revision # NoRevision
  /\ op.expected_source_revision # op.expected_destination_revision

\* Mutation: renames and whole collections only.
MovesCollectionOntoItself(op) ==
  \/ op.kind = "rename_collection" /\ op.from = op.to
  \/ op.kind = "transfer_collection" /\ op.remove_source /\ op.source = op.destination

\* A move of a property or a collection onto itself, which validateOperation
\* refuses: the adapter would write the destination, then erase the source.
MovesOntoItself(op) ==
  \/ op.kind = "rename_collection" /\ op.from = op.to
  \/ op.kind = "transfer_collection" /\ op.remove_source /\ op.source = op.destination
  \/ /\ op.kind = "transfer_property" /\ op.remove_source
     /\ op.source = op.destination /\ op.source_key = op.destination_key

-----------------------------------------------------------------------------
(* applyUnlocked: one operation on the adapter's store.                    *)

MergeInto(map, added) ==
  [k \in Keys |-> IF added[k] # NoValue THEN added[k] ELSE map[k]]

\* The destination after a rename, a transfer or an import of `added`.
Placed(policy, snapshot, added) ==
  Collection(IF policy = "Merge" /\ snapshot.exists
             THEN MergeInto(snapshot.properties, added)
             ELSE added)

Blocked(policy, snapshot) ==
  policy = "FailIfDestinationExists" /\ snapshot.exists

\* Why the operation's own branch refuses, or "Applied".
BranchStatus(store, op) ==
  LET source == store[Source(op)]
      destination == store[Destination(op)] IN
  CASE op.kind = "remove_property" ->
         IF op.require_existing /\ destination.properties[op.key] = NoValue
         THEN "NotFound" ELSE "Applied"
    [] op.kind = "remove_many" ->
         IF op.require_all_existing /\ ~ op.keys \subseteq KeysOf(destination.properties)
         THEN "NotFound" ELSE "Applied"
    [] op.kind \in {"rename_collection", "transfer_collection"} ->
         IF ~ source.exists THEN "NotFound"
         ELSE IF Blocked(op.destination_policy, destination) THEN "Conflict"
         ELSE "Applied"
    [] op.kind = "transfer_property" ->
         IF source.properties[op.source_key] = NoValue THEN "NotFound"
         ELSE IF ~ op.overwrite /\ destination.properties[op.destination_key] # NoValue
         THEN "Conflict" ELSE "Applied"
    [] op.kind = "import_collection" ->
         IF Blocked(op.policy, destination) THEN "Conflict" ELSE "Applied"
    [] OTHER -> "Applied"

\* The store after an operation that its branch does not refuse.
Effect(store, op) ==
  LET from == store[Source(op)].properties IN
  CASE op.kind = "set_property" ->
         [store EXCEPT ![op.ref] =
            Collection([@.properties EXCEPT ![op.key] = op.value])]
    [] op.kind = "set_many" ->
         [store EXCEPT ![op.ref] = Collection(MergeInto(@.properties, op.values))]
    [] op.kind = "remove_property" ->
         [store EXCEPT ![op.ref].properties[op.key] = NoValue]
    [] op.kind = "remove_many" ->
         [store EXCEPT ![op.ref].properties =
            [k \in Keys |-> IF k \in op.keys THEN NoValue ELSE @[k]]]
    [] op.kind = "clear_collection" ->
         [store EXCEPT ![op.ref] =
            IF op.remove_collection THEN Missing ELSE Collection(Empty)]
    [] op.kind = "rename_collection" ->
         [store EXCEPT ![Destination(op)] = Placed(op.destination_policy, @, from),
                       ![Source(op)] = Missing]
    [] op.kind = "transfer_property" ->
         LET written == [store EXCEPT ![op.destination] =
                Collection([@.properties EXCEPT ![op.destination_key] = from[op.source_key]])] IN
         IF op.remove_source
         THEN [written EXCEPT ![op.source].properties[op.source_key] = NoValue]
         ELSE written
    [] op.kind = "transfer_collection" ->
         LET written == [store EXCEPT ![op.destination] =
                           Placed(op.destination_policy, @, from)] IN
         IF op.remove_source /\ op.source # op.destination
         THEN [written EXCEPT ![op.source] = Missing]
         ELSE written
    [] op.kind = "import_collection" ->
         [store EXCEPT ![op.destination] = Placed(op.policy, @, op.properties)]

\* Mutation: revisions are not compared.
RefStatusUnchecked(store, available, op, force, ref) ==
  IF ref.target \notin available THEN "TargetUnavailable" ELSE "Applied"

\* Availability, then revision, of one collection the operation takes part in.
RefStatus(store, available, op, force, ref) ==
  IF ref.target \notin available THEN "TargetUnavailable"
  ELSE IF /\ ~ force
          /\ ExpectedRevision(op, ref) # NoRevision
          /\ ExpectedRevision(op, ref) # store[ref]
  THEN "Conflict"
  ELSE "Applied"

\* The status applyUnlocked returns: "Applied" iff it changes the store.
ApplyStatus(store, available, op, force) ==
  LET first == RefStatus(store, available, op, force, Source(op))
      second == RefStatus(store, available, op, force, Destination(op)) IN
  IF ConflictingExpectations(op) THEN "InvalidValue"
  ELSE IF first # "Applied" THEN first
  ELSE IF second # "Applied" THEN second
  ELSE BranchStatus(store, op)

\* transact: the candidate store after each prefix of the operations, and the
\* results up to and including the first operation that fails.
Candidates(store, ops) ==
  LET run[i \in 0..Len(ops)] ==
        IF i = 0 THEN store ELSE Effect(run[i - 1], ops[i])
  IN  run

TransactStatuses(store, available, ops, force) ==
  LET run == Candidates(store, ops)
      Status(i) == ApplyStatus(run[i - 1], available, ops[i], force)
      done == {n \in 0..Len(ops) : \A i \in 1..n : Status(i) = "Applied"}
      last == CHOOSE n \in done : \A m \in done : m <= n
  IN  [i \in 1..(IF last < Len(ops) THEN last + 1 ELSE last) |-> Status(i)]

-----------------------------------------------------------------------------
(* validatePropertyLimits: the key sets the operations would leave behind. *)

View == [exists : BOOLEAN, keys : SUBSET Keys]

ViewOf(snapshot) ==
  [exists |-> snapshot.exists, keys |-> KeysOf(snapshot.properties)]

\* operationCollections of all operations, as a set.
InvolvedRefs(ops) ==
  UNION {{Source(ops[i]), Destination(ops[i])} : i \in DOMAIN ops}

\* The simulation's can_apply.
CanApply(view, op) ==
  LET source == view[Source(op)]
      destination == view[Destination(op)] IN
  CASE op.kind = "remove_property" ->
         op.require_existing => op.key \in destination.keys
    [] op.kind = "remove_many" ->
         op.require_all_existing => op.keys \subseteq destination.keys
    [] op.kind \in {"rename_collection", "transfer_collection"} ->
         source.exists /\ ~ Blocked(op.destination_policy, destination)
    [] op.kind = "transfer_property" ->
         /\ op.source_key \in source.keys
         /\ op.destination_key \in destination.keys => op.overwrite
    [] op.kind = "import_collection" -> ~ Blocked(op.policy, destination)
    [] OTHER -> TRUE

\* Mutation: the keys of the destination always stay.
PlacedKeysMerged(policy, view, added) ==
  [exists |-> TRUE, keys |-> view.keys \cup added]

\* Mutation: the keys of the destination never stay.
PlacedKeysReplaced(policy, view, added) == [exists |-> TRUE, keys |-> added]

\* destination_keys: what a rename, a transfer or an import leaves there.
PlacedKeys(policy, view, added) ==
  [exists |-> TRUE,
   keys |-> IF policy = "Merge" /\ view.exists THEN view.keys \cup added ELSE added]

NoCollection == [exists |-> FALSE, keys |-> {}]

SimulateOperation(view, op) ==
  LET from == view[Source(op)].keys IN
  CASE op.kind = "set_property" ->
         [view EXCEPT ![op.ref] = [exists |-> TRUE, keys |-> @.keys \cup {op.key}]]
    [] op.kind = "set_many" ->
         [view EXCEPT ![op.ref] =
            [exists |-> TRUE, keys |-> @.keys \cup KeysOf(op.values)]]
    [] op.kind = "remove_property" -> [view EXCEPT ![op.ref].keys = @ \ {op.key}]
    [] op.kind = "remove_many" -> [view EXCEPT ![op.ref].keys = @ \ op.keys]
    [] op.kind = "clear_collection" ->
         [view EXCEPT ![op.ref] = [exists |-> ~ op.remove_collection, keys |-> {}]]
    [] op.kind = "rename_collection" ->
         [view EXCEPT ![Destination(op)] = PlacedKeys(op.destination_policy, @, from),
                      ![Source(op)] = NoCollection]
    [] op.kind = "transfer_property" ->
         LET written == [view EXCEPT ![op.destination] =
                           [exists |-> TRUE, keys |-> @.keys \cup {op.destination_key}]] IN
         IF op.remove_source
         THEN [written EXCEPT ![op.source] =
                 [exists |-> @.exists, keys |-> @.keys \ {op.source_key}]]
         ELSE written
    [] op.kind = "transfer_collection" ->
         LET written == [view EXCEPT ![op.destination] =
                           PlacedKeys(op.destination_policy, @, from)] IN
         IF op.remove_source THEN [written EXCEPT ![op.source] = NoCollection] ELSE written
    [] op.kind = "import_collection" ->
         [view EXCEPT ![op.destination] = PlacedKeys(op.policy, @, KeysOf(op.properties))]

Simulation(view, ops) ==
  LET run[i \in 0..Len(ops)] ==
        IF i = 0 THEN view ELSE SimulateOperation(run[i - 1], ops[i])
  IN  run

\* Some operation, reached by a simulation in which all up to it can be
\* applied, leaves more than `limit` keys in a collection that takes part.
ExceedsLimit(captured, ops, limit) ==
  LET run == Simulation([r \in DOMAIN captured |-> ViewOf(captured[r])], ops) IN
  \E i \in DOMAIN ops :
    /\ \A j \in 1..i : CanApply(run[j - 1], ops[j])
    /\ \E r \in InvolvedRefs(ops) : Cardinality(run[i][r].keys) > limit
=============================================================================
