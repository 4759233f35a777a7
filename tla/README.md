# Endstone dynamic properties: models, checks and proofs

TLA+ models of the Endstone dynamic-property API (`src/`): the store and its
transactions; the coordinator `DynamicPropertyService` that puts validation, cancellable
events, a commit lock, revision checks and an audit around every write; its Python
twin; the event bus and the mutex registry below them; the gate for writes that scripts
make; the client's way in; the activation of the native plugin; and the code that
decides what is a string, a document, or the hash of a file. TLC checks the models on small
instances, and TLAPS proves the main safety properties for every value of the constants.

## 1. The system

Line numbers are those of the C++ sources under `src/src/` unless another path is given.

| Part | State it keeps | Operations | Talks to |
|---|---|---|---|
| In-memory adapter, `in_memory_adapter.cpp` | `store_` (collection -> properties), `available_`, one mutex | `apply`, `transact`, `capture`, `listCollections`, `setTargetAvailable`, `flush` | called by the service |
| Mutation coordinator, `service.cpp` | limits and a pointer to the mutex of its adapter | `apply`, `transact`, convenience wrappers | adapter, event bus, audit sink |
| Limit prediction, `validatePropertyLimits` (`service.cpp:228-347`) | none | simulates the key sets that operations leave | captures from the adapter |
| Reads, `service.cpp:74-129`, `621-705` | none | `capture`, `get`, `listCollections`, `exportCollection`, `flush` | adapter |
| External gate, `service.cpp:707-785` | none | `beforeExternalMutation`, `afterExternalMutation` | hooks of the host, event bus, audit sink |
| Mutex registry, `mutationMutexFor` (`service.cpp:39-55`) | map from adapter address to weak pointer to mutex | look up or create | service constructors |
| Event bus, `events.cpp` | subscriptions in order, failure handler, one mutex | `subscribe`, `unsubscribe`, `setListenerFailureHandler`, `publish` | runs listeners on the publishing thread |
| Audit sink, `audit.cpp` | records | `record` | called by the service, may throw |
| Access policy, targets, `access_policy.cpp`, `types.cpp` | none | `canAccess`, `validateTarget`, factories, `completeControl` | called by the service |
| Snapshots and revisions, `snapshot.cpp` | none | hash of a collection | adapter |
| Values and documents, `value.cpp` | none | validate, export, import | adapter and service |
| Native manifest, activation, build | manifest, generated header, package | `activate_verified_manifest.py`, CMake | source tree |
| Plugin, native adapter, binary identity | provider in the service manager | `onEnable`, `onDisable`, inspection of the executable | server process, bridge (not in the repository) |
| Live facade, `live_service.h` | the published service | forwards | clients |
| Python reference, `python/endstone_dynamic_properties/` | own store, locks, bus | the same API in Python | - |

How a write goes, in `DynamicPropertyService::apply` and `::transact`:

1. Admission from the request alone: number of operations, atomicity, the right to
   force, then per operation access, capability, bulk size, contradictory
   expectations, moves onto themselves.
2. An unlocked preflight: the involved collections are captured one at a time and the
   resulting numbers of properties are predicted.
3. The before-event. Listeners run in order, may cancel, throw, edit the event, and
   call the service again on the same thread.
4. Under `mutation_mutex_`, shared by all services of the adapter: validation and
   prediction once more, then the adapter's `apply` or `transact`.
5. Without the mutex: the after-event, for a migration one more event, one audit record
   per operation, the reply.

What makes this hard is that steps 2 and 3 happen before the state is fixed: other
threads and the call's own listeners write in between, and a nested call runs through
all five steps while its parent is suspended in step 3 or 5. The external gate stretches
the same problem over two calls with the host's write in between, and `onEnable` over two
reads of a file that may be replaced.

What makes each part correct:

- *Adapter*: an operation writes what it says and nothing else, whatever policy, flag
  or aliasing of source and destination; a transaction is all or nothing.
- *Prediction*: agrees with the adapter on every operation, so that the limit is exact.
- *Coordinator*: no lost update, no commit over the limit, against a veto, or outside
  the caller's namespace; no callback under the mutex; truthful events, audit, and
  results; calls are atomic; every call returns.
- *Event bus*: a publication reaches exactly those its filters name at one moment, in the
  order of subscription, and nobody who left before it; a failing listener or failure
  handler keeps nobody else from the event.
- *Mutex registry*: services share a mutex exactly while they share a live adapter.
- *External gate*: a write whose cancellation stands, or at which a listener failed, does
  not happen if the hook can prevent it, nothing grows beyond the limit, and what is
  recorded is what the hook did.
- *Access*: no plugin reaches another's collections, however ids are spelled; a listing
  shows what its caller may read.
- *Documents*: an export is read back as it was, a damaged one is refused.
- *Activation*: a provider that clients can reach was activated from a complete manifest
  for the executable that was inspected; a refusal leaves nothing behind.
- *Audit*: every operation that took effect is handed to the sink once, so that a record
  is missing only where the sink threw.

`PROJECT.json` lists every component with its status and every hazard at its line.

## 2. The modules

| Module | Models | Built on |
|---|---|---|
| `PropertyStore` | collections, the nine operations, `applyUnlocked`, the candidate stores of `transact`, the prediction; no variables | - |
| `InMemoryAdapter` | the adapter as a state machine | `PropertyStore` |
| `AtomicCalls` | what a caller is promised: the abstract specification | `PropertyStore` |
| `DynamicPropertyService` | `apply` and `transact` step by step, several threads, nested calls, events, mutex, adapter, audit | `PropertyStore`; instantiates `AtomicCalls` |
| `ReferenceService` | the same two calls of the Python service | `DynamicPropertyService`; instantiates `AtomicCalls` |
| `EventBus` | `subscribe`, `unsubscribe`, `setListenerFailureHandler`, `publish` with filters, on several threads and from callbacks | - |
| `MutexRegistry` | constructors and destructors of services around `mutationMutexFor` | - |
| `ExternalGate` | hooks, `beforeExternalMutation`, the host's write, `afterExternalMutation`, among calls of the service | `PropertyStore` |
| `Targets`, `AccessPolicy` | target factories and validation, `completeControl`; normalised ids, prefixes, ownership | - |
| `ServiceAccess` | every call of a client with the order of its checks | `Targets`, `AccessPolicy` |
| `ActivationGate` | manifest, activation, build, server, `onEnable`, `onDisable` | - |
| `Utf8`, `CollectionJson`, `Sha256` | string validation and escapes; export and import documents; the framing of the hash | - |
| `MC*` | the small instances for TLC; `MCInputs` explores the three modules of the line above | one of the above |
| `*Proofs` | theorems, section 4; the operators' lemmas in `PropertyStoreProofs` are used by the adapter's, the service's and the gate's | one of the above |

Three boundaries are crossed by what one model establishes for the next.
`DynamicPropertyService` has one mutex per adapter because `MutexRegistry` shows it.
`ExternalGate` makes a call of the service one step because `CallsAreAtomic` shows that
it acts like one. `DynamicPropertyService` lets a listener with a filter be one that
returns at once because `EventBus` shows that filters and failures of one listener
do not touch the others.

### Data

A collection is a record of `exists` and a function from `Keys` to values or `NoValue`.
A store maps each pair of target and name to a collection. Keys and values are ones that
`value.cpp` accepts. A *revision* is the collection's content itself: the code compares a
64-bit hash of the content (`snapshot.cpp`), and the model takes it to have no collisions.
An operation is a record with the fields of its C++ struct that influence control; the
order of entries in bulk operations does not.

### `InMemoryAdapter`

Each public method holds the adapter's mutex from its first to its last line, so each is
one action. `Apply` and `Transact` exist for successful calls only, because failing ones leave the
store alone.

### `DynamicPropertyService`

| State | Code |
|---|---|
| `store`, `available` | `store_`, `available_` of the adapter |
| `mutation_mutex` | the `std::recursive_mutex` from the registry: owner and depth |
| `call[c]` | the activation record of one call of `apply` or `transact`: its place (`phase`, `at`), captures, the event's `cancelled`, results, `rolled_back`, the before- and after-snapshots |
| `running[t]` | the innermost call of thread `t`; `parent` links to the calls below it |
| `audits`, `unrecorded` | the sink's records; the operations at whose record the sink threw, each with what `audit_failure_handler_` was then: none (the default), one that returns, or one that throws |
| `history` | no code: each commit with the stores around it, for the properties |

| Action | Code |
|---|---|
| `ReturnAtOnce`, `Begin` | admission: `service.cpp` 446-455, 488-523 |
| `PreflightCapture` | one capture of the unlocked `validatePropertyLimits`; the last one decides |
| `ListenerReturns`, `ListenerDecides`, `ListenerThrows`, `ListenerEdits` | one listener of `publish` (`events.cpp` 40-69); between them the thread may `Begin` a nested call. A listener that edits an after-event overwrites the snapshots that later listeners, and `CollectionMigrated`, get |
| `Cancel` | the early exit after a cancelled or failed before-event |
| `LockAndRevalidate`, `RefuseCommit` | the lock guard and the final validation, passed or not |
| `AdapterApply` | `adapter_->apply`, end of the lock's scope |
| `AdapterTransact`, `RecaptureAndUnlock` | `adapter_->transact`; the captures after it and the end of the scope |
| `PublishMigrated`, `BeginAudit` | the rest of `publishAfter` |
| `Audit`, `Reply` | one record or one failure of the sink a step; return to the caller |
| `SetTargetAvailable` | a target comes or goes, at any step |

A step is what one thread does between two places where another one can matter. Under the
mutex the final validation is one step, because all writers hold the same mutex and the
store cannot change during it; the adapter call is a second one, since availability can
change before it.

### `ReferenceService`

The variables of `DynamicPropertyService` and `service_lock`, the lock that each Python
service has for itself and that cannot be taken twice; `mutation_mutex` is the adapter's
`mutation_guard`. Admission, listeners, audit and reply are the actions of the C++ model
(`SharedStep`); the steps around the commit are its own: `Dispatch` (snapshots for the
before-event), `LockService` and `CheckUnderGuard` (the two locks, then only the limits
again), `WriteUnderGuard`. `ListenerInterrupts` is a listener that raises something that
`except Exception` lets through: before the commit the call is left at once, after it
the `finally` block still audits.

### `EventBus`

`subscriptions` maps ids, which only grow, to filters. `Publish` waits for the mutex,
`CopySubscriptions` and `CopyHandler` copy under it, then `ListenerReturns`,
`ListenerThrows` and `HandlerEnds` deliver to the least pending id. While a callback runs, its
thread may call every operation of the bus again, `publish` included.

### `MutexRegistry`

`address`, `handles`: which adapters live where, and to which the host still refers.
`service[s]`: the two members in the order the constructor fills and the destructor
releases them; `registry`, `registry_mutex`: the static map and its mutex. `Purge`,
`Share`, `Create`, `Install` are the lines of `mutationMutexFor`; a weak pointer is expired
when no service has its mutex, and an address is free again when its adapter is gone.

### `ExternalGate`

`platform` says which hooks a host has, which of the two capabilities it reports,
whether its hooks hold a lease while they run (`docs/ARCHITECTURE.md:51`), and whether the
gate is the C++ one, which looks at the limits a second time after its listeners
(`service.cpp:747`), or the Python one, which does not. `Ask`, `CheckLimits`, the
listener actions and `Conclude` are `beforeExternalMutation`; `PublishMigrated`, `Notified`
and `Audit` are `afterExternalMutation`. Listeners set the cancellation, clear it
(`ListenerDecides`) or throw; in `Audit` the sink keeps the record or throws (`lost`). `Intercept`, `Original` and `Skip` are the hook, which is not in the
repository: it follows `docs/EXTERNAL_HOOKS.md`. `ServiceCommits` is a call of the
service, which the lease keeps outside unless a listener of its holder makes it.

### `Targets`, `AccessPolicy`, `ServiceAccess`

A text is a sequence of characters: those that `normalize` keeps, capitals, and others.
`ServiceAccess` has the calls of a client: `Read` (capture, get, export),
`ListCollections`, `Flush`, `Apply`, `Transact`, `BeforeExternalMutation`. Each answers the status
of the first question that fails, in the order of the code; the store is the set of
collections that exist, and what their contents decide is a free choice.

### `ActivationGate`

An executable is an image with a size; `exact` and `patched` have the same size. The
source tree (`EditBridge`, `Record`, `Activate`, `Build`), the server (`StartServer`,
`StopServer`, `ReplaceExecutable`) and the plugin (`Enable`, `ReadSize`, `ReadHash`,
`Register`, `Refuse`, `Disable`, `Load`) move independently, so the file is replaced also
between the two reads of `inspectCurrentProcessExecutable`. `PathSurvives` says whether a
process still finds a path after its file was replaced before the inspection; a hash that
cannot be read takes the same way as a path that cannot.

### `Utf8`, `CollectionJson`, `Sha256`

Pure code, checked against definitions of its own kind: `IsValidUtf8` against `IsUtf8` (a
string is UTF-8 if it can be cut into what `appendUtf8` writes for scalar values), escapes
against parsing, the encoder against the decoder, the padding of the hash against the
standard. Their state machines only build inputs: a byte or a
string element at a time, an export that is cut off, has a token lost, replaced or swapped,
or a part repeated, a file read to its end or to an error. A document is a sequence of tokens; SHA-256
is the sequence of bytes that its compression function is fed.

Operators marked `Mutation` are wrong variants of the operator that follows or precedes
them (a dropped check, a stale capture, a forgotten unlock). They are not part of the
specification. Each one names, in `PROJECT.json`, the property that TLC finds violated
when it replaces the right one.

## 3. What is checked

| Run | Question | Instance | Distinct states |
|---|---|---|---|
| `adapter` | Do prediction and adapter agree, do moves lose nothing, is the limit check sound? | two collections, every kind of operation with every policy and flag, transactions of two operations, targets coming and going | 200 |
| `race` | Do racing calls keep limits, revisions, vetoes, namespaces and the lock discipline? | two threads, two updates from one revision, a growing write, a migration, a transaction that reaches for another plugin; a listener that calls, throws, cancels | 699,318 |
| `calls` | Are calls atomic, truthfully audited, and do they return? | a transaction that may fail halfway, a forced migration, an empty call; a target that comes and goes, a sink that throws, a listener with every power; under fairness | 79,672 |
| `reference` | The same of the Python service, and do its two locks nest? | a transaction and a migration, interrupts, a sink that throws, a target that comes and goes | 98,142 |
| `bus` | Who is reached, in which order, what was copied when? | two threads, two publications, four filters, up to two subscriptions made, callbacks that call the bus | 285,220 |
| `registry` | Does every live adapter have one mutex? | four services, two adapters, two addresses; symmetric | 7,312 |
| `gate` | Limits, vetoes, records of external writes? | five platforms, four hooked writes of which one moves a collection, two listeners that cancel, approve and throw, a sink that throws, four calls of the service, limit one | 144,997 |
| `activation` | Is what is served what was activated? | three executables of which two have one size, one bridge | 564,180 |
| `access` | Are namespaces apart, listings readable, capabilities sufficient? | one call of every kind on every target the factories make, with every capability missing in turn; and three callers with any number of calls | 85,552 |
| `inputs` | Are validator, escapes, documents and padding right? | byte strings up to four, string elements up to two, damaged exports of up to two properties, 15 file sizes around one and two blocks | 258,228 |
| `finding_veto`, `finding_preflight` | Two statements of the documentation that the code does not meet (section 6) | smallest instances that show them | - |

Properties:

- *Store*: `SimulationAgrees` (prediction and adapter are two implementations of nine
  operations), `MovesArrive` (a moved value is at its destination and gone from its
  source), `LimitPredictionSound`.
- *Coordinator*: `CallbacksOutsideLock`, `CommitsWithinLimit`, `NoLostUpdate`, `FailClosed`,
  `Isolation`; `AfterEventTruthful` (snapshots in after-events are the stores around *this*
  commit until a listener edits the event, which it shares with the ones behind it),
  `EveryMutationAudited` (each operation is handed to the sink once and in order; a record
  is missing only where the sink threw), `AuditTruthful` (a record that says applied and not
  rolled back belongs to a call that committed, if the call asks for rollback on failure).
- *Refinement*: `CallsAreAtomic` and `ReferenceCallsAreAtomic`: both services implement
  `AtomicCalls`. A call is `open` from its first step, `effected` once its commit is in `history`,
  `ok` or `refused` when it has returned; the store is the store. The abstract specification
  says that a call takes effect at one instant, with all its operations and all its
  expectations met, and that "applied" is answered exactly by the calls that took effect. A
  Python call that was interrupted is never answered.
- *Python*: `LocksNest` (service before adapter, no callback under either),
  `CommitsAuditedAtReturn`.
- *Bus*: `ReachesEveryObserver` (a matching listener that stays is called, whoever throws),
  `UnsubscribedStaysSilent`, `InSubscriptionOrder`, `CopiesOneMoment` (listeners and
  handler are those of one moment).
- *Registry*: `CommitsExclusive`, `MutexBelongsToAdapter` (also when an address is reused).
- *Gate*: `NothingExceedsLimit`, `VetoHonoured`, `ExternalAuditTruthful` (one
  record of each write that a hook let through, unless the sink threw at it, of what was
  done and not of what was found later). A veto is a listener that threw or a cancellation
  that stands after the last listener: a later one may clear it (section 6).
- *Access*: `NamespacesApart`, `OneOwnerPerSpelling`, `ListedIsReadable` (the listing and
  the read are two implementations of one rule), `CompleteControlSuffices` (the list
  of 37 flags holds every flag that the service itself asks for; an adapter may still
  answer "unsupported", as `docs/TARGETS.md:33` says of blocks).
- *Inputs*: `ValidatorExact`, `EscapesReversible`, `SurrogatesPair`, `RoundTrip`,
  `TruncationRefused`, `NothingDropped`, `DigestCoversFile`. `SurrogatesPair` is about strings of
  one and two elements, `TruncationRefused` about cuts between tokens, not inside one.
- *Activation*: `ServesOnlyActivated`, `RefusalLeavesNothing`.
- *Liveness*: `EveryCallReturns`, `EveryHookReturns`.

### Bounds

- *Calls.* Each request is made at most once, by any thread, at the top level or inside any
  listener; the pools have two to five requests. That is enough for a call between any two
  steps of another, on the same thread (nesting as deep as there are requests) and on
  another thread. One listener (two for the finding about cancellations) serves all events
  of all services.
- *Threads.* Two: all shared state is the store and one mutex, and a third thread adds no
  new kind of conflict between two commits. In the bus the conflict is between one that
  copies and one that changes the list.
- *Limits.* Two keys and limits of one and two: a collection can be below, at, and, through
  the other service, above a limit. Transactions have two operations, the smallest that
  can fail halfway; `LimitSound` and the theorems of section 4 hold for any length.
- *Bus.* `MaxSubscriptions` bounds how often `subscribe` is called; two suffice for an
  order, for one that leaves while the other runs, and for one that joins.
- *Registry.* Four services are two on each of two adapters, or three on one address in
  a row. Services and adapters are interchangeable, addresses too, hence the symmetry; there
  is no liveness property in this run.
- *Audit.* `FailureHandlers` has one value per run: what the handler does is only remembered,
  and changes nothing that follows.
- *Gate.* One hooked write of each kind: allowed, a move of a collection, refused by the
  policy, intercepted too late. The service may write between any two steps without bound.
- *Activation.* One bridge and one proof besides the hashes; the executables are
  the exact one, one of the same version and size, and one of neither.
- *Access.* `MCNext` explores the calls of a few clients to any depth, and one call
  (`FirstCall`) of every client on every target; names are at most six characters.
- *Inputs.* `Bytes` holds the boundaries of every range in the validator, `Units` those of
  the surrogates; `MaxBytes` is the longest sequence and `MaxElements` a pair. Blocks have
  their real size of 64 bytes.

`access` and `inputs` turn the search for deadlocks off, because their behaviours end
when the bounded input does. In all other runs a state without successor is an error:
`Terminated` and `Destroyed` let a system stop only when everything has been answered or
destroyed, so a thread that waits forever is reported.

### Fairness

`FairSpec` of the service asks for weak fairness of `Advance(t)` for each thread: a thread
inside a call is scheduled, and a listener it runs returns. Neither making a call nor a
change of availability is fair. Weak fairness is enough although calls wait for the mutex: the calls
are finitely many, so the mutex is eventually free for good. With unboundedly many
calls a waiting thread would need a fair mutex, which C++ does not promise.

`FairSpec` of the gate asks for weak fairness of `HookStep(h)`: a write that was
intercepted goes on. No script has to write, and the calls of the service, which never stop, are not fair.

## 4. What is proved

TLAPS proves, for any sets of threads, services, targets, names, plugins, listeners
and requests, any limits, and operation lists of any length, every safety property
that the runs check, of the C++ code and of the Python service, except the three of
`CollectionJson`:

| Theorem | Module | States |
|---|---|---|
| `LimitSound` | `PropertyStoreProofs` | a transaction that passes the prediction on the captured collections and that the adapter applies leaves at most the limit in every collection it involves |
| `AdapterTyped`, `PredictionIsExact`, `PredictionIsSound`, `MovesAlwaysArrive` | `InMemoryAdapterProofs` | the types, `SimulationAgrees`, `LimitPredictionSound`, `MovesArrive` |
| `TypeCorrect`, `LockFree`, `GateHolds` | `DynamicPropertyServiceProofs` | `TypeOK`, `CallbacksOutsideLock`, `FailClosed` |
| `LimitsHold`, `IsolationHolds`, `NoUpdateLost` | same | `CommitsWithinLimit`, `Isolation`, `NoLostUpdate` |
| `EveryMutationIsAudited`, `AuditIsTruthful`, `AfterEventsAreTruthful` | same | `EveryMutationAudited`, `AuditTruthful`, `AfterEventTruthful` |
| `ServiceIsAtomic` | same | `CallsAreAtomic`: the service implements `AtomicCalls` |
| `ReferenceLocksNest`, `ReferenceCommitsAudited` | same | `LocksNest`, `CommitsAuditedAtReturn` of the Python service, whose listeners may interrupt it anywhere |
| `ReferenceIsAtomic` | same | `ReferenceCallsAreAtomic`: the Python service implements `AtomicCalls` too |
| `GateTypeCorrect`, `VetoIsHonoured`, `ExternalAuditIsTruthful`, `ExternalWritesStayWithinLimit` | `ExternalGateProofs` | the types, `VetoHonoured`, `ExternalAuditTruthful`, `NothingExceedsLimit` |
| `BusTyped`, `BusUnsubscribedStaysSilent`, `BusInSubscriptionOrder`, `BusCopiesOneMoment`, `BusReachesEveryObserver` | `EventBusProofs` | for any threads, publications, filters, handlers and subscriptions |
| `RegistryTyped`, `RegistryCommitsExclusive`, `RegistryMutexBelongsToAdapter` | `MutexRegistryProofs` | for any services, adapters and addresses |
| `ActivationTyped`, `ActivationServesOnlyActivated`, `ActivationRefusalLeavesNothing` | `ActivationGateProofs` | for any images, bridges and proofs |
| `AccessNamespacesApart`, `AccessOneOwnerPerSpelling`, `AccessListedIsReadable`, `AccessCompleteControlSuffices` | `ServiceAccessProofs` | for any characters, ids and names of any length, any capabilities and targets |
| `ValidatorIsExact`, `EscapesAreReversible`, `SurrogatesArePaired` | same (`Utf8`) | `ValidatorExact`, `EscapesReversible`, `SurrogatesPair`, for strings of any bytes and any length |
| `DigestsCoverFiles` | `ActivationGateProofs` (`Sha256`) | `DigestCoversFile`, for files of any size, however the reads are cut, and any block size larger than the length field |

They assume what the modules state as `ASSUME`: keys form a finite set and no value is
`NoValue`; limits are natural numbers; requests are well-formed and an `apply` has one
operation; the initial store is a store; sizes of images are positive; a byte is at most
255 and a code unit at most 65535; a block has room for more than the length; the
separator is no character that normalisation keeps; a target is of one of the kinds of
`types.h`; the model values for "none" are none of the things they stand in for. TLC evaluates these assumptions in every run. One theorem has a hypothesis
of its own: `ExternalWritesStayWithinLimit` is about a store that starts within the limit,
because the code lets a store that is already over it stay there. The theorems about
strings and hashes are about the state machines of `Utf8` and `Sha256`, which build
every input, not about a specification named `Spec`.

The arguments:

1. *Operators.* For each of the nine operations a lemma shows that the adapter's effect is
   a store, touches only the collections the operation names, and is followed by the
   prediction (`OperationFollows`). By induction over the operations of a transaction
   the prediction follows the candidate stores (`TransactionFollows`), and its last step
   gives `LimitSound`. The induction is on sets of naturals (`SetInduction`).
2. *Control.* `Inv` is inductive. Its parts: `TypeOK`; `PreflightOK` (a call in
   the preflight still has something to capture, which makes the `CHOOSE` of the next
   capture meaningful) and `AuditOK`; `StackOK` (every open call is at one place of the
   stack of one thread: without it the thread that releases the mutex need not be the
   one that took it); `MutexOK` (a call that commits is run by the owner, the depth is one
   exactly while there is an owner); `GateOK` (calls that commit have not been stopped,
   and calls in `history` are past the point where they could be). One lemma per
   action shows that it keeps `Inv`. `CallbacksOutsideLock` and `FailClosed` follow.
3. *Commits.* `CommitInv` adds that what the final validation established of a locked call
   is still true (`LockedOK`: nobody else writes, by `MutexOK`), hence `LimitSound`
   applies when the adapter is called and each entry of `history` is `Sound`.
4. *Revisions.* `HistoryOK`: each commit starts from the store the last one ended
   in, and found what its call expected. Expectations are checked by `applyUnlocked`
   on candidates; the first operation that names a collection sees it unchanged
   (`CandidatesFrame`). `NoLostUpdate` follows.
5. *Answers.* `AnswersOK` ties the local variables of a call to `history`: from the
   adapter call to the reply its status is "applied" exactly if it committed, and it then has
   a result for every operation. The hard case is a transaction whose statuses are all
   "applied" and whose result is still a failure; `TransactStatusesAre` and `SuccessIsComplete`
   say when that is. While it audits, records and losses are together the operations
   before `at`, each once and in order (`RecordHanded`, `LossHanded`), so that when it stops
   at the end the sink was handed all of them (`AllHanded`).
6. *Events.* `EventsOK` follows the snapshots: those taken under the mutex are the store
   as long as the call has it, so they are the collections around its own entry of
   `history`. That the *recaptured* ones are needs that nobody commits between the adapter
   call and the end of the lock (`CommitsAlone`, from `MutexOK`). Nothing is said of an event that a listener has
   edited, and `edited` is false again when the after-event starts.
7. *Atomicity.* The refinement needs `AnswersOK` and `HistoryOK`. Every step maps to a step
   of one call or to a stutter, because a thread moves one call (`AbstractStateMoves`). A
   commit maps to the instant of effect: its operations are all applied, to the store of
   that moment (`CommitTakesAll`). A reply maps to the answer that fits, by `AnswersOK`.
   The operators of the instance are those of the service (`SameEffect`, `SameCandidates`,
   `SameStatus`); a target that is away at another moment does no harm (`AppliedAnywhere`).
8. *Adapter.* `SimulationAgrees` and `LimitPredictionSound` follow from the lemmas of 1,
   in any store of its type. `MovesArrive` is a case split over the three operations that
   move, with source and destination alike or not.
9. *Gate.* One invariant per hook: `LeaseOK` (on a platform with a lease, a hook in its
   protected phases holds it), `VetoOK` (once the answer
   is given, a write whose veto stands is withheld) and `TrailOK` (how many writes and
   records there are in each phase, with a record missing only if the sink threw, and that
   the kept snapshots are those of the write). The limit needs `LimitsOK` besides: whatever an
   allowed hook is about to write still fits *now*. This is where the lease counts: without
   it a call of the service falsifies `LimitsOK` between the second check and the write.
   `Guarded` collects what the proof needed of the platform: the lease, the second check, and
   that the hook both asks beforehand and can prevent the write.
10. *Bus.* `BusInv`: an id that was given back is not subscribed again (`NeverAgain`), a
    publication is filled once and then only hands its least pending id on (`Shape`, with
    order and silence as further conjuncts), and while it copies, its thread has the
    mutex and its copy is what matches now (`Copying`). The last one is what makes both
    copies those of one moment. `Heard` adds that delivered and pending listeners are together
    those that match among the ones that stayed. `MatchesConcerns` connects the code's
    loop over collections with the property's, which asks what a filter covers.
11. *Registry.* Neither property is inductive. `RegistryInv` adds that the registry knows
    the mutex of every service that is not just being installed (`Registered`), no mutex is
    registered twice (`Injective`), a new one is known to its creator alone (`Fresh`), and it is
    created only when no service of the adapter has one (`Alone`). `Lifecycle` orders the two
    members, which is why an address can be reused only after its mutex is gone.
12. *Activation.* The hash is followed from the activated manifest into the header
    (`Opened`), every package and server (`HashesFlow`), and the adapter, which is verified
    only if the hash that was read is the one in the package (`PluginOK`).
13. *Access.* Normalising yields kept characters only (`NormalizeIsPlain`) and
    twice is once (`NormalizeTwice`); since the separator is none of them, a name that begins
    with two prefixes has one normalised id behind both (`OneIdPerName`). `ListingAgrees` puts
    the filter of a listing beside the checks of a read; that only valid names are stored
    (`NamesStayValid`) is the invariant it needs. For the capabilities, each call asks only
    for flags that `completeControl` demands (`CallsSupported`, `TargetSupported`).

14. *Python service.* `RefInv` is inductive and has five parts: types; `CapturesOK` (while
    a call captures there is a collection left, now in two phases, because `Dispatch`
    captures again); `RefStackOK`; `LocksOK`; and `RefAnswersOK`. `LocksOK` is an
    equivalence: a service lock is held by exactly the thread inside that service's `with`
    block, the adapter's guard by exactly the thread in phase "locked"; `LocksNest` reads
    off it. `RefAnswersOK` differs from `AnswersOK` in the status "Interrupted", which says
    nothing about the commit: after the write the results are complete with either status,
    so the `finally` block audits all of them. An interrupted return maps to a stutter of
    `AtomicCalls`, since its caller gets no answer; `WriteUnderGuard` maps to the instant
    of effect.
15. *Strings.* `isValidUtf8` is a function defined by recursion from the back, so what is
    proved is what any function with that equation is like: there is one (`ReaderExists`),
    and it is true at the first position exactly if some set of positions is closed under
    what the loop consumes (`ReaderFinds`, by the last position at which it could be wrong).
    Such a set is a way to cut the string (`CutsAreRuns`), because what the loop consumes at
    once is one encoded scalar value (`UnitAt`), by the arithmetic of one to four bytes.
    `ParserUnique` is the same argument for `parseString`: a function that satisfies its
    equation is the one it computes. For an escaped string that is the function that gives
    each position the rest of the string, for a pair of escapes one with three values.
16. *Hash.* `HashInv`: what was fed to the compression function and what is buffered, put
    behind each other, is a prefix of the padded message, and the first part is whole
    blocks. Behind the mark either nothing was added yet or a block was filled up with
    fewer zeros than the length has bytes. That the zeros are then as many as the standard
    asks for is that one number below `BlockSize` completes a block (`OneBlockApart`).

Only model-checked:

- `RoundTrip`, `TruncationRefused` and `NothingDropped` of `CollectionJson`: its parser is three
  operators that call each other, declared `RECURSIVE`, in which the prover has no
  arithmetic; and what they make of nested data is an induction over that data, for which the
  provers have no rule. Positions in a string were enough for `Utf8`; a document has members that
  are documents.
- `EveryCallReturns` and `EveryHookReturns`: liveness under fairness is out of the prover's reach.

## 5. What is not modelled

- The convenience wrappers build one of the nine operations and call `apply`.
- Text below what the properties tell apart: the spelling of numbers, length limits of
  values, estimates of sizes, white space in documents, version strings, symbol names.
- Hash collisions, the compression function of SHA-256, exhaustion of memory. A change
  hidden by a collision of two revisions is therefore caught by no property.
- Snapshots in results of failed calls and in before-events. A listener that edits an
  after-event takes all snapshots out of it, which stands for every other edit of them; edits
  of the event's other fields are one flag. The gate keeps the snapshots of the result that
  the hook passed in, of which listeners get copies. The transaction identifier is the call.
- In Python, a sink that raises what `except Exception` does not catch: the remaining
  records of that call are not written (`python/endstone_dynamic_properties/service.py:738`).
- `subscribe` with an empty listener, which returns 0 and subscribes nothing.
- A callback that does not return. A failure handler that throws is modelled in `EventBus`.
- A target's availability cannot flip between two captures under the mutex in the model
  (it can in the code; the outcome is one of those modelled, or the same refusal).
- The native bridge and the hooks of the host are not in the repository. `ActivationGate`
  knows that a bridge is complete or not, `ExternalGate` what the documents ask of a hook.
- The bus, policy, codec and reads of the Python package are the algorithms of the C++ ones
  and are not modelled again. The tools besides the activation are single-shot checks of
  files; tests and examples were read as statements of intent.

What no property covers, because the code leaves it open on purpose or bounds it nowhere:

- A record at which the sink throws is lost without a trace if no failure handler is set, as
  by default, or if the handler throws too (`service.cpp:440`; `finding_silent_loss`).
- The limit also refuses operations that shrink a collection which another service filled
  beyond this one's limit (`service.cpp:340`).
- Two commits may be published and audited in the opposite order (`service.cpp:481`):
  events and audits happen outside the mutex.
- A listener that writes unconditionally triggers itself without bound (`events.cpp:54`).
- Plugin ids that normalise alike share a namespace, as `docs/SECURITY_AND_COLLECTIONS.md:8`
  says; `NamespacesApart` is stated about normalised ids for that reason.
- A target may carry fields its kind does not use (`access_policy.cpp:58`); two such targets are
  two places to the adapter.
- A client that keeps the provider after `onDisable` keeps using it; what it reaches was
  activated (`ServesOnlyActivated`).

## 6. Where the code and its documents differ

| Configuration | Document | Code |
|---|---|---|
| `finding_veto` | `docs/TRANSACTIONS.md:37`: "any cancellation stops the transaction before adapter writes" | a later listener can clear the flag an earlier one set (`service.cpp:553`) |
| `finding_preflight` | `docs/TRANSACTIONS.md:18`: an expected revision "is checked during preflight and again immediately before commit" | the preflight compares no revision, so events are published for calls that are already stale (`service.cpp:525`) |
| `finding_rollback` | `docs/TRANSACTIONS.md:41`: audit entries "include cancellation or rollback state" | a failed transaction that did not ask for rollback is audited as applied, not rolled back, although nothing was written (`in_memory_adapter.cpp:292`) |
| `finding_silent_loss` | `README.md:31`: "Audit-sink failures are reported without replacing the committed result" | without a failure handler, the default, nobody is told (`service.cpp:440`); `docs/API.md:117` speaks only of a configured callback |
| `finding_migrated` | `docs/TRANSACTIONS.md:43`: listener edits cannot replace the identifier or committed snapshots | `CollectionMigrated` is copied from the event that after-listeners had by reference (`service.cpp:397`) |
| `finding_reference_before` | `docs/TRANSACTIONS.md:40`: the after-event "carries snapshots recaptured from committed state" | the Python transaction publishes the before-snapshots of its first event (`python/endstone_dynamic_properties/service.py:800`, `831`) |
| `finding_reference_gate` | `docs/ARCHITECTURE.md:49`: after listeners "the outer request is revalidated against the resulting state" | the Python gate does not validate again (`python/endstone_dynamic_properties/service.py:927`) |
| `finding_running_image` | `README.md:36`: "Exact running executable SHA-256 and size match the reviewed" manifest | size and hash are read from a path whose file may have been replaced since the start (`native_binary_identity.cpp:230-242`) |
| `finding_bridge` | `README.md:40`: "The reviewed native bridge source matches its recorded SHA-256" | CMake asks only that the file exists (`CMakeLists.txt:72-77`) |

The first two are runs of the project. The others are configurations kept beside them, each
of which shows a violation of the property named in it. None of the first five affects what a
commit writes: the commit itself compares revisions, checks limits, and reads the flag as
the last listener left it.

## 7. Plan

Done: every module of section 2, its run, and the theorems of section 4. What a next step
would be:

1. `CollectionJson` with its parser as one recursive function over positions, like the one of
   `Utf8`. A parser that accepts a prefix of a document stops at the same place in the
   whole of it, so `TruncationRefused` would follow from where the parser stops in an
   exported document, by induction over its entries.
2. The text of numbers and the length limits of values over bounded inputs.

## 8. Running it

    tlc -config race.cfg MCService.tla             # also calls, finding_*
    tlc -config adapter.cfg MCAdapter.tla
    tlc -config reference.cfg MCReferenceService.tla
    tlc -config bus.cfg MCEventBus.tla
    tlc -config registry.cfg MCMutexRegistry.tla
    tlc -config gate.cfg MCExternalGate.tla
    tlc -config activation.cfg MCActivationGate.tla
    tlc -config access.cfg MCServiceAccess.tla
    tlc -config inputs.cfg MCInputs.tla
    tlapm DynamicPropertyServiceProofs.tla         # and each other *Proofs module

The `finding_*` configurations are expected to report a violation, all others none.
