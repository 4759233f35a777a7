----------------------- MODULE DynamicPropertyService -----------------------
(***************************************************************************)
(* DynamicPropertyService::apply and ::transact (src/service.cpp) over the *)
(* in-memory adapter, called by several threads through several services   *)
(* that share one adapter, one event bus and one audit sink.               *)
(*                                                                         *)
(* A call passes through the phases                                        *)
(*    preflight   validatePropertyLimits, one capture per collection       *)
(*    before      BeforeMutation / BeforeTransaction, one listener a step  *)
(*    locked      mutation_mutex_ held, final validation passed            *)
(*    committed   a transaction's adapter call is done, mutex still held   *)
(*    after       AfterMutation / AfterTransaction                         *)
(*    migrated    CollectionMigrated                                       *)
(*    audit       one audit record a step                                  *)
(*    returned    the caller has its result                                *)
(* A listener is arbitrary code on the publishing thread: while it runs it *)
(* may call the service again, so a thread has a stack of calls, linked by *)
(* their field `parent`.                                                   *)
(***************************************************************************)
EXTENDS PropertyStore

CONSTANTS
  Threads,        \* the threads that call the services
  Services,       \* the DynamicPropertyService objects that wrap the adapter
  Limit,          \* limits_.max_properties_per_collection of each service
  MaxOperations,  \* limits_.max_transaction_operations
  Capabilities,   \* what adapter_->capabilities() reports
  Namespace,      \* the collection names each plugin's prefix covers
  Requests,       \* the calls that may be made, each at most once
  Body,           \* what each of them asks for
  Listeners,      \* the number of listeners subscribed to the event bus
  ListenerPowers, \* what listeners may do besides returning
  SinkMayThrow,   \* whether the audit sink may throw
  FailureHandlers, \* what audit_failure_handler_ may be then, see Handlers
  FlakyTargets,   \* the targets that come and go (setTargetAvailable)
  InitialStore,   \* what earlier calls left in the adapter
  NoCall,
  NoThread

Context == [plugin_id : DOMAIN Namespace, raw_admin : BOOLEAN]

Request ==
  [form : {"apply", "transact"}, service : Services, context : Context,
   operations : Seq(Operation), force : BOOLEAN,
   rollback_on_failure : BOOLEAN, require_atomic : BOOLEAN]

ASSUME LimitAssumption == Limit \in [Services -> Nat] /\ MaxOperations \in Nat

ASSUME RequestAssumption ==
  \A c \in Requests :
    Body[c] \in Request /\ (Body[c].form = "apply" => Len(Body[c].operations) = 1)

ASSUME StoreAssumption == InitialStore \in Store

\* No handler, which is the default, one that returns, and one that throws.
Handlers == {"none", "returns", "throws"}

ASSUME SchedulerAssumption ==
  /\ NoCall \notin Requests
  /\ NoThread \notin Threads
  /\ Listeners \in Nat
  /\ SinkMayThrow \in BOOLEAN
  /\ FailureHandlers \subseteq Handlers
  /\ FlakyTargets \subseteq Targets

VARIABLES
  store,           \* store_ of the in-memory adapter
  available,       \* the targets that are available
  mutation_mutex,  \* the recursive mutex that services of one adapter share
  running,         \* the innermost call of each thread
  call,            \* the activation record of each call
  audits,          \* the sink's records, grouped by transaction
  unrecorded,      \* the records that the sink threw at, and the handler's answer
  history          \* every commit in order, with the stores around it

vars ==
  <<store, available, mutation_mutex, running, call, audits, unrecorded, history>>

Ops(c) == Body[c].operations

Refs(c) == InvolvedRefs(Ops(c))

-----------------------------------------------------------------------------
(* Admission: everything that is decided from the request alone.           *)

CanAccess(context, ref) ==
  context.raw_admin \/ ref.collection \in Namespace[context.plugin_id]

RequiredCapability(op) ==
  CASE op.kind = "set_property" -> "write"
    [] op.kind = "set_many" -> "bulk_set"
    [] op.kind \in {"remove_property", "remove_many"} -> "remove"
    [] op.kind = "clear_collection" -> "clear"
    [] op.kind = "rename_collection" -> "collection_rename"
    [] op.kind = "transfer_property" -> "property_copy_move"
    [] op.kind = "transfer_collection" -> "collection_copy_move"
    [] op.kind = "import_collection" -> "export_import"

\* How many properties a bulk operation lists.
BulkSize(op) ==
  CASE op.kind = "set_many" -> Cardinality(KeysOf(op.values))
    [] op.kind = "remove_many" -> Cardinality(op.keys)
    [] op.kind = "import_collection" -> Cardinality(KeysOf(op.properties))
    [] OTHER -> 0

\* validateOperation.
OperationStatus(op, context, service) ==
  IF \E ref \in {Source(op), Destination(op)} : ~ CanAccess(context, ref)
  THEN "PermissionDenied"
  ELSE IF RequiredCapability(op) \notin Capabilities THEN "Unsupported"
  ELSE IF BulkSize(op) > Limit[service] \/ ConflictingExpectations(op) THEN "InvalidValue"
  ELSE IF MovesOntoItself(op)
  THEN IF op.kind = "transfer_property" THEN "InvalidKey" ELSE "InvalidCollection"
  ELSE "Applied"

\* Mutation: only the first operation of a transaction is validated.
FirstValidationStatus(c) ==
  IF Ops(c) = <<>> THEN "Applied"
  ELSE OperationStatus(Ops(c)[1], Body[c].context, Body[c].service)

\* The first error of validateOperation over the operations of a call.
ValidationStatus(c) ==
  LET Status(i) == OperationStatus(Ops(c)[i], Body[c].context, Body[c].service)
      bad == {i \in DOMAIN Ops(c) : Status(i) # "Applied"} IN
  IF bad = {} THEN "Applied"
  ELSE Status(CHOOSE i \in bad : \A j \in bad : i <= j)

\* What apply or transact decides before it looks at the store.
Admission(c) ==
  IF Body[c].form = "transact" /\ Len(Ops(c)) > MaxOperations THEN "InvalidValue"
  ELSE IF /\ Body[c].form = "transact"
          /\ Body[c].require_atomic
          /\ "atomic_transactions" \notin Capabilities
  THEN "Unsupported"
  ELSE IF Body[c].force /\ ~ Body[c].context.raw_admin THEN "PermissionDenied"
  ELSE ValidationStatus(c)

-----------------------------------------------------------------------------
(* Activation records and the stack of a thread.  `vetoed` and `failed`    *)
(* also remember, for the properties, that a before-listener cancelled or  *)
(* threw.  After the commit `before` and `after` are the snapshots of the  *)
(* event that the listeners are handed, and `edited` says that one of them *)
(* has overwritten it.                                                     *)

NoSnapshots == [r \in {} |-> Missing]

Statuses ==
  {"Applied", "Cancelled", "Conflict", "InvalidCollection", "InvalidKey",
   "InvalidValue", "NotFound", "PermissionDenied", "TargetUnavailable",
   "TransactionFailed", "Unsupported"}

Idle ==
  [phase |-> "idle", parent |-> NoCall, at |-> 0, captured |-> NoSnapshots,
   cancelled |-> FALSE, vetoed |-> FALSE, failed |-> FALSE, edited |-> FALSE,
   status |-> "Applied",
   results |-> <<>>, rolled_back |-> FALSE,
   before |-> NoSnapshots, after |-> NoSnapshots]

\* Mutation: a transaction that is given up is audited as one operation.
OneForAll(c, status) == <<status>>

\* Every operation of the call ends with the same status.
All(c, status) == [i \in 1..Len(Ops(c)) |-> status]

\* What remains of a call once its caller has the result.
Return(t, c, status) ==
  /\ running' = [running EXCEPT ![t] = call[c].parent]
  /\ call' = [call EXCEPT ![c] =
                [Idle EXCEPT !.phase = "returned", !.status = status,
                             !.failed = call[c].failed,
                             !.cancelled = call[c].cancelled,
                             !.vetoed = call[c].vetoed,
                             !.results = call[c].results]]

InPhase(t, phase) == running[t] # NoCall /\ call[running[t]].phase = phase

Publishing == {"before", "after", "migrated"}

\* The thread is inside a listener.
InListener(t) ==
  /\ running[t] # NoCall
  /\ call[running[t]].phase \in Publishing
  /\ call[running[t]].at <= Listeners

\* A thread calls from the top level, or from the listener it is running.
MayCall(t) == running[t] = NoCall \/ (InListener(t) /\ "call" \in ListenerPowers)

-----------------------------------------------------------------------------
Init ==
  /\ store = InitialStore
  /\ available = Targets
  /\ mutation_mutex = [owner |-> NoThread, depth |-> 0]
  /\ running = [t \in Threads |-> NoCall]
  /\ call = [c \in Requests |-> Idle]
  /\ audits = [c \in Requests |-> <<>>]
  /\ unrecorded = [c \in Requests |-> {}]
  /\ history = <<>>

\* apply or transact returns at once: an error, or nothing to do.
ReturnAtOnce(t, c) ==
  /\ MayCall(t)
  /\ call[c].phase = "idle"
  /\ Ops(c) = <<>> \/ Admission(c) # "Applied"
  /\ call' = [call EXCEPT ![c] =
                [Idle EXCEPT !.phase = "returned",
                             !.status = IF Ops(c) = <<>> THEN "Applied" ELSE Admission(c)]]
  /\ UNCHANGED <<store, available, mutation_mutex, running, audits, unrecorded, history>>

Begin(t, c) ==
  /\ MayCall(t)
  /\ call[c].phase = "idle"
  /\ Ops(c) # <<>> /\ Admission(c) = "Applied"
  /\ call' = [call EXCEPT ![c] = [Idle EXCEPT !.phase = "preflight", !.parent = running[t]]]
  /\ running' = [running EXCEPT ![t] = c]
  /\ UNCHANGED <<store, available, mutation_mutex, audits, unrecorded, history>>

\* The collection that validatePropertyLimits captures next.
NextRef(c) == CHOOSE r \in Refs(c) : r \notin DOMAIN call[c].captured

WithNext(c) ==
  [r \in DOMAIN call[c].captured \cup {NextRef(c)} |->
     IF r = NextRef(c) THEN store[r] ELSE call[c].captured[r]]

\* The unlocked preflight.  The adapter is locked for one capture at a time,
\* so other calls may commit between two captures.
PreflightCapture(t) ==
  LET c == running[t]
      captured == WithNext(c)
      complete == DOMAIN captured = Refs(c)
      refused == ExceedsLimit(captured, Ops(c), Limit[Body[c].service]) IN
  /\ InPhase(t, "preflight")
  /\ \/ /\ NextRef(c).target \notin available
        /\ Return(t, c, "TargetUnavailable")
     \/ /\ NextRef(c).target \in available /\ ~ complete
        /\ call' = [call EXCEPT ![c].captured = captured]
        /\ UNCHANGED running
     \/ /\ NextRef(c).target \in available /\ complete /\ refused
        /\ Return(t, c, "InvalidValue")
     \/ /\ NextRef(c).target \in available /\ complete /\ ~ refused
        /\ call' = [call EXCEPT ![c].captured = captured,
                                ![c].phase = "before", ![c].at = 1]
        /\ UNCHANGED running
  /\ UNCHANGED <<store, available, mutation_mutex, audits, unrecorded, history>>

-----------------------------------------------------------------------------
(* DynamicPropertyEventBus::publish: the listeners in subscription order.  *)

ListenerReturns(t) ==
  /\ InListener(t)
  /\ call' = [call EXCEPT ![running[t]].at = @ + 1]
  /\ UNCHANGED <<store, available, mutation_mutex, running, audits, unrecorded, history>>

\* A listener sets or clears event.cancelled, whoever set it before.
ListenerDecides(t) ==
  /\ InListener(t) /\ InPhase(t, "before")
  /\ \E cancelled \in {b \in BOOLEAN :
                         (IF b THEN "cancel" ELSE "approve") \in ListenerPowers} :
       call' = [call EXCEPT ![running[t]].cancelled = cancelled,
                            ![running[t]].vetoed = @ \/ cancelled,
                            ![running[t]].at = @ + 1]
  /\ UNCHANGED <<store, available, mutation_mutex, running, audits, unrecorded, history>>

\* publish catches what a listener throws; only before-events count it.
ListenerThrows(t) ==
  /\ InListener(t)
  /\ "throw" \in ListenerPowers
  /\ call' = [call EXCEPT ![running[t]].failed = @ \/ InPhase(t, "before"),
                          ![running[t]].at = @ + 1]
  /\ UNCHANGED <<store, available, mutation_mutex, running, audits, unrecorded, history>>

\* A listener overwrites fields of the event, which it was handed by
\* reference: the snapshots of an after-event are lost to those that follow.
\* (Those of a before-event, which the model leaves out, are nobody else's.)
ListenerEdits(t) ==
  LET Overwritten(snapshots) == IF InPhase(t, "before") THEN snapshots ELSE NoSnapshots IN
  /\ InListener(t)
  /\ "edit" \in ListenerPowers
  /\ call' = [call EXCEPT ![running[t]].edited = TRUE, ![running[t]].at = @ + 1,
                          ![running[t]].before = Overwritten(@),
                          ![running[t]].after = Overwritten(@)]
  /\ UNCHANGED <<store, available, mutation_mutex, running, audits, unrecorded, history>>

\* All listeners of the current event have run.
Published(t, phase) == InPhase(t, phase) /\ call[running[t]].at > Listeners

\* Mutation: only the flag of the event counts.
StoppedByFlag(c) == call[c].cancelled

Stopped(c) == call[c].cancelled \/ call[c].failed

\* A listener cancelled the event or threw: audit the call as cancelled.
Cancel(t) ==
  LET c == running[t] IN
  /\ Published(t, "before")
  /\ Stopped(c)
  /\ call' = [call EXCEPT ![c].phase = "audit", ![c].at = 1, ![c].status = "Cancelled",
                          ![c].results = All(c, "Cancelled")]
  /\ UNCHANGED <<store, available, mutation_mutex, running, audits, unrecorded, history>>

-----------------------------------------------------------------------------
(* The commit, under mutation_mutex_.                                      *)

CanLock(t) == mutation_mutex.owner \in {NoThread, t}

\* Mutation: taking the mutex does not count.
LockUncounted(t) ==
  mutation_mutex' = [owner |-> t, depth |-> mutation_mutex.depth]

Lock(t) ==
  mutation_mutex' = [owner |-> t, depth |-> mutation_mutex.depth + 1]

\* Mutation: the scope of the lock guard ends too late.
UnlockNever(t) == UNCHANGED mutation_mutex

Unlock(t) ==
  mutation_mutex' =
    [owner |-> IF mutation_mutex.depth = 1 THEN NoThread ELSE t,
     depth |-> mutation_mutex.depth - 1]

\* Mutation: the captures of the preflight are used again.
CaptureAtPreflight(c) == call[c].captured

\* The snapshots of those collections of the call that can be captured.
Capture(c) == [r \in {r \in Refs(c) : r.target \in available} |-> store[r]]

\* Mutation: limits are checked in the preflight only.
RevalidationWithoutLimits(c) ==
  IF \E r \in Refs(c) : r.target \notin available THEN "TargetUnavailable" ELSE "Applied"

\* validateOperation and validatePropertyLimits on the committed state.
Revalidation(c) ==
  IF ValidationStatus(c) # "Applied" THEN ValidationStatus(c)
  ELSE IF \E r \in Refs(c) : r.target \notin available THEN "TargetUnavailable"
  ELSE IF ExceedsLimit(Capture(c), Ops(c), Limit[Body[c].service]) THEN "InvalidValue"
  ELSE "Applied"

\* The final validation passes.  All writers hold the mutex, so its captures
\* see one store; only availability can still change.
LockAndRevalidate(t) ==
  LET c == running[t] IN
  /\ Published(t, "before")
  /\ ~ Stopped(c)
  /\ CanLock(t)
  /\ Revalidation(c) = "Applied"
  /\ Lock(t)
  /\ call' = [call EXCEPT ![c].phase = "locked", ![c].edited = FALSE,
                          ![c].before = IF Body[c].form = "transact" THEN Capture(c) ELSE @]
  /\ UNCHANGED <<store, available, running, audits, unrecorded, history>>

\* Mutation: a call whose final validation fails publishes its event again.
RetryCommit(t) ==
  /\ Published(t, "before")
  /\ ~ Stopped(running[t])
  /\ CanLock(t)
  /\ Revalidation(running[t]) # "Applied"
  /\ call' = [call EXCEPT ![running[t]].at = 1]
  /\ UNCHANGED <<store, available, mutation_mutex, running, audits, unrecorded, history>>

\* The final validation fails: the mutex is released, nothing was attempted.
RefuseCommit(t) ==
  LET c == running[t] IN
  /\ Published(t, "before")
  /\ ~ Stopped(c)
  /\ CanLock(t)
  /\ Revalidation(c) # "Applied"
  /\ call' = [call EXCEPT ![c].phase = "audit", ![c].at = 1,
                          ![c].status = Revalidation(c),
                          ![c].results = All(c, Revalidation(c))]
  /\ UNCHANGED <<store, available, mutation_mutex, running, audits, unrecorded, history>>

\* Mutation: the candidate is never swapped in.
CommitWithoutSwap(c, after) ==
  /\ UNCHANGED store
  /\ history' = Append(history, [call |-> c, before |-> store, after |-> after])

\* The adapter installs a new store.
Commit(c, after) ==
  /\ store' = after
  /\ history' = Append(history, [call |-> c, before |-> store, after |-> after])

\* adapter_->apply, and the mutex is released.
AdapterApply(t) ==
  LET c == running[t]
      op == Ops(c)[1]
      status == ApplyStatus(store, available, op, Body[c].force)
      after == Effect(store, op) IN
  /\ InPhase(t, "locked") /\ Body[c].form = "apply"
  /\ Unlock(t)
  /\ \/ /\ status = "Applied"
        /\ Commit(c, after)
        /\ call' = [call EXCEPT ![c].phase = "after", ![c].at = 1,
                                ![c].results = <<status>>,
                                ![c].before = [r \in Refs(c) |-> store[r]],
                                ![c].after = [r \in Refs(c) |-> after[r]]]
     \/ /\ status # "Applied"
        /\ call' = [call EXCEPT ![c].phase = "after", ![c].at = 1,
                                ![c].status = status, ![c].results = <<status>>]
        /\ UNCHANGED <<store, history>>
  /\ UNCHANGED <<available, running, audits, unrecorded>>

\* Mutation: one operation that can be applied is enough.
SucceedsPartly(statuses) == \E i \in DOMAIN statuses : statuses[i] = "Applied"

Succeeds(statuses) == \A i \in DOMAIN statuses : statuses[i] = "Applied"

\* Mutation: a failed transaction is not marked as rolled back.
NeverRolledBack(c) == FALSE

\* rolled_back of a transaction that fails.
RolledBack(c) == Body[c].rollback_on_failure

\* adapter_->transact: all operations on a candidate store, then a swap.
AdapterTransact(t) ==
  LET c == running[t]
      statuses == TransactStatuses(store, available, Ops(c), Body[c].force) IN
  /\ InPhase(t, "locked") /\ Body[c].form = "transact"
  /\ \/ /\ Succeeds(statuses)
        /\ Commit(c, Candidates(store, Ops(c))[Len(Ops(c))])
        /\ call' = [call EXCEPT ![c].phase = "committed", ![c].results = statuses]
     \/ /\ ~ Succeeds(statuses)
        /\ call' = [call EXCEPT ![c].phase = "committed", ![c].results = statuses,
                                ![c].status = "TransactionFailed",
                                ![c].rolled_back = RolledBack(c)]
        /\ UNCHANGED <<store, history>>
  /\ UNCHANGED <<available, mutation_mutex, running, audits, unrecorded>>

\* The after-snapshots of a transaction, captured before the mutex is released.
RecaptureAndUnlock(t) ==
  LET c == running[t] IN
  /\ InPhase(t, "committed")
  /\ Unlock(t)
  /\ call' = [call EXCEPT ![c].phase = "after", ![c].at = 1, ![c].after = Capture(c)]
  /\ UNCHANGED <<store, available, running, audits, unrecorded, history>>

-----------------------------------------------------------------------------
(* After the commit: the remaining events, the audit, the reply.           *)

\* A move of a whole collection is published once more as CollectionMigrated,
\* as a copy of the event that the after-listeners leave.
Migrates(c) ==
  /\ Body[c].form = "apply" /\ call[c].status = "Applied"
  /\ Ops(c)[1].kind = "transfer_collection" /\ Ops(c)[1].remove_source

PublishMigrated(t) ==
  LET c == running[t] IN
  /\ Published(t, "after")
  /\ Migrates(c)
  /\ call' = [call EXCEPT ![c].phase = "migrated", ![c].at = 1]
  /\ UNCHANGED <<store, available, mutation_mutex, running, audits, unrecorded, history>>

BeginAudit(t) ==
  LET c == running[t] IN
  /\ Published(t, "migrated") \/ (Published(t, "after") /\ ~ Migrates(c))
  /\ call' = [call EXCEPT ![c].phase = "audit", ![c].at = 1]
  /\ UNCHANGED <<store, available, mutation_mutex, running, audits, unrecorded, history>>

\* audit() of one operation's result: the sink records it, or throws.  Then
\* nobody hears of it unless a handler is set; if that throws too, it is caught.
Audit(t) ==
  LET c == running[t]
      i == call[c].at IN
  /\ InPhase(t, "audit")
  /\ i <= Len(call[c].results)
  /\ \/ /\ audits' = [audits EXCEPT ![c] =
                        Append(@, [operation |-> i, status |-> call[c].results[i],
                                   rolled_back |-> call[c].rolled_back])]
        /\ UNCHANGED unrecorded
     \/ /\ SinkMayThrow
        /\ \E handler \in FailureHandlers :
             unrecorded' = [unrecorded EXCEPT ![c] =
                              @ \cup {[operation |-> i, handler |-> handler]}]
        /\ UNCHANGED audits
  /\ call' = [call EXCEPT ![c].at = @ + 1]
  /\ UNCHANGED <<store, available, mutation_mutex, running, history>>

Reply(t) ==
  LET c == running[t] IN
  /\ InPhase(t, "audit")
  /\ call[c].at > Len(call[c].results)
  /\ Return(t, c, call[c].status)
  /\ UNCHANGED <<store, available, mutation_mutex, audits, unrecorded, history>>

-----------------------------------------------------------------------------
SetTargetAvailable(target) ==
  /\ available' = IF target \in available THEN available \ {target}
                                          ELSE available \cup {target}
  /\ UNCHANGED <<store, mutation_mutex, running, call, audits, unrecorded, history>>

\* Every request has been made and answered.
Terminated ==
  /\ \A c \in Requests : call[c].phase = "returned"
  /\ UNCHANGED vars

Advance(t) ==
  \/ PreflightCapture(t)
  \/ ListenerReturns(t) \/ ListenerDecides(t) \/ ListenerThrows(t) \/ ListenerEdits(t)
  \/ Cancel(t)
  \/ LockAndRevalidate(t) \/ RefuseCommit(t)
  \/ AdapterApply(t) \/ AdapterTransact(t) \/ RecaptureAndUnlock(t)
  \/ PublishMigrated(t) \/ BeginAudit(t) \/ Audit(t) \/ Reply(t)

Next ==
  \/ \E t \in Threads : Advance(t)
  \/ \E t \in Threads, c \in Requests : ReturnAtOnce(t, c) \/ Begin(t, c)
  \/ \E target \in FlakyTargets : SetTargetAvailable(target)
  \/ Terminated

Spec == Init /\ [][Next]_vars

\* Threads are scheduled and listeners return; nobody has to make a call.
FairSpec == Spec /\ \A t \in Threads : WF_vars(Advance(t))

-----------------------------------------------------------------------------
(* Properties.                                                             *)

Phases ==
  {"idle", "preflight", "before", "locked", "committed", "after", "migrated", "audit",
   "returned"}

\* Captures of some of the collections.
Captures == UNION {[refs -> Snapshot] : refs \in SUBSET CollectionRef}

CallRecord ==
  [phase : Phases, parent : Requests \cup {NoCall}, at : Nat, captured : Captures,
   cancelled : BOOLEAN, vetoed : BOOLEAN, failed : BOOLEAN, edited : BOOLEAN,
   status : Statuses, results : Seq(Statuses), rolled_back : BOOLEAN,
   before : Captures, after : Captures]

AuditRecord == [operation : Nat, status : Statuses, rolled_back : BOOLEAN]

LossRecord == [operation : Nat, handler : Handlers]

CommitRecord == [call : Requests, before : Store, after : Store]

\* Every variable has its type.
TypeOK ==
  /\ store \in Store
  /\ available \subseteq Targets
  /\ mutation_mutex \in [owner : Threads \cup {NoThread}, depth : Nat]
  /\ running \in [Threads -> Requests \cup {NoCall}]
  /\ call \in [Requests -> CallRecord]
  /\ audits \in [Requests -> Seq(AuditRecord)]
  /\ unrecorded \in [Requests -> SUBSET LossRecord]
  /\ history \in Seq(CommitRecord)

\* Callbacks always run outside mutation_mutex_ (service.h:177-179): a thread
\* inside a listener never owns it, so no nested call re-enters a commit that
\* is under way, and no listener can block the other services.
CallbacksOutsideLock ==
  /\ \A t \in Threads : InListener(t) => mutation_mutex.owner # t
  /\ mutation_mutex.depth <= 1

\* A collection that a commit changes holds at most as many properties
\* afterwards as the service that committed it allows, although the limit was
\* computed before the write and other calls and listeners write in between.
CommitsWithinLimit ==
  \A i \in DOMAIN history : \A r \in CollectionRef :
    history[i].after[r] # history[i].before[r] =>
      Cardinality(KeysOf(history[i].after[r].properties))
        <= Limit[Body[history[i].call].service]

\* The revision a call expects of a collection: that of its first operation
\* that involves it.
Expects(c, r) ==
  LET involved == {i \in DOMAIN Ops(c) : r \in {Source(Ops(c)[i]), Destination(Ops(c)[i])}}
      first == CHOOSE i \in involved : \A j \in involved : i <= j IN
  IF Body[c].force \/ involved = {} THEN NoRevision ELSE ExpectedRevision(Ops(c)[first], r)

\* README.md:109: a stale revision never overwrites newer data.  Of two calls
\* that were computed from the same content of a collection the second can
\* only commit if that content is there again.
NoLostUpdate ==
  \A i, j \in DOMAIN history : \A r \in CollectionRef :
    LET expected == Expects(history[i].call, r) IN
    (i < j /\ expected # NoRevision /\ Expects(history[j].call, r) = expected) =>
      \E k \in i..(j - 1) : history[k].after[r] = expected

\* A listener that throws, or whose cancellation stands, before the commit
\* keeps the call from committing.
FailClosed ==
  \A i \in DOMAIN history :
    ~ call[history[i].call].failed /\ ~ call[history[i].call].cancelled

\* A commit changes only collections in the reach of the caller's context.
Isolation ==
  \A i \in DOMAIN history : \A r \in CollectionRef :
    history[i].after[r] # history[i].before[r] =>
      CanAccess(Body[history[i].call].context, r)

\* Until one of them edits the event, the after- and the migration-listeners of
\* a call are shown the collections just before and just after its commit,
\* whatever was committed by others or by listeners meanwhile; and what before-
\* listeners did to their event reaches no after-listener.  (All listeners of an
\* event share it, and CollectionMigrated starts from what they left of it.)
AfterEventTruthful ==
  \A i \in DOMAIN history :
    LET c == history[i].call IN
    /\ call[c].phase = "after" /\ call[c].at = 1 => ~ call[c].edited
    /\ call[c].phase \in {"after", "migrated"} /\ ~ call[c].edited =>
         /\ \A r \in DOMAIN call[c].before : call[c].before[r] = history[i].before[r]
         /\ \A r \in DOMAIN call[c].after : call[c].after[r] = history[i].after[r]
         /\ FlakyTargets = {} => DOMAIN call[c].before = Refs(c) /\ DOMAIN call[c].after = Refs(c)

\* The sink was handed the results of the first n operations, each of them once
\* and in order: it kept `records` and threw at `losses`.
Handed(records, losses, n) ==
  LET kept == {records[k].operation : k \in DOMAIN records}
      lost == {loss.operation : loss \in losses} IN
  /\ kept \cup lost = 1..n /\ kept \cap lost = {}
  /\ \A j, k \in DOMAIN records : j < k => records[j].operation < records[k].operation

AllHanded(c) == Handed(audits[c], unrecorded[c], Len(Ops(c)))

\* README.md:31, :151: every operation of a call that committed or was
\* cancelled has been handed to the audit sink once, in order, when the caller
\* gets its result; throwing after-listeners do not change that, and a sink that
\* throws at one operation still gets the others.  A record is missing only if
\* the sink threw at it (and whether anybody learns of that is the handler's
\* affair, see SinkFailuresReported).
EveryMutationAudited ==
  \A c \in Requests :
    (/\ call[c].phase = "returned"
     /\ call[c].status = "Cancelled" \/ \E i \in DOMAIN history : history[i].call = c)
    => AllHanded(c)

Applications(c) ==
  {k \in DOMAIN audits[c] : audits[c][k].status = "Applied" /\ ~ audits[c][k].rolled_back}

Committed(c) == \E i \in DOMAIN history : history[i].call = c

\* An audit record that says "applied", and not "rolled back", belongs to a
\* call that committed (calls that ask for rollback on failure, the default).
AuditTruthful ==
  \A c \in Requests :
    Body[c].rollback_on_failure /\ Applications(c) # {} => Committed(c)

\* Every call returns to its caller, whatever the other threads do.
EveryCallReturns ==
  \A c \in Requests : call[c].phase # "idle" ~> call[c].phase = "returned"

\* Each call as its caller sees it.
CallState(c) ==
  CASE call[c].phase = "idle" -> "idle"
    [] call[c].phase = "returned" ->
         IF call[c].status = "Applied" THEN "ok" ELSE "refused"
    [] OTHER -> IF Committed(c) THEN "effected" ELSE "open"

Atomic == INSTANCE AtomicCalls WITH
  Calls <- Requests,
  Operations <- [c \in Requests |-> Ops(c)],
  Force <- [c \in Requests |-> Body[c].force],
  state <- [c \in Requests |-> CallState(c)]

\* Calls are atomic and answered truthfully: "applied" exactly when all their
\* operations took effect, at one instant while the call was open.
CallsAreAtomic == Atomic!Spec

-----------------------------------------------------------------------------
(* What the documentation says and the code does not do.                   *)

\* TRANSACTIONS.md:41: "Per-operation audit entries share the coordinator ID
\* and include cancellation or rollback state": an operation that was undone
\* is not recorded as one that was applied for good.
AuditShowsRollback ==
  \A c \in Requests :
    Applications(c) # {} => Committed(c)

\* TRANSACTIONS.md:37: "any cancellation stops the transaction before adapter
\* writes", whichever listener asked for it.
AnyCancellationStops ==
  \A i \in DOMAIN history :
    Body[history[i].call].form = "transact" => ~ call[history[i].call].vetoed

\* TRANSACTIONS.md:18: "An expected revision is checked during preflight and
\* again immediately before commit": no event is published for a call whose
\* expectation the preflight itself saw violated.
PreflightChecksRevisions ==
  \A c \in Requests : call[c].phase = "before" =>
    \A r \in Refs(c) : Expects(c, r) \in {NoRevision, call[c].captured[r]}

\* TRANSACTIONS.md:43: "listener edits to event metadata cannot replace the
\* coordinator transaction ID or committed snapshots": CollectionMigrated
\* starts from the service's own data.
MigrationEventGenuine ==
  \A i \in DOMAIN history :
    LET c == history[i].call IN
    call[c].phase = "migrated" /\ call[c].at = 1 =>
      call[c].before = [r \in Refs(c) |-> history[i].before[r]]

\* README.md:31: "Audit-sink failures are reported without replacing the
\* committed result": somebody is told of every record that is lost.
SinkFailuresReported ==
  \A c \in Requests : \A loss \in unrecorded[c] : loss.handler # "none"
=============================================================================
