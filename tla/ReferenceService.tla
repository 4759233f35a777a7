--------------------------- MODULE ReferenceService ---------------------------
(***************************************************************************)
(* The Python implementation (python/.../service.py) of the coordinator.   *)
(* It differs from the C++ one of DynamicPropertyService in its commit:    *)
(*   - every service has a plain, not recursive lock of its own; services  *)
(*     of one adapter exclude each other by the adapter's recursive lock,  *)
(*     here the variable mutation_mutex, which captures take as well;      *)
(*   - only the limits are checked again under the locks;                  *)
(*   - the before-snapshots of a transaction are those of its first event; *)
(*   - a listener may raise what `except Exception` does not catch.        *)
(* A call passes through two more phases: "dispatch", the snapshots of the *)
(* before-event are captured, and "queued", the service's lock is held and *)
(* the adapter's awaited.                                                  *)
(***************************************************************************)
EXTENDS DynamicPropertyService

VARIABLE service_lock   \* _mutation_lock of each service, and who holds it

refvars == <<vars, service_lock>>

RefInit == Init /\ service_lock = [s \in Services |-> NoThread]

-----------------------------------------------------------------------------
(* The adapter.                                                            *)

\* Whether InMemoryAdapter._apply applies an operation to a store, and why not.
ReferenceStatus(s, op, force) ==
  LET first == RefStatus(s, available, op, force, Source(op))
      second == RefStatus(s, available, op, force, Destination(op)) IN
  IF first # "Applied" THEN first
  ELSE IF second # "Applied" THEN second
  ELSE BranchStatus(s, op)

\* The results of a call's operations, up to the first that fails.
ReferenceResults(c) ==
  LET run == Candidates(store, Ops(c))
      Result(i) == ReferenceStatus(run[i - 1], Ops(c)[i], Body[c].force)
      failing == {i \in DOMAIN Ops(c) : Result(i) # "Applied"}
      last == IF failing = {} THEN Len(Ops(c))
              ELSE CHOOSE i \in failing : \A j \in failing : i <= j IN
  [i \in 1..last |-> Result(i)]

\* _validate_property_limits on collections that were captured as `captured`.
ReferenceLimits(c, captured) ==
  IF DOMAIN captured # Refs(c) THEN "TargetUnavailable"
  ELSE IF ExceedsLimit(captured, Ops(c), Limit[Body[c].service]) THEN "InvalidValue"
  ELSE "Applied"

-----------------------------------------------------------------------------
(* Before the commit.                                                      *)

\* The preflight, one capture a step; every method of the adapter takes its
\* lock.
ReferencePreflight(t) ==
  LET c == running[t]
      captured == WithNext(c)
      complete == DOMAIN captured = Refs(c) IN
  /\ InPhase(t, "preflight")
  /\ CanLock(t)
  /\ \/ NextRef(c).target \notin available /\ Return(t, c, "TargetUnavailable")
     \/ /\ NextRef(c).target \in available /\ ~ complete
        /\ call' = [call EXCEPT ![c].captured = captured]
        /\ UNCHANGED running
     \/ /\ NextRef(c).target \in available /\ complete
        /\ ReferenceLimits(c, captured) # "Applied"
        /\ Return(t, c, ReferenceLimits(c, captured))
     \/ /\ NextRef(c).target \in available /\ complete
        /\ ReferenceLimits(c, captured) = "Applied"
        /\ call' = [call EXCEPT ![c].captured = NoSnapshots, ![c].phase = "dispatch",
                                ![c].at = 1]
        /\ UNCHANGED running
  /\ UNCHANGED <<store, available, mutation_mutex, audits, unrecorded, history, service_lock>>

\* The before-event's collections are captured again, one by one.
Dispatch(t) ==
  LET c == running[t]
      visited == WithNext(c)
      seen == IF NextRef(c).target \in available THEN {NextRef(c)} ELSE {} IN
  /\ InPhase(t, "dispatch")
  /\ CanLock(t)
  /\ call' = [call EXCEPT
       ![c].captured = visited,
       ![c].before = [r \in DOMAIN @ \cup seen |-> visited[r]],
       ![c].phase = IF DOMAIN visited = Refs(c) THEN "before" ELSE "dispatch"]
  /\ UNCHANGED <<store, available, mutation_mutex, running, audits, unrecorded, history,
                 service_lock>>

\* Mutation: no `finally`.
LeavesAtOnce == "returned"

\* Where an interrupt of an after-listener leads.
AfterInterrupt == "audit"

\* A listener raises KeyboardInterrupt, SystemExit or the like.  Before the
\* commit it leaves apply or transact at once, after it `finally` audits first.
ListenerInterrupts(t) ==
  LET c == running[t] IN
  /\ InListener(t) /\ "interrupt" \in ListenerPowers
  /\ IF InPhase(t, "before")
     THEN Return(t, c, "Interrupted")
     ELSE /\ call' = [call EXCEPT ![c].phase = AfterInterrupt, ![c].at = 1,
                                  ![c].status = "Interrupted"]
          /\ UNCHANGED running
  /\ UNCHANGED <<store, available, mutation_mutex, audits, unrecorded, history, service_lock>>

-----------------------------------------------------------------------------
(* The commit: `with self._mutation_lock, self.adapter.mutation_guard()`.  *)

Guard(t) == CanLock(t) /\ Lock(t)

LockService(t) ==
  LET c == running[t] IN
  /\ Published(t, "before") /\ ~ Stopped(c)
  /\ service_lock[Body[c].service] = NoThread
  /\ service_lock' = [service_lock EXCEPT ![Body[c].service] = t]
  /\ call' = [call EXCEPT ![c].phase = "queued", ![c].edited = FALSE]
  /\ UNCHANGED <<store, available, mutation_mutex, running, audits, unrecorded, history>>

\* Mutation: the lock is kept for the after-event.
ReleaseLate(t) == UNCHANGED service_lock

ReleaseService(t) ==
  service_lock' = [service_lock EXCEPT ![Body[running[t]].service] = NoThread]

\* The check under both locks passes, or it fails and both are released.
CheckUnderGuard(t) ==
  LET c == running[t]
      status == ReferenceLimits(c, Capture(c)) IN
  /\ InPhase(t, "queued")
  /\ \/ /\ status = "Applied"
        /\ Guard(t)
        /\ call' = [call EXCEPT ![c].phase = "locked"]
        /\ UNCHANGED service_lock
     \/ /\ status # "Applied"
        /\ CanLock(t) /\ UNCHANGED mutation_mutex
        /\ ReleaseService(t)
        /\ call' = [call EXCEPT ![c].phase = "audit", ![c].at = 1, ![c].status = status,
                                ![c].results = All(c, status)]
  /\ UNCHANGED <<store, available, running, audits, unrecorded, history>>

\* What apply keeps of the snapshots, and what transact passes on.
BeforeKept(c) ==
  IF Body[c].form = "transact" THEN call[c].before ELSE [r \in Refs(c) |-> store[r]]

\* adapter.apply or adapter.transact, the after-snapshots, and both locks are
\* released.
WriteUnderGuard(t) ==
  LET c == running[t]
      results == ReferenceResults(c)
      after == Candidates(store, Ops(c))[Len(Ops(c))]
      available_refs == {r \in Refs(c) : r.target \in available} IN
  /\ InPhase(t, "locked")
  /\ Unlock(t) /\ ReleaseService(t)
  /\ \/ /\ Succeeds(results)
        /\ Commit(c, after)
        /\ call' = [call EXCEPT ![c].phase = "after", ![c].at = 1, ![c].results = results,
                                ![c].before = BeforeKept(c),
                                ![c].after = [r \in available_refs |-> after[r]]]
     \/ /\ ~ Succeeds(results)
        /\ call' = [call EXCEPT
             ![c].phase = "after", ![c].at = 1, ![c].results = results,
             ![c].status = IF Body[c].form = "apply" THEN results[1] ELSE "TransactionFailed",
             ![c].rolled_back = Body[c].form = "transact" /\ RolledBack(c),
             ![c].after = IF Body[c].form = "apply" THEN NoSnapshots ELSE Capture(c)]
        /\ UNCHANGED <<store, history>>
  /\ UNCHANGED <<available, running, audits, unrecorded>>

-----------------------------------------------------------------------------
\* The steps that are the same in both implementations.
SharedStep(t) ==
  /\ \/ ListenerReturns(t) \/ ListenerDecides(t) \/ ListenerThrows(t) \/ ListenerEdits(t)
     \/ Cancel(t) \/ PublishMigrated(t) \/ BeginAudit(t) \/ Audit(t) \/ Reply(t)
  /\ UNCHANGED service_lock

ReferenceAdvance(t) ==
  \/ ReferencePreflight(t) \/ Dispatch(t)
  \/ ListenerInterrupts(t)
  \/ LockService(t) \/ CheckUnderGuard(t) \/ WriteUnderGuard(t)
  \/ SharedStep(t)

RefNext ==
  \/ \E t \in Threads : ReferenceAdvance(t)
  \/ \E t \in Threads, c \in Requests :
       (ReturnAtOnce(t, c) \/ Begin(t, c)) /\ UNCHANGED service_lock
  \/ /\ mutation_mutex.owner = NoThread
     /\ \E target \in FlakyTargets : SetTargetAvailable(target)
     /\ UNCHANGED service_lock
  \/ Terminated /\ UNCHANGED service_lock

RefSpec == RefInit /\ [][RefNext]_refvars

-----------------------------------------------------------------------------
(* Properties, beside those of DynamicPropertyService that hold here too.  *)

\* The locks nest: whoever is inside the adapter's lock for a commit has the
\* lock of its service, and no callback runs under either, so that a listener
\* that calls the same service never waits for itself (the service's lock is
\* not reentrant).
LocksNest ==
  /\ \A t \in Threads : InPhase(t, "locked") =>
       mutation_mutex.owner = t /\ service_lock[Body[running[t]].service] = t
  /\ \A s \in Services : service_lock[s] # NoThread =>
       /\ ~ InListener(service_lock[s])
       /\ running[service_lock[s]] # NoCall
       /\ call[running[service_lock[s]]].phase \in {"queued", "locked"}

\* Every call returns or raises, and every commit is audited before: also if
\* a listener is interrupted after the commit.
CommitsAuditedAtReturn ==
  \A i \in DOMAIN history :
    LET c == history[i].call IN
    call[c].phase = "returned" => AllHanded(c)

\* What a caller knows of its call; of one that raised, nothing.
KnownState(c) ==
  IF call[c].phase = "returned" /\ call[c].status = "Interrupted"
  THEN IF Committed(c) THEN "effected" ELSE "open"
  ELSE CallState(c)

Known == INSTANCE AtomicCalls WITH
  Calls <- Requests,
  Operations <- [c \in Requests |-> Ops(c)],
  Force <- [c \in Requests |-> Body[c].force],
  state <- [c \in Requests |-> KnownState(c)]

\* The Python coordinator promises what the C++ one does: calls are atomic, and
\* those that return are answered truthfully.  A call that is interrupted is
\* never answered, but has taken effect at one instant or not at all.
ReferenceCallsAreAtomic == Known!Spec

\* TRANSACTIONS.md:40: "One AfterTransaction event carries snapshots
\* recaptured from committed state."
AfterTransactionRecaptured ==
  \A i \in DOMAIN history :
    LET c == history[i].call IN
    Body[c].form = "transact" /\ call[c].phase = "after" =>
      \A r \in DOMAIN call[c].before : call[c].before[r] = history[i].before[r]
=============================================================================
