--------------------- MODULE DynamicPropertyServiceProofs ---------------------
(***************************************************************************)
(* DynamicPropertyService is right for any number of threads, services,    *)
(* listeners, requests and targets.  In this order: the types and the      *)
(* stacks of nested calls, the mutex, and the gate before the commit; what *)
(* is committed; the answers and the audit; the events; and that every     *)
(* call is atomic.  The second half says the same of the Python            *)
(* implementation, ReferenceService, whose names begin with Ref: its       *)
(* locks, its answers and its audit, and that its calls are atomic.        *)
(***************************************************************************)
EXTENDS ReferenceService, PropertyStoreProofs

\* The operations of a request and the collections they name.
LEMMA RequestFacts ==
  ASSUME NEW c \in Requests
  PROVE  /\ Ops(c) \in Seq(Operation)
         /\ Len(Ops(c)) \in Nat /\ DOMAIN Ops(c) = 1..Len(Ops(c))
         /\ Refs(c) \subseteq CollectionRef
         /\ Ops(c) # <<>> => Refs(c) # {}
         /\ Body[c].form \in {"apply", "transact"}
         /\ Body[c].form = "apply" => Len(Ops(c)) = 1
         /\ Limit[Body[c].service] \in Nat
         /\ Body[c].rollback_on_failure \in BOOLEAN
<1>1. Body[c] \in Request /\ (Body[c].form = "apply" => Len(Body[c].operations) = 1)
  BY RequestAssumption
<1>2. Ops(c) \in Seq(Operation)
  BY <1>1 DEF Request, Ops
<1>3. \A i \in 1..Len(Ops(c)) : Ops(c)[i] \in Operation
  BY <1>2
<1>4. Len(Ops(c)) \in Nat /\ DOMAIN Ops(c) = 1..Len(Ops(c))
  BY <1>2
<1>5. Refs(c) \subseteq CollectionRef
  BY <1>3, <1>4, OperationRefs DEF Refs, InvolvedRefs
<1>6. Ops(c) # <<>> => Refs(c) # {}
  <2> SUFFICES ASSUME Ops(c) # <<>> PROVE Source(Ops(c)[1]) \in Refs(c)
    OBVIOUS
  <2>1. 1 \in DOMAIN Ops(c)
    BY <1>2, <1>4
  <2> QED
    BY <2>1 DEF Refs, InvolvedRefs
<1>7. /\ Body[c].form \in {"apply", "transact"}
      /\ Limit[Body[c].service] \in Nat
      /\ Body[c].rollback_on_failure \in BOOLEAN
  BY <1>1, LimitAssumption DEF Request
<1> QED
  BY <1>1, <1>2, <1>4, <1>5, <1>6, <1>7 DEF Ops

\* Validation returns statuses.
LEMMA ValidationTypes ==
  ASSUME NEW c
  PROVE  ValidationStatus(c) \in Statuses /\ Admission(c) \in Statuses
         /\ Revalidation(c) \in Statuses
<1>1. \A op, context, service : OperationStatus(op, context, service) \in Statuses
  BY DEF OperationStatus, Statuses
<1>2. ValidationStatus(c) \in Statuses
  BY <1>1 DEF ValidationStatus, Statuses
<1> QED
  BY <1>2 DEF Admission, Revalidation, Statuses

Holding == {"locked", "committed"}

Active == Phases \ {"idle", "returned"}

\* The phases from the adapter call on.
Attempted == {"committed", "after", "migrated", "audit", "returned"}

\* A call that has not captured all its collections captures another one.
PreflightOK ==
  \A c \in Requests : call[c].phase = "preflight" =>
    DOMAIN call[c].captured \subseteq Refs(c) /\ DOMAIN call[c].captured # Refs(c)

\* The results of a call are audited from the first one on.
AuditOK == \A c \in Requests : call[c].phase = "audit" => call[c].at # 0

TypeInv == TypeOK /\ PreflightOK /\ AuditOK

\* Every call that has begun and not returned is on the stack of one thread,
\* at one place of it.
StackOK ==
  /\ \A t \in Threads : running[t] # NoCall => call[running[t]].phase \in Active
  /\ \A t, u \in Threads : running[t] = running[u] /\ running[t] # NoCall => t = u
  /\ \A c \in Requests : call[c].phase \in Active /\ call[c].parent # NoCall =>
       /\ call[call[c].parent].phase \in Active
       /\ \A t \in Threads : running[t] # call[c].parent
  /\ \A c, d \in Requests :
       (/\ call[c].phase \in Active /\ call[d].phase \in Active
        /\ call[c].parent = call[d].parent /\ call[c].parent # NoCall) => c = d

\* The mutex is held, once, by the thread that runs the call that commits.
MutexOK ==
  /\ \A c \in Requests : call[c].phase \in Holding =>
       mutation_mutex.owner \in Threads /\ running[mutation_mutex.owner] = c
  /\ mutation_mutex.owner # NoThread =>
       /\ running[mutation_mutex.owner] # NoCall
       /\ call[running[mutation_mutex.owner]].phase \in Holding
       /\ mutation_mutex.depth = 1
  /\ mutation_mutex.owner = NoThread => mutation_mutex.depth = 0

\* Only calls whose before-event let them pass get to the commit.
GateOK ==
  /\ \A c \in Requests : call[c].phase \in Holding => ~ Stopped(c)
  /\ \A i \in DOMAIN history :
       call[history[i].call].phase \in Attempted /\ ~ Stopped(history[i].call)

Inv == TypeInv /\ StackOK /\ MutexOK /\ GateOK

\* Only the activation record of c changes.
OnlyCall(c) ==
  /\ call' \in [Requests -> CallRecord]
  /\ \A d \in Requests \ {c} : call'[d] = call[d]

\* The call c goes on, and stays on its place of the stack.
Proceeds(c) ==
  /\ OnlyCall(c)
  /\ call[c].phase \in Active /\ call'[c].phase \in Active
  /\ call'[c].parent = call[c].parent
  /\ call[c].phase \in Attempted =>
       /\ call'[c].phase \in Attempted
       /\ call'[c].failed = call[c].failed /\ call'[c].cancelled = call[c].cancelled

\* A thread that is in a phase runs a call.
LEMMA RunningCall ==
  ASSUME TypeOK, NEW t \in Threads, running[t] # NoCall
  PROVE  running[t] \in Requests /\ call[running[t]] \in CallRecord
BY DEF TypeOK

\* The fields of an activation record.
Fields ==
  {"phase", "parent", "at", "captured", "cancelled", "vetoed", "failed", "edited",
   "status", "results", "rolled_back", "before", "after"}

\* A call that has not begun has a well-formed record.
LEMMA IdleType ==
  Idle \in CallRecord
<1>1. NoSnapshots \in Captures
  BY DEF NoSnapshots, Captures
<1> HIDE DEF NoSnapshots
<1> QED
  BY <1>1 DEF Idle, CallRecord, Phases, Statuses

\* The captures under the mutex are snapshots of collections.
LEMMA CaptureType ==
  ASSUME TypeOK, NEW c \in Requests
  PROVE  Capture(c) \in Captures
<1> DEFINE D == {r \in Refs(c) : r.target \in available}
<1>1. D \in SUBSET CollectionRef
  BY RequestFacts
<1>2. \A r \in D : store[r] \in Snapshot
  BY <1>1 DEF TypeOK, Store
<1>3. Capture(c) = [r \in D |-> store[r]]
  BY DEF Capture
<1> HIDE DEF D
<1>4. Capture(c) \in [D -> Snapshot]
  BY <1>2, <1>3
<1> QED
  BY <1>1, <1>4 DEF Captures

\* The preflight captures one more collection of the call.
LEMMA WithNextType ==
  ASSUME TypeInv, NEW c \in Requests, call[c].phase = "preflight"
  PROVE  /\ NextRef(c) \in Refs(c)
         /\ WithNext(c) \in Captures
         /\ DOMAIN WithNext(c) \subseteq Refs(c)
<1> DEFINE captured == call[c].captured
           D == DOMAIN captured \cup {NextRef(c)}
<1>1. captured \in Captures /\ \A r \in DOMAIN captured : captured[r] \in Snapshot
  BY DEF TypeInv, TypeOK, CallRecord, Captures
<1>2. NextRef(c) \in Refs(c)
  BY DEF TypeInv, PreflightOK, NextRef
<1>3. D \subseteq Refs(c) /\ D \subseteq CollectionRef
  BY <1>2, RequestFacts DEF TypeInv, PreflightOK
<1>4. \A r \in D : (IF r = NextRef(c) THEN store[r] ELSE captured[r]) \in Snapshot
  BY <1>1, <1>3 DEF TypeInv, TypeOK, Store
<1>5. WithNext(c) = [r \in D |-> IF r = NextRef(c) THEN store[r] ELSE captured[r]]
  BY DEF WithNext
<1> HIDE DEF D, captured
<1>6. WithNext(c) \in [D -> Snapshot] /\ DOMAIN WithNext(c) = D
  BY <1>4, <1>5
<1> QED
  BY <1>2, <1>3, <1>6 DEF Captures


\* Writing the record of one call.
LEMMA UpdateStep ==
  ASSUME TypeInv, NEW c \in Requests, NEW record \in CallRecord,
         call' = [call EXCEPT ![c] = record]
  PROVE  OnlyCall(c) /\ call'[c] = record
BY DEF TypeInv, TypeOK, OnlyCall

\* A call that goes on keeps the stacks as they are.
LEMMA StackKept ==
  ASSUME Inv, NEW c \in Requests, Proceeds(c), UNCHANGED running
  PROVE  StackOK'
<1>1. \A d \in Requests : (call'[d].phase \in Active <=> call[d].phase \in Active)
                          /\ call'[d].parent = call[d].parent
  BY DEF Proceeds, OnlyCall
<1>2. /\ running \in [Threads -> Requests \cup {NoCall}]
      /\ \A d \in Requests : call[d].parent \in Requests \cup {NoCall}
  BY DEF Inv, TypeInv, TypeOK, CallRecord
<1> HIDE DEF Active
<1> QED
  BY <1>1, <1>2 DEF Inv, StackOK

\* A call that goes on without the mutex leaves the mutex to its owner.
LEMMA MutexKept ==
  ASSUME Inv, NEW c \in Requests, OnlyCall(c), UNCHANGED <<mutation_mutex, running>>,
         call[c].phase \in Holding <=> call'[c].phase \in Holding
  PROVE  MutexOK'
<1>1. \A d \in Requests : call'[d].phase \in Holding <=> call[d].phase \in Holding
  BY DEF OnlyCall
<1>2. /\ running \in [Threads -> Requests \cup {NoCall}]
      /\ mutation_mutex.owner \in Threads \cup {NoThread}
  BY DEF Inv, TypeInv, TypeOK
<1> HIDE DEF Holding
<1> QED
  BY <1>1, <1>2 DEF Inv, MutexOK

\* The commits of the history are well-formed.
LEMMA HistoryEntry ==
  ASSUME TypeOK, NEW i \in DOMAIN history
  PROVE  /\ history[i].call \in Requests
         /\ history[i].before \in Store /\ history[i].after \in Store
<1>1. history \in Seq(CommitRecord)
  BY DEF TypeOK
<1>2. history[i] \in CommitRecord
  BY <1>1
<1> QED
  BY <1>2 DEF CommitRecord

\* A call that goes on without a commit keeps the gate.
LEMMA GateKept ==
  ASSUME Inv, NEW c \in Requests, Proceeds(c), UNCHANGED history,
         call'[c].phase \in Holding => ~ call'[c].failed /\ ~ call'[c].cancelled
  PROVE  GateOK'
<1>1. \A i \in DOMAIN history : history[i].call \in Requests
  BY HistoryEntry DEF Inv, TypeInv
<1>2. ASSUME NEW d \in Requests, d # c
      PROVE  call'[d] = call[d] /\ (Stopped(d)' <=> Stopped(d))
  BY <1>2 DEF Proceeds, OnlyCall, Stopped
<1>3. ASSUME call[c].phase \in Attempted, ~ Stopped(c)
      PROVE  call'[c].phase \in Attempted /\ ~ Stopped(c)'
  BY <1>3 DEF Proceeds, Stopped
<1>4. \A d \in Requests : call'[d].phase \in Holding => ~ Stopped(d)'
  <2>1. call'[c].phase \in Holding => ~ Stopped(c)'
    BY DEF Stopped
  <2> QED
    BY <1>2, <2>1 DEF Inv, GateOK
<1>5. \A i \in DOMAIN history :
        call'[history[i].call].phase \in Attempted /\ ~ Stopped(history[i].call)'
  <2> TAKE i \in DOMAIN history
  <2> DEFINE d == history[i].call
  <2>1. d \in Requests /\ call[d].phase \in Attempted /\ ~ Stopped(d)
    BY <1>1 DEF Inv, GateOK
  <2> QED
    BY <2>1, <1>2, <1>3
<1> HIDE DEF Holding, Attempted, Stopped
<1> QED
  BY <1>4, <1>5 DEF GateOK

\* A step that only lets a call that does not hold the mutex go on.
LEMMA QuietStep ==
  ASSUME Inv, NEW c \in Requests, Proceeds(c),
         call[c].phase \notin Holding, call'[c].phase \notin Holding,
         call'[c].phase # "preflight",
         call'[c].phase = "audit" => call'[c].at # 0,
         UNCHANGED <<store, available, mutation_mutex, running, history>>,
         audits' \in [Requests -> Seq(AuditRecord)],
         unrecorded' \in [Requests -> SUBSET LossRecord]
  PROVE  Inv'
<1>1. TypeOK'
  BY DEF Proceeds, OnlyCall, Inv, TypeInv, TypeOK
<1>2. PreflightOK' /\ AuditOK'
  BY DEF Proceeds, OnlyCall, Inv, TypeInv, PreflightOK, AuditOK
<1>3. StackOK' /\ MutexOK' /\ GateOK'
  BY StackKept, MutexKept, GateKept DEF Proceeds
<1> QED
  BY <1>1, <1>2, <1>3 DEF Inv, TypeInv

\* A cancelled call keeps the invariant.
LEMMA CancelKeeps ==
  ASSUME Inv, NEW t \in Threads, Cancel(t)
  PROVE  Inv'
<1> DEFINE c == running[t]
           record == [call[c] EXCEPT !.phase = "audit", !.at = 1, !.status = "Cancelled",
                                     !.results = All(c, "Cancelled")]
<1>1. c \in Requests /\ call[c] \in CallRecord /\ call[c].phase = "before"
  BY RunningCall DEF Inv, TypeInv, Cancel, Published, InPhase
<1>2. All(c, "Cancelled") \in Seq(Statuses)
  BY <1>1, RequestFacts DEF All, Statuses
<1>3. "audit" \in Phases /\ "Cancelled" \in Statuses /\ 1 \in Nat
  BY DEF Phases, Statuses
<1>4. record \in CallRecord /\ record.phase = "audit" /\ record.at = 1
      /\ record.parent = call[c].parent
  BY <1>1, <1>2, <1>3 DEF CallRecord
<1>5. call' = [call EXCEPT ![c] = record]
  BY <1>1 DEF Cancel, Inv, TypeInv, TypeOK
<1>6. OnlyCall(c) /\ call'[c] = record
  BY <1>1, <1>4, <1>5, UpdateStep DEF Inv
<1>7. Proceeds(c)
  BY <1>1, <1>4, <1>6 DEF Proceeds, Active, Attempted, Phases
<1>8. call'[c].phase = "audit" /\ call'[c].at # 0
  BY <1>4, <1>6
<1> HIDE DEF record
<1> QED
  BY <1>1, <1>8, <1>6, <1>7, QuietStep DEF Cancel, Holding, Inv, TypeInv, TypeOK

\* A listener runs in one of the publishing phases.
LEMMA ListenerFacts ==
  ASSUME Inv, NEW t \in Threads, InListener(t)
  PROVE  /\ running[t] \in Requests /\ call[running[t]] \in CallRecord
         /\ call[running[t]].phase \in Publishing
         /\ call[running[t]].at + 1 \in Nat
<1>1. running[t] \in Requests /\ call[running[t]] \in CallRecord
  BY RunningCall DEF Inv, TypeInv, InListener
<1> QED
  BY <1>1 DEF InListener, CallRecord

\* Whatever a listener does to its event, the call stays where it is, and only
\* before-listeners change the flags.
LEMMA ListenerStep ==
  ASSUME Inv, NEW t \in Threads, InListener(t), NEW record \in CallRecord,
         record.phase = call[running[t]].phase, record.parent = call[running[t]].parent,
         \/ call[running[t]].phase = "before"
         \/ /\ record.failed = call[running[t]].failed
            /\ record.cancelled = call[running[t]].cancelled,
         call' = [call EXCEPT ![running[t]] = record],
         UNCHANGED <<store, available, mutation_mutex, running, audits, unrecorded, history>>
  PROVE  Inv'
<1> DEFINE c == running[t]
<1>1. c \in Requests /\ call[c].phase \in Publishing
  BY ListenerFacts
<1>2. OnlyCall(c) /\ call'[c] = record
  BY <1>1, UpdateStep DEF Inv
<1>3. /\ call[c].phase \notin Holding /\ call[c].phase # "preflight"
      /\ call[c].phase \in Active /\ call[c].phase # "audit"
      /\ call[c].phase = "before" => call[c].phase \notin Attempted
  BY <1>1 DEF Publishing, Holding, Active, Phases, Attempted
<1>4. Proceeds(c)
  BY <1>2, <1>3 DEF Proceeds
<1> QED
  BY <1>1, <1>2, <1>3, <1>4, QuietStep DEF Inv, TypeInv, TypeOK

\* A listener that just returns keeps the invariant.
LEMMA ListenerReturnsKeeps ==
  ASSUME Inv, NEW t \in Threads, ListenerReturns(t)
  PROVE  Inv'
<1> DEFINE c == running[t]
           record == [call[c] EXCEPT !.at = call[c].at + 1]
<1>1. c \in Requests /\ call[c] \in CallRecord /\ call[c].at + 1 \in Nat
  BY ListenerFacts DEF ListenerReturns
<1>2. record \in CallRecord
  BY <1>1 DEF CallRecord
<1>3. /\ record.phase = call[c].phase /\ record.parent = call[c].parent
      /\ record.failed = call[c].failed /\ record.cancelled = call[c].cancelled
  BY <1>1 DEF CallRecord
<1>4. call' = [call EXCEPT ![c] = record]
  BY <1>1 DEF ListenerReturns, Inv, TypeInv, TypeOK
<1> QED
  BY <1>2, <1>3, <1>4, ListenerStep DEF ListenerReturns

\* A listener that cancels or approves keeps the invariant.
LEMMA ListenerDecidesKeeps ==
  ASSUME Inv, NEW t \in Threads, ListenerDecides(t)
  PROVE  Inv'
<1> DEFINE c == running[t]
<1>1. c \in Requests /\ call[c] \in CallRecord /\ call[c].at + 1 \in Nat
      /\ call[c].phase = "before"
  BY ListenerFacts DEF ListenerDecides, InPhase
<1>2. PICK cancelled \in BOOLEAN :
        call' = [call EXCEPT ![running[t]].cancelled = cancelled,
                             ![running[t]].vetoed = @ \/ cancelled,
                             ![running[t]].at = @ + 1]
  BY DEF ListenerDecides
<1> DEFINE vetoed == call[c].vetoed \/ cancelled
           record == [call[c] EXCEPT !.cancelled = cancelled, !.vetoed = vetoed,
                                     !.at = call[c].at + 1]
<1>3. vetoed \in BOOLEAN
  BY <1>1 DEF CallRecord
<1>4. call' = [call EXCEPT ![c] = record]
  BY <1>1, <1>2 DEF Inv, TypeInv, TypeOK
<1> HIDE DEF vetoed
<1>5. record \in CallRecord /\ record.phase = call[c].phase /\ record.parent = call[c].parent
  BY <1>1, <1>3 DEF CallRecord
<1> QED
  BY <1>1, <1>4, <1>5, ListenerStep DEF ListenerDecides

\* A listener that throws keeps the invariant.
LEMMA ListenerThrowsKeeps ==
  ASSUME Inv, NEW t \in Threads, ListenerThrows(t)
  PROVE  Inv'
<1> DEFINE c == running[t]
           failed == call[c].failed \/ InPhase(t, "before")
           record == [call[c] EXCEPT !.failed = failed, !.at = call[c].at + 1]
<1>1. c \in Requests /\ call[c] \in CallRecord /\ call[c].at + 1 \in Nat
  BY ListenerFacts DEF ListenerThrows
<1>2. failed \in BOOLEAN /\ (call[c].phase = "before" \/ failed = call[c].failed)
  BY <1>1 DEF CallRecord, InPhase
<1>3. call' = [call EXCEPT ![c] = record]
  BY <1>1 DEF ListenerThrows, Inv, TypeInv, TypeOK
<1> HIDE DEF failed
<1>4. /\ record \in CallRecord /\ record.phase = call[c].phase
      /\ record.parent = call[c].parent
      /\ record.cancelled = call[c].cancelled /\ record.failed = failed
  BY <1>1, <1>2 DEF CallRecord
<1> QED
  BY <1>2, <1>3, <1>4, ListenerStep DEF ListenerThrows

\* An event without snapshots.
LEMMA NoSnapshotsType == NoSnapshots \in Captures
<1>1. NoSnapshots \in [{} -> Snapshot] /\ {} \in SUBSET CollectionRef
  BY DEF NoSnapshots
<1> QED
  BY <1>1 DEF Captures

\* A listener that edits its event keeps the invariant.
LEMMA ListenerEditsKeeps ==
  ASSUME Inv, NEW t \in Threads, ListenerEdits(t)
  PROVE  Inv'
<1> DEFINE c == running[t]
           first == IF InPhase(t, "before") THEN call[c].before ELSE NoSnapshots
           second == IF InPhase(t, "before") THEN call[c].after ELSE NoSnapshots
           record == [call[c] EXCEPT !.edited = TRUE, !.at = call[c].at + 1,
                                     !.before = first, !.after = second]
<1>1. c \in Requests /\ call[c] \in CallRecord /\ call[c].at + 1 \in Nat
  BY ListenerFacts DEF ListenerEdits
<1>2. call' = [call EXCEPT ![c] = record]
  BY <1>1 DEF ListenerEdits, Inv, TypeInv, TypeOK
<1>3. first \in Captures /\ second \in Captures
  BY <1>1, NoSnapshotsType DEF CallRecord
<1> HIDE DEF first, second
<1>4. /\ record \in CallRecord
      /\ record.phase = call[c].phase /\ record.parent = call[c].parent
      /\ record.failed = call[c].failed /\ record.cancelled = call[c].cancelled
  BY <1>1, <1>3 DEF CallRecord
<1> QED
  BY <1>2, <1>4, ListenerStep DEF ListenerEdits

\* A failed final validation keeps the invariant.
LEMMA RefuseCommitKeeps ==
  ASSUME Inv, NEW t \in Threads, RefuseCommit(t)
  PROVE  Inv'
<1> DEFINE c == running[t]
           status == Revalidation(c)
           record == [call[c] EXCEPT !.phase = "audit", !.at = 1, !.status = status,
                                     !.results = All(c, status)]
<1>1. c \in Requests /\ call[c] \in CallRecord /\ call[c].phase = "before"
  BY RunningCall DEF Inv, TypeInv, RefuseCommit, Published, InPhase
<1>2. status \in Statuses
  BY ValidationTypes
<1>3. call' = [call EXCEPT ![c] = record]
  BY <1>1 DEF RefuseCommit, Inv, TypeInv, TypeOK
<1> HIDE DEF status
<1>4. All(c, status) \in Seq(Statuses)
  BY <1>1, <1>2, RequestFacts DEF All
<1>5. "audit" \in Phases /\ 1 \in Nat
  BY DEF Phases
<1>6. record \in CallRecord /\ record.phase = "audit" /\ record.at = 1
      /\ record.parent = call[c].parent
  BY <1>1, <1>2, <1>4, <1>5 DEF CallRecord
<1>7. OnlyCall(c) /\ call'[c] = record
  BY <1>1, <1>3, <1>6, UpdateStep DEF Inv
<1>8. Proceeds(c)
  BY <1>1, <1>6, <1>7 DEF Proceeds, Active, Attempted, Phases
<1>9. call'[c].phase = "audit" /\ call'[c].at # 0
  BY <1>6, <1>7
<1> HIDE DEF record
<1> QED
  BY <1>1, <1>9, <1>7, <1>8, QuietStep DEF RefuseCommit, Holding, Inv, TypeInv, TypeOK


\* The event of a migration keeps the invariant.
LEMMA PublishMigratedKeeps ==
  ASSUME Inv, NEW t \in Threads, PublishMigrated(t)
  PROVE  Inv'
<1> DEFINE c == running[t]
           record == [call[c] EXCEPT !.phase = "migrated", !.at = 1]
<1>1. c \in Requests /\ call[c] \in CallRecord /\ call[c].phase = "after"
  BY RunningCall DEF Inv, TypeInv, PublishMigrated, Published, InPhase
<1>2. "migrated" \in Phases /\ 1 \in Nat
  BY DEF Phases
<1>3. /\ record \in CallRecord /\ record.phase = "migrated"
      /\ record.parent = call[c].parent
      /\ record.failed = call[c].failed /\ record.cancelled = call[c].cancelled
  BY <1>1, <1>2 DEF CallRecord
<1>4. call' = [call EXCEPT ![c] = record]
  BY <1>1 DEF PublishMigrated, Inv, TypeInv, TypeOK
<1>5. OnlyCall(c) /\ call'[c] = record
  BY <1>1, <1>3, <1>4, UpdateStep DEF Inv
<1>6. Proceeds(c)
  BY <1>1, <1>3, <1>5 DEF Proceeds, Active, Attempted, Phases
<1> QED
  BY <1>1, <1>3, <1>5, <1>6, QuietStep DEF PublishMigrated, Holding, Inv, TypeInv, TypeOK

\* The end of the events keeps the invariant.
LEMMA BeginAuditKeeps ==
  ASSUME Inv, NEW t \in Threads, BeginAudit(t)
  PROVE  Inv'
<1> DEFINE c == running[t]
           record == [call[c] EXCEPT !.phase = "audit", !.at = 1]
<1>1. c \in Requests /\ call[c] \in CallRecord /\ call[c].phase \in {"after", "migrated"}
  BY RunningCall DEF Inv, TypeInv, BeginAudit, Published, InPhase
<1>2. "audit" \in Phases /\ 1 \in Nat
  BY DEF Phases
<1>3. /\ record \in CallRecord /\ record.phase = "audit" /\ record.at = 1
      /\ record.parent = call[c].parent
      /\ record.failed = call[c].failed /\ record.cancelled = call[c].cancelled
  BY <1>1, <1>2 DEF CallRecord
<1>4. call' = [call EXCEPT ![c] = record]
  BY <1>1 DEF BeginAudit, Inv, TypeInv, TypeOK
<1>5. OnlyCall(c) /\ call'[c] = record
  BY <1>1, <1>3, <1>4, UpdateStep DEF Inv
<1>6. Proceeds(c)
  BY <1>1, <1>3, <1>5 DEF Proceeds, Active, Attempted, Phases
<1>7. call'[c].phase = "audit" /\ call'[c].at # 0
  BY <1>3, <1>5
<1> HIDE DEF record
<1> QED
  BY <1>1, <1>7, <1>5, <1>6, QuietStep DEF BeginAudit, Holding, Inv, TypeInv, TypeOK


\* An audit record, kept or lost, keeps the invariant.
LEMMA AuditKeeps ==
  ASSUME Inv, NEW t \in Threads, Audit(t)
  PROVE  Inv'
<1> DEFINE c == running[t]
           i == call[c].at
           record == [call[c] EXCEPT !.at = i + 1]
           entry == [operation |-> i, status |-> call[c].results[i],
                     rolled_back |-> call[c].rolled_back]
<1>1. c \in Requests /\ call[c] \in CallRecord /\ call[c].phase = "audit"
  BY RunningCall DEF Inv, TypeInv, Audit, InPhase
<1>2. /\ i \in Nat \ {0} /\ call[c].results \in Seq(Statuses)
      /\ call[c].rolled_back \in BOOLEAN
  BY <1>1 DEF CallRecord, Inv, TypeInv, AuditOK
<1>3. /\ record \in CallRecord /\ record.phase = "audit" /\ record.at = i + 1
      /\ record.parent = call[c].parent
      /\ record.failed = call[c].failed /\ record.cancelled = call[c].cancelled
  BY <1>1, <1>2 DEF CallRecord
<1>4. call' = [call EXCEPT ![c] = record]
  BY <1>1 DEF Audit, Inv, TypeInv, TypeOK
<1>5. OnlyCall(c) /\ call'[c] = record
  BY <1>1, <1>3, <1>4, UpdateStep DEF Inv
<1>6. Proceeds(c)
  BY <1>1, <1>3, <1>5 DEF Proceeds, Active, Attempted, Phases
<1>7. audits' \in [Requests -> Seq(AuditRecord)]
  <2>1. audits \in [Requests -> Seq(AuditRecord)]
    BY DEF Inv, TypeInv, TypeOK
  <2>2. \/ audits' = [audits EXCEPT ![c] = Append(audits[c], entry)]
        \/ audits' = audits
    BY <2>1, <1>1 DEF Audit
  <2>3. ASSUME i <= Len(call[c].results) PROVE entry \in AuditRecord
    BY <1>2, <2>3 DEF AuditRecord
  <2>4. i <= Len(call[c].results)
    BY DEF Audit
  <2> HIDE DEF entry
  <2>5. Append(audits[c], entry) \in Seq(AuditRecord)
    BY <1>1, <2>1, <2>3, <2>4
  <2> QED
    BY <1>1, <2>1, <2>2, <2>5
<1>8. unrecorded' \in [Requests -> SUBSET LossRecord]
  <2>1. unrecorded \in [Requests -> SUBSET LossRecord]
    BY DEF Inv, TypeInv, TypeOK
  <2>2. CASE unrecorded' = unrecorded
    BY <2>1, <2>2
  <2>3. CASE unrecorded' # unrecorded
    <3>1. PICK handler \in FailureHandlers :
            unrecorded' = [unrecorded EXCEPT ![c] =
                             unrecorded[c] \cup {[operation |-> i, handler |-> handler]}]
      BY <2>1, <2>3, <1>1 DEF Audit
    <3>2. [operation |-> i, handler |-> handler] \in LossRecord
      BY <1>2, SchedulerAssumption DEF LossRecord
    <3> QED
      BY <1>1, <2>1, <3>1, <3>2
  <2> QED
    BY <2>2, <2>3
<1>9. call'[c].at # 0
  BY <1>2, <1>3, <1>5
<1> HIDE DEF record
<1> QED
  BY <1>1, <1>3, <1>5, <1>6, <1>7, <1>8, <1>9, QuietStep DEF Audit, Holding
\* A call that does not hold the mutex leaves the stack of its thread.
LEMMA ReturnStep ==
  ASSUME Inv, NEW t \in Threads, running[t] # NoCall, NEW status \in Statuses,
         call[running[t]].phase \notin Holding,
         Return(t, running[t], status),
         UNCHANGED <<store, available, mutation_mutex, audits, unrecorded, history>>
  PROVE  Inv'
<1> DEFINE c == running[t]
           record == [Idle EXCEPT !.phase = "returned", !.status = status,
                                  !.failed = call[c].failed,
                                  !.cancelled = call[c].cancelled,
                                  !.vetoed = call[c].vetoed,
                                  !.results = call[c].results]
<1>1. c \in Requests /\ call[c] \in CallRecord
  BY RunningCall DEF Inv, TypeInv
<1>2. record \in CallRecord
  <2>1. "returned" \in Phases
    BY DEF Phases
  <2> QED
    BY <1>1, <2>1, IdleType DEF CallRecord
<1>3. /\ record.phase = "returned"
      /\ record.failed = call[c].failed /\ record.cancelled = call[c].cancelled
  BY IdleType DEF CallRecord
<1>4. call' = [call EXCEPT ![c] = record]
  BY DEF Return
<1> HIDE DEF record
<1>5. OnlyCall(c) /\ call'[c] = record
  BY <1>1, <1>2, <1>4, UpdateStep DEF Inv
<1>6. call' \in [Requests -> CallRecord] /\ \A d \in Requests \ {c} : call'[d] = call[d]
  BY <1>5 DEF OnlyCall
<1>7. /\ running \in [Threads -> Requests \cup {NoCall}]
      /\ call[c].parent \in Requests \cup {NoCall}
      /\ \A d \in Requests : call[d].parent \in Requests \cup {NoCall}
      /\ mutation_mutex.owner \in Threads \cup {NoThread}
  BY <1>1 DEF CallRecord, Inv, TypeInv, TypeOK
<1>8. /\ running'[t] = call[c].parent
      /\ \A u \in Threads \ {t} : running'[u] = running[u]
      /\ running' \in [Threads -> Requests \cup {NoCall}]
  BY <1>7 DEF Return
<1>9. NoCall \notin Requests /\ NoThread \notin Threads
  BY SchedulerAssumption
<1>10. TypeOK'
  BY <1>6, <1>8 DEF Inv, TypeInv, TypeOK
<1>11. PreflightOK' /\ AuditOK'
  BY <1>3, <1>5, <1>6 DEF Inv, TypeInv, PreflightOK, AuditOK
<1>12. "returned" \notin Active /\ "returned" \notin Holding /\ "returned" \in Attempted
  BY DEF Active, Holding, Attempted
<1>13. call[c].phase \in Active
  BY DEF Inv, StackOK
<1>14. StackOK'
  <2> HIDE DEF Active, c
  <2>1. \A d \in Requests : call'[d].phase \in Active =>
          /\ d # c /\ call'[d] = call[d] /\ call[d].phase \in Active
          /\ call[d].parent # c
    BY <1>1, <1>3, <1>5, <1>6, <1>9, <1>12 DEF Inv, StackOK, c
  <2>2. call[c].parent # NoCall =>
          /\ call[call[c].parent].phase \in Active /\ call[c].parent # c
          /\ \A u \in Threads : running[u] # call[c].parent
          /\ call'[call[c].parent] = call[call[c].parent]
    BY <1>1, <1>6, <1>7, <1>13 DEF Inv, StackOK, c
  <2>3. \A u \in Threads \ {t} : running[u] # c
    BY <1>1, <1>9 DEF Inv, StackOK, c
  <2>4. \A u \in Threads : running'[u] # NoCall => call'[running'[u]].phase \in Active
    BY <1>6, <1>7, <1>8, <1>9, <2>2, <2>3 DEF Inv, StackOK
  <2>5. \A u, v \in Threads : running'[u] = running'[v] /\ running'[u] # NoCall => u = v
    BY <1>8, <2>2 DEF Inv, StackOK
  <2>6. \A d \in Requests : call'[d].phase \in Active /\ call'[d].parent # NoCall =>
          /\ call'[call'[d].parent].phase \in Active
          /\ \A u \in Threads : running'[u] # call'[d].parent
    <3> SUFFICES ASSUME NEW d \in Requests, call'[d].phase \in Active,
                        call'[d].parent # NoCall
                 PROVE  /\ call'[call[d].parent].phase \in Active
                        /\ \A u \in Threads : running'[u] # call[d].parent
      BY <2>1
    <3>1. /\ d # c /\ call[d].phase \in Active /\ call[d].parent # c
          /\ call[d].parent # NoCall /\ call[d].parent \in Requests
      BY <2>1, <1>7
    <3>2. call[d].parent # call[c].parent
      BY <3>1, <1>1, <1>13 DEF Inv, StackOK
    <3> QED
      BY <3>1, <3>2, <1>6, <1>8 DEF Inv, StackOK
  <2>7. \A d, e \in Requests :
          (/\ call'[d].phase \in Active /\ call'[e].phase \in Active
           /\ call'[d].parent = call'[e].parent /\ call'[d].parent # NoCall) => d = e
    BY <2>1 DEF Inv, StackOK
  <2> QED
    BY <2>4, <2>5, <2>6, <2>7 DEF StackOK
<1>15. MutexOK'
  <2>1. mutation_mutex.owner # t
    BY <1>9 DEF Inv, MutexOK
  <2>2. \A d \in Requests : call'[d].phase \in Holding => d # c /\ call[d].phase \in Holding
    BY <1>3, <1>5, <1>6, <1>12
  <2> HIDE DEF Holding, c
  <2>3. \A d \in Requests : call'[d].phase \in Holding =>
          mutation_mutex'.owner \in Threads /\ running'[mutation_mutex'.owner] = d
    BY <2>1, <2>2, <1>8 DEF Inv, MutexOK
  <2>4. mutation_mutex.owner # NoThread =>
          /\ running'[mutation_mutex.owner] = running[mutation_mutex.owner]
          /\ running[mutation_mutex.owner] # c
          /\ running[mutation_mutex.owner] \in Requests
    BY <2>1, <1>7, <1>8, <1>9 DEF Inv, MutexOK, c
  <2> QED
    BY <2>3, <2>4, <1>6 DEF Inv, MutexOK
<1>16. GateOK'
  <2>1. \A d \in Requests : Stopped(d)' <=> Stopped(d)
    BY <1>3, <1>5, <1>6 DEF Stopped
  <2>2. \A i \in DOMAIN history : history[i].call \in Requests
    BY HistoryEntry DEF Inv, TypeInv
  <2>3. \A d \in Requests : call[d].phase \in Attempted => call'[d].phase \in Attempted
    BY <1>3, <1>5, <1>6, <1>12
  <2>4. \A d \in Requests : call'[d].phase \in Holding => call[d].phase \in Holding
    BY <1>3, <1>5, <1>6, <1>12
  <2> HIDE DEF Holding, Attempted, Stopped, c
  <2>5. \A i \in DOMAIN history :
          call'[history[i].call].phase \in Attempted /\ ~ Stopped(history[i].call)'
    <3> TAKE i \in DOMAIN history
    <3> DEFINE d == history[i].call
    <3>1. d \in Requests /\ call[d].phase \in Attempted /\ ~ Stopped(d)
      BY <2>2 DEF Inv, GateOK
    <3> QED
      BY <3>1, <2>1, <2>3
  <2> QED
    BY <2>1, <2>4, <2>5 DEF Inv, GateOK
<1> QED
  BY <1>10, <1>11, <1>14, <1>15, <1>16 DEF Inv, TypeInv

\* The reply to the caller keeps the invariant.
LEMMA ReplyKeeps ==
  ASSUME Inv, NEW t \in Threads, Reply(t)
  PROVE  Inv'
<1>1. /\ running[t] # NoCall /\ call[running[t]] \in CallRecord
      /\ call[running[t]].phase = "audit"
  BY RunningCall DEF Inv, TypeInv, Reply, InPhase
<1>2. call[running[t]].status \in Statuses
  BY <1>1 DEF CallRecord
<1> QED
  BY <1>1, <1>2, ReturnStep DEF Reply, Holding
\* A capture of the preflight keeps the invariant, also the last one.
LEMMA PreflightCaptureKeeps ==
  ASSUME Inv, NEW t \in Threads, PreflightCapture(t)
  PROVE  Inv'
<1> DEFINE c == running[t]
           captured == WithNext(c)
           further == [call[c] EXCEPT !.captured = captured]
           complete == [call[c] EXCEPT !.captured = captured, !.phase = "before", !.at = 1]
<1>1. c \in Requests /\ call[c] \in CallRecord /\ call[c].phase = "preflight" /\ c # NoCall
  BY RunningCall DEF Inv, TypeInv, PreflightCapture, InPhase
<1>2. captured \in Captures /\ DOMAIN captured \subseteq Refs(c)
  BY <1>1, WithNextType DEF Inv
<1>3. UNCHANGED <<store, available, mutation_mutex, audits, unrecorded, history>>
  BY DEF PreflightCapture
<1>4. /\ "TargetUnavailable" \in Statuses /\ "InvalidValue" \in Statuses
      /\ "before" \in Phases /\ 1 \in Nat
      /\ "preflight" \notin Holding /\ "preflight" \notin Attempted
      /\ "before" \notin Holding
      /\ "preflight" \in Active /\ "before" \in Active
  BY DEF Statuses, Phases, Holding, Attempted, Active
<1>5. call \in [Requests -> CallRecord]
  BY DEF Inv, TypeInv, TypeOK
<1> HIDE DEF captured
<1>6. CASE Return(t, c, "TargetUnavailable") \/ Return(t, c, "InvalidValue")
  BY <1>1, <1>3, <1>4, <1>6, ReturnStep
<1>7. CASE /\ DOMAIN captured # Refs(c)
           /\ call' = [call EXCEPT ![c].captured = captured] /\ UNCHANGED running
  <2>1. call' = [call EXCEPT ![c] = further]
    BY <1>1, <1>5, <1>7
  <2>2. /\ further \in CallRecord /\ further.phase = "preflight"
        /\ further.parent = call[c].parent /\ further.captured = captured
        /\ further.failed = call[c].failed /\ further.cancelled = call[c].cancelled
    BY <1>1, <1>2 DEF CallRecord
  <2> HIDE DEF further
  <2>3. OnlyCall(c) /\ call'[c] = further
    BY <1>1, <2>1, <2>2, UpdateStep DEF Inv
  <2>4. Proceeds(c)
    BY <1>1, <1>4, <2>2, <2>3 DEF Proceeds
  <2>5. TypeOK'
    BY <1>3, <1>7, <2>3 DEF OnlyCall, Inv, TypeInv, TypeOK
  <2>6. PreflightOK' /\ AuditOK'
    BY <1>2, <1>7, <2>2, <2>3 DEF OnlyCall, Inv, TypeInv, PreflightOK, AuditOK
  <2>7. StackOK' /\ MutexOK' /\ GateOK'
    BY <1>1, <1>3, <1>4, <1>7, <2>2, <2>3, <2>4, StackKept, MutexKept, GateKept
  <2> QED
    BY <2>5, <2>6, <2>7 DEF Inv, TypeInv
<1>8. CASE /\ call' = [call EXCEPT ![c].captured = captured,
                                   ![c].phase = "before", ![c].at = 1]
           /\ UNCHANGED running
  <2>1. call' = [call EXCEPT ![c] = complete]
    BY <1>1, <1>5, <1>8
  <2>2. /\ complete \in CallRecord /\ complete.phase = "before"
        /\ complete.parent = call[c].parent
    BY <1>1, <1>2, <1>4 DEF CallRecord
  <2> HIDE DEF complete
  <2>3. OnlyCall(c) /\ call'[c] = complete
    BY <1>1, <2>1, <2>2, UpdateStep DEF Inv
  <2>4. Proceeds(c)
    BY <1>1, <1>4, <2>2, <2>3 DEF Proceeds
  <2> QED
    BY <1>1, <1>3, <1>4, <1>8, <2>2, <2>3, <2>4, QuietStep DEF Inv, TypeInv, TypeOK
<1> QED
  BY <1>6, <1>7, <1>8 DEF PreflightCapture, captured

\* A thread that may call does not hold the mutex.
LEMMA MayCallUnlocked ==
  ASSUME Inv, NEW t \in Threads, MayCall(t)
  PROVE  mutation_mutex.owner # t
BY SchedulerAssumption DEF MayCall, InListener, Publishing, Inv, MutexOK, Holding

\* A call that begins, perhaps inside a listener, keeps the invariant: it
\* becomes the top of the stack of its thread, which does not hold the mutex.
LEMMA BeginKeeps ==
  ASSUME Inv, NEW t \in Threads, NEW c \in Requests, Begin(t, c)
  PROVE  Inv'
<1> DEFINE record == [Idle EXCEPT !.phase = "preflight", !.parent = running[t]]
<1>1. call[c].phase = "idle" /\ Ops(c) # <<>> /\ call' = [call EXCEPT ![c] = record]
      /\ running' = [running EXCEPT ![t] = c]
      /\ UNCHANGED <<store, available, mutation_mutex, audits, unrecorded, history>>
  BY DEF Begin
<1>2. /\ running \in [Threads -> Requests \cup {NoCall}]
      /\ running' \in [Threads -> Requests \cup {NoCall}]
      /\ running'[t] = c /\ \A u \in Threads \ {t} : running'[u] = running[u]
      /\ \A d \in Requests : call[d].parent \in Requests \cup {NoCall}
      /\ mutation_mutex.owner \in Threads \cup {NoThread}
  BY <1>1 DEF CallRecord, Inv, TypeInv, TypeOK
<1>3. /\ record \in CallRecord /\ record.phase = "preflight"
      /\ record.parent = running[t]
      /\ record.captured = NoSnapshots
  <2>1. "preflight" \in Phases
    BY DEF Phases
  <2>2. Idle.captured = NoSnapshots /\ DOMAIN Idle = Fields
    BY DEF Idle, Fields
  <2> QED
    BY <1>2, <2>1, <2>2, IdleType DEF CallRecord, Fields
<1> HIDE DEF record
<1>4. OnlyCall(c) /\ call'[c] = record
  BY <1>1, <1>3, UpdateStep DEF Inv
<1>5. call' \in [Requests -> CallRecord] /\ \A d \in Requests \ {c} : call'[d] = call[d]
  BY <1>4 DEF OnlyCall
<1>6. /\ "preflight" \notin Holding /\ "preflight" \in Active
      /\ "idle" \notin Active /\ "idle" \notin Holding /\ "idle" \notin Attempted
  BY DEF Holding, Active, Phases, Attempted
<1>7. NoCall \notin Requests /\ NoThread \notin Threads
  BY SchedulerAssumption
<1>8. TypeOK'
  BY <1>1, <1>2, <1>5 DEF Inv, TypeInv, TypeOK
<1>9. PreflightOK'
  <2>1. DOMAIN NoSnapshots = {} /\ Refs(c) # {}
    BY <1>1, RequestFacts DEF NoSnapshots
  <2> QED
    BY <2>1, <1>3, <1>4, <1>5 DEF Inv, TypeInv, PreflightOK
<1>10. AuditOK'
  BY <1>3, <1>4, <1>5 DEF Inv, TypeInv, AuditOK
<1>11. StackOK'
  <2>1. \A d \in Requests \ {c} : call'[d] = call[d]
    BY <1>5
  <2>2. \A u \in Threads : running[u] # c
    BY <1>1, <1>6, <1>7 DEF Inv, StackOK
  <2>3. \A d \in Requests : call[d].phase \in Active => d # c /\ call[d].parent # c
    BY <1>1, <1>6, <1>7 DEF Inv, StackOK
  <2>4. call'[c].phase \in Active /\ call'[c].parent = running[t]
    BY <1>3, <1>4, <1>6
  <2> HIDE DEF Active
  <2>5. \A u \in Threads : running'[u] # NoCall => call'[running'[u]].phase \in Active
    BY <1>2, <1>7, <2>1, <2>2, <2>4 DEF Inv, StackOK
  <2>6. \A u, v \in Threads : running'[u] = running'[v] /\ running'[u] # NoCall => u = v
    BY <1>2, <2>2 DEF Inv, StackOK
  <2>7. \A d \in Requests : call'[d].phase \in Active /\ call'[d].parent # NoCall =>
          /\ call'[call'[d].parent].phase \in Active
          /\ \A u \in Threads : running'[u] # call'[d].parent
    <3> TAKE d \in Requests
    <3> HAVE call'[d].phase \in Active /\ call'[d].parent # NoCall
    <3>1. CASE d = c
      BY <3>1, <1>2, <1>7, <2>1, <2>2, <2>4 DEF Inv, StackOK
    <3>2. CASE d # c
      BY <3>2, <1>2, <1>7, <2>1, <2>2, <2>3 DEF Inv, StackOK
    <3> QED
      BY <3>1, <3>2
  <2>8. \A d, e \in Requests :
          (/\ call'[d].phase \in Active /\ call'[e].phase \in Active
           /\ call'[d].parent = call'[e].parent /\ call'[d].parent # NoCall) => d = e
    <3>1. \A d \in Requests \ {c} :
            call[d].phase \in Active /\ call[d].parent # NoCall => call[d].parent # running[t]
      BY DEF Inv, StackOK
    <3> QED
      BY <3>1, <2>1, <2>4 DEF Inv, StackOK
  <2> QED
    BY <2>5, <2>6, <2>7, <2>8 DEF StackOK
<1>12. MutexOK'
  <2>1. mutation_mutex.owner # t
    BY MayCallUnlocked DEF Begin
  <2>2. \A d \in Requests : call'[d].phase \in Holding <=> call[d].phase \in Holding
    BY <1>1, <1>3, <1>4, <1>5, <1>6
  <2> HIDE DEF Holding
  <2> QED
    BY <1>1, <1>2, <1>7, <2>1, <2>2 DEF Inv, MutexOK
<1>13. GateOK'
  <2>1. \A d \in Requests : call[d].phase \in Attempted \cup Holding => d # c
    BY <1>1, <1>6
  <2>2. \A d \in Requests : call'[d].phase \in Holding => call[d].phase \in Holding
    BY <1>1, <1>3, <1>4, <1>5, <1>6
  <2>3. \A i \in DOMAIN history : history[i].call \in Requests
    BY HistoryEntry DEF Inv, TypeInv
  <2>4. \A d \in Requests \ {c} : Stopped(d)' <=> Stopped(d)
    BY <1>5 DEF Stopped
  <2> HIDE DEF Holding, Attempted, Stopped
  <2>5. \A i \in DOMAIN history :
          call'[history[i].call].phase \in Attempted /\ ~ Stopped(history[i].call)'
    <3> TAKE i \in DOMAIN history
    <3> DEFINE d == history[i].call
    <3>1. d \in Requests /\ call[d].phase \in Attempted /\ ~ Stopped(d)
      BY <2>3 DEF Inv, GateOK
    <3>2. d \in Requests \ {c}
      BY <3>1, <2>1
    <3>3. call'[d] = call[d] /\ ~ Stopped(d)'
      BY <3>1, <3>2, <2>4, <1>1, <1>5
    <3> QED
      BY <3>1, <3>3
  <2> QED
    BY <1>1, <2>1, <2>2, <2>4, <2>5 DEF Inv, GateOK
<1> QED
  BY <1>8, <1>9, <1>10, <1>11, <1>12, <1>13 DEF Inv, TypeInv
\* A call that is answered at once keeps the invariant.
LEMMA ReturnAtOnceKeeps ==
  ASSUME Inv, NEW t \in Threads, NEW c \in Requests, ReturnAtOnce(t, c)
  PROVE  Inv'
<1> DEFINE status == IF Ops(c) = <<>> THEN "Applied" ELSE Admission(c)
           record == [Idle EXCEPT !.phase = "returned", !.status = status]
<1>1. call[c].phase = "idle" /\ call' = [call EXCEPT ![c] = record]
      /\ UNCHANGED <<store, available, mutation_mutex, running, audits, unrecorded, history>>
  BY DEF ReturnAtOnce
<1>2. status \in Statuses
  BY ValidationTypes DEF Statuses
<1> HIDE DEF status
<1>3. record \in CallRecord /\ record.phase = "returned"
  <2>1. "returned" \in Phases
    BY DEF Phases
  <2> QED
    BY <1>2, <2>1, IdleType DEF CallRecord
<1> HIDE DEF record
<1>4. OnlyCall(c) /\ call'[c] = record
  BY <1>1, <1>3, UpdateStep DEF Inv
<1>5. call' \in [Requests -> CallRecord] /\ \A d \in Requests \ {c} : call'[d] = call[d]
  BY <1>4 DEF OnlyCall
<1>6. /\ "returned" \notin Holding /\ "returned" \notin Active
      /\ "idle" \notin Active /\ "idle" \notin Holding /\ "idle" \notin Attempted
  BY DEF Holding, Active, Phases, Attempted
<1>7. /\ NoCall \notin Requests /\ NoThread \notin Threads
      /\ running \in [Threads -> Requests \cup {NoCall}]
      /\ \A d \in Requests : call[d].parent \in Requests \cup {NoCall}
      /\ mutation_mutex.owner \in Threads \cup {NoThread}
  BY SchedulerAssumption DEF CallRecord, Inv, TypeInv, TypeOK
<1>8. TypeOK'
  BY <1>1, <1>5 DEF Inv, TypeInv, TypeOK
<1>9. PreflightOK' /\ AuditOK'
  BY <1>3, <1>4, <1>5 DEF Inv, TypeInv, PreflightOK, AuditOK
<1>10. StackOK'
  <2>1. \A d \in Requests : call'[d].phase \in Active =>
          d # c /\ call'[d] = call[d] /\ call[d].parent # c
    BY <1>1, <1>3, <1>4, <1>5, <1>6, <1>7 DEF Inv, StackOK
  <2>2. \A u \in Threads : running[u] # c
    BY <1>1, <1>6, <1>7 DEF Inv, StackOK
  <2> HIDE DEF Active
  <2> QED
    BY <1>1, <1>5, <1>7, <2>1, <2>2 DEF Inv, StackOK
<1>11. MutexOK'
  BY <1>1, <1>3, <1>4, <1>6, MutexKept
<1>12. GateOK'
  <2>1. \A d \in Requests : call[d].phase \in Attempted => d # c
    BY <1>1, <1>6
  <2>2. \A d \in Requests : call'[d].phase \in Holding => d # c /\ call[d].phase \in Holding
    BY <1>1, <1>3, <1>4, <1>5, <1>6
  <2>3. \A i \in DOMAIN history : history[i].call \in Requests
    BY HistoryEntry DEF Inv, TypeInv
  <2>4. \A d \in Requests \ {c} : call'[d] = call[d] /\ (Stopped(d)' <=> Stopped(d))
    BY <1>5 DEF Stopped
  <2> HIDE DEF Holding, Attempted, Stopped
  <2>5. \A i \in DOMAIN history :
          call'[history[i].call].phase \in Attempted /\ ~ Stopped(history[i].call)'
    <3> TAKE i \in DOMAIN history
    <3> DEFINE d == history[i].call
    <3>1. d \in Requests /\ call[d].phase \in Attempted /\ ~ Stopped(d)
      BY <2>3 DEF Inv, GateOK
    <3>2. d \in Requests \ {c}
      BY <3>1, <2>1
    <3> QED
      BY <3>1, <3>2, <2>4, <1>1
  <2> QED
    BY <1>1, <2>2, <2>4, <2>5 DEF Inv, GateOK
<1> QED
  BY <1>8, <1>9, <1>10, <1>11, <1>12 DEF Inv, TypeInv

\* A target that comes or goes keeps the invariant.
LEMMA AvailabilityKeeps ==
  ASSUME Inv, NEW target \in FlakyTargets, SetTargetAvailable(target)
  PROVE  Inv'
<1>1. UNCHANGED <<store, mutation_mutex, running, call, audits, unrecorded, history>>
  BY DEF SetTargetAvailable
<1>2. available' \subseteq Targets
  BY SchedulerAssumption DEF SetTargetAvailable, Inv, TypeInv, TypeOK
<1>3. TypeOK' /\ PreflightOK' /\ AuditOK'
  BY <1>1, <1>2 DEF Inv, TypeInv, TypeOK, PreflightOK, AuditOK
<1>4. StackOK' /\ MutexOK'
  BY <1>1 DEF Inv, StackOK, MutexOK
<1>5. GateOK'
  BY <1>1 DEF Inv, GateOK, Stopped
<1> QED
  BY <1>3, <1>4, <1>5 DEF Inv, TypeInv

\* Nothing happens.
LEMMA StutterKeeps ==
  ASSUME Inv, UNCHANGED vars
  PROVE  Inv'
<1>1. UNCHANGED <<store, available, mutation_mutex, running, call, audits, unrecorded, history>>
  BY DEF vars
<1>2. TypeOK' /\ PreflightOK' /\ AuditOK'
  BY <1>1 DEF Inv, TypeInv, TypeOK, PreflightOK, AuditOK
<1>3. StackOK' /\ MutexOK'
  BY <1>1 DEF Inv, StackOK, MutexOK
<1>4. GateOK'
  BY <1>1 DEF Inv, GateOK, Stopped
<1> QED
  BY <1>2, <1>3, <1>4 DEF Inv, TypeInv

\* The final validation takes a mutex that is free, and keeps the invariant.
LEMMA LockKeeps ==
  ASSUME Inv, NEW t \in Threads, LockAndRevalidate(t)
  PROVE  Inv'
<1> DEFINE c == running[t]
           before == IF Body[c].form = "transact" THEN Capture(c) ELSE call[c].before
           record == [call[c] EXCEPT !.phase = "locked", !.edited = FALSE, !.before = before]
<1>1. c \in Requests /\ call[c] \in CallRecord /\ call[c].phase = "before" /\ ~ Stopped(c)
      /\ c # NoCall
  BY RunningCall DEF Inv, TypeInv, LockAndRevalidate, Published, InPhase
<1>2. /\ UNCHANGED <<store, available, running, audits, unrecorded, history>>
      /\ call \in [Requests -> CallRecord]
      /\ running \in [Threads -> Requests \cup {NoCall}]
      /\ NoThread \notin Threads
  BY SchedulerAssumption DEF LockAndRevalidate, Inv, TypeInv, TypeOK
<1>3. call' = [call EXCEPT ![c] = record]
  BY <1>1, <1>2 DEF LockAndRevalidate
<1>4. before \in Captures
  BY <1>1, CaptureType DEF Inv, TypeInv, CallRecord
<1> HIDE DEF before
<1>5. /\ record \in CallRecord /\ record.phase = "locked" /\ record.parent = call[c].parent
      /\ record.failed = call[c].failed /\ record.cancelled = call[c].cancelled
  <2>1. "locked" \in Phases
    BY DEF Phases
  <2> QED
    BY <1>1, <1>4, <2>1 DEF CallRecord
<1> HIDE DEF record
<1>6. OnlyCall(c) /\ call'[c] = record
  BY <1>1, <1>3, <1>5, UpdateStep DEF Inv
<1>7. call' \in [Requests -> CallRecord] /\ \A d \in Requests \ {c} : call'[d] = call[d]
  BY <1>6 DEF OnlyCall
<1>8. Proceeds(c)
  BY <1>1, <1>5, <1>6 DEF Proceeds, Active, Attempted, Phases
<1>9. mutation_mutex.owner = NoThread /\ mutation_mutex' = [owner |-> t, depth |-> 1]
  <2>1. mutation_mutex.owner # t
    BY <1>1, <1>2 DEF Inv, MutexOK, Holding
  <2>2. mutation_mutex.owner = NoThread
    BY <2>1 DEF LockAndRevalidate, CanLock
  <2>3. mutation_mutex.depth = 0
    BY <2>2 DEF Inv, MutexOK
  <2> QED
    BY <2>2, <2>3 DEF LockAndRevalidate, Lock
<1>10. TypeOK'
  BY <1>2, <1>7, <1>9 DEF Inv, TypeInv, TypeOK
<1>11. PreflightOK' /\ AuditOK'
  BY <1>2, <1>5, <1>6, <1>7 DEF Inv, TypeInv, PreflightOK, AuditOK
<1>12. StackOK'
  BY <1>1, <1>2, <1>8, StackKept
<1>13. MutexOK'
  <2>1. \A d \in Requests : call[d].phase \notin Holding
    BY <1>2, <1>9 DEF Inv, MutexOK
  <2>2. \A d \in Requests : call'[d].phase \in Holding => d = c
    BY <1>7, <2>1
  <2>3. call'[c].phase \in Holding
    BY <1>5, <1>6 DEF Holding
  <2>4. running'[t] = c /\ mutation_mutex'.owner = t /\ mutation_mutex'.depth = 1
    BY <1>2, <1>9
  <2> HIDE DEF Holding, c
  <2>5. t \in Threads /\ t # NoThread /\ c # NoCall
    BY <1>1, <1>2
  <2>6. \A d \in Requests : call'[d].phase \in Holding =>
          mutation_mutex'.owner \in Threads /\ running'[mutation_mutex'.owner] = d
    BY <2>2, <2>4, <2>5
  <2>7. /\ running'[mutation_mutex'.owner] # NoCall
        /\ call'[running'[mutation_mutex'.owner]].phase \in Holding
        /\ mutation_mutex'.depth = 1 /\ mutation_mutex'.owner # NoThread
    BY <2>3, <2>4, <2>5
  <2> QED
    BY <2>6, <2>7 DEF MutexOK
<1>14. GateOK'
  <2>1. ~ call'[c].failed /\ ~ call'[c].cancelled
    BY <1>1, <1>5, <1>6 DEF Stopped
  <2> QED
    BY <1>1, <1>2, <1>8, <2>1, GateKept
<1> QED
  BY <1>10, <1>11, <1>12, <1>13, <1>14 DEF Inv, TypeInv
\* A call that commits is run by the thread that owns the mutex.
LEMMA HolderOwns ==
  ASSUME Inv, NEW t \in Threads, running[t] # NoCall, call[running[t]].phase \in Holding
  PROVE  mutation_mutex.owner = t /\ mutation_mutex.depth = 1
<1>1. running[t] \in Requests
  BY RunningCall DEF Inv, TypeInv
<1>2. mutation_mutex.owner \in Threads /\ running[mutation_mutex.owner] = running[t]
  BY <1>1 DEF Inv, MutexOK
<1>3. mutation_mutex.owner = t
  BY <1>2 DEF Inv, StackOK
<1> QED
  BY <1>3, SchedulerAssumption DEF Inv, MutexOK

\* The call that commits releases the mutex.
LEMMA UnlockStep ==
  ASSUME Inv, NEW t \in Threads, running[t] # NoCall, call[running[t]].phase \in Holding,
         Unlock(t), UNCHANGED running,
         OnlyCall(running[t]), call'[running[t]].phase \notin Holding
  PROVE  MutexOK' /\ mutation_mutex' \in [owner : Threads \cup {NoThread}, depth : Nat]
<1> DEFINE c == running[t]
<1>1. mutation_mutex.owner = t /\ mutation_mutex.depth = 1
  BY HolderOwns
<1>2. mutation_mutex' = [owner |-> NoThread, depth |-> 0]
  BY <1>1 DEF Unlock
<1>3. \A d \in Requests : call[d].phase \in Holding => d = c
  BY <1>1 DEF Inv, MutexOK
<1>4. \A d \in Requests : call'[d].phase \notin Holding
  BY <1>3 DEF OnlyCall
<1> QED
  BY <1>2, <1>4 DEF MutexOK

\* A commit by a call that the gate let pass keeps the gate.
LEMMA CommitGate ==
  ASSUME Inv, NEW c \in Requests, NEW after \in Store, Commit(c, after),
         call[c].phase = "locked", Proceeds(c),
         call'[c].phase \in Attempted,
         call'[c].failed = call[c].failed, call'[c].cancelled = call[c].cancelled
  PROVE  GateOK' /\ history' \in Seq(CommitRecord) /\ store' \in Store
<1> DEFINE entry == [call |-> c, before |-> store, after |-> after]
<1>1. history \in Seq(CommitRecord) /\ store \in Store
  BY DEF Inv, TypeInv, TypeOK
<1>2. history' = Append(history, entry) /\ store' = after
  BY DEF Commit
<1>3. entry \in CommitRecord /\ entry.call = c
  BY <1>1 DEF CommitRecord
<1> HIDE DEF entry
<1>4. history' \in Seq(CommitRecord)
  BY <1>1, <1>2, <1>3
<1>5. \A i \in DOMAIN history' :
        (i \in DOMAIN history /\ history'[i] = history[i]) \/ history'[i] = entry
  BY <1>1, <1>2, <1>3
<1>6. ~ Stopped(c) /\ ~ (call'[c].cancelled \/ call'[c].failed)
  BY DEF Inv, GateOK, Holding, Stopped
<1>7. ASSUME NEW d \in Requests, d # c
      PROVE  call'[d] = call[d]
  BY <1>7 DEF Proceeds, OnlyCall
<1>8. \A d \in Requests : call'[d].phase \in Holding => ~ (call'[d].cancelled \/ call'[d].failed)
  BY <1>6, <1>7 DEF Inv, GateOK, Stopped
<1>9. ASSUME NEW i \in DOMAIN history'
      PROVE  call'[history'[i].call].phase \in Attempted
             /\ ~ (call'[history'[i].call].cancelled \/ call'[history'[i].call].failed)
  <2>1. CASE history'[i] = entry
    BY <2>1, <1>3, <1>6
  <2>2. CASE i \in DOMAIN history /\ history'[i] = history[i]
    <3>1. /\ history[i].call \in Requests
          /\ call[history[i].call].phase \in Attempted /\ ~ Stopped(history[i].call)
      BY <2>2, HistoryEntry DEF Inv, TypeInv, GateOK
    <3>2. history[i].call # c
      BY <3>1 DEF Attempted
    <3> QED
      BY <2>2, <3>1, <3>2, <1>7 DEF Stopped
  <2> QED
    BY <1>5, <1>9, <2>1, <2>2
<1>10. GateOK'
  <2> HIDE DEF Holding, Attempted
  <2> QED
    BY <1>8, <1>9 DEF GateOK, Stopped
<1> QED
  BY <1>2, <1>4, <1>10
\* The snapshots of some collections of a store.
LEMMA SnapshotsType ==
  ASSUME NEW s \in Store, NEW D \in SUBSET CollectionRef
  PROVE  [r \in D |-> s[r]] \in Captures
<1>1. \A r \in D : s[r] \in Snapshot
  BY DEF Store
<1>2. [r \in D |-> s[r]] \in [D -> Snapshot]
  BY <1>1
<1> QED
  BY <1>2 DEF Captures

\* Statuses of the adapter are statuses of the service.
LEMMA AdapterStatuses ==
  StatusesOfApply \subseteq Statuses
BY DEF StatusesOfApply, Statuses

\* The adapter's apply, successful or not, keeps the invariant and frees the
\* mutex.
LEMMA AdapterApplyKeeps ==
  ASSUME Inv, NEW t \in Threads, AdapterApply(t)
  PROVE  Inv'
<1> DEFINE c == running[t]
           op == Ops(c)[1]
           status == ApplyStatus(store, available, op, Body[c].force)
           after == Effect(store, op)
           captured == [r \in Refs(c) |-> store[r]]
           recaptured == [r \in Refs(c) |-> after[r]]
           applied == [call[c] EXCEPT !.phase = "after", !.at = 1, !.results = <<status>>,
                                      !.before = captured, !.after = recaptured]
           refused == [call[c] EXCEPT !.phase = "after", !.at = 1, !.status = status,
                                      !.results = <<status>>]
<1>1. c \in Requests /\ call[c] \in CallRecord /\ call[c].phase = "locked" /\ c # NoCall
  BY RunningCall DEF Inv, TypeInv, AdapterApply, InPhase
<1>2. /\ UNCHANGED <<available, running, audits, unrecorded>>
      /\ Unlock(t)
      /\ call \in [Requests -> CallRecord] /\ store \in Store
  BY DEF AdapterApply, Inv, TypeInv, TypeOK
<1>3. op \in Operation
  <2>1. Ops(c) \in Seq(Operation) /\ Len(Ops(c)) = 1
    BY <1>1, RequestFacts DEF AdapterApply
  <2> QED
    BY <2>1, SMTT(30)
<1>4. status \in Statuses /\ <<status>> \in Seq(Statuses)
  <2>1. status \in StatusesOfApply
    BY <1>3, ApplyStatusType
  <2>2. status \in Statuses
    BY <2>1, AdapterStatuses
  <2> QED
    BY <2>2
<1>5. after \in Store
  BY <1>2, <1>3, OperationFollows DEF Follows
<1>6. captured \in Captures /\ recaptured \in Captures
  BY <1>1, <1>2, <1>5, RequestFacts, SnapshotsType, SMTT(30)
<1>7. \/ Commit(c, after) /\ call' = [call EXCEPT ![c] = applied]
      \/ UNCHANGED <<store, history>> /\ call' = [call EXCEPT ![c] = refused]
  BY <1>1, <1>2 DEF AdapterApply
<1>8. /\ "after" \in Phases /\ 1 \in Nat
      /\ "locked" \in Active /\ "after" \in Active /\ "after" \in Attempted
      /\ "locked" \notin Attempted /\ "locked" \in Holding /\ "after" \notin Holding
  BY DEF Phases, Active, Attempted, Holding
<1> HIDE DEF status, after, captured, recaptured
<1>9. applied \in CallRecord /\ refused \in CallRecord
  BY <1>1, <1>4, <1>6, <1>8 DEF CallRecord
<1>10. /\ applied.phase = "after" /\ refused.phase = "after"
       /\ applied.parent = call[c].parent /\ refused.parent = call[c].parent
       /\ applied.failed = call[c].failed /\ refused.failed = call[c].failed
       /\ applied.cancelled = call[c].cancelled /\ refused.cancelled = call[c].cancelled
  BY <1>1 DEF CallRecord
<1> HIDE DEF applied, refused
<1>11. /\ OnlyCall(c) /\ Proceeds(c)
       /\ call'[c].phase = "after"
       /\ call'[c].failed = call[c].failed /\ call'[c].cancelled = call[c].cancelled
  <2>1. OnlyCall(c) /\ call'[c] \in {applied, refused}
    BY <1>1, <1>7, <1>9, UpdateStep DEF Inv
  <2> QED
    BY <1>1, <1>8, <1>10, <2>1 DEF Proceeds
<1>12. MutexOK' /\ mutation_mutex' \in [owner : Threads \cup {NoThread}, depth : Nat]
  BY <1>1, <1>2, <1>8, <1>11, UnlockStep
<1>13. GateOK' /\ history' \in Seq(CommitRecord) /\ store' \in Store
  <2>1. CASE Commit(c, after)
    BY <1>1, <1>5, <1>8, <1>11, <2>1, CommitGate
  <2>2. CASE UNCHANGED <<store, history>>
    BY <1>1, <1>8, <1>11, <2>2, GateKept DEF Inv, TypeInv, TypeOK
  <2> QED
    BY <1>7, <2>1, <2>2
<1>14. TypeOK'
  BY <1>2, <1>11, <1>12, <1>13 DEF OnlyCall, Inv, TypeInv, TypeOK
<1>15. PreflightOK' /\ AuditOK'
  BY <1>11 DEF OnlyCall, Inv, TypeInv, PreflightOK, AuditOK
<1>16. StackOK'
  BY <1>1, <1>2, <1>11, StackKept
<1> QED
  BY <1>12, <1>13, <1>14, <1>15, <1>16, SMTT(30) DEF Inv, TypeInv

\* The adapter's transact keeps the invariant; the mutex stays locked.
LEMMA AdapterTransactKeeps ==
  ASSUME Inv, NEW t \in Threads, AdapterTransact(t)
  PROVE  Inv'
<1> DEFINE c == running[t]
           statuses == TransactStatuses(store, available, Ops(c), Body[c].force)
           after == Candidates(store, Ops(c))[Len(Ops(c))]
           rolled_back == RolledBack(c)
           applied == [call[c] EXCEPT !.phase = "committed", !.results = statuses]
           refused == [call[c] EXCEPT !.phase = "committed", !.results = statuses,
                                      !.status = "TransactionFailed",
                                      !.rolled_back = rolled_back]
<1>1. c \in Requests /\ call[c] \in CallRecord /\ call[c].phase = "locked" /\ c # NoCall
  BY RunningCall DEF Inv, TypeInv, AdapterTransact, InPhase
<1>2. /\ UNCHANGED <<available, mutation_mutex, running, audits, unrecorded>>
      /\ call \in [Requests -> CallRecord] /\ store \in Store
  BY DEF AdapterTransact, Inv, TypeInv, TypeOK
<1>3. statuses \in Seq(Statuses)
  <2>1. statuses \in Seq(StatusesOfApply)
    BY <1>1, RequestFacts, TransactStatusesAre
  <2> QED
    BY <2>1, AdapterStatuses
<1>4. after \in Store
  BY <1>1, <1>2, RequestFacts, CandidatesInStore
<1>5. rolled_back \in BOOLEAN /\ "TransactionFailed" \in Statuses
  BY <1>1, RequestFacts DEF RolledBack, Statuses
<1>6. \/ Commit(c, after) /\ call' = [call EXCEPT ![c] = applied]
      \/ UNCHANGED <<store, history>> /\ call' = [call EXCEPT ![c] = refused]
  BY <1>1, <1>2 DEF AdapterTransact
<1>7. /\ "committed" \in Phases
      /\ "locked" \in Active /\ "committed" \in Active /\ "committed" \in Attempted
      /\ "locked" \notin Attempted /\ "locked" \in Holding /\ "committed" \in Holding
  BY DEF Phases, Active, Attempted, Holding
<1> HIDE DEF statuses, after, rolled_back
<1>8. applied \in CallRecord /\ refused \in CallRecord
  BY <1>1, <1>3, <1>5, <1>7 DEF CallRecord
<1>9. /\ applied.phase = "committed" /\ refused.phase = "committed"
      /\ applied.parent = call[c].parent /\ refused.parent = call[c].parent
      /\ applied.failed = call[c].failed /\ refused.failed = call[c].failed
      /\ applied.cancelled = call[c].cancelled /\ refused.cancelled = call[c].cancelled
  BY <1>1 DEF CallRecord
<1> HIDE DEF applied, refused
<1>10. /\ OnlyCall(c) /\ Proceeds(c)
       /\ call'[c].phase = "committed"
       /\ call'[c].failed = call[c].failed /\ call'[c].cancelled = call[c].cancelled
  <2>1. OnlyCall(c) /\ call'[c] \in {applied, refused}
    BY <1>1, <1>6, <1>8, UpdateStep DEF Inv
  <2> QED
    BY <1>1, <1>7, <1>9, <2>1 DEF Proceeds
<1>11. MutexOK'
  BY <1>1, <1>2, <1>7, <1>10, MutexKept
<1>12. GateOK' /\ history' \in Seq(CommitRecord) /\ store' \in Store
  <2>1. CASE Commit(c, after)
    BY <1>1, <1>4, <1>7, <1>10, <2>1, CommitGate
  <2>2. CASE UNCHANGED <<store, history>>
    <3>1. ~ call[c].failed /\ ~ call[c].cancelled
      BY <1>1, <1>7 DEF Inv, GateOK, Stopped
    <3>2. GateOK'
      BY <1>1, <1>10, <2>2, <3>1, GateKept
    <3> QED
      BY <2>2, <3>2 DEF Inv, TypeInv, TypeOK
  <2> QED
    BY <1>6, <2>1, <2>2
<1>13. TypeOK'
  BY <1>2, <1>10, <1>12 DEF OnlyCall, Inv, TypeInv, TypeOK
<1>14. PreflightOK' /\ AuditOK'
  BY <1>10 DEF OnlyCall, Inv, TypeInv, PreflightOK, AuditOK
<1>15. StackOK'
  BY <1>1, <1>2, <1>10, StackKept
<1> QED
  BY <1>11, <1>12, <1>13, <1>14, <1>15 DEF Inv, TypeInv

\* The captures after a transaction keep the invariant, and free the mutex.
LEMMA RecaptureKeeps ==
  ASSUME Inv, NEW t \in Threads, RecaptureAndUnlock(t)
  PROVE  Inv'
<1> DEFINE c == running[t]
           captured == Capture(c)
           record == [call[c] EXCEPT !.phase = "after", !.at = 1, !.after = captured]
<1>1. c \in Requests /\ call[c] \in CallRecord /\ call[c].phase = "committed" /\ c # NoCall
  BY RunningCall DEF Inv, TypeInv, RecaptureAndUnlock, InPhase
<1>2. /\ UNCHANGED <<store, available, running, audits, unrecorded, history>>
      /\ Unlock(t) /\ call \in [Requests -> CallRecord]
  BY DEF RecaptureAndUnlock, Inv, TypeInv, TypeOK
<1>3. captured \in Captures
  BY <1>1, CaptureType DEF Inv, TypeInv
<1>4. call' = [call EXCEPT ![c] = record]
  BY <1>1, <1>2 DEF RecaptureAndUnlock
<1>5. /\ "after" \in Phases /\ 1 \in Nat
      /\ "committed" \in Active /\ "after" \in Active /\ "after" \in Attempted
      /\ "committed" \in Holding /\ "after" \notin Holding
  BY DEF Phases, Active, Attempted, Holding
<1> HIDE DEF captured
<1>6. /\ record \in CallRecord /\ record.phase = "after" /\ record.parent = call[c].parent
      /\ record.failed = call[c].failed /\ record.cancelled = call[c].cancelled
  BY <1>1, <1>3, <1>5 DEF CallRecord
<1> HIDE DEF record
<1>7. OnlyCall(c) /\ call'[c] = record
  BY <1>1, <1>4, <1>6, UpdateStep DEF Inv
<1>8. Proceeds(c)
  BY <1>1, <1>5, <1>6, <1>7 DEF Proceeds
<1>9. MutexOK' /\ mutation_mutex' \in [owner : Threads \cup {NoThread}, depth : Nat]
  BY <1>1, <1>2, <1>5, <1>6, <1>7, UnlockStep
<1>10. GateOK'
  BY <1>1, <1>2, <1>5, <1>6, <1>7, <1>8, GateKept
<1>11. TypeOK'
  BY <1>2, <1>7, <1>9 DEF OnlyCall, Inv, TypeInv, TypeOK
<1>12. PreflightOK' /\ AuditOK'
  BY <1>6, <1>7 DEF OnlyCall, Inv, TypeInv, PreflightOK, AuditOK
<1>13. StackOK'
  BY <1>1, <1>2, <1>8, StackKept
<1> QED
  BY <1>9, <1>10, <1>11, <1>12, <1>13 DEF Inv, TypeInv

\* The invariant holds initially.
LEMMA InitInv ==
  ASSUME Init
  PROVE  Inv
<1>1. TypeOK
  <2>1. call \in [Requests -> CallRecord]
    BY IdleType DEF Init
  <2>2. audits \in [Requests -> Seq(AuditRecord)] /\ history \in Seq(CommitRecord)
    BY DEF Init
  <2> QED
    BY <2>1, <2>2, StoreAssumption DEF Init, TypeOK
<1>2. \A c \in Requests : call[c].phase = "idle"
  BY DEF Init, Idle
<1>3. PreflightOK /\ AuditOK
  BY <1>2 DEF PreflightOK, AuditOK
<1>4. StackOK /\ MutexOK /\ GateOK
  BY <1>2 DEF Init, StackOK, MutexOK, GateOK, Active, Holding
<1> QED
  BY <1>1, <1>3, <1>4 DEF Inv, TypeInv

\* Every step keeps the invariant.
LEMMA NextInv ==
  ASSUME Inv, [Next]_vars
  PROVE  Inv'
<1>1. CASE UNCHANGED vars
  BY <1>1, StutterKeeps
<1>2. ASSUME NEW t \in Threads, Advance(t) PROVE Inv'
  BY <1>2, PreflightCaptureKeeps, ListenerReturnsKeeps, ListenerDecidesKeeps,
     ListenerThrowsKeeps, ListenerEditsKeeps, CancelKeeps, LockKeeps, RefuseCommitKeeps,
     AdapterApplyKeeps, AdapterTransactKeeps, RecaptureKeeps, PublishMigratedKeeps,
     BeginAuditKeeps, AuditKeeps, ReplyKeeps DEF Advance
<1>3. ASSUME NEW t \in Threads, NEW c \in Requests, ReturnAtOnce(t, c) \/ Begin(t, c)
      PROVE  Inv'
  BY <1>3, ReturnAtOnceKeeps, BeginKeeps
<1>4. ASSUME NEW target \in FlakyTargets, SetTargetAvailable(target) PROVE Inv'
  BY <1>4, AvailabilityKeeps
<1>5. CASE Terminated
  BY <1>5, StutterKeeps DEF Terminated
<1> QED
  BY <1>1, <1>2, <1>3, <1>4, <1>5 DEF Next

\* The invariant holds in every reachable state.
THEOREM Invariance == Spec => []Inv
BY InitInv, NextInv, PTL DEF Spec

\* Every variable has its type, whatever the calls, listeners and limits.
THEOREM TypeCorrect == Spec => []TypeOK
<1>1. Inv => TypeOK
  BY DEF Inv, TypeInv
<1> QED
  BY <1>1, Invariance, PTL

\* Callbacks run outside mutation_mutex_, and a nested call never re-enters a
\* commit (service.h:177-179).
THEOREM LockFree == Spec => []CallbacksOutsideLock
<1>1. Inv => CallbacksOutsideLock
  <2> SUFFICES ASSUME Inv PROVE CallbacksOutsideLock
    OBVIOUS
  <2>1. \A t \in Threads : InListener(t) => mutation_mutex.owner # t
    BY SchedulerAssumption DEF InListener, Publishing, Inv, MutexOK, Holding
  <2>2. mutation_mutex.depth <= 1
    BY DEF Inv, MutexOK
  <2> QED
    BY <2>1, <2>2 DEF CallbacksOutsideLock
<1> QED
  BY <1>1, Invariance, PTL

\* A call whose before-event was cancelled, or one of whose before-listeners
\* threw, never commits (publish in service.cpp fails closed).
THEOREM GateHolds == Spec => []FailClosed
<1>1. Inv => FailClosed
  BY DEF Inv, GateOK, FailClosed, Stopped
<1> QED
  BY <1>1, Invariance, PTL

-----------------------------------------------------------------------------
(* Limits and namespaces.                                                  *)

\* Every non-empty set of positions has a first one.
LEMMA FirstPosition ==
  ASSUME NEW n \in Nat, NEW S \in SUBSET (1..n), S # {}
  PROVE  \E x \in S : \A y \in S : x <= y
<1> DEFINE T == {n - x : x \in S}
<1>1. T \in SUBSET (0..n) /\ T # {}
  <2>1. \A x \in S : x \in 1..n /\ n - x \in 0..n
    OBVIOUS
  <2>2. PICK x : x \in S
    OBVIOUS
  <2>3. n - x \in T
    BY <2>2
  <2> QED
    BY <2>1, <2>3
<1>2. PICK z \in T : \A y \in T : y <= z
  BY <1>1, GreatestElement
<1>3. PICK x \in S : z = n - x
  BY <1>2
<1>4. \A y \in S : n - y <= n - x
  BY <1>2, <1>3
<1>5. \A y \in S : x <= y
  BY <1>4
<1> QED
  BY <1>5

\* A call that passes validation passes it with each of its operations.
LEMMA ValidationCoversAll ==
  ASSUME NEW c \in Requests, ValidationStatus(c) = "Applied", NEW i \in 1..Len(Ops(c))
  PROVE  OperationStatus(Ops(c)[i], Body[c].context, Body[c].service) = "Applied"
<1> DEFINE Status(j) == OperationStatus(Ops(c)[j], Body[c].context, Body[c].service)
           bad == {j \in DOMAIN Ops(c) : Status(j) # "Applied"}
           first == CHOOSE j \in bad : \A k \in bad : j <= k
<1>1. Len(Ops(c)) \in Nat /\ DOMAIN Ops(c) = 1..Len(Ops(c))
  BY RequestFacts
<1>2. ValidationStatus(c) = IF bad = {} THEN "Applied" ELSE Status(first)
  BY DEF ValidationStatus
<1>3. bad \in SUBSET (1..Len(Ops(c))) /\ \A j \in bad : Status(j) # "Applied"
  BY <1>1
<1>4. i \notin bad => Status(i) = "Applied"
  BY <1>1
<1> HIDE DEF bad, Status
<1>5. bad # {} => first \in bad
  BY <1>1, <1>3, FirstPosition
<1>6. Status(i) = "Applied"
  BY <1>2, <1>3, <1>4, <1>5
<1> QED
  BY <1>6 DEF Status

\* A collection of a validated call is within the reach of its caller, and no
\* operation of it moves something onto itself.
LEMMA ValidatedOperations ==
  ASSUME NEW c \in Requests, ValidationStatus(c) = "Applied"
  PROVE  /\ \A r \in Refs(c) : CanAccess(Body[c].context, r)
         /\ \A i \in 1..Len(Ops(c)) : ~ MovesOntoItself(Ops(c)[i])
<1>1. ASSUME NEW i \in 1..Len(Ops(c))
      PROVE  /\ \A r \in {Source(Ops(c)[i]), Destination(Ops(c)[i])} :
                  CanAccess(Body[c].context, r)
             /\ ~ MovesOntoItself(Ops(c)[i])
  <2>1. OperationStatus(Ops(c)[i], Body[c].context, Body[c].service) = "Applied"
    BY <1>1, ValidationCoversAll
  <2> QED
    BY <2>1 DEF OperationStatus
<1>2. DOMAIN Ops(c) = 1..Len(Ops(c))
  BY RequestFacts
<1> QED
  BY <1>1, <1>2 DEF Refs, InvolvedRefs

\* What the final validation established still holds when the adapter is called.
LockedOK ==
  \A c \in Requests : call[c].phase = "locked" =>
    /\ ValidationStatus(c) = "Applied"
    /\ ~ ExceedsLimit([r \in Refs(c) |-> store[r]], Ops(c), Limit[Body[c].service])

\* A commit as the properties want it.
Sound(entry) ==
  \A r \in CollectionRef : entry.after[r] # entry.before[r] =>
    /\ Cardinality(KeysOf(entry.after[r].properties)) <= Limit[Body[entry.call].service]
    /\ CanAccess(Body[entry.call].context, r)

CommitInv == LockedOK /\ \A i \in DOMAIN history : Sound(history[i])

\* The operations of a locked call, once applied, make a sound commit.
LEMMA SoundCommit ==
  ASSUME Inv, CommitInv, NEW c \in Requests, call[c].phase = "locked",
         NEW after, after = Candidates(store, Ops(c))[Len(Ops(c))],
         \A i \in 1..Len(Ops(c)) :
           BranchStatus(Candidates(store, Ops(c))[i - 1], Ops(c)[i]) = "Applied"
  PROVE  Sound([call |-> c, before |-> store, after |-> after])
<1> DEFINE limit == Limit[Body[c].service]
           entry == [call |-> c, before |-> store, after |-> after]
<1>1. /\ Ops(c) \in Seq(Operation) /\ Refs(c) \in SUBSET CollectionRef /\ limit \in Nat
      /\ store \in Store
  BY RequestFacts DEF Inv, TypeInv, TypeOK
<1>2. /\ ValidationStatus(c) = "Applied"
      /\ ~ ExceedsLimit([r \in Refs(c) |-> store[r]], Ops(c), limit)
  BY DEF CommitInv, LockedOK
<1>3. Applicable(store, Ops(c))
  BY <1>2, ValidatedOperations DEF Applicable
<1>4. \A r \in Refs(c) : Cardinality(KeysOf(after[r].properties)) <= limit
  <2> TAKE r \in Refs(c)
  <2>1. r \in InvolvedRefs(Ops(c)) /\ InvolvedRefs(Ops(c)) \subseteq Refs(c)
    BY DEF Refs
  <2>2. Ops(c) # <<>>
    BY <2>1 DEF InvolvedRefs
  <2> HIDE DEF limit
  <2> QED
    BY <1>1, <1>2, <1>3, <2>1, <2>2, LimitSound
<1>5. \A r \in CollectionRef \ Refs(c) : after[r] = store[r]
  BY <1>1, TransactionFrame DEF Refs
<1>6. \A r \in Refs(c) : CanAccess(Body[c].context, r)
  BY <1>2, ValidatedOperations
<1>7. entry.call = c /\ entry.before = store /\ entry.after = after
  OBVIOUS
<1> HIDE DEF entry
<1>8. Sound(entry)
  BY <1>4, <1>5, <1>6, <1>7 DEF Sound
<1> QED
  BY <1>8 DEF entry
\* A step without a commit that lets no call lock keeps the commits sound.
LEMMA CommitInvKept ==
  ASSUME CommitInv, UNCHANGED <<store, history>>,
         \A c \in Requests : call'[c].phase = "locked" => call[c].phase = "locked"
  PROVE  CommitInv'
<1>1. LockedOK'
  BY DEF CommitInv, LockedOK
<1>2. \A i \in DOMAIN history' : Sound(history'[i])
  BY DEF CommitInv
<1> QED
  BY <1>1, <1>2 DEF CommitInv

\* Only LockAndRevalidate locks, and only the adapter's steps commit.
LEMMA OtherSteps ==
  ASSUME Inv, NEW t \in Threads,
         \/ PreflightCapture(t)
         \/ ListenerReturns(t) \/ ListenerDecides(t) \/ ListenerThrows(t) \/ ListenerEdits(t)
         \/ Cancel(t) \/ RefuseCommit(t) \/ RecaptureAndUnlock(t)
         \/ PublishMigrated(t) \/ BeginAudit(t) \/ Audit(t) \/ Reply(t)
  PROVE  /\ UNCHANGED <<store, history>>
         /\ \A c \in Requests : call'[c].phase = "locked" => call[c].phase = "locked"
<1>1. /\ call \in [Requests -> CallRecord]
      /\ \A c \in Requests : DOMAIN call[c] = Fields
  BY DEF Inv, TypeInv, TypeOK, CallRecord, Fields
<1>2. DOMAIN Idle = Fields
  BY DEF Idle, Fields
<1>3. CASE PreflightCapture(t)
  <2> DEFINE c == running[t]
             captured == WithNext(c)
  <2>1. \/ Return(t, c, "TargetUnavailable") \/ Return(t, c, "InvalidValue")
        \/ call' = [call EXCEPT ![c].captured = captured]
        \/ call' = [call EXCEPT ![c].captured = captured, ![c].phase = "before", ![c].at = 1]
    BY <1>3 DEF PreflightCapture
  <2>2. UNCHANGED <<store, history>>
    BY <1>3 DEF PreflightCapture
  <2> HIDE DEF captured
  <2>3. CASE Return(t, c, "TargetUnavailable") \/ Return(t, c, "InvalidValue")
    <3> DEFINE Record(status) == [Idle EXCEPT !.phase = "returned", !.status = status,
                                    !.failed = call[c].failed,
                                    !.cancelled = call[c].cancelled,
                                    !.vetoed = call[c].vetoed,
                                    !.results = call[c].results]
    <3>1. \E status : call' = [call EXCEPT ![c] = Record(status)]
      BY <2>3 DEF Return, Fields
    <3>2. \A status : Record(status).phase = "returned"
      BY <1>2 DEF Fields
    <3> HIDE DEF Record
    <3> QED
      BY <1>1, <2>2, <3>1, <3>2 DEF Fields
  <2>4. CASE call' = [call EXCEPT ![c].captured = captured]
    BY <1>1, <2>2, <2>4 DEF Fields
  <2>5. CASE call' = [call EXCEPT ![c].captured = captured, ![c].phase = "before", ![c].at = 1]
    BY <1>1, <2>2, <2>5 DEF Fields
  <2> QED
    BY <2>1, <2>3, <2>4, <2>5
<1>4. CASE ListenerReturns(t) \/ ListenerDecides(t) \/ ListenerThrows(t) \/ ListenerEdits(t)
  <2> DEFINE c == running[t]
  <2>1. c \in Requests
    BY <1>4, ListenerFacts, ZenonT(60) DEF ListenerReturns, ListenerDecides, ListenerThrows, ListenerEdits
  <2>2. UNCHANGED <<store, history>>
    BY <1>4 DEF ListenerReturns, ListenerDecides, ListenerThrows, ListenerEdits
  <2>3. CASE ListenerReturns(t)
    BY <1>1, <2>1, <2>2, <2>3 DEF ListenerReturns, Fields
  <2>4. CASE ListenerEdits(t)
    BY <1>1, <2>1, <2>2, <2>4 DEF ListenerEdits, Fields
  <2>5. CASE ListenerDecides(t)
    <3>1. PICK cancelled \in BOOLEAN :
            call' = [call EXCEPT ![c].cancelled = cancelled,
                                 ![c].vetoed = @ \/ cancelled,
                                 ![c].at = @ + 1]
      BY <2>5 DEF ListenerDecides
    <3> QED
      BY <1>1, <2>1, <2>2, <3>1, SMTT(30) DEF Fields
  <2>6. CASE ListenerThrows(t)
    BY <1>1, <2>1, <2>2, <2>6 DEF ListenerThrows, Fields
  <2> QED
    BY <1>4, <2>3, <2>4, <2>5, <2>6, SMTT(30)
<1>5. CASE Cancel(t) \/ RefuseCommit(t) \/ RecaptureAndUnlock(t)
  BY <1>1, <1>5 DEF Cancel, RefuseCommit, RecaptureAndUnlock, Fields
<1>6. CASE PublishMigrated(t) \/ BeginAudit(t) \/ Audit(t)
  BY <1>1, <1>6 DEF PublishMigrated, BeginAudit, Audit, Fields
<1>7. CASE Reply(t)
  BY <1>1, <1>2, <1>7 DEF Reply, Return, Fields
<1> QED
  BY <1>3, <1>4, <1>5, <1>6, <1>7

\* Calls that begin or are answered at once neither lock nor commit.
LEMMA EntrySteps ==
  ASSUME Inv, NEW t \in Threads, NEW c \in Requests, ReturnAtOnce(t, c) \/ Begin(t, c)
  PROVE  /\ UNCHANGED <<store, history>>
         /\ \A d \in Requests : call'[d].phase = "locked" => call[d].phase = "locked"
<1>1. call \in [Requests -> CallRecord]
  BY DEF Inv, TypeInv, TypeOK
<1>2. DOMAIN Idle = Fields
  BY DEF Idle, Fields
<1> QED
  BY <1>1, <1>2 DEF ReturnAtOnce, Begin, Fields

\* The final validation establishes what the commit relies on.
LEMMA LockEstablishes ==
  ASSUME Inv, CommitInv, NEW t \in Threads, LockAndRevalidate(t)
  PROVE  CommitInv'
<1> DEFINE c == running[t]
<1>1. /\ UNCHANGED <<store, history>> /\ call \in [Requests -> CallRecord]
      /\ c \in Requests
  BY RunningCall DEF LockAndRevalidate, Published, InPhase, Inv, TypeInv, TypeOK
<1>2. \A d \in Requests \ {c} : call'[d] = call[d]
  BY <1>1 DEF LockAndRevalidate
<1>3. Revalidation(c) = "Applied"
  BY DEF LockAndRevalidate
<1>4. /\ ValidationStatus(c) = "Applied" /\ \A r \in Refs(c) : r.target \in available
      /\ ~ ExceedsLimit(Capture(c), Ops(c), Limit[Body[c].service])
  BY <1>3 DEF Revalidation
<1>5. Capture(c) = [r \in Refs(c) |-> store[r]]
  <2>1. {r \in Refs(c) : r.target \in available} = Refs(c)
    BY <1>4
  <2> QED
    BY <2>1 DEF Capture
<1>6. LockedOK'
  <2> SUFFICES ASSUME NEW d \in Requests, call'[d].phase = "locked"
               PROVE  /\ ValidationStatus(d) = "Applied"
                      /\ ~ ExceedsLimit([r \in Refs(d) |-> store[r]], Ops(d),
                                        Limit[Body[d].service])
    BY <1>1 DEF LockedOK
  <2>1. CASE d = c
    BY <1>4, <1>5, <2>1
  <2>2. CASE d # c
    BY <1>2, <2>2 DEF CommitInv, LockedOK
  <2> QED
    BY <2>1, <2>2
<1>7. \A i \in DOMAIN history' : Sound(history'[i])
  BY <1>1 DEF CommitInv
<1> QED
  BY <1>6, <1>7 DEF CommitInv

\* The adapter's step: nobody else is locked, and what it commits is sound.
LEMMA AdapterCommits ==
  ASSUME Inv, CommitInv, NEW c \in Requests, call[c].phase = "locked",
         \A d \in Requests : call'[d].phase # "locked",
         \/ UNCHANGED history
         \/ /\ Commit(c, Candidates(store, Ops(c))[Len(Ops(c))])
            /\ \A i \in 1..Len(Ops(c)) :
                 BranchStatus(Candidates(store, Ops(c))[i - 1], Ops(c)[i]) = "Applied"
  PROVE  CommitInv'
<1> DEFINE after == Candidates(store, Ops(c))[Len(Ops(c))]
           entry == [call |-> c, before |-> store, after |-> after]
<1>1. LockedOK'
  BY DEF LockedOK
<1>2. CASE UNCHANGED history
  BY <1>1, <1>2 DEF CommitInv
<1>3. CASE /\ Commit(c, after)
           /\ \A i \in 1..Len(Ops(c)) :
                BranchStatus(Candidates(store, Ops(c))[i - 1], Ops(c)[i]) = "Applied"
  <2>1. Sound(entry)
    BY <1>3, SoundCommit
  <2>2. history \in Seq(CommitRecord) /\ history' = Append(history, entry)
    BY <1>3 DEF Commit, Inv, TypeInv, TypeOK
  <2> HIDE DEF entry
  <2>3. \A i \in DOMAIN history' :
          (i \in DOMAIN history /\ history'[i] = history[i]) \/ history'[i] = entry
    BY <2>2
  <2>4. \A i \in DOMAIN history' : Sound(history'[i])
    BY <2>1, <2>3 DEF CommitInv
  <2> QED
    BY <1>1, <2>4 DEF CommitInv
<1> QED
  BY <1>2, <1>3

\* A commit through apply is sound.
LEMMA AdapterApplySound ==
  ASSUME Inv, CommitInv, NEW t \in Threads, AdapterApply(t)
  PROVE  CommitInv'
<1> DEFINE c == running[t]
           op == Ops(c)[1]
<1>1. /\ c \in Requests /\ call[c].phase = "locked" /\ call \in [Requests -> CallRecord]
      /\ call[c] \in CallRecord
  BY RunningCall DEF AdapterApply, InPhase, Inv, TypeInv, TypeOK
<1>2. Ops(c) \in Seq(Operation) /\ Len(Ops(c)) = 1
  BY <1>1, RequestFacts DEF AdapterApply
<1>3. Candidates(store, Ops(c))[0] = store /\ Candidates(store, Ops(c))[1] = Effect(store, op)
  <2>1. 1 \in 1..Len(Ops(c)) /\ 1 - 1 = 0
    BY <1>2, SMTT(30)
  <2> QED
    BY <1>2, <2>1, CandidatesStep
<1>4. \/ UNCHANGED history
      \/ /\ Commit(c, Effect(store, op))
         /\ ApplyStatus(store, available, op, Body[c].force) = "Applied"
  BY DEF AdapterApply
<1>5. ASSUME ApplyStatus(store, available, op, Body[c].force) = "Applied"
      PROVE  BranchStatus(store, op) = "Applied"
  BY <1>5 DEF ApplyStatus
<1>6. mutation_mutex.owner = t /\ mutation_mutex.depth = 1 /\ c # NoCall
  BY <1>1, HolderOwns, SchedulerAssumption DEF Holding
<1>7. \A d \in Requests : call'[d].phase # "locked"
  <2> Unlock(t)
    BY DEF AdapterApply
  <2>1. mutation_mutex' = [owner |-> NoThread, depth |-> 0]
    BY <1>6 DEF Unlock
  <2>2. MutexOK'
    BY AdapterApplyKeeps DEF Inv
  <2> QED
    BY <2>1, <2>2, SchedulerAssumption, SMTT(30) DEF MutexOK, Holding
<1>8. \/ UNCHANGED history
      \/ /\ Commit(c, Candidates(store, Ops(c))[Len(Ops(c))])
         /\ \A i \in 1..Len(Ops(c)) :
              BranchStatus(Candidates(store, Ops(c))[i - 1], Ops(c)[i]) = "Applied"
  <2>1. \A i \in 1..Len(Ops(c)) : i = 1 /\ i - 1 = 0
    BY <1>2
  <2> QED
    BY <1>2, <1>3, <1>4, <1>5, <2>1
<1> QED
  BY <1>1, <1>7, <1>8, AdapterCommits

\* A commit through transact is sound.
LEMMA AdapterTransactSound ==
  ASSUME Inv, CommitInv, NEW t \in Threads, AdapterTransact(t)
  PROVE  CommitInv'
<1> DEFINE c == running[t]
           run == Candidates(store, Ops(c))
           statuses == TransactStatuses(store, available, Ops(c), Body[c].force)
<1>1. /\ c \in Requests /\ call[c].phase = "locked" /\ call \in [Requests -> CallRecord]
      /\ call[c] \in CallRecord
  BY RunningCall DEF AdapterTransact, InPhase, Inv, TypeInv, TypeOK
<1>2. Ops(c) \in Seq(Operation)
  BY <1>1, RequestFacts
<1>3. UNCHANGED history \/ (Commit(c, run[Len(Ops(c))]) /\ Succeeds(statuses))
  BY DEF AdapterTransact
<1>4. ASSUME Succeeds(statuses), NEW i \in 1..Len(Ops(c))
      PROVE  BranchStatus(run[i - 1], Ops(c)[i]) = "Applied"
  <2>1. ApplyStatus(run[i - 1], available, Ops(c)[i], Body[c].force) = "Applied"
    BY <1>2, <1>4, TransactStatusesAre DEF Succeeds
  <2> QED
    BY <2>1 DEF ApplyStatus
<1>5. call'[c].phase = "committed" /\ \A d \in Requests \ {c} : call'[d] = call[d]
  <2>1. DOMAIN call[c] = Fields
    BY <1>1 DEF CallRecord, Fields
  <2> QED
    BY <1>1, <2>1 DEF AdapterTransact, Fields
<1>6. \A d \in Requests : call'[d].phase # "locked"
  BY <1>1, <1>5 DEF Inv, MutexOK, Holding
<1> QED
  BY <1>1, <1>3, <1>4, <1>6, AdapterCommits
\* The initial state, and every step, keep the commits sound.
LEMMA CommitInvInductive ==
  /\ Init => CommitInv
  /\ Inv /\ CommitInv /\ [Next]_vars => CommitInv'
<1>1. Init => CommitInv
  <2> SUFFICES ASSUME Init PROVE CommitInv
    OBVIOUS
  <2>1. \A c \in Requests : call[c].phase = "idle"
    BY DEF Init, Idle
  <2>2. DOMAIN history = {}
    BY DEF Init
  <2> QED
    BY <2>1, <2>2 DEF CommitInv, LockedOK
<1>2. ASSUME Inv, CommitInv, [Next]_vars PROVE CommitInv'
  <2>1. CASE UNCHANGED vars
    BY <1>2, <2>1, CommitInvKept DEF vars
  <2>2. ASSUME NEW t \in Threads, Advance(t) PROVE CommitInv'
    <3>1. CASE LockAndRevalidate(t)
      BY <1>2, <3>1, LockEstablishes
    <3>2. CASE AdapterApply(t)
      BY <1>2, <3>2, AdapterApplySound
    <3>3. CASE AdapterTransact(t)
      BY <1>2, <3>3, AdapterTransactSound
    <3>4. CASE \/ PreflightCapture(t)
               \/ ListenerReturns(t) \/ ListenerDecides(t)
               \/ ListenerThrows(t) \/ ListenerEdits(t)
               \/ Cancel(t) \/ RefuseCommit(t) \/ RecaptureAndUnlock(t)
               \/ PublishMigrated(t) \/ BeginAudit(t) \/ Audit(t) \/ Reply(t)
      <4>1. /\ UNCHANGED <<store, history>>
            /\ \A c \in Requests : call'[c].phase = "locked" => call[c].phase = "locked"
        BY <1>2, <3>4, OtherSteps
      <4> QED
        BY <1>2, <4>1, CommitInvKept
    <3> QED
      BY <2>2, <3>1, <3>2, <3>3, <3>4 DEF Advance
  <2>3. ASSUME NEW t \in Threads, NEW c \in Requests, ReturnAtOnce(t, c) \/ Begin(t, c)
        PROVE  CommitInv'
    <3>1. /\ UNCHANGED <<store, history>>
          /\ \A d \in Requests : call'[d].phase = "locked" => call[d].phase = "locked"
      BY <1>2, <2>3, EntrySteps
    <3> QED
      BY <1>2, <3>1, CommitInvKept
  <2>4. ASSUME NEW target \in FlakyTargets, SetTargetAvailable(target) PROVE CommitInv'
    <3>1. UNCHANGED <<store, history, call>>
      BY <2>4 DEF SetTargetAvailable
    <3> QED
      BY <1>2, <3>1, CommitInvKept
  <2>5. CASE Terminated
    BY <1>2, <2>5, CommitInvKept DEF Terminated, vars
  <2> QED
    BY <1>2, <2>1, <2>2, <2>3, <2>4, <2>5 DEF Next
<1> QED
  BY <1>1, <1>2

\* No commit leaves more properties in a collection that it changes than the
\* limit of its service, whatever is written between preflight and commit
\* (validatePropertyLimits under the mutex).
THEOREM LimitsHold == Spec => []CommitsWithinLimit
<1>1. CommitInv => CommitsWithinLimit
  BY DEF CommitInv, Sound, CommitsWithinLimit
<1> QED
  BY <1>1, Invariance, CommitInvInductive, PTL DEF Spec

\* A commit changes no collection out of the reach of its caller's context
\* (validateOperation).
THEOREM IsolationHolds == Spec => []Isolation
<1>1. CommitInv => Isolation
  BY DEF CommitInv, Sound, Isolation
<1> QED
  BY <1>1, Invariance, CommitInvInductive, PTL DEF Spec
-----------------------------------------------------------------------------
(* Revisions.                                                              *)

\* Operations that the adapter applies one after the other find what their
\* caller expected of each collection.
LEMMA ExpectationsMet ==
  ASSUME NEW c \in Requests, store \in Store, NEW r \in CollectionRef,
         \A i \in 1..Len(Ops(c)) :
           ApplyStatus(Candidates(store, Ops(c))[i - 1], available, Ops(c)[i], Body[c].force)
             = "Applied"
  PROVE  Expects(c, r) \in {NoRevision, store[r]}
<1> DEFINE involved == {i \in DOMAIN Ops(c) : r \in {Source(Ops(c)[i]), Destination(Ops(c)[i])}}
           first == CHOOSE i \in involved : \A j \in involved : i <= j
           expected == ExpectedRevision(Ops(c)[first], r)
<1>1. Expects(c, r) = IF Body[c].force \/ involved = {} THEN NoRevision ELSE expected
  BY DEF Expects
<1> SUFFICES ASSUME ~ Body[c].force, involved # {}, expected # NoRevision
             PROVE  expected = store[r]
  BY <1>1
<1>2. Ops(c) \in Seq(Operation) /\ Len(Ops(c)) \in Nat /\ DOMAIN Ops(c) = 1..Len(Ops(c))
  BY RequestFacts
<1>3. /\ first \in involved /\ \A j \in involved : first <= j
  <2>1. involved \in SUBSET (1..Len(Ops(c)))
    BY <1>2
  <2> HIDE DEF involved
  <2>2. \E i \in involved : \A j \in involved : i <= j
    BY <1>2, <2>1, FirstPosition
  <2> QED
    BY <2>2
<1>4. first \in 1..Len(Ops(c)) /\ r \in {Source(Ops(c)[first]), Destination(Ops(c)[first])}
  BY <1>2, <1>3
<1>5. \A i \in 1..(first - 1) : r \notin NamedBy(Ops(c), i)
  <2> SUFFICES ASSUME NEW i \in 1..(first - 1), r \in NamedBy(Ops(c), i) PROVE FALSE
    OBVIOUS
  <2>1. i \in 1..Len(Ops(c)) /\ ~ (first <= i)
    BY <1>2, <1>4
  <2>2. i \in involved
    BY <1>2, <2>1 DEF NamedBy
  <2> QED
    BY <1>3, <2>1, <2>2
<1> HIDE DEF involved, first
<1>6. Candidates(store, Ops(c))[first - 1][r] = store[r]
  <2>1. first - 1 \in 0..Len(Ops(c))
    BY <1>2, <1>4
  <2> QED
    BY <1>2, <1>5, <2>1, CandidatesFrame
<1>7. RefStatus(Candidates(store, Ops(c))[first - 1], available, Ops(c)[first],
                Body[c].force, r) = "Applied"
  BY <1>4 DEF ApplyStatus
<1>8. expected = Candidates(store, Ops(c))[first - 1][r]
  BY <1>7 DEF RefStatus
<1> QED
  BY <1>6, <1>8

\* Each commit starts where the one before it ended, the last one ended in the
\* store, and each found what its call expected.
HistoryOK ==
  /\ \A i \in 2..Len(history) : history[i - 1].after = history[i].before
  /\ history # <<>> => history[Len(history)].after = store
  /\ \A i \in DOMAIN history : \A r \in CollectionRef :
       Expects(history[i].call, r) \in {NoRevision, history[i].before[r]}

\* A commit whose call found what it expected extends the history.
LEMMA CommitExtends ==
  ASSUME Inv, HistoryOK, NEW c \in Requests, NEW after, Commit(c, after),
         \A r \in CollectionRef : Expects(c, r) \in {NoRevision, store[r]}
  PROVE  HistoryOK'
<1> DEFINE entry == [call |-> c, before |-> store, after |-> after]
<1>1. history \in Seq(CommitRecord) /\ history' = Append(history, entry) /\ store' = after
  BY DEF Commit, Inv, TypeInv, TypeOK
<1>2. entry.call = c /\ entry.before = store /\ entry.after = after
  OBVIOUS
<1> HIDE DEF entry
<1>3. /\ Len(history) \in Nat /\ Len(history') = Len(history) + 1
      /\ history'[Len(history) + 1] = entry
      /\ \A i \in 1..Len(history) : history'[i] = history[i]
      /\ DOMAIN history' = 1..(Len(history) + 1)
  BY <1>1
<1>4. \A i \in 2..Len(history') : history'[i - 1].after = history'[i].before
  <2> TAKE i \in 2..Len(history')
  <2>1. CASE i = Len(history) + 1
    <3>1. i - 1 = Len(history) /\ Len(history) \in 1..Len(history) /\ history # <<>>
      BY <1>1, <1>3, <2>1
    <3> QED
      BY <1>2, <1>3, <2>1, <3>1 DEF HistoryOK
  <2>2. CASE i # Len(history) + 1
    <3>1. i \in 2..Len(history) /\ i \in 1..Len(history) /\ i - 1 \in 1..Len(history)
      BY <1>3, <2>2
    <3> QED
      BY <1>3, <3>1 DEF HistoryOK
  <2> QED
    BY <2>1, <2>2
<1>5. history'[Len(history')].after = store'
  BY <1>1, <1>2, <1>3
<1>6. \A i \in DOMAIN history' : \A r \in CollectionRef :
        Expects(history'[i].call, r) \in {NoRevision, history'[i].before[r]}
  <2> TAKE i \in DOMAIN history'
  <2>1. CASE i = Len(history) + 1
    BY <1>2, <1>3, <2>1
  <2>2. CASE i \in 1..Len(history)
    BY <1>1, <1>3, <2>2 DEF HistoryOK
  <2> QED
    BY <1>3, <2>1, <2>2
<1> QED
  BY <1>4, <1>5, <1>6 DEF HistoryOK

\* A commit through apply extends the history.
LEMMA AdapterApplyExtends ==
  ASSUME Inv, HistoryOK, NEW t \in Threads, AdapterApply(t)
  PROVE  HistoryOK'
<1> DEFINE c == running[t]
           op == Ops(c)[1]
<1>1. c \in Requests /\ Body[c].form = "apply" /\ store \in Store
  BY RunningCall DEF AdapterApply, InPhase, Inv, TypeInv, TypeOK
<1>2. Ops(c) \in Seq(Operation) /\ Len(Ops(c)) = 1
  BY <1>1, RequestFacts, SMTT(30)
<1>3. \/ UNCHANGED <<store, history>>
      \/ /\ Commit(c, Effect(store, op))
         /\ ApplyStatus(store, available, op, Body[c].force) = "Applied"
  BY DEF AdapterApply
<1>4. CASE UNCHANGED <<store, history>>
  BY <1>4 DEF HistoryOK
<1>5. CASE /\ Commit(c, Effect(store, op))
           /\ ApplyStatus(store, available, op, Body[c].force) = "Applied"
  <2>1. \A i \in 1..Len(Ops(c)) : i = 1 /\ i - 1 = 0
    BY <1>2
  <2>2. Candidates(store, Ops(c))[0] = store
    BY <1>2, CandidatesStep
  <2>3. \A i \in 1..Len(Ops(c)) :
          ApplyStatus(Candidates(store, Ops(c))[i - 1], available, Ops(c)[i], Body[c].force)
            = "Applied"
    BY <1>5, <2>1, <2>2
  <2>4. \A r \in CollectionRef : Expects(c, r) \in {NoRevision, store[r]}
    BY <1>1, <2>3, ExpectationsMet
  <2> QED
    BY <1>1, <1>5, <2>4, CommitExtends
<1> QED
  BY <1>3, <1>4, <1>5

\* A commit through transact extends the history.
LEMMA AdapterTransactExtends ==
  ASSUME Inv, HistoryOK, NEW t \in Threads, AdapterTransact(t)
  PROVE  HistoryOK'
<1> DEFINE c == running[t]
           statuses == TransactStatuses(store, available, Ops(c), Body[c].force)
<1>1. c \in Requests /\ store \in Store
  BY RunningCall DEF AdapterTransact, InPhase, Inv, TypeInv, TypeOK
<1>2. \/ UNCHANGED <<store, history>>
      \/ Commit(c, Candidates(store, Ops(c))[Len(Ops(c))]) /\ Succeeds(statuses)
  BY DEF AdapterTransact
<1>3. CASE UNCHANGED <<store, history>>
  BY <1>3 DEF HistoryOK
<1>4. CASE Commit(c, Candidates(store, Ops(c))[Len(Ops(c))]) /\ Succeeds(statuses)
  <2>1. \A i \in 1..Len(Ops(c)) :
          ApplyStatus(Candidates(store, Ops(c))[i - 1], available, Ops(c)[i], Body[c].force)
            = "Applied"
    <3>1. Ops(c) \in Seq(Operation)
      BY <1>1, RequestFacts
    <3>2. Succeeds(statuses)
      BY <1>4
    <3> QED
      BY <3>1, <3>2, TransactStatusesAre DEF Succeeds
  <2>2. \A r \in CollectionRef : Expects(c, r) \in {NoRevision, store[r]}
    BY <1>1, <2>1, ExpectationsMet
  <2> QED
    BY <1>1, <1>4, <2>2, CommitExtends
<1> QED
  BY <1>2, <1>3, <1>4

\* The initial state, and every step, keep the history a chain.
LEMMA HistoryInductive ==
  /\ Init => HistoryOK
  /\ Inv /\ HistoryOK /\ [Next]_vars => HistoryOK'
<1>1. Init => HistoryOK
  BY DEF Init, HistoryOK
<1>2. ASSUME HistoryOK, UNCHANGED <<store, history>> PROVE HistoryOK'
  BY <1>2 DEF HistoryOK
<1>3. ASSUME Inv, HistoryOK, [Next]_vars PROVE HistoryOK'
  <2>1. CASE UNCHANGED vars \/ Terminated
    BY <1>2, <1>3, <2>1 DEF Terminated, vars
  <2>2. ASSUME NEW t \in Threads, Advance(t) PROVE HistoryOK'
    <3>1. CASE AdapterApply(t)
      BY <1>3, <3>1, AdapterApplyExtends
    <3>2. CASE AdapterTransact(t)
      BY <1>3, <3>2, AdapterTransactExtends
    <3>3. CASE LockAndRevalidate(t)
      BY <1>2, <1>3, <3>3 DEF LockAndRevalidate
    <3>4. CASE \/ PreflightCapture(t)
               \/ ListenerReturns(t) \/ ListenerDecides(t)
               \/ ListenerThrows(t) \/ ListenerEdits(t)
               \/ Cancel(t) \/ RefuseCommit(t) \/ RecaptureAndUnlock(t)
               \/ PublishMigrated(t) \/ BeginAudit(t) \/ Audit(t) \/ Reply(t)
      BY <1>2, <1>3, <3>4, OtherSteps
    <3> QED
      BY <2>2, <3>1, <3>2, <3>3, <3>4 DEF Advance
  <2>3. ASSUME NEW t \in Threads, NEW c \in Requests, ReturnAtOnce(t, c) \/ Begin(t, c)
        PROVE  HistoryOK'
    BY <1>2, <1>3, <2>3, EntrySteps
  <2>4. ASSUME NEW target \in FlakyTargets, SetTargetAvailable(target) PROVE HistoryOK'
    BY <1>2, <1>3, <2>4 DEF SetTargetAvailable
  <2> QED
    BY <1>3, <2>1, <2>2, <2>3, <2>4 DEF Next
<1> QED
  BY <1>1, <1>3

\* Of two calls computed from the same content of a collection the second
\* commits only if that content is there again (README.md:109).
THEOREM NoUpdateLost == Spec => []NoLostUpdate
<1>1. Inv /\ HistoryOK => NoLostUpdate
  <2> SUFFICES ASSUME Inv, HistoryOK, NEW i \in DOMAIN history, NEW j \in DOMAIN history,
                      NEW r \in CollectionRef, i < j,
                      Expects(history[i].call, r) # NoRevision,
                      Expects(history[j].call, r) = Expects(history[i].call, r)
               PROVE  \E k \in i..(j - 1) : history[k].after[r] = Expects(history[i].call, r)
    BY DEF NoLostUpdate
  <2>1. /\ j \in 2..Len(history) /\ j - 1 \in i..(j - 1)
    <3>1. DOMAIN history = 1..Len(history) /\ Len(history) \in Nat
      BY DEF Inv, TypeInv, TypeOK
    <3> QED
      BY <3>1
  <2>2. history[j].before[r] = Expects(history[i].call, r)
    BY DEF HistoryOK
  <2>3. history[j - 1].after = history[j].before
    BY <2>1 DEF HistoryOK
  <2> QED
    BY <2>1, <2>2, <2>3
<1> QED
  BY <1>1, Invariance, HistoryInductive, PTL DEF Spec

-----------------------------------------------------------------------------
(* Answers and the audit.                                                  *)

\* Before the first operation nothing is handed to the sink.
LEMMA NothingHanded == Handed(<<>>, {}, 0)
BY DEF Handed

\* The sink keeps the record of the next operation.
LEMMA RecordHanded ==
  ASSUME NEW records \in Seq(AuditRecord), NEW losses, NEW i \in Nat \ {0},
         Handed(records, losses, i - 1), NEW record, record.operation = i
  PROVE  Handed(Append(records, record), losses, i)
<1> DEFINE longer == Append(records, record)
           kept == {records[k].operation : k \in DOMAIN records}
           lost == {loss.operation : loss \in losses}
<1>1. /\ DOMAIN records = 1..Len(records) /\ Len(records) \in Nat
      /\ DOMAIN longer = 1..(Len(records) + 1)
      /\ \A k \in 1..Len(records) : longer[k] = records[k]
      /\ longer[Len(records) + 1] = record
  OBVIOUS
<1>2. /\ kept \cup lost = 1..(i - 1) /\ kept \cap lost = {}
      /\ \A j, k \in DOMAIN records : j < k => records[j].operation < records[k].operation
  BY DEF Handed
<1>3. 1..i = 1..(i - 1) \cup {i} /\ i \notin 1..(i - 1)
  OBVIOUS
<1> HIDE DEF longer
<1>4. {longer[k].operation : k \in DOMAIN longer} = kept \cup {i}
  BY <1>1
<1>5. \A k \in DOMAIN records : records[k].operation \in 1..(i - 1)
  BY <1>2
<1>6. \A j, k \in DOMAIN longer : j < k => longer[j].operation < longer[k].operation
  <2> SUFFICES ASSUME NEW j \in DOMAIN longer, NEW k \in DOMAIN longer, j < k
               PROVE  longer[j].operation < longer[k].operation
    OBVIOUS
  <2>1. j \in 1..Len(records) /\ longer[j] = records[j]
    BY <1>1
  <2>2. CASE k = Len(records) + 1
    BY <1>1, <1>5, <2>1, <2>2
  <2>3. CASE k # Len(records) + 1
    BY <1>1, <1>2, <2>1, <2>3
  <2> QED
    BY <2>2, <2>3
<1> HIDE DEF kept, lost
<1>7. (kept \cup {i}) \cup lost = 1..i /\ (kept \cup {i}) \cap lost = {}
  BY <1>2, <1>3
<1> QED
  BY <1>4, <1>6, <1>7 DEF Handed, longer, lost

\* The sink throws at the record of the next operation.
LEMMA LossHanded ==
  ASSUME NEW records, NEW losses, NEW i \in Nat \ {0},
         Handed(records, losses, i - 1), NEW loss, loss.operation = i
  PROVE  Handed(records, losses \cup {loss}, i)
<1> DEFINE kept == {records[k].operation : k \in DOMAIN records}
           lost == {l.operation : l \in losses}
<1>1. /\ kept \cup lost = 1..(i - 1) /\ kept \cap lost = {}
      /\ \A j, k \in DOMAIN records : j < k => records[j].operation < records[k].operation
  BY DEF Handed
<1>2. 1..i = 1..(i - 1) \cup {i} /\ i \notin 1..(i - 1)
  OBVIOUS
<1>3. {l.operation : l \in losses \cup {loss}} = lost \cup {i}
  OBVIOUS
<1> HIDE DEF kept, lost
<1>4. kept \cup (lost \cup {i}) = 1..i /\ kept \cap (lost \cup {i}) = {}
  BY <1>1, <1>2
<1> QED
  BY <1>1, <1>3, <1>4 DEF Handed, kept

\* The phases before the adapter call.
Unattempted == {"idle", "preflight", "before", "locked"}

\* The phases from the adapter call to the reply.
Answering == {"committed", "after", "migrated", "audit"}

\* The status of a call tells whether it committed, its results are those that
\* the audit is about, and the audit has got as far as `at`.
AnswerOK(c) ==
  /\ call[c].phase \notin {"audit", "returned"} => audits[c] = <<>> /\ unrecorded[c] = {}
  /\ call[c].phase \in Unattempted => call[c].status = "Applied"
  /\ call[c].phase \in Answering =>
       /\ Committed(c) <=> call[c].status = "Applied"
       /\ Committed(c) \/ call[c].status = "Cancelled" =>
            Len(call[c].results) = Len(Ops(c))
       /\ (/\ Body[c].rollback_on_failure /\ ~ call[c].rolled_back
           /\ \E i \in DOMAIN call[c].results : call[c].results[i] = "Applied")
          => Committed(c)
  /\ call[c].phase = "audit" =>
       /\ call[c].at <= Len(call[c].results) + 1
       /\ Handed(audits[c], unrecorded[c], call[c].at - 1)
  /\ Body[c].rollback_on_failure /\ Applications(c) # {} => Committed(c)
  /\ (/\ call[c].phase = "returned"
      /\ call[c].status = "Cancelled" \/ Committed(c))
     => Handed(audits[c], unrecorded[c], Len(Ops(c)))

AnswersOK == \A c \in Requests : AnswerOK(c)

\* A call that has not reached the adapter has not committed.
LEMMA NotYetCommitted ==
  ASSUME Inv, NEW c \in Requests, call[c].phase \in Unattempted
  PROVE  ~ Committed(c)
BY DEF Inv, GateOK, Committed, Unattempted, Attempted

\* Which calls have committed changes with the history.
LEMMA CommittedKept ==
  ASSUME UNCHANGED history, NEW c \in Requests
  PROVE  Committed(c)' <=> Committed(c)
BY DEF Committed

\* An entry that is appended to the history adds its call to those that have
\* committed, and no other.
LEMMA CommittedAppended ==
  ASSUME history \in Seq(CommitRecord), NEW c \in Requests, NEW entry, entry.call = c,
         history' = Append(history, entry)
  PROVE  /\ Committed(c)'
         /\ \A d \in Requests \ {c} : Committed(d)' <=> Committed(d)
<1>1. /\ Len(history) \in Nat /\ DOMAIN history = 1..Len(history)
      /\ DOMAIN history' = 1..(Len(history) + 1)
      /\ history'[Len(history) + 1] = entry
      /\ \A i \in 1..Len(history) : history'[i] = history[i]
  OBVIOUS
<1>2. Committed(c)'
  <2>1. Len(history) + 1 \in DOMAIN history'
    BY <1>1
  <2> QED
    BY <1>1, <2>1 DEF Committed
<1>3. ASSUME NEW d \in Requests \ {c} PROVE Committed(d)' <=> Committed(d)
  <2>1. ASSUME NEW i \in DOMAIN history', history'[i].call = d
        PROVE  i \in DOMAIN history /\ history[i].call = d
    <3>1. i # Len(history) + 1
      BY <1>1, <2>1, <1>3
    <3>2. i \in 1..Len(history)
      BY <1>1, <2>1, <3>1
    <3> QED
      BY <1>1, <2>1, <3>2
  <2>2. ASSUME NEW i \in DOMAIN history, history[i].call = d
        PROVE  i \in DOMAIN history' /\ history'[i].call = d
    BY <1>1, <2>2
  <2> QED
    BY <2>1, <2>2 DEF Committed
<1> QED
  BY <1>2, <1>3

\* A commit adds its own call to those that have committed, and no other.
LEMMA CommittedBy ==
  ASSUME Inv, NEW c \in Requests, NEW after, Commit(c, after)
  PROVE  /\ Committed(c)'
         /\ \A d \in Requests \ {c} : Committed(d)' <=> Committed(d)
<1> DEFINE entry == [call |-> c, before |-> store, after |-> after]
<1>1. history \in Seq(CommitRecord) /\ history' = Append(history, entry) /\ entry.call = c
  BY DEF Commit, Inv, TypeInv, TypeOK
<1> HIDE DEF entry
<1> QED
  BY <1>1, CommittedAppended

\* A call that a step does not touch keeps its answer.
LEMMA AnswerFrame ==
  ASSUME NEW c \in Requests, AnswerOK(c), call'[c] = call[c], audits'[c] = audits[c],
         unrecorded'[c] = unrecorded[c], Committed(c)' <=> Committed(c)
  PROVE  AnswerOK(c)'
BY DEF AnswerOK, Applications

\* A call that goes on, on either side of the adapter call, keeps its answer.
LEMMA AnswerCarried ==
  ASSUME NEW c \in Requests, AnswerOK(c), UNCHANGED <<audits, unrecorded, history>>,
         \/ call[c].phase \in Unattempted /\ call'[c].phase \in Unattempted
         \/ /\ call[c].phase \in {"committed", "after", "migrated"}
            /\ call'[c].phase \in {"committed", "after", "migrated"},
         call'[c].status = call[c].status, call'[c].results = call[c].results,
         call'[c].rolled_back = call[c].rolled_back
  PROVE  AnswerOK(c)'
<1>1. Committed(c)' <=> Committed(c)
  BY CommittedKept
<1>2. /\ call[c].phase \notin {"audit", "returned"} /\ call'[c].phase \notin {"audit", "returned"}
      /\ call[c].phase \in Unattempted <=> call'[c].phase \in Unattempted
      /\ call[c].phase \in Answering <=> call'[c].phase \in Answering
  BY DEF Unattempted, Answering
<1> QED
  BY <1>1, <1>2 DEF AnswerOK, Applications

\* A call that committed, or whose adapter call failed, starts its audit.
LEMMA AuditStarts ==
  ASSUME NEW c \in Requests, AnswerOK(c), UNCHANGED <<audits, unrecorded, history>>,
         call[c].phase \in {"after", "migrated"}, call'[c].phase = "audit",
         call'[c].at = 1, call[c].results \in Seq(Statuses),
         call'[c].status = call[c].status, call'[c].results = call[c].results,
         call'[c].rolled_back = call[c].rolled_back
  PROVE  AnswerOK(c)'
<1>1. Committed(c)' <=> Committed(c)
  BY CommittedKept
<1>2. /\ call[c].phase \notin {"audit", "returned"}
      /\ call[c].phase \in Answering /\ call'[c].phase \in Answering
      /\ call'[c].phase \notin Unattempted
  BY DEF Unattempted, Answering
<1>3. audits'[c] = <<>> /\ unrecorded'[c] = {}
  BY <1>2 DEF AnswerOK
<1>4. Applications(c)' = {}
  BY <1>3 DEF Applications
<1>5. /\ call'[c].at <= Len(call'[c].results) + 1
      /\ Handed(audits'[c], unrecorded'[c], call'[c].at - 1)
  BY <1>3, NothingHanded
<1> QED
  BY <1>1, <1>2, <1>3, <1>4, <1>5 DEF AnswerOK

\* A call that is given up before the adapter call starts its audit.
LEMMA GivenUp ==
  ASSUME Inv, NEW c \in Requests, AnswerOK(c), UNCHANGED <<audits, unrecorded, history>>,
         call[c].phase \in Unattempted, call'[c].phase = "audit", call'[c].at = 1,
         call'[c].status # "Applied", call'[c].results = All(c, call'[c].status)
  PROVE  AnswerOK(c)'
<1>1. ~ Committed(c)'
  BY CommittedKept, NotYetCommitted
<1>2. audits'[c] = <<>> /\ unrecorded'[c] = {}
  BY DEF AnswerOK, Unattempted
<1>3. Applications(c)' = {}
  BY <1>2 DEF Applications
<1>4. /\ Len(call'[c].results) = Len(Ops(c)) /\ Len(Ops(c)) \in Nat
      /\ \A i \in DOMAIN call'[c].results : call'[c].results[i] = call'[c].status
  BY RequestFacts DEF All
<1>5. /\ call'[c].phase \notin Unattempted
      /\ call'[c].at <= Len(call'[c].results) + 1
      /\ Handed(audits'[c], unrecorded'[c], call'[c].at - 1)
  BY <1>2, <1>4, NothingHanded DEF Unattempted
<1> QED
  BY <1>1, <1>2, <1>3, <1>4, <1>5 DEF AnswerOK

\* The listeners' step.
ListenerStepOf(t) ==
  ListenerReturns(t) \/ ListenerDecides(t) \/ ListenerThrows(t) \/ ListenerEdits(t)

\* Only the running call of a thread moves when the thread does.
LEMMA OneCallMoves ==
  ASSUME Inv, NEW t \in Threads, Advance(t)
  PROVE  /\ running[t] \in Requests
         /\ \A d \in Requests \ {running[t]} :
              /\ call'[d] = call[d]
              /\ audits'[d] = audits[d] /\ unrecorded'[d] = unrecorded[d]
<1> DEFINE c == running[t]
<1>1. /\ call \in [Requests -> CallRecord] /\ audits \in [Requests -> Seq(AuditRecord)]
      /\ unrecorded \in [Requests -> SUBSET LossRecord]
  BY SMTT(30) DEF Inv, TypeInv, TypeOK
<1>2. c # NoCall
  BY DEF Advance, PreflightCapture, ListenerReturns, ListenerDecides, ListenerThrows,
         ListenerEdits, Cancel, LockAndRevalidate, RefuseCommit, AdapterApply,
         AdapterTransact, RecaptureAndUnlock, PublishMigrated, BeginAudit, Audit, Reply,
         InListener, Published, InPhase
<1>3. c \in Requests
  BY <1>2, RunningCall DEF Inv, TypeInv
<1>4. \A d \in Requests \ {c} : call'[d] = call[d]
  <2>1. CASE PreflightCapture(t)
    BY <1>1, <2>1, SMTT(30) DEF PreflightCapture, Return
  <2>2. CASE ListenerStepOf(t)
    BY <1>1, <2>2
       DEF ListenerStepOf, ListenerReturns, ListenerDecides, ListenerThrows, ListenerEdits
  <2>3. CASE Cancel(t) \/ LockAndRevalidate(t) \/ RefuseCommit(t) \/ RecaptureAndUnlock(t)
    BY <1>1, <2>3, SMTT(30) DEF Cancel, LockAndRevalidate, RefuseCommit, RecaptureAndUnlock
  <2>4. CASE AdapterApply(t)
    BY <1>1, <2>4 DEF AdapterApply
  <2>5. CASE AdapterTransact(t)
    BY <1>1, <2>5 DEF AdapterTransact
  <2>6. CASE PublishMigrated(t) \/ BeginAudit(t) \/ Audit(t) \/ Reply(t)
    BY <1>1, <2>6 DEF PublishMigrated, BeginAudit, Audit, Reply, Return
  <2> QED
    BY <2>1, <2>2, <2>3, <2>4, <2>5, <2>6 DEF Advance, ListenerStepOf
<1>5. \A d \in Requests \ {c} : audits'[d] = audits[d] /\ unrecorded'[d] = unrecorded[d]
  <2>1. CASE Audit(t)
    BY <1>1, <2>1 DEF Audit
  <2>2. CASE ~ Audit(t)
    <3>1. UNCHANGED <<audits, unrecorded>>
      BY <2>2 DEF Advance, PreflightCapture, ListenerReturns, ListenerDecides, ListenerThrows,
         ListenerEdits, Cancel, LockAndRevalidate, RefuseCommit, AdapterApply,
         AdapterTransact, RecaptureAndUnlock, PublishMigrated, BeginAudit, Reply
    <3> QED
      BY <3>1, SMTT(30)
  <2> QED
    BY <2>1, <2>2
<1> QED
  BY <1>3, <1>4, <1>5

\* A call that returns is left with its status.
LEMMA ReturnedWith ==
  ASSUME NEW t \in Threads, NEW c \in Requests, NEW status, DOMAIN call = Requests,
         DOMAIN call[c] = Fields, DOMAIN Idle = Fields, Return(t, c, status)
  PROVE  call'[c].phase = "returned" /\ call'[c].status = status
<1> DEFINE left == [Idle EXCEPT !.phase = "returned", !.status = status,
                                !.failed = call[c].failed, !.cancelled = call[c].cancelled,
                                !.vetoed = call[c].vetoed, !.results = call[c].results]
<1>1. call' = [call EXCEPT ![c] = left]
  BY DEF Return
<1>2. left.phase = "returned" /\ left.status = status
  BY DEF Fields
<1> HIDE DEF left
<1> QED
  BY <1>1, <1>2

\* The last capture, or one that is not: the call goes on, or is refused.
LEMMA PreflightMoves ==
  ASSUME Inv, NEW t \in Threads, PreflightCapture(t)
  PROVE  LET c == running[t] IN
         /\ UNCHANGED <<store, available, audits, unrecorded, history>>
         /\ call[c].phase = "preflight"
         /\ \/ /\ call'[c].phase \in {"preflight", "before"}
               /\ call'[c].status = call[c].status /\ call'[c].results = call[c].results
               /\ call'[c].rolled_back = call[c].rolled_back
               /\ call'[c].parent = call[c].parent
            \/ /\ call'[c].phase = "returned"
               /\ call'[c].status \in {"TargetUnavailable", "InvalidValue"}
<1> DEFINE c == running[t]
           captured == WithNext(c)
<1>1. /\ c \in Requests /\ call \in [Requests -> CallRecord] /\ DOMAIN call[c] = Fields
      /\ call[c].phase = "preflight"
  BY RunningCall DEF PreflightCapture, InPhase, Inv, TypeInv, TypeOK, CallRecord, Fields
<1>2. DOMAIN Idle = Fields
  BY DEF Idle, Fields
<1>3. UNCHANGED <<store, available, audits, unrecorded, history>>
  BY DEF PreflightCapture
<1>4. \/ Return(t, c, "TargetUnavailable") \/ Return(t, c, "InvalidValue")
      \/ call' = [call EXCEPT ![c].captured = captured]
      \/ call' = [call EXCEPT ![c].captured = captured, ![c].phase = "before", ![c].at = 1]
  BY DEF PreflightCapture
<1> HIDE DEF captured
<1>5. CASE Return(t, c, "TargetUnavailable") \/ Return(t, c, "InvalidValue")
  <2>1. /\ call'[c].phase = "returned"
        /\ call'[c].status \in {"TargetUnavailable", "InvalidValue"}
    <3> HIDE DEF c
    <3> QED
      BY <1>1, <1>2, <1>5, ReturnedWith
  <2> QED
    BY <1>1, <1>3, <2>1
<1>6. CASE call' = [call EXCEPT ![c].captured = captured]
  BY <1>1, <1>3, <1>6 DEF Fields
<1>7. CASE call' = [call EXCEPT ![c].captured = captured, ![c].phase = "before", ![c].at = 1]
  BY <1>1, <1>3, <1>7 DEF Fields
<1> QED
  BY <1>4, <1>5, <1>6, <1>7

\* Listeners change neither the phase nor what the service keeps of its own.
LEMMA ListenerMoves ==
  ASSUME Inv, NEW t \in Threads, ListenerStepOf(t)
  PROVE  LET c == running[t] IN
         /\ UNCHANGED <<store, available, audits, unrecorded, history>>
         /\ call[c].phase \in {"before", "after", "migrated"}
         /\ call'[c].phase = call[c].phase
         /\ call'[c].status = call[c].status /\ call'[c].results = call[c].results
         /\ call'[c].rolled_back = call[c].rolled_back
         /\ call[c].at \in Nat /\ call'[c].at = call[c].at + 1
         /\ ~ call'[c].edited =>
              /\ ~ call[c].edited
              /\ call'[c].before = call[c].before /\ call'[c].after = call[c].after
<1> DEFINE c == running[t]
<1>1. /\ c \in Requests /\ call[c].phase \in {"before", "after", "migrated"}
  BY ListenerFacts DEF ListenerStepOf, ListenerReturns, ListenerDecides, ListenerThrows,
                       ListenerEdits, Publishing
<1>2. /\ call \in [Requests -> CallRecord] /\ DOMAIN call[c] = Fields
      /\ call[c].at \in Nat
  BY <1>1, SMTT(30) DEF Inv, TypeInv, TypeOK, CallRecord, Fields
<1>3. UNCHANGED <<store, available, audits, unrecorded, history>>
  BY DEF ListenerStepOf, ListenerReturns, ListenerDecides, ListenerThrows, ListenerEdits
<1>4. CASE ListenerReturns(t)
  BY <1>1, <1>2, <1>3, <1>4 DEF ListenerReturns, Fields
<1>5. CASE ListenerDecides(t)
  <2>1. PICK cancelled \in BOOLEAN :
          call' = [call EXCEPT ![c].cancelled = cancelled,
                               ![c].vetoed = @ \/ cancelled,
                               ![c].at = @ + 1]
    BY <1>5 DEF ListenerDecides
  <2> QED
    BY <1>1, <1>2, <1>3, <2>1 DEF Fields
<1>6. CASE ListenerThrows(t)
  BY <1>1, <1>2, <1>3, <1>6 DEF ListenerThrows, Fields
<1>7. CASE ListenerEdits(t)
  BY <1>1, <1>2, <1>3, <1>7 DEF ListenerEdits, Fields
<1> QED
  BY <1>4, <1>5, <1>6, <1>7, SMTT(30) DEF ListenerStepOf

\* The final validation: the call is locked, or given up with its status.
LEMMA ConclusionMoves ==
  ASSUME Inv, NEW t \in Threads, LockAndRevalidate(t) \/ Cancel(t) \/ RefuseCommit(t)
  PROVE  LET c == running[t] IN
         /\ UNCHANGED <<store, available, audits, unrecorded, history>>
         /\ call[c].phase = "before"
         /\ LockAndRevalidate(t) =>
              /\ call'[c].phase = "locked"
              /\ call'[c].status = call[c].status /\ call'[c].results = call[c].results
              /\ call'[c].rolled_back = call[c].rolled_back
              /\ ~ call'[c].edited
              /\ Body[c].form = "transact" => call'[c].before = Capture(c)
         /\ ~ LockAndRevalidate(t) =>
              /\ call'[c].phase = "audit" /\ call'[c].at = 1 /\ call'[c].status # "Applied"
              /\ call'[c].results = All(c, call'[c].status)
<1> DEFINE c == running[t]
<1>1. c \in Requests /\ call[c].phase = "before"
  BY RunningCall DEF LockAndRevalidate, Cancel, RefuseCommit, Published, InPhase, Inv, TypeInv
<1>2. call \in [Requests -> CallRecord] /\ DOMAIN call[c] = Fields
  BY <1>1 DEF Inv, TypeInv, TypeOK, CallRecord, Fields
<1>3. UNCHANGED <<store, available, audits, unrecorded, history>>
  BY DEF LockAndRevalidate, Cancel, RefuseCommit
<1>4. CASE LockAndRevalidate(t)
  BY <1>1, <1>2, <1>3, <1>4 DEF LockAndRevalidate, Fields
<1>5. CASE Cancel(t) /\ ~ LockAndRevalidate(t)
  BY <1>1, <1>2, <1>3, <1>5 DEF Cancel, Fields
<1>6. CASE RefuseCommit(t) /\ ~ LockAndRevalidate(t)
  BY <1>1, <1>2, <1>3, <1>6 DEF RefuseCommit, Fields
<1> QED
  BY <1>4, <1>5, <1>6, SMTT(30)

\* The steps between the adapter call and the audit.
LEMMA AfterwardsMoves ==
  ASSUME Inv, NEW t \in Threads, RecaptureAndUnlock(t) \/ PublishMigrated(t) \/ BeginAudit(t)
  PROVE  LET c == running[t] IN
         /\ UNCHANGED <<store, available, audits, unrecorded, history>>
         /\ call'[c].at = 1
         /\ call'[c].status = call[c].status /\ call'[c].results = call[c].results
         /\ call'[c].rolled_back = call[c].rolled_back
         /\ call'[c].before = call[c].before /\ call'[c].edited = call[c].edited
         /\ RecaptureAndUnlock(t) =>
              /\ call[c].phase = "committed" /\ call'[c].phase = "after"
              /\ call'[c].after = Capture(c)
         /\ PublishMigrated(t) =>
              /\ call[c].phase = "after" /\ call'[c].phase = "migrated"
              /\ call'[c].after = call[c].after
         /\ BeginAudit(t) =>
              call[c].phase \in {"after", "migrated"} /\ call'[c].phase = "audit"
<1> DEFINE c == running[t]
<1>1. c \in Requests
  BY RunningCall DEF RecaptureAndUnlock, PublishMigrated, BeginAudit, Published, InPhase,
                     Inv, TypeInv
<1>2. call \in [Requests -> CallRecord] /\ DOMAIN call[c] = Fields
  BY <1>1 DEF Inv, TypeInv, TypeOK, CallRecord, Fields
<1>3. UNCHANGED <<store, available, audits, unrecorded, history>>
  BY DEF RecaptureAndUnlock, PublishMigrated, BeginAudit
<1>4. CASE RecaptureAndUnlock(t)
  <2>1. ~ PublishMigrated(t) /\ ~ BeginAudit(t)
    BY <1>4 DEF RecaptureAndUnlock, PublishMigrated, BeginAudit, Published, InPhase
  <2> QED
    BY <1>1, <1>2, <1>3, <1>4, <2>1 DEF RecaptureAndUnlock, InPhase, Fields
<1>5. CASE PublishMigrated(t)
  <2>1. ~ RecaptureAndUnlock(t) /\ ~ BeginAudit(t)
    BY <1>5 DEF RecaptureAndUnlock, PublishMigrated, BeginAudit, Published, InPhase
  <2> QED
    BY <1>1, <1>2, <1>3, <1>5, <2>1 DEF PublishMigrated, Published, InPhase, Fields
<1>6. CASE BeginAudit(t)
  <2>1. ~ RecaptureAndUnlock(t) /\ ~ PublishMigrated(t)
    BY <1>6 DEF RecaptureAndUnlock, PublishMigrated, BeginAudit, Published, InPhase
  <2> QED
    BY <1>1, <1>2, <1>3, <1>6, <2>1 DEF BeginAudit, Published, InPhase, Fields
<1> QED
  BY <1>4, <1>5, <1>6

\* The adapter's apply: a commit and its snapshots, or a status that says why
\* there is none.
LEMMA ApplyMoves ==
  ASSUME Inv, NEW t \in Threads, AdapterApply(t)
  PROVE  LET c == running[t]
             status == ApplyStatus(store, available, Ops(c)[1], Body[c].force)
             after == Effect(store, Ops(c)[1]) IN
         /\ UNCHANGED <<available, audits, unrecorded>>
         /\ call[c].phase = "locked" /\ call'[c].phase = "after"
         /\ Body[c].form = "apply" /\ Len(Ops(c)) = 1
         /\ call'[c].results = <<status>>
         /\ call'[c].at = 1 /\ call'[c].edited = call[c].edited
         /\ \/ /\ status = "Applied" /\ Commit(c, after)
               /\ call'[c].status = call[c].status
               /\ call'[c].before = [r \in Refs(c) |-> store[r]]
               /\ call'[c].after = [r \in Refs(c) |-> after[r]]
            \/ /\ status # "Applied" /\ UNCHANGED <<store, history>>
               /\ status # "Cancelled"
               /\ call'[c].status = status
<1> DEFINE c == running[t]
           op == Ops(c)[1]
           status == ApplyStatus(store, available, op, Body[c].force)
           after == Effect(store, op)
           before == [r \in Refs(c) |-> store[r]]
           then == [r \in Refs(c) |-> after[r]]
<1>1. c \in Requests /\ call[c].phase = "locked" /\ Body[c].form = "apply"
  BY RunningCall DEF AdapterApply, InPhase, Inv, TypeInv
<1>2. call \in [Requests -> CallRecord] /\ DOMAIN call[c] = Fields
  BY <1>1 DEF Inv, TypeInv, TypeOK, CallRecord, Fields
<1>3. Ops(c) \in Seq(Operation) /\ Len(Ops(c)) = 1 /\ op \in Operation
  <2>1. Ops(c) \in Seq(Operation) /\ Len(Ops(c)) = 1
    BY <1>1, RequestFacts
  <2> QED
    BY <2>1
<1>4. status # "Cancelled"
  BY <1>3, ApplyStatusType, SMTT(30) DEF StatusesOfApply
<1>5. /\ UNCHANGED <<available, audits, unrecorded>>
      /\ \/ /\ status = "Applied" /\ Commit(c, after)
            /\ call' = [call EXCEPT ![c].phase = "after", ![c].at = 1,
                                    ![c].results = <<status>>,
                                    ![c].before = before, ![c].after = then]
         \/ /\ status # "Applied" /\ UNCHANGED <<store, history>>
            /\ call' = [call EXCEPT ![c].phase = "after", ![c].at = 1,
                                    ![c].status = status, ![c].results = <<status>>]
  BY ZenonT(60) DEF AdapterApply
<1> SUFFICES /\ call'[c].phase = "after" /\ call'[c].results = <<status>>
             /\ call'[c].at = 1 /\ call'[c].edited = call[c].edited
             /\ \/ /\ status = "Applied" /\ Commit(c, after)
                   /\ call'[c].status = call[c].status
                   /\ call'[c].before = before /\ call'[c].after = then
                \/ /\ status # "Applied" /\ UNCHANGED <<store, history>>
                   /\ call'[c].status = status
  BY <1>1, <1>3, <1>4, <1>5
<1> HIDE DEF status, after, before, then
<1> QED
  BY <1>1, <1>2, <1>5, SMTT(30) DEF Fields

\* The adapter's transact: all operations take effect, or none does.
LEMMA TransactMoves ==
  ASSUME Inv, NEW t \in Threads, AdapterTransact(t)
  PROVE  LET c == running[t]
             statuses == TransactStatuses(store, available, Ops(c), Body[c].force)
             after == Candidates(store, Ops(c))[Len(Ops(c))] IN
         /\ UNCHANGED <<available, audits, unrecorded>>
         /\ call[c].phase = "locked" /\ call'[c].phase = "committed"
         /\ Body[c].form = "transact"
         /\ call'[c].results = statuses /\ call'[c].before = call[c].before
         /\ call'[c].edited = call[c].edited
         /\ \/ /\ Succeeds(statuses) /\ Commit(c, after)
               /\ call'[c].status = call[c].status
            \/ /\ ~ Succeeds(statuses) /\ UNCHANGED <<store, history>>
               /\ call'[c].status = "TransactionFailed"
               /\ call'[c].rolled_back = Body[c].rollback_on_failure
<1> DEFINE c == running[t]
           statuses == TransactStatuses(store, available, Ops(c), Body[c].force)
           after == Candidates(store, Ops(c))[Len(Ops(c))]
<1>1. c \in Requests /\ call[c].phase = "locked" /\ Body[c].form = "transact"
  BY RunningCall DEF AdapterTransact, InPhase, Inv, TypeInv
<1>2. call \in [Requests -> CallRecord] /\ DOMAIN call[c] = Fields
  BY <1>1 DEF Inv, TypeInv, TypeOK, CallRecord, Fields
<1>3. /\ UNCHANGED <<available, audits, unrecorded>>
      /\ \/ /\ Succeeds(statuses) /\ Commit(c, after)
            /\ call' = [call EXCEPT ![c].phase = "committed", ![c].results = statuses]
         \/ /\ ~ Succeeds(statuses) /\ UNCHANGED <<store, history>>
            /\ call' = [call EXCEPT ![c].phase = "committed", ![c].results = statuses,
                                    ![c].status = "TransactionFailed",
                                    ![c].rolled_back = Body[c].rollback_on_failure]
  BY DEF AdapterTransact, RolledBack
<1> SUFFICES /\ call'[c].phase = "committed"
             /\ call'[c].results = statuses /\ call'[c].before = call[c].before
             /\ call'[c].edited = call[c].edited
             /\ \/ /\ Succeeds(statuses) /\ Commit(c, after)
                   /\ call'[c].status = call[c].status
                \/ /\ ~ Succeeds(statuses) /\ UNCHANGED <<store, history>>
                   /\ call'[c].status = "TransactionFailed"
                   /\ call'[c].rolled_back = Body[c].rollback_on_failure
  BY <1>1, <1>3
<1> HIDE DEF statuses, after
<1> QED
  BY <1>1, <1>2, <1>3 DEF Fields

\* One more result is handed to the sink, which keeps its record or throws.
LEMMA AuditMoves ==
  ASSUME Inv, NEW t \in Threads, Audit(t)
  PROVE  LET c == running[t]
             i == call[c].at
             record == [operation |-> i, status |-> call[c].results[i],
                        rolled_back |-> call[c].rolled_back] IN
         /\ UNCHANGED <<store, available, history>>
         /\ c \in Requests /\ i \in Nat \ {0} /\ i <= Len(call[c].results)
         /\ call[c].results \in Seq(Statuses)
         /\ call[c].phase = "audit" /\ call'[c].phase = "audit"
         /\ call'[c].at = i + 1
         /\ call'[c].status = call[c].status /\ call'[c].results = call[c].results
         /\ call'[c].rolled_back = call[c].rolled_back
         /\ \/ /\ audits'[c] = Append(audits[c], record)
               /\ unrecorded'[c] = unrecorded[c]
            \/ /\ audits'[c] = audits[c]
               /\ \E loss : /\ loss.operation = i
                            /\ unrecorded'[c] = unrecorded[c] \cup {loss}
<1> DEFINE c == running[t]
<1>1. c \in Requests /\ call[c].phase = "audit"
  BY RunningCall DEF Audit, InPhase, Inv, TypeInv
<1>2. /\ call \in [Requests -> CallRecord] /\ DOMAIN call[c] = Fields
      /\ call[c].at \in Nat \ {0} /\ call[c].results \in Seq(Statuses)
  BY <1>1 DEF Inv, TypeInv, TypeOK, AuditOK, CallRecord, Fields
<1>3. /\ UNCHANGED <<store, available, history>> /\ call[c].at <= Len(call[c].results)
      /\ call' = [call EXCEPT ![c].at = @ + 1]
  BY DEF Audit
<1>4. /\ call'[c].phase = "audit" /\ call'[c].at = call[c].at + 1
      /\ call'[c].status = call[c].status /\ call'[c].results = call[c].results
      /\ call'[c].rolled_back = call[c].rolled_back
  BY <1>1, <1>2, <1>3 DEF Fields
<1>5. audits \in [Requests -> Seq(AuditRecord)] /\ unrecorded \in [Requests -> SUBSET LossRecord]
  BY DEF Inv, TypeInv, TypeOK
<1>6. \/ /\ audits'[c] = Append(audits[c], [operation |-> call[c].at,
                                           status |-> call[c].results[call[c].at],
                                           rolled_back |-> call[c].rolled_back])
         /\ unrecorded'[c] = unrecorded[c]
      \/ /\ audits'[c] = audits[c]
         /\ \E loss : loss.operation = call[c].at /\ unrecorded'[c] = unrecorded[c] \cup {loss}
  <2>1. CASE UNCHANGED unrecorded
    BY <1>1, <1>5, <2>1 DEF Audit
  <2>2. CASE ~ UNCHANGED unrecorded
    <3>1. PICK handler \in FailureHandlers :
            unrecorded' = [unrecorded EXCEPT ![c] =
                             @ \cup {[operation |-> call[c].at, handler |-> handler]}]
      BY <2>2 DEF Audit
    <3>2. UNCHANGED audits
      BY <2>2 DEF Audit
    <3> DEFINE loss == [operation |-> call[c].at, handler |-> handler]
    <3>3. loss.operation = call[c].at /\ unrecorded'[c] = unrecorded[c] \cup {loss}
      BY <1>1, <1>5, <3>1
    <3> HIDE DEF loss
    <3> QED
      BY <1>1, <1>5, <3>2, <3>3
  <2> QED
    BY <2>1, <2>2
<1> QED
  BY <1>1, <1>2, <1>3, <1>4, <1>6

\* The caller gets the status of its call.
LEMMA ReplyMoves ==
  ASSUME Inv, NEW t \in Threads, Reply(t)
  PROVE  LET c == running[t] IN
         /\ UNCHANGED <<store, available, audits, unrecorded, history>>
         /\ c \in Requests
         /\ call[c].at \in Nat /\ call[c].at > Len(call[c].results)
         /\ call[c].results \in Seq(Statuses)
         /\ call[c].phase = "audit" /\ call'[c].phase = "returned"
         /\ call'[c].status = call[c].status
<1> DEFINE c == running[t]
<1>1. c \in Requests /\ call[c].phase = "audit"
  BY RunningCall DEF Reply, InPhase, Inv, TypeInv
<1>2. /\ call \in [Requests -> CallRecord] /\ DOMAIN call[c] = Fields
      /\ call[c].at \in Nat /\ call[c].results \in Seq(Statuses)
  BY <1>1 DEF Inv, TypeInv, TypeOK, CallRecord, Fields
<1>3. DOMAIN Idle = Fields
  BY DEF Idle, Fields
<1>4. call'[c].phase = "returned" /\ call'[c].status = call[c].status
  BY <1>1, <1>2, <1>3 DEF Reply, Return, Fields
<1> QED
  BY <1>1, <1>2, <1>4 DEF Reply

\* A call begins, or is answered from the request alone.
LEMMA EntryMoves ==
  ASSUME Inv, NEW t \in Threads, NEW c \in Requests, ReturnAtOnce(t, c) \/ Begin(t, c)
  PROVE  /\ UNCHANGED <<store, available, audits, unrecorded, history>>
         /\ \A d \in Requests \ {c} : call'[d] = call[d]
         /\ call[c].phase = "idle"
         /\ \/ /\ ReturnAtOnce(t, c)
               /\ call'[c].phase = "returned" /\ call'[c].status # "Cancelled"
               /\ call'[c].status = "Applied" <=> Ops(c) = <<>>
            \/ /\ Begin(t, c) /\ Ops(c) # <<>>
               /\ call'[c].phase = "preflight" /\ call'[c].status = "Applied"
<1>1. call \in [Requests -> CallRecord] /\ DOMAIN Idle = Fields
  BY DEF Inv, TypeInv, TypeOK, Idle, Fields
<1>2. UNCHANGED <<store, available, audits, unrecorded, history>> /\ call[c].phase = "idle"
  BY DEF ReturnAtOnce, Begin
<1>3. CASE Begin(t, c)
  BY <1>1, <1>2, <1>3 DEF Begin, Fields, Idle
<1>4. CASE ReturnAtOnce(t, c)
  <2> DEFINE status == IF Ops(c) = <<>> THEN "Applied" ELSE Admission(c)
  <2>1. Admission(c) # "Cancelled"
    <3>1. \A op, context, service : OperationStatus(op, context, service) # "Cancelled"
      BY DEF OperationStatus
    <3>2. ValidationStatus(c) # "Cancelled"
      BY <3>1 DEF ValidationStatus
    <3> QED
      BY <3>2 DEF Admission
  <2>2. /\ call' = [call EXCEPT ![c] = [Idle EXCEPT !.phase = "returned", !.status = status]]
        /\ Ops(c) = <<>> \/ Admission(c) # "Applied"
    BY <1>4 DEF ReturnAtOnce
  <2>3. status # "Cancelled" /\ (status = "Applied" <=> Ops(c) = <<>>)
    BY <2>1, <2>2
  <2> HIDE DEF status
  <2>4. /\ call'[c].phase = "returned" /\ call'[c].status = status
        /\ \A d \in Requests \ {c} : call'[d] = call[d]
    BY <1>1, <2>2 DEF Fields
  <2> QED
    BY <1>2, <1>4, <2>3, <2>4
<1> QED
  BY <1>3, <1>4

\* After the adapter's apply.
LEMMA AnswerOfApply ==
  ASSUME Inv, NEW t \in Threads, AdapterApply(t), NEW c \in Requests, c = running[t],
         AnswerOK(c)
  PROVE  AnswerOK(c)'
<1> DEFINE status == ApplyStatus(store, available, Ops(c)[1], Body[c].force)
           after == Effect(store, Ops(c)[1])
<1>1. /\ UNCHANGED <<audits, unrecorded>>
      /\ call[c].phase = "locked" /\ call'[c].phase = "after"
      /\ Len(Ops(c)) = 1 /\ call'[c].results = <<status>>
      /\ \/ /\ status = "Applied" /\ Commit(c, after) /\ call'[c].status = call[c].status
         \/ /\ status # "Applied" /\ UNCHANGED history
            /\ status # "Cancelled" /\ call'[c].status = status
  BY ApplyMoves
<1>2. /\ audits[c] = <<>> /\ unrecorded[c] = {} /\ call[c].status = "Applied"
      /\ ~ Committed(c)
  BY <1>1, NotYetCommitted DEF AnswerOK, Unattempted
<1> HIDE DEF status, after
<1>3. /\ Committed(c)' <=> status = "Applied"
      /\ call'[c].status = "Applied" <=> status = "Applied"
      /\ call'[c].status # "Cancelled"
  <2>1. CASE status = "Applied"
    BY <1>1, <1>2, <2>1, CommittedBy
  <2>2. CASE status # "Applied"
    BY <1>1, <1>2, <2>2, CommittedKept
  <2> QED
    BY <2>1, <2>2
<1>4. Applications(c)' = {}
  BY <1>1, <1>2 DEF Applications
<1>5. Len(call'[c].results) = 1 /\ \A i \in DOMAIN call'[c].results : call'[c].results[i] = status
  BY <1>1
<1> QED
  BY <1>1, <1>2, <1>3, <1>4, <1>5 DEF AnswerOK, Unattempted, Answering

\* After the adapter's transact.
LEMMA AnswerOfTransact ==
  ASSUME Inv, NEW t \in Threads, AdapterTransact(t), NEW c \in Requests, c = running[t],
         AnswerOK(c)
  PROVE  AnswerOK(c)'
<1> DEFINE statuses == TransactStatuses(store, available, Ops(c), Body[c].force)
           after == Candidates(store, Ops(c))[Len(Ops(c))]
<1>1. /\ UNCHANGED <<audits, unrecorded>>
      /\ call[c].phase = "locked" /\ call'[c].phase = "committed"
      /\ call'[c].results = statuses
      /\ \/ /\ Succeeds(statuses) /\ Commit(c, after) /\ call'[c].status = call[c].status
         \/ /\ ~ Succeeds(statuses) /\ UNCHANGED history
            /\ call'[c].status = "TransactionFailed"
            /\ call'[c].rolled_back = Body[c].rollback_on_failure
  BY TransactMoves
<1>2. /\ audits[c] = <<>> /\ unrecorded[c] = {} /\ call[c].status = "Applied"
      /\ ~ Committed(c)
  BY <1>1, NotYetCommitted DEF AnswerOK, Unattempted
<1>3. Succeeds(statuses) => Len(statuses) = Len(Ops(c))
  <2> SUFFICES ASSUME Succeeds(statuses) PROVE Len(statuses) = Len(Ops(c))
    OBVIOUS
  <2>1. Ops(c) \in Seq(Operation)
    BY RequestFacts
  <2> HIDE DEF statuses
  <2> QED
    BY <2>1, SuccessIsComplete DEF Succeeds, statuses
<1> HIDE DEF statuses, after
<1>4. /\ Committed(c)' <=> Succeeds(statuses)
      /\ call'[c].status = "Applied" <=> Succeeds(statuses)
      /\ call'[c].status # "Cancelled"
  <2>1. CASE Succeeds(statuses)
    BY <1>1, <1>2, <2>1, CommittedBy
  <2>2. CASE ~ Succeeds(statuses)
    BY <1>1, <1>2, <2>2, CommittedKept
  <2> QED
    BY <2>1, <2>2
<1>5. Applications(c)' = {}
  BY <1>1, <1>2 DEF Applications
<1> QED
  BY <1>1, <1>2, <1>3, <1>4, <1>5 DEF AnswerOK, Unattempted, Answering

\* After one more record, or one more loss.
LEMMA AnswerOfAudit ==
  ASSUME Inv, NEW t \in Threads, Audit(t), NEW c \in Requests, c = running[t], AnswerOK(c)
  PROVE  AnswerOK(c)'
<1> DEFINE i == call[c].at
           record == [operation |-> i, status |-> call[c].results[i],
                      rolled_back |-> call[c].rolled_back]
<1>1. /\ UNCHANGED history
      /\ i \in Nat \ {0} /\ i <= Len(call[c].results) /\ call[c].results \in Seq(Statuses)
      /\ call[c].phase = "audit" /\ call'[c].phase = "audit" /\ call'[c].at = i + 1
      /\ call'[c].status = call[c].status /\ call'[c].results = call[c].results
      /\ call'[c].rolled_back = call[c].rolled_back
      /\ \/ /\ audits'[c] = Append(audits[c], record) /\ unrecorded'[c] = unrecorded[c]
         \/ /\ audits'[c] = audits[c]
            /\ \E loss : loss.operation = i /\ unrecorded'[c] = unrecorded[c] \cup {loss}
  BY AuditMoves
<1>2. Committed(c)' <=> Committed(c)
  BY <1>1, CommittedKept
<1>3. audits[c] \in Seq(AuditRecord)
  BY DEF Inv, TypeInv, TypeOK
<1>4. record.operation = i /\ record.status = call[c].results[i]
      /\ record.rolled_back = call[c].rolled_back
  OBVIOUS
<1> HIDE DEF record
<1>5. ASSUME audits'[c] = Append(audits[c], record)
      PROVE  /\ DOMAIN audits'[c] = DOMAIN audits[c] \cup {Len(audits[c]) + 1}
             /\ \A k \in DOMAIN audits[c] : audits'[c][k] = audits[c][k]
             /\ audits'[c][Len(audits[c]) + 1] = record
  BY <1>3, <1>5
<1>6. Handed(audits[c], unrecorded[c], i - 1)
  BY <1>1 DEF AnswerOK
<1>7. i + 1 <= Len(call[c].results) + 1 /\ call'[c].at - 1 = i
  <2>1. Len(call[c].results) \in Nat
    BY <1>1
  <2> HIDE DEF i
  <2> QED
    BY <1>1, <2>1
<1>8. ASSUME Body[c].rollback_on_failure, Applications(c)' # {}
      PROVE  Committed(c)
  <2>1. CASE Applications(c) # {}
    BY <1>8, <2>1 DEF AnswerOK
  <2>2. CASE Applications(c) = {}
    <3>1. PICK k \in DOMAIN audits'[c] :
            audits'[c][k].status = "Applied" /\ ~ audits'[c][k].rolled_back
      BY <1>1, <1>8 DEF Applications
    <3>2. audits'[c] = Append(audits[c], record)
      BY <1>1, <2>2, <3>1 DEF Applications
    <3>3. k = Len(audits[c]) + 1
      BY <1>5, <2>2, <3>1, <3>2 DEF Applications
    <3>4. call[c].results[i] = "Applied" /\ ~ call[c].rolled_back
      BY <1>4, <1>5, <3>1, <3>2, <3>3
    <3>5. i \in DOMAIN call[c].results
      BY <1>1
    <3> QED
      BY <1>1, <1>8, <3>4, <3>5 DEF AnswerOK, Answering
  <2> QED
    BY <2>1, <2>2
<1>10. Handed(audits'[c], unrecorded'[c], call'[c].at - 1)
  <2> HIDE DEF i
  <2>1. CASE audits'[c] = Append(audits[c], record) /\ unrecorded'[c] = unrecorded[c]
    BY <1>1, <1>3, <1>4, <1>6, <1>7, <2>1, RecordHanded
  <2>2. CASE audits'[c] = audits[c] /\ unrecorded'[c] # unrecorded[c]
    <3>1. PICK loss : loss.operation = i /\ unrecorded'[c] = unrecorded[c] \cup {loss}
      BY <1>1, <2>2
    <3> QED
      BY <1>1, <1>6, <1>7, <2>2, <3>1, LossHanded
  <2>3. CASE audits'[c] = audits[c] /\ unrecorded'[c] = unrecorded[c]
    <3>1. PICK loss : loss.operation = i /\ unrecorded'[c] = unrecorded[c] \cup {loss}
      <4>1. Append(audits[c], record) # audits[c]
        <5>1. Len(Append(audits[c], record)) = Len(audits[c]) + 1 /\ Len(audits[c]) \in Nat
          BY <1>3
        <5> QED
          BY <5>1
      <4> QED
        BY <1>1, <2>3, <4>1
    <3> QED
      BY <1>1, <1>6, <1>7, <2>3, <3>1, LossHanded
  <2> QED
    BY <1>1, <2>1, <2>2, <2>3
<1> QED
  BY <1>1, <1>2, <1>7, <1>8, <1>10 DEF AnswerOK, Unattempted, Answering

\* The running call keeps its answer, whatever step its thread takes.
LEMMA AnswerOfAdvance ==
  ASSUME Inv, NEW t \in Threads, Advance(t), NEW c \in Requests, c = running[t], AnswerOK(c)
  PROVE  AnswerOK(c)'
<1>1. CASE PreflightCapture(t)
  <2>1. /\ UNCHANGED <<audits, unrecorded, history>> /\ call[c].phase = "preflight"
        /\ \/ /\ call'[c].phase \in {"preflight", "before"}
              /\ call'[c].status = call[c].status /\ call'[c].results = call[c].results
              /\ call'[c].rolled_back = call[c].rolled_back
           \/ /\ call'[c].phase = "returned"
              /\ call'[c].status \in {"TargetUnavailable", "InvalidValue"}
    BY <1>1, PreflightMoves
  <2>2. CASE call'[c].phase \in {"preflight", "before"}
    BY <2>1, <2>2, AnswerCarried DEF Unattempted
  <2>3. CASE call'[c].phase = "returned"
    <3>1. call'[c].status # "Cancelled"
      BY <2>1, <2>3
    <3>2. ~ Committed(c)' /\ ~ Committed(c)
      BY <2>1, CommittedKept, NotYetCommitted DEF Unattempted
    <3>3. Applications(c)' = Applications(c)
      BY <2>1 DEF Applications
    <3> QED
      BY <2>3, <3>1, <3>2, <3>3 DEF AnswerOK, Unattempted, Answering
  <2> QED
    BY <2>1, <2>2, <2>3
<1>2. CASE ListenerStepOf(t)
  <2>1. /\ UNCHANGED <<audits, unrecorded, history>>
        /\ call[c].phase \in {"before", "after", "migrated"} /\ call'[c].phase = call[c].phase
        /\ call'[c].status = call[c].status /\ call'[c].results = call[c].results
        /\ call'[c].rolled_back = call[c].rolled_back
    BY <1>2, ListenerMoves
  <2> QED
    BY <2>1, AnswerCarried DEF Unattempted
<1>3. CASE LockAndRevalidate(t)
  <2>1. /\ UNCHANGED <<audits, unrecorded, history>>
        /\ call[c].phase = "before" /\ call'[c].phase = "locked"
        /\ call'[c].status = call[c].status /\ call'[c].results = call[c].results
        /\ call'[c].rolled_back = call[c].rolled_back
    BY <1>3, ConclusionMoves
  <2> QED
    BY <2>1, AnswerCarried DEF Unattempted
<1>4. CASE (Cancel(t) \/ RefuseCommit(t)) /\ ~ LockAndRevalidate(t)
  <2>1. /\ UNCHANGED <<audits, unrecorded, history>>
        /\ call[c].phase = "before" /\ call'[c].phase = "audit" /\ call'[c].at = 1
        /\ call'[c].status # "Applied" /\ call'[c].results = All(c, call'[c].status)
    BY <1>4, ConclusionMoves
  <2> QED
    BY <2>1, GivenUp DEF Unattempted
<1>5. CASE RecaptureAndUnlock(t) \/ PublishMigrated(t)
  <2>1. /\ UNCHANGED <<audits, unrecorded, history>>
        /\ call'[c].status = call[c].status /\ call'[c].results = call[c].results
        /\ call'[c].rolled_back = call[c].rolled_back
        /\ call[c].phase \in {"committed", "after", "migrated"}
        /\ call'[c].phase \in {"committed", "after", "migrated"}
    BY <1>5, AfterwardsMoves
  <2> QED
    BY <2>1, AnswerCarried
<1>6. CASE BeginAudit(t)
  <2>1. /\ UNCHANGED <<audits, unrecorded, history>> /\ call'[c].at = 1
        /\ call'[c].status = call[c].status /\ call'[c].results = call[c].results
        /\ call'[c].rolled_back = call[c].rolled_back
        /\ call[c].phase \in {"after", "migrated"} /\ call'[c].phase = "audit"
    BY <1>6, AfterwardsMoves
  <2>2. call[c].results \in Seq(Statuses)
    BY DEF Inv, TypeInv, TypeOK, CallRecord
  <2> QED
    BY <2>1, <2>2, AuditStarts
<1>7. CASE Reply(t)
  <2>1. /\ UNCHANGED <<audits, unrecorded, history>>
        /\ call[c].at \in Nat /\ call[c].at > Len(call[c].results)
        /\ call[c].results \in Seq(Statuses)
        /\ call[c].phase = "audit" /\ call'[c].phase = "returned"
        /\ call'[c].status = call[c].status
    BY <1>7, ReplyMoves
  <2>2. Committed(c)' <=> Committed(c)
    BY <2>1, CommittedKept
  <2>3. /\ Applications(c)' = Applications(c)
        /\ audits'[c] = audits[c] /\ unrecorded'[c] = unrecorded[c]
    BY <2>1 DEF Applications
  <2>4. /\ call[c].at <= Len(call[c].results) + 1
        /\ Handed(audits[c], unrecorded[c], call[c].at - 1)
        /\ Committed(c) \/ call[c].status = "Cancelled" =>
             Len(call[c].results) = Len(Ops(c))
    BY <2>1 DEF AnswerOK, Answering
  <2>5. call[c].at - 1 = Len(call[c].results)
    <3>1. Len(call[c].results) \in Nat
      BY <2>1
    <3> QED
      BY <2>1, <2>4, <3>1
  <2> QED
    BY <2>1, <2>2, <2>3, <2>4, <2>5 DEF AnswerOK, Unattempted, Answering
<1> QED
  BY <1>1, <1>2, <1>3, <1>4, <1>5, <1>6, <1>7,
     AnswerOfApply, AnswerOfTransact, AnswerOfAudit DEF Advance, ListenerStepOf

\* Of the other calls a step changes neither the record nor whether they
\* committed.
LEMMA OthersKeep ==
  ASSUME Inv, NEW t \in Threads, Advance(t), NEW d \in Requests, d # running[t]
  PROVE  /\ call'[d] = call[d] /\ audits'[d] = audits[d] /\ unrecorded'[d] = unrecorded[d]
         /\ Committed(d)' <=> Committed(d)
<1>1. /\ running[t] \in Requests
      /\ call'[d] = call[d] /\ audits'[d] = audits[d] /\ unrecorded'[d] = unrecorded[d]
  BY OneCallMoves
<1>2. UNCHANGED history \/ \E after : Commit(running[t], after)
  <2>1. CASE AdapterApply(t)
    BY <2>1, ApplyMoves
  <2>2. CASE AdapterTransact(t)
    BY <2>2, TransactMoves
  <2>3. CASE LockAndRevalidate(t)
    BY <2>3 DEF LockAndRevalidate
  <2> QED
    BY <2>1, <2>2, <2>3, OtherSteps DEF Advance
<1>3. Committed(d)' <=> Committed(d)
  BY <1>1, <1>2, CommittedKept, CommittedBy
<1> QED
  BY <1>1, <1>3

\* Answers are right initially and after every step.
LEMMA AnswersInductive ==
  /\ Init => AnswersOK
  /\ Inv /\ AnswersOK /\ [Next]_vars => AnswersOK'
<1>1. ASSUME Init PROVE AnswersOK
  <2> SUFFICES ASSUME NEW c \in Requests PROVE AnswerOK(c)
    BY DEF AnswersOK
  <2>1. /\ call[c].phase = "idle" /\ call[c].status = "Applied"
        /\ audits[c] = <<>> /\ unrecorded[c] = {}
    BY <1>1 DEF Init, Idle
  <2>2. Applications(c) = {}
    BY <2>1 DEF Applications
  <2> QED
    BY <2>1, <2>2 DEF AnswerOK, Answering
<1>2. ASSUME Inv, AnswersOK, [Next]_vars PROVE AnswersOK'
  <2> SUFFICES ASSUME NEW c \in Requests PROVE AnswerOK(c)'
    BY DEF AnswersOK
  <2>1. AnswerOK(c)
    BY <1>2 DEF AnswersOK
  <2>2. CASE UNCHANGED <<call, audits, unrecorded, history>>
    BY <2>1, <2>2, AnswerFrame, CommittedKept
  <2>3. ASSUME NEW t \in Threads, Advance(t) PROVE AnswerOK(c)'
    <3>1. CASE c = running[t]
      BY <1>2, <2>1, <2>3, <3>1, AnswerOfAdvance
    <3>2. CASE c # running[t]
      BY <1>2, <2>1, <2>3, <3>2, OthersKeep, AnswerFrame
    <3> QED
      BY <3>1, <3>2
  <2>4. ASSUME NEW t \in Threads, NEW d \in Requests, ReturnAtOnce(t, d) \/ Begin(t, d)
        PROVE  AnswerOK(c)'
    <3>1. /\ UNCHANGED <<audits, unrecorded, history>>
          /\ \A e \in Requests \ {d} : call'[e] = call[e]
          /\ call[d].phase = "idle"
          /\ \/ call'[d].phase = "returned" /\ call'[d].status # "Cancelled"
             \/ call'[d].phase = "preflight" /\ call'[d].status = "Applied"
      BY <1>2, <2>4, EntryMoves
    <3>2. CASE c # d
      BY <2>1, <3>1, <3>2, AnswerFrame, CommittedKept
    <3>3. CASE c = d
      <4>1. ~ Committed(c)' /\ ~ Committed(c)
        BY <1>2, <3>1, <3>3, CommittedKept, NotYetCommitted DEF Unattempted
      <4>2. Applications(c)' = Applications(c)
        BY <3>1 DEF Applications
      <4>3. audits[c] = <<>> /\ unrecorded[c] = {}
        BY <2>1, <3>1, <3>3 DEF AnswerOK
      <4> QED
        BY <2>1, <3>1, <3>3, <4>1, <4>2, <4>3 DEF AnswerOK, Unattempted, Answering
    <3> QED
      BY <3>2, <3>3
  <2>5. ASSUME NEW target \in FlakyTargets, SetTargetAvailable(target) PROVE AnswerOK(c)'
    BY <2>2, <2>5 DEF SetTargetAvailable
  <2> QED
    BY <1>2, <2>2, <2>3, <2>4, <2>5 DEF Next, Terminated, vars
<1> QED
  BY <1>1, <1>2

\* Every operation of a call that committed or was cancelled has been handed to
\* the sink once and in order when the caller has its result, also those after
\* one at which the sink threw (README.md:31, :151).
THEOREM EveryMutationIsAudited == Spec => []EveryMutationAudited
<1>1. AnswersOK => EveryMutationAudited
  BY DEF AnswersOK, AnswerOK, EveryMutationAudited, AllHanded, Committed
<1> QED
  BY <1>1, Invariance, AnswersInductive, PTL DEF Spec

\* A record that says "applied" and not "rolled back", of a call that asks for
\* rollback on failure, belongs to a call that committed (AuditRecord in
\* service.cpp).
THEOREM AuditIsTruthful == Spec => []AuditTruthful
<1>1. AnswersOK => AuditTruthful
  BY DEF AnswersOK, AnswerOK, AuditTruthful
<1> QED
  BY <1>1, Invariance, AnswersInductive, PTL DEF Spec

-----------------------------------------------------------------------------
(* What listeners are shown.                                               *)

\* The snapshots a call has taken are those around its commit, as long as no
\* after-listener has overwritten them.
EventOK(c) ==
  /\ call[c].phase \in {"locked", "committed"} => ~ call[c].edited
  /\ call[c].phase = "after" => call[c].at # 0 /\ (call[c].at = 1 => ~ call[c].edited)
  /\ call[c].phase = "locked" /\ Body[c].form = "transact" =>
       call[c].before = [r \in Refs(c) |-> store[r]]
  /\ \A i \in DOMAIN history : history[i].call = c =>
       /\ call[c].phase = "committed" =>
            /\ call[c].before = [r \in Refs(c) |-> history[i].before[r]]
            /\ history[i].after = store
       /\ call[c].phase \in {"after", "migrated"} /\ ~ call[c].edited =>
            /\ call[c].before = [r \in Refs(c) |-> history[i].before[r]]
            /\ \A r \in DOMAIN call[c].after : call[c].after[r] = history[i].after[r]
            /\ FlakyTargets = {} => DOMAIN call[c].after = Refs(c)

EventsOK ==
  /\ \A c \in Requests : EventOK(c)
  /\ FlakyTargets = {} => available = Targets

\* A call that moves on without a commit, or another call's commit, leaves its
\* snapshots as they are.
LEMMA EventFrame ==
  ASSUME NEW c \in Requests, EventOK(c), call'[c] = call[c],
         UNCHANGED history,
         UNCHANGED store \/ call[c].phase \notin Holding
  PROVE  EventOK(c)'
BY DEF EventOK, Holding

\* The same when another call commits.
LEMMA EventFrameOfCommit ==
  ASSUME Inv, NEW c \in Requests, EventOK(c), call'[c] = call[c],
         NEW d \in Requests, d # c, NEW after, Commit(d, after),
         call[c].phase \notin Holding
  PROVE  EventOK(c)'
<1> DEFINE entry == [call |-> d, before |-> store, after |-> after]
<1>1. history \in Seq(CommitRecord) /\ history' = Append(history, entry) /\ entry.call = d
  BY DEF Commit, Inv, TypeInv, TypeOK
<1> HIDE DEF entry
<1>2. \A i \in DOMAIN history' : history'[i].call = c =>
        i \in DOMAIN history /\ history'[i] = history[i]
  BY <1>1
<1> QED
  BY <1>2 DEF EventOK, Holding

\* The entry that a commit adds is the only one of its call.
LEMMA OwnEntry ==
  ASSUME Inv, NEW c \in Requests, call[c].phase = "locked", NEW after, Commit(c, after)
  PROVE  \A i \in DOMAIN history' : history'[i].call = c =>
           history'[i].before = store /\ history'[i].after = after
<1> DEFINE entry == [call |-> c, before |-> store, after |-> after]
<1>1. history \in Seq(CommitRecord) /\ history' = Append(history, entry)
      /\ entry.before = store /\ entry.after = after
  BY DEF Commit, Inv, TypeInv, TypeOK
<1>2. \A i \in DOMAIN history : history[i].call # c
  BY NotYetCommitted DEF Unattempted, Committed
<1> HIDE DEF entry
<1>3. \A i \in DOMAIN history' :
        (i \in DOMAIN history /\ history'[i] = history[i]) \/ history'[i] = entry
  BY <1>1
<1> QED
  BY <1>1, <1>2, <1>3

\* The captures cover all collections of the call that are available.
LEMMA CaptureIs ==
  ASSUME NEW c \in Requests
  PROVE  /\ DOMAIN Capture(c) \subseteq Refs(c)
         /\ \A r \in DOMAIN Capture(c) : Capture(c)[r] = store[r]
         /\ (\A r \in Refs(c) : r.target \in available) =>
              Capture(c) = [r \in Refs(c) |-> store[r]]
<1>1. (\A r \in Refs(c) : r.target \in available) =>
        {r \in Refs(c) : r.target \in available} = Refs(c)
  OBVIOUS
<1> QED
  BY <1>1 DEF Capture

\* The running call keeps true snapshots.
LEMMA EventOfAdvance ==
  ASSUME Inv, EventsOK, NEW t \in Threads, Advance(t), NEW c \in Requests, c = running[t]
  PROVE  EventOK(c)'
<1>1. EventOK(c)
  BY DEF EventsOK
<1>2. ASSUME UNCHANGED history, call'[c].phase \notin {"locked", "committed", "after", "migrated"}
      PROVE  EventOK(c)'
  BY <1>2 DEF EventOK
<1>3. CASE PreflightCapture(t)
  BY <1>2, <1>3, PreflightMoves
<1>4. CASE ListenerStepOf(t)
  <2>1. /\ UNCHANGED <<store, history>>
        /\ call[c].phase \in {"before", "after", "migrated"} /\ call'[c].phase = call[c].phase
        /\ call[c].at \in Nat /\ call'[c].at = call[c].at + 1
        /\ ~ call'[c].edited =>
             /\ ~ call[c].edited
             /\ call'[c].before = call[c].before /\ call'[c].after = call[c].after
    BY <1>4, ListenerMoves
  <2>2. call[c].phase = "after" => call'[c].at # 0 /\ call'[c].at # 1
    BY <1>1, <2>1 DEF EventOK
  <2>3. CASE call'[c].edited
    BY <2>1, <2>2, <2>3 DEF EventOK
  <2>4. CASE ~ call'[c].edited
    BY <1>1, <2>1, <2>2, <2>4 DEF EventOK
  <2> QED
    BY <2>3, <2>4
<1>5. CASE LockAndRevalidate(t)
  <2>1. /\ UNCHANGED <<store, available, history>> /\ call'[c].phase = "locked"
        /\ call[c].phase = "before" /\ ~ call'[c].edited
        /\ Body[c].form = "transact" => call'[c].before = Capture(c)
    BY <1>5, ConclusionMoves
  <2>2. \A r \in Refs(c) : r.target \in available
    BY <1>5 DEF LockAndRevalidate, Revalidation
  <2>3. Capture(c) = [r \in Refs(c) |-> store[r]]
    BY <2>2, CaptureIs
  <2>4. \A i \in DOMAIN history : history[i].call # c
    BY <2>1, NotYetCommitted DEF Unattempted, Committed
  <2> QED
    BY <2>1, <2>3, <2>4 DEF EventOK
<1>6. CASE (Cancel(t) \/ RefuseCommit(t)) /\ ~ LockAndRevalidate(t)
  BY <1>2, <1>6, ConclusionMoves
<1>7. CASE AdapterApply(t)
  <2> DEFINE after == Effect(store, Ops(c)[1])
  <2>1. /\ call[c].phase = "locked" /\ call'[c].phase = "after"
        /\ call'[c].at = 1 /\ ~ call'[c].edited
    BY <1>1, <1>7, ApplyMoves DEF EventOK
  <2>2. CASE UNCHANGED history
    <3>1. \A i \in DOMAIN history' : history'[i].call # c
      BY <2>1, <2>2, NotYetCommitted DEF Unattempted, Committed
    <3> QED
      BY <2>1, <3>1 DEF EventOK
  <2>3. CASE /\ Commit(c, after)
             /\ call'[c].before = [r \in Refs(c) |-> store[r]]
             /\ call'[c].after = [r \in Refs(c) |-> after[r]]
    <3> HIDE DEF after
    <3>1. \A i \in DOMAIN history' : history'[i].call = c =>
            history'[i].before = store /\ history'[i].after = after
      BY <2>1, <2>3, OwnEntry
    <3> QED
      BY <2>1, <2>3, <3>1 DEF EventOK
  <2> QED
    BY <1>7, <2>2, <2>3, ApplyMoves
<1>8. CASE AdapterTransact(t)
  <2> DEFINE after == Candidates(store, Ops(c))[Len(Ops(c))]
  <2>1. /\ call[c].phase = "locked" /\ call'[c].phase = "committed"
        /\ Body[c].form = "transact" /\ call'[c].before = call[c].before
        /\ ~ call'[c].edited
    BY <1>1, <1>8, TransactMoves DEF EventOK
  <2>2. CASE UNCHANGED history
    <3>1. \A i \in DOMAIN history' : history'[i].call # c
      BY <2>1, <2>2, NotYetCommitted DEF Unattempted, Committed
    <3> QED
      BY <2>1, <3>1 DEF EventOK
  <2>3. CASE Commit(c, after)
    <3> HIDE DEF after
    <3>1. store' = after /\ \A i \in DOMAIN history' : history'[i].call = c =>
            history'[i].before = store /\ history'[i].after = after
      BY <2>1, <2>3, OwnEntry DEF Commit
    <3>2. call[c].before = [r \in Refs(c) |-> store[r]]
      BY <1>1, <2>1 DEF EventOK
    <3> QED
      BY <2>1, <3>1, <3>2 DEF EventOK
  <2> QED
    BY <1>8, <2>2, <2>3, TransactMoves
<1>9. CASE RecaptureAndUnlock(t)
  <2>1. /\ UNCHANGED <<store, available, history>>
        /\ call[c].phase = "committed" /\ call'[c].phase = "after"
        /\ call'[c].before = call[c].before /\ call'[c].after = Capture(c)
        /\ call'[c].at = 1 /\ call'[c].edited = call[c].edited
    BY <1>9, AfterwardsMoves
  <2>2. FlakyTargets = {} => Capture(c) = [r \in Refs(c) |-> store[r]]
    <3>1. \A r \in Refs(c) : r.target \in Targets
      BY RequestFacts DEF CollectionRef
    <3> QED
      BY <3>1, CaptureIs DEF EventsOK
  <2>3. \A r \in DOMAIN Capture(c) : Capture(c)[r] = store[r]
    BY CaptureIs
  <2> QED
    BY <1>1, <2>1, <2>2, <2>3 DEF EventOK
<1>10. CASE PublishMigrated(t)
  <2>1. /\ UNCHANGED <<store, history>>
        /\ call[c].phase = "after" /\ call'[c].phase = "migrated"
        /\ call'[c].before = call[c].before /\ call'[c].after = call[c].after
        /\ call'[c].edited = call[c].edited
    BY <1>10, AfterwardsMoves
  <2> QED
    BY <1>1, <2>1 DEF EventOK
<1>11. CASE BeginAudit(t)
  BY <1>2, <1>11, AfterwardsMoves
<1>12. CASE Audit(t)
  BY <1>2, <1>12, AuditMoves
<1>13. CASE Reply(t)
  BY <1>2, <1>13, ReplyMoves
<1> QED
  BY <1>3, <1>4, <1>5, <1>6, <1>7, <1>8, <1>9, <1>10, <1>11, <1>12, <1>13
     DEF Advance, ListenerStepOf

\* Only the call that holds the mutex commits, and it is the running one.
LEMMA CommitsAlone ==
  ASSUME Inv, NEW t \in Threads, Advance(t), NEW d \in Requests, d # running[t],
         ~ UNCHANGED <<store, history>>
  PROVE  /\ running[t] \in Requests /\ \E after : Commit(running[t], after)
         /\ call[d].phase \notin Holding
<1> DEFINE c == running[t]
<1>1. c \in Requests
  BY OneCallMoves
<1>2. call[c].phase = "locked" /\ \E after : Commit(c, after)
  <2>1. CASE AdapterApply(t)
    BY <2>1, ApplyMoves
  <2>2. CASE AdapterTransact(t)
    BY <2>2, TransactMoves
  <2>3. CASE LockAndRevalidate(t)
    BY <2>3 DEF LockAndRevalidate
  <2> QED
    BY <2>1, <2>2, <2>3, OtherSteps DEF Advance
<1>3. call[d].phase \notin Holding
  BY <1>1, <1>2 DEF Inv, MutexOK, Holding
<1> QED
  BY <1>1, <1>2, <1>3

\* Snapshots are true initially and after every step.
LEMMA EventsInductive ==
  /\ Init => EventsOK
  /\ Inv /\ EventsOK /\ [Next]_vars => EventsOK'
<1>1. ASSUME Init PROVE EventsOK
  <2>1. DOMAIN history = {} /\ available = Targets
    BY <1>1 DEF Init
  <2>2. \A c \in Requests : call[c].phase = "idle"
    BY <1>1 DEF Init, Idle
  <2> QED
    BY <2>1, <2>2 DEF EventsOK, EventOK
<1>2. ASSUME Inv, EventsOK, [Next]_vars PROVE EventsOK'
  <2>1. FlakyTargets = {} => available' = Targets
    <3>1. UNCHANGED available \/ \E target \in FlakyTargets : SetTargetAvailable(target)
      <4>1. ASSUME NEW t \in Threads, Advance(t) PROVE UNCHANGED available
        BY <4>1 DEF Advance, PreflightCapture, ListenerReturns, ListenerDecides,
           ListenerThrows, ListenerEdits, Cancel, LockAndRevalidate, RefuseCommit, AdapterApply,
           AdapterTransact, RecaptureAndUnlock, PublishMigrated, BeginAudit, Audit, Reply
      <4>2. ASSUME NEW t \in Threads, NEW d \in Requests, ReturnAtOnce(t, d) \/ Begin(t, d)
            PROVE  UNCHANGED available
        BY <4>2 DEF ReturnAtOnce, Begin
      <4> QED
        BY <1>2, <4>1, <4>2, SMTT(30) DEF Next, Terminated, vars
    <3> QED
      BY <1>2, <3>1 DEF EventsOK
  <2>2. ASSUME NEW c \in Requests PROVE EventOK(c)'
    <3>1. EventOK(c)
      BY <1>2 DEF EventsOK
    <3>2. CASE UNCHANGED <<store, call, history>>
      BY <3>1, <3>2, EventFrame
    <3>3. ASSUME NEW t \in Threads, Advance(t) PROVE EventOK(c)'
      <4>1. CASE c = running[t]
        BY <1>2, <3>3, <4>1, EventOfAdvance
      <4>2. CASE c # running[t] /\ UNCHANGED <<store, history>>
        BY <1>2, <3>1, <3>3, <4>2, OneCallMoves, EventFrame
      <4>3. CASE c # running[t] /\ ~ UNCHANGED <<store, history>>
        <5>1. call'[c] = call[c]
          BY <1>2, <3>3, <4>3, OneCallMoves
        <5>2. /\ running[t] \in Requests /\ \E after : Commit(running[t], after)
              /\ call[c].phase \notin Holding
          BY <1>2, <3>3, <4>3, CommitsAlone
        <5> QED
          BY <1>2, <3>1, <4>3, <5>1, <5>2, EventFrameOfCommit
      <4> QED
        BY <4>1, <4>2, <4>3
    <3>4. ASSUME NEW t \in Threads, NEW d \in Requests, ReturnAtOnce(t, d) \/ Begin(t, d)
          PROVE  EventOK(c)'
      <4>1. /\ UNCHANGED <<store, history>> /\ \A e \in Requests \ {d} : call'[e] = call[e]
            /\ call'[d].phase \in {"returned", "preflight"}
        BY <1>2, <3>4, EntryMoves
      <4>2. CASE c # d
        BY <3>1, <4>1, <4>2, EventFrame
      <4>3. CASE c = d
        BY <4>1, <4>3 DEF EventOK
      <4> QED
        BY <4>2, <4>3
    <3>5. ASSUME NEW target \in FlakyTargets, SetTargetAvailable(target) PROVE EventOK(c)'
      BY <3>2, <3>5 DEF SetTargetAvailable
    <3> QED
      BY <1>2, <3>2, <3>3, <3>4, <3>5 DEF Next, Terminated, vars
  <2> QED
    BY <2>1, <2>2 DEF EventsOK
<1> QED
  BY <1>1, <1>2

\* Until one of them edits the event, after- and migration-listeners see the
\* collections as they were just before and just after that commit; the first
\* of them sees an unedited event (DynamicPropertyService::apply, ::transact).
THEOREM AfterEventsAreTruthful == Spec => []AfterEventTruthful
<1>1. Inv /\ EventsOK => AfterEventTruthful
  <2> SUFFICES ASSUME Inv, EventsOK, NEW i \in DOMAIN history, NEW c, c = history[i].call
               PROVE  /\ call[c].phase = "after" /\ call[c].at = 1 => ~ call[c].edited
                      /\ call[c].phase \in {"after", "migrated"} /\ ~ call[c].edited =>
                           /\ \A r \in DOMAIN call[c].before :
                                call[c].before[r] = history[i].before[r]
                           /\ \A r \in DOMAIN call[c].after :
                                call[c].after[r] = history[i].after[r]
                           /\ FlakyTargets = {} =>
                                DOMAIN call[c].before = Refs(c) /\ DOMAIN call[c].after = Refs(c)
    BY DEF AfterEventTruthful
  <2>1. EventOK(c)
    BY HistoryEntry DEF Inv, TypeInv, EventsOK
  <2>2. call[c].phase = "after" /\ call[c].at = 1 => ~ call[c].edited
    BY <2>1 DEF EventOK
  <2>3. ASSUME call[c].phase \in {"after", "migrated"}, ~ call[c].edited
        PROVE  /\ call[c].before = [r \in Refs(c) |-> history[i].before[r]]
               /\ \A r \in DOMAIN call[c].after : call[c].after[r] = history[i].after[r]
               /\ FlakyTargets = {} => DOMAIN call[c].after = Refs(c)
    BY <2>1, <2>3 DEF EventOK
  <2> QED
    BY <2>2, <2>3
<1> QED
  BY <1>1, Invariance, EventsInductive, PTL DEF Spec

-----------------------------------------------------------------------------
(* The abstract specification's copies of the adapter's operators.         *)

\* An operation has the same effect on both levels.
LEMMA SameEffect == \A s, op : Atomic!Effect(s, op) = Effect(s, op)
BY DEF Atomic!Effect, Effect, Atomic!Source, Atomic!Destination, Atomic!Collection,
  Atomic!MergeInto, Atomic!Missing, Atomic!Empty, Atomic!Placed, Source, Destination,
  Collection, MergeInto, Missing, Empty, Placed

\* So has a transaction.
LEMMA SameCandidates == \A s, ops : Atomic!Candidates(s, ops) = Candidates(s, ops)
BY DEF Atomic!Candidates, Candidates, Atomic!Effect, Effect, Atomic!Source, Atomic!Destination, Atomic!Collection,
  Atomic!MergeInto, Atomic!Missing, Atomic!Empty, Atomic!Placed, Source, Destination,
  Collection, MergeInto, Missing, Empty, Placed

\* And it is applied, or refused, for the same reasons.
LEMMA SameStatus ==
  \A s, a, op, f : Atomic!ApplyStatus(s, a, op, f) = ApplyStatus(s, a, op, f)
BY DEF Atomic!ApplyStatus, ApplyStatus, RefStatus, Atomic!RefStatus,
  Atomic!ExpectedRevision, ExpectedRevision, Atomic!ConflictingExpectations,
  ConflictingExpectations, Atomic!BranchStatus, BranchStatus, Blocked, Atomic!Blocked,
  Source, Destination, Atomic!Source, Atomic!Destination, KeysOf, Atomic!KeysOf

-----------------------------------------------------------------------------
(* Calls are atomic: the service implements AtomicCalls.                   *)

\* What the callers see of all calls.
AbstractState == [c \in Requests |-> CallState(c)]

\* A call of which neither the phase, the status nor the commit changes looks
\* the same.
LEMMA CallStateKept ==
  ASSUME NEW c \in Requests, call'[c].phase = call[c].phase,
         call'[c].status = call[c].status, Committed(c)' <=> Committed(c)
  PROVE  CallState(c)' = CallState(c)
BY DEF CallState

\* Between its begin and its reply a call looks the same until it commits.
LEMMA CallStateUnderWay ==
  ASSUME NEW c \in Requests, call[c].phase \notin {"idle", "returned"},
         call'[c].phase \notin {"idle", "returned"}, Committed(c)' <=> Committed(c)
  PROVE  CallState(c)' = CallState(c)
BY DEF CallState

\* If every call looks the same, so do all of them together.
LEMMA AbstractStateKept ==
  ASSUME \A d \in Requests : CallState(d)' = CallState(d)
  PROVE  AbstractState' = AbstractState
BY DEF AbstractState

\* If one call changes its looks, the others do not.
LEMMA AbstractStateMoves ==
  ASSUME NEW c \in Requests, NEW x, CallState(c)' = x,
         \A d \in Requests \ {c} : CallState(d)' = CallState(d)
  PROVE  AbstractState' = [AbstractState EXCEPT ![c] = x]
BY DEF AbstractState

\* An operation that is applied while some targets are away would be applied
\* if they were all there.
LEMMA AppliedAnywhere ==
  ASSUME NEW s, NEW op, NEW force, available \subseteq Targets,
         ApplyStatus(s, available, op, force) = "Applied"
  PROVE  ApplyStatus(s, Targets, op, force) = "Applied"
BY DEF ApplyStatus, RefStatus

\* A successful adapter call takes all operations of the call, each on the
\* store its predecessors left.
LEMMA CommitTakesAll ==
  ASSUME Inv, NEW t \in Threads, AdapterApply(t) \/ AdapterTransact(t),
         NEW c \in Requests, c = running[t], history' # history
  PROVE  /\ Committed(c)'
         /\ store' = Candidates(store, Ops(c))[Len(Ops(c))]
         /\ \A i \in DOMAIN Ops(c) :
              ApplyStatus(Candidates(store, Ops(c))[i - 1], Targets, Ops(c)[i], Body[c].force)
                = "Applied"
<1> DEFINE run == Candidates(store, Ops(c))
           status(i) == ApplyStatus(run[i - 1], available, Ops(c)[i], Body[c].force)
<1>1. /\ Ops(c) \in Seq(Operation) /\ Len(Ops(c)) \in Nat /\ DOMAIN Ops(c) = 1..Len(Ops(c))
      /\ available \subseteq Targets
  BY RequestFacts DEF Inv, TypeInv, TypeOK
<1>2. run[0] = store /\ \A i \in 1..Len(Ops(c)) : run[i] = Effect(run[i - 1], Ops(c)[i])
  BY <1>1, CandidatesStep
<1> SUFFICES /\ \E after : Commit(c, after)
             /\ store' = run[Len(Ops(c))]
             /\ \A i \in DOMAIN Ops(c) : status(i) = "Applied"
  BY <1>1, AppliedAnywhere, CommittedBy
<1>3. CASE AdapterApply(t)
  <2>1. /\ Len(Ops(c)) = 1
        /\ ApplyStatus(store, available, Ops(c)[1], Body[c].force) = "Applied"
        /\ Commit(c, Effect(store, Ops(c)[1]))
    BY <1>3, ApplyMoves
  <2>2. run[1] = Effect(store, Ops(c)[1])
    BY <1>2, <2>1
  <2> HIDE DEF run
  <2>3. store' = run[1]
    BY <2>1, <2>2 DEF Commit
  <2>4. \A i \in DOMAIN Ops(c) : i = 1
    BY <1>1, <2>1
  <2> QED
    BY <1>2, <2>1, <2>3, <2>4
<1>4. CASE AdapterTransact(t)
  <2> DEFINE statuses == TransactStatuses(store, available, Ops(c), Body[c].force)
  <2>1. Succeeds(statuses) /\ Commit(c, run[Len(Ops(c))])
    BY <1>4, TransactMoves
  <2>2. \A i \in DOMAIN statuses : statuses[i] = "Applied"
    BY <2>1 DEF Succeeds
  <2> HIDE DEF statuses
  <2>3. \A i \in 1..Len(Ops(c)) : status(i) = "Applied"
    <3>1. statuses = TransactStatuses(store, available, Ops(c), Body[c].force)
      BY DEF statuses
    <3>2. Ops(c) \in Seq(Operation)
      BY <1>1
    <3>3. \A i \in 1..Len(Ops(c)) :
            ApplyStatus(Candidates(store, Ops(c))[i - 1], available, Ops(c)[i], Body[c].force)
              = "Applied"
      BY <2>2, <3>1, <3>2, SuccessIsTotal
    <3> QED
      BY <3>3
  <2> QED
    BY <1>1, <2>1, <2>3 DEF Commit
<1> QED
  BY <1>3, <1>4

\* What the abstract actions say in the service's own terms.
LEMMA AbstractActions ==
  ASSUME NEW c \in Requests
  PROVE  /\ AbstractState[c] = "idle" /\ AbstractState' = [AbstractState EXCEPT ![c] = "open"]
              /\ UNCHANGED store => Atomic!Next
         /\ AbstractState[c] = "effected" /\ AbstractState' = [AbstractState EXCEPT ![c] = "ok"]
              /\ UNCHANGED store => Atomic!Next
         /\ AbstractState[c] = "idle" /\ Ops(c) = <<>>
              /\ AbstractState' = [AbstractState EXCEPT ![c] = "ok"]
              /\ UNCHANGED store => Atomic!Next
         /\ AbstractState[c] \in {"idle", "open"}
              /\ AbstractState' = [AbstractState EXCEPT ![c] = "refused"]
              /\ UNCHANGED store => Atomic!Next
<1>1. ASSUME AbstractState[c] = "idle", AbstractState' = [AbstractState EXCEPT ![c] = "open"],
             UNCHANGED store
      PROVE  Atomic!Open(c)
  BY <1>1 DEF Atomic!Open, AbstractState
<1>2. ASSUME AbstractState[c] = "effected", UNCHANGED store,
             AbstractState' = [AbstractState EXCEPT ![c] = "ok"]
      PROVE  Atomic!CloseEffected(c)
  BY <1>2 DEF Atomic!CloseEffected, AbstractState
<1>3. ASSUME AbstractState[c] = "idle", Ops(c) = <<>>, UNCHANGED store,
             AbstractState' = [AbstractState EXCEPT ![c] = "ok"]
      PROVE  Atomic!CloseEmpty(c)
  BY <1>3 DEF Atomic!CloseEmpty, AbstractState
<1>4. ASSUME AbstractState[c] \in {"idle", "open"}, UNCHANGED store,
             AbstractState' = [AbstractState EXCEPT ![c] = "refused"]
      PROVE  Atomic!Refuse(c)
  BY <1>4 DEF Atomic!Refuse, AbstractState
<1> QED
  BY <1>1, <1>2, <1>3, <1>4 DEF Atomic!Next

\* A commit is the instant at which the abstract call takes effect.
LEMMA AbstractEffect ==
  ASSUME NEW c \in Requests, AbstractState[c] = "open",
         AbstractState' = [AbstractState EXCEPT ![c] = "effected"],
         store' = Candidates(store, Ops(c))[Len(Ops(c))],
         \A i \in DOMAIN Ops(c) :
           ApplyStatus(Candidates(store, Ops(c))[i - 1], Targets, Ops(c)[i], Body[c].force)
             = "Applied"
  PROVE  Atomic!Next
<1>1. Atomic!Succeeds(c)
  BY SameCandidates, SameStatus DEF Atomic!Succeeds
<1>2. store' = Atomic!Candidates(store, Ops(c))[Len(Ops(c))]
  BY SameCandidates
<1>3. Atomic!TakeEffect(c)
  BY <1>1, <1>2 DEF Atomic!TakeEffect, AbstractState
<1> QED
  BY <1>3 DEF Atomic!Next

\* The running call's step is a step or a stutter of the abstract calls.
LEMMA AdvanceRefines ==
  ASSUME Inv, AnswersOK, NEW t \in Threads, Advance(t)
  PROVE  Atomic!Next \/ (AbstractState' = AbstractState /\ store' = store)
<1> SUFFICES ASSUME NEW c \in Requests, c = running[t]
             PROVE  Atomic!Next \/ (AbstractState' = AbstractState /\ store' = store)
  BY OneCallMoves
<1>1. \A d \in Requests \ {c} : CallState(d)' = CallState(d)
  BY OthersKeep, CallStateKept
<1>2. AnswerOK(c)
  BY DEF AnswersOK
<1>3. AbstractState[c] = CallState(c)
  BY DEF AbstractState
<1>4. CASE PreflightCapture(t)
  <2>1. /\ UNCHANGED <<store, history>> /\ call[c].phase = "preflight"
        /\ \/ call'[c].phase \in {"preflight", "before"}
           \/ /\ call'[c].phase = "returned"
              /\ call'[c].status \in {"TargetUnavailable", "InvalidValue"}
    BY <1>4, PreflightMoves
  <2>2. (Committed(c)' <=> Committed(c)) /\ ~ Committed(c)
    BY <2>1, CommittedKept, NotYetCommitted DEF Unattempted
  <2>3. CASE call'[c].phase \in {"preflight", "before"}
    <3>1. CallState(c)' = CallState(c)
      BY <2>1, <2>2, <2>3, CallStateUnderWay
    <3> QED
      BY <1>1, <2>1, <3>1, AbstractStateKept
  <2>4. CASE call'[c].phase = "returned"
    <3>1. CallState(c) = "open" /\ CallState(c)' = "refused"
      BY <2>1, <2>2, <2>4 DEF CallState
    <3>2. AbstractState' = [AbstractState EXCEPT ![c] = "refused"]
      BY <1>1, <3>1, AbstractStateMoves
    <3> QED
      BY <1>3, <2>1, <3>1, <3>2, AbstractActions
  <2> QED
    BY <2>1, <2>3, <2>4
<1>5. CASE ListenerStepOf(t) \/ LockAndRevalidate(t) \/ Cancel(t) \/ RefuseCommit(t)
           \/ RecaptureAndUnlock(t) \/ PublishMigrated(t) \/ BeginAudit(t) \/ Audit(t)
  <2>1. /\ UNCHANGED <<store, history>>
        /\ call[c].phase \notin {"idle", "returned"}
        /\ call'[c].phase \notin {"idle", "returned"}
    <3>1. CASE ListenerStepOf(t)
      BY <3>1, ListenerMoves
    <3>2. CASE LockAndRevalidate(t) \/ Cancel(t) \/ RefuseCommit(t)
      BY <3>2, ConclusionMoves
    <3>3. CASE RecaptureAndUnlock(t) \/ PublishMigrated(t) \/ BeginAudit(t)
      BY <3>3, AfterwardsMoves
    <3>4. CASE Audit(t)
      BY <3>4, AuditMoves
    <3> QED
      BY <1>5, <3>1, <3>2, <3>3, <3>4
  <2>2. CallState(c)' = CallState(c)
    BY <2>1, CommittedKept, CallStateUnderWay
  <2> QED
    BY <1>1, <2>1, <2>2, AbstractStateKept
<1>6. CASE AdapterApply(t) \/ AdapterTransact(t)
  <2>1. /\ call[c].phase = "locked" /\ call'[c].phase \in {"after", "committed"}
        /\ UNCHANGED <<store, history>> \/ \E after : Commit(c, after)
    <3>1. CASE AdapterApply(t)
      BY <3>1, ApplyMoves
    <3>2. CASE AdapterTransact(t)
      BY <3>2, TransactMoves
    <3> QED
      BY <1>6, <3>1, <3>2
  <2>2. ~ Committed(c)
    BY <2>1, NotYetCommitted DEF Unattempted
  <2>3. CASE UNCHANGED history
    <3>1. CallState(c)' = CallState(c)
      BY <2>1, <2>3, CommittedKept, CallStateUnderWay
    <3>2. ~ Committed(c)'
      BY <2>2, <2>3, CommittedKept
    <3>3. UNCHANGED store
      BY <2>1, <3>2, CommittedBy
    <3> QED
      BY <1>1, <3>1, <3>3, AbstractStateKept
  <2>4. CASE history' # history
    <3>1. /\ Committed(c)'
          /\ store' = Candidates(store, Ops(c))[Len(Ops(c))]
          /\ \A i \in DOMAIN Ops(c) :
               ApplyStatus(Candidates(store, Ops(c))[i - 1], Targets, Ops(c)[i], Body[c].force)
                 = "Applied"
      BY <1>6, <2>4, CommitTakesAll
    <3>2. CallState(c) = "open" /\ CallState(c)' = "effected"
      BY <2>1, <2>2, <3>1 DEF CallState
    <3>3. AbstractState' = [AbstractState EXCEPT ![c] = "effected"]
      BY <1>1, <3>2, AbstractStateMoves
    <3> QED
      BY <1>3, <3>1, <3>2, <3>3, AbstractEffect
  <2> QED
    BY <2>3, <2>4
<1>7. CASE Reply(t)
  <2>1. /\ UNCHANGED <<store, history>>
        /\ call[c].phase = "audit" /\ call'[c].phase = "returned"
        /\ call'[c].status = call[c].status
    BY <1>7, ReplyMoves
  <2>2. Committed(c) <=> call[c].status = "Applied"
    BY <1>2, <2>1 DEF AnswerOK, Answering
  <2>3. CASE Committed(c)
    <3>1. CallState(c) = "effected" /\ CallState(c)' = "ok"
      BY <2>1, <2>2, <2>3 DEF CallState
    <3>2. AbstractState' = [AbstractState EXCEPT ![c] = "ok"]
      BY <1>1, <3>1, AbstractStateMoves
    <3> QED
      BY <1>3, <2>1, <3>1, <3>2, AbstractActions
  <2>4. CASE ~ Committed(c)
    <3>1. CallState(c) = "open" /\ CallState(c)' = "refused"
      BY <2>1, <2>2, <2>4 DEF CallState
    <3>2. AbstractState' = [AbstractState EXCEPT ![c] = "refused"]
      BY <1>1, <3>1, AbstractStateMoves
    <3> QED
      BY <1>3, <2>1, <3>1, <3>2, AbstractActions
  <2> QED
    BY <2>3, <2>4
<1> QED
  BY <1>4, <1>5, <1>6, <1>7 DEF Advance, ListenerStepOf

\* So is the begin of a call, and an answer given from the request alone.
LEMMA EntryRefines ==
  ASSUME Inv, NEW t \in Threads, NEW c \in Requests, ReturnAtOnce(t, c) \/ Begin(t, c)
  PROVE  Atomic!Next
<1>1. /\ UNCHANGED <<store, history>>
      /\ \A d \in Requests \ {c} : call'[d] = call[d]
      /\ call[c].phase = "idle"
      /\ \/ /\ call'[c].phase = "returned"
            /\ call'[c].status = "Applied" <=> Ops(c) = <<>>
         \/ call'[c].phase = "preflight"
  BY EntryMoves
<1>2. \A d \in Requests : Committed(d)' <=> Committed(d)
  BY <1>1, CommittedKept
<1>3. \A d \in Requests \ {c} : CallState(d)' = CallState(d)
  BY <1>1, <1>2, CallStateKept
<1>4. AbstractState[c] = "idle" /\ ~ Committed(c)
  BY <1>1, NotYetCommitted DEF AbstractState, CallState, Unattempted
<1>5. CASE call'[c].phase = "preflight"
  <2>1. CallState(c)' = "open"
    BY <1>2, <1>4, <1>5 DEF CallState
  <2>2. AbstractState' = [AbstractState EXCEPT ![c] = "open"]
    BY <1>3, <2>1, AbstractStateMoves
  <2> QED
    BY <1>1, <1>4, <2>2, AbstractActions
<1>6. CASE call'[c].phase = "returned" /\ Ops(c) = <<>>
  <2>1. CallState(c)' = "ok"
    BY <1>1, <1>6 DEF CallState
  <2>2. AbstractState' = [AbstractState EXCEPT ![c] = "ok"]
    BY <1>3, <2>1, AbstractStateMoves
  <2> QED
    BY <1>1, <1>4, <1>6, <2>2, AbstractActions
<1>7. CASE call'[c].phase = "returned" /\ Ops(c) # <<>>
  <2>1. CallState(c)' = "refused"
    BY <1>1, <1>7 DEF CallState
  <2>2. AbstractState' = [AbstractState EXCEPT ![c] = "refused"]
    BY <1>3, <2>1, AbstractStateMoves
  <2> QED
    BY <1>1, <1>4, <2>2, AbstractActions
<1> QED
  BY <1>1, <1>5, <1>6, <1>7

\* Every step of the service is a step or a stutter of the abstract calls.
LEMMA StepRefines ==
  Inv /\ AnswersOK /\ [Next]_vars => [Atomic!Next]_(Atomic!vars)
<1> SUFFICES ASSUME Inv, AnswersOK, [Next]_vars
             PROVE  Atomic!Next \/ (AbstractState' = AbstractState /\ store' = store)
  BY DEF Atomic!vars, AbstractState
<1>1. CASE UNCHANGED <<store, call, history>>
  <2>1. \A d \in Requests : CallState(d)' = CallState(d)
    BY <1>1, CommittedKept, CallStateKept
  <2> QED
    BY <1>1, <2>1, AbstractStateKept
<1>2. ASSUME NEW t \in Threads, Advance(t)
      PROVE  Atomic!Next \/ (AbstractState' = AbstractState /\ store' = store)
  BY <1>2, AdvanceRefines
<1>3. ASSUME NEW t \in Threads, NEW c \in Requests, ReturnAtOnce(t, c) \/ Begin(t, c)
      PROVE  Atomic!Next
  BY <1>3, EntryRefines
<1> QED
  BY <1>1, <1>2, <1>3 DEF Next, SetTargetAvailable, Terminated, vars

\* A call is atomic and answered truthfully: all its operations take effect at
\* one instant while it is open, or none does, and its caller is told which
\* (apply and transact of service.cpp, README.md:31).
THEOREM ServiceIsAtomic == Spec => CallsAreAtomic
<1>1. Init => Atomic!Init
  <2> SUFFICES ASSUME Init PROVE Atomic!Init
    OBVIOUS
  <2>1. \A c \in Requests : CallState(c) = "idle"
    BY DEF Init, CallState, Idle
  <2>2. [c \in Requests |-> CallState(c)] = [c \in Requests |-> "idle"]
    BY <2>1
  <2> QED
    BY <2>2 DEF Init, Atomic!Init
<1> QED
  BY <1>1, StepRefines, Invariance, AnswersInductive, PTL
     DEF Spec, CallsAreAtomic, Atomic!Spec

-----------------------------------------------------------------------------
(* The reference implementation: its invariant.                            *)

RefPhases == Phases \cup {"dispatch", "queued"}

RefStatuses == Statuses \cup {"Interrupted"}

RefRecord ==
  [phase : RefPhases, parent : Requests \cup {NoCall}, at : Nat, captured : Captures,
   cancelled : BOOLEAN, vetoed : BOOLEAN, failed : BOOLEAN, edited : BOOLEAN,
   status : RefStatuses, results : Seq(Statuses), rolled_back : BOOLEAN,
   before : Captures, after : Captures]

\* Every variable has its type.
RefTypeOK ==
  /\ store \in Store
  /\ available \subseteq Targets
  /\ mutation_mutex \in [owner : Threads \cup {NoThread}, depth : Nat]
  /\ running \in [Threads -> Requests \cup {NoCall}]
  /\ call \in [Requests -> RefRecord]
  /\ audits \in [Requests -> Seq(AuditRecord)]
  /\ unrecorded \in [Requests -> SUBSET LossRecord]
  /\ history \in Seq(CommitRecord)
  /\ service_lock \in [Services -> Threads \cup {NoThread}]

RefActive == RefPhases \ {"idle", "returned"}

\* While a call captures, a collection is left to capture, and what it keeps
\* is of those it has visited.
CapturesOf(c) ==
  /\ call[c].phase \in {"preflight", "dispatch"} =>
       DOMAIN call[c].captured \subseteq Refs(c) /\ DOMAIN call[c].captured # Refs(c)
  /\ call[c].phase = "preflight" => DOMAIN call[c].before = {}
  /\ call[c].phase = "dispatch" => DOMAIN call[c].before \subseteq DOMAIN call[c].captured

CapturesOK == \A c \in Requests : CapturesOf(c)

\* Every call under way is at one place of the stack of one thread, and all
\* but the innermost are publishing.
RefStackOK ==
  /\ \A t \in Threads : running[t] # NoCall => call[running[t]].phase \in RefActive
  /\ \A t, u \in Threads : running[t] = running[u] /\ running[t] # NoCall => t = u
  /\ \A c \in Requests : call[c].phase \in RefActive /\ call[c].parent # NoCall =>
       /\ call[call[c].parent].phase \in Publishing
       /\ \A t \in Threads : running[t] # call[c].parent
  /\ \A c, d \in Requests :
       (/\ call[c].phase \in RefActive /\ call[d].phase \in RefActive
        /\ call[c].parent = call[d].parent /\ call[c].parent # NoCall) => c = d

\* The thread is inside the `with` block of its call.
Inside(t) == running[t] # NoCall /\ call[running[t]].phase \in {"queued", "locked"}

\* The locks are held by the threads that are inside, and by nobody else.
LocksOK ==
  /\ \A t \in Threads, s \in Services :
       service_lock[s] = t <=> Inside(t) /\ Body[running[t]].service = s
  /\ \A t \in Threads : mutation_mutex.owner = t <=> InPhase(t, "locked")
  /\ mutation_mutex.depth = IF mutation_mutex.owner = NoThread THEN 0 ELSE 1

\* The phases before the write.
Unwritten == {"idle", "preflight", "dispatch", "before", "queued", "locked"}

\* The status of a call tells whether it committed unless it was interrupted,
\* its results are those the audit is about, and the audit has got as far as
\* `at`.
RefAnswerOK(c) ==
  /\ call[c].phase \in RefActive => Ops(c) # <<>> /\ Admission(c) = "Applied"
  /\ call[c].phase \in Unwritten => call[c].status = "Applied" /\ ~ Committed(c)
  /\ call[c].phase \notin {"audit", "returned"} => audits[c] = <<>> /\ unrecorded[c] = {}
  /\ call[c].phase \in {"after", "migrated", "audit"} =>
       /\ call[c].status = "Applied" => Committed(c)
       /\ Committed(c) => /\ call[c].status \in {"Applied", "Interrupted"}
                          /\ Len(call[c].results) = Len(Ops(c))
  /\ call[c].phase = "audit" =>
       /\ call[c].at \in 1..(Len(call[c].results) + 1)
       /\ Handed(audits[c], unrecorded[c], call[c].at - 1)
  /\ call[c].phase = "returned" /\ Committed(c) =>
       Handed(audits[c], unrecorded[c], Len(Ops(c)))

RefAnswersOK == \A c \in Requests : RefAnswerOK(c)

RefInv == RefTypeOK /\ CapturesOK /\ RefStackOK /\ LocksOK /\ RefAnswersOK

\* Only the record of c changes.
RefOnlyCall(c) ==
  /\ call' \in [Requests -> RefRecord]
  /\ \A d \in Requests \ {c} : call'[d] = call[d]

\* The call c goes on, on its place of the stack.
Goes(c) ==
  /\ RefOnlyCall(c) /\ UNCHANGED running
  /\ call[c].phase \in RefActive /\ call'[c].phase \in RefActive
  /\ call'[c].parent = call[c].parent

\* The call c leaves the stack of its thread.
Leaves(t, c, status) ==
  /\ RefOnlyCall(c) /\ running' = [running EXCEPT ![t] = call[c].parent]
  /\ call[c].phase \in RefActive /\ call'[c].phase = "returned"
  /\ call'[c].status = status

\* What the audit is about stays.
KeepsResult(c) ==
  call'[c].status = call[c].status /\ call'[c].results = call[c].results

\* The collections stay, the records of the audit too, and who holds a lock.
NothingWritten == UNCHANGED <<store, available, audits, unrecorded, history>>

SameLocks == UNCHANGED <<mutation_mutex, service_lock>>

\* A thread that runs a call runs one of the requests.
LEMMA RefRunning ==
  ASSUME RefTypeOK, NEW t \in Threads, running[t] # NoCall
  PROVE  running[t] \in Requests /\ call[running[t]] \in RefRecord
BY DEF RefTypeOK

\* Writing the record of one call.
LEMMA RefUpdate ==
  ASSUME RefTypeOK, NEW c \in Requests, NEW record \in RefRecord,
         call' = [call EXCEPT ![c] = record]
  PROVE  RefOnlyCall(c) /\ call'[c] = record
BY DEF RefTypeOK, RefOnlyCall

\* The phases and statuses in use.
LEMMA RefNames ==
  /\ {"idle", "preflight", "dispatch", "before", "queued", "locked", "after", "migrated",
      "audit", "returned"} \subseteq RefPhases
  /\ {"preflight", "dispatch", "before", "queued", "locked", "after", "migrated", "audit"}
       \subseteq RefActive
  /\ "idle" \notin RefActive /\ "returned" \notin RefActive
  /\ Statuses \subseteq RefStatuses /\ "Interrupted" \in RefStatuses
  /\ {"Applied", "Cancelled", "InvalidValue", "TargetUnavailable", "TransactionFailed"}
       \subseteq Statuses
BY DEF RefPhases, RefActive, Phases, RefStatuses, Statuses

\* A call that has not begun has a well-formed record.
LEMMA RefIdle ==
  Idle \in RefRecord /\ DOMAIN Idle = Fields
<1>1. NoSnapshots \in Captures
  BY DEF NoSnapshots, Captures
<1> HIDE DEF NoSnapshots
<1> QED
  BY <1>1, RefNames DEF Idle, RefRecord, Fields

\* The fields a record has.
LEMMA RefFields ==
  ASSUME NEW record \in RefRecord
  PROVE  /\ DOMAIN record = Fields
         /\ record.phase \in RefPhases /\ record.at \in Nat
         /\ record.parent \in Requests \cup {NoCall}
         /\ record.status \in RefStatuses /\ record.results \in Seq(Statuses)
         /\ record.captured \in Captures /\ record.before \in Captures
         /\ record.after \in Captures
         /\ {record.cancelled, record.vetoed, record.failed, record.edited,
             record.rolled_back} \subseteq BOOLEAN
BY DEF RefRecord, Fields

\* A listener runs in a phase in which events are published.
LEMMA RefListener ==
  ASSUME RefTypeOK, NEW t \in Threads, NEW c, c = running[t], InListener(t)
  PROVE  /\ c \in Requests /\ call[c] \in RefRecord
         /\ call[c].phase \in Publishing /\ call[c].phase \in RefActive
         /\ call[c].at + 1 \in Nat
<1>1. c \in Requests /\ call[c] \in RefRecord
  BY RefRunning DEF InListener
<1> QED
  BY <1>1, RefFields, RefNames DEF InListener, Publishing

-----------------------------------------------------------------------------
(* What each step does to the running call.                                *)

\* A record with a flag set or taken back.
Flagged(record, flag, b) == [record EXCEPT ![flag] = b]

\* What a listener may set keeps the type, and leaves alone what is answered.
LEMMA RefMarks ==
  ASSUME NEW r \in RefRecord, NEW b \in BOOLEAN,
         NEW flag \in {"cancelled", "vetoed", "failed", "edited"}
  PROVE  LET s == Flagged(r, flag, b) IN
         /\ s \in RefRecord /\ s.phase = r.phase /\ s.parent = r.parent
         /\ s.status = r.status /\ s.results = r.results
BY DEF RefRecord, Flagged

\* A listener returns, decides or throws.
LEMMA RefMarkMoves ==
  ASSUME RefTypeOK, NEW t \in Threads, NEW c, c = running[t],
         ListenerReturns(t) \/ ListenerDecides(t) \/ ListenerThrows(t)
  PROVE  /\ c \in Requests /\ Goes(c) /\ KeepsResult(c) /\ NothingWritten
         /\ UNCHANGED mutation_mutex
         /\ call[c].phase \in Publishing /\ call'[c].phase = call[c].phase
<1>1. InListener(t) /\ UNCHANGED running /\ NothingWritten /\ UNCHANGED mutation_mutex
  BY DEF ListenerReturns, ListenerDecides, ListenerThrows, NothingWritten
<1>2. /\ c \in Requests /\ call[c] \in RefRecord /\ call[c].phase \in Publishing
      /\ call[c].phase \in RefActive /\ call[c].at + 1 \in Nat
      /\ call \in [Requests -> RefRecord]
  BY <1>1, RefListener DEF RefTypeOK
<1> DEFINE Marked(cancelled, vetoed, failed, edited) ==
             [call[c] EXCEPT !.at = call[c].at + 1, !.cancelled = cancelled,
                             !.vetoed = vetoed, !.failed = failed, !.edited = edited]
<1>3. \E cancelled, vetoed, failed, edited \in BOOLEAN :
        call' = [call EXCEPT ![c] = Marked(cancelled, vetoed, failed, edited)]
  <2>1. {call[c].cancelled, call[c].vetoed, call[c].failed, call[c].edited} \subseteq BOOLEAN
        /\ DOMAIN call[c] = Fields
    BY <1>2, RefFields
  <2>2. CASE ListenerReturns(t)
    <3>1. call' = [call EXCEPT ![c] = Marked(call[c].cancelled, call[c].vetoed,
                                             call[c].failed, call[c].edited)]
      BY <1>2, <2>1, <2>2, ZenonT(60) DEF ListenerReturns, Fields, RefRecord
    <3> QED
      BY <2>1, <3>1
  <2>3. CASE ListenerDecides(t)
    <3>1. PICK cancelled \in BOOLEAN :
            call' = [call EXCEPT ![c].cancelled = cancelled, ![c].vetoed = @ \/ cancelled,
                                 ![c].at = @ + 1]
      BY <2>3 DEF ListenerDecides
    <3> DEFINE vetoed == call[c].vetoed \/ cancelled
    <3>2. vetoed \in BOOLEAN
      OBVIOUS
    <3>3. call' = [call EXCEPT ![c] = Marked(cancelled, vetoed, call[c].failed, call[c].edited)]
      BY <1>2, <2>1, <3>1, ZenonT(60) DEF RefRecord
    <3> HIDE DEF vetoed
    <3> QED
      BY <2>1, <3>2, <3>3
  <2>4. CASE ListenerThrows(t)
    <3> DEFINE failed == call[c].failed \/ InPhase(t, "before")
    <3>1. failed \in BOOLEAN
      BY DEF InPhase
    <3>2. call' = [call EXCEPT ![c] = Marked(call[c].cancelled, call[c].vetoed, failed,
                                             call[c].edited)]
      BY <1>2, <2>1, <2>4, ZenonT(60) DEF ListenerThrows, RefRecord
    <3> HIDE DEF failed
    <3> QED
      BY <2>1, <3>1, <3>2
  <2> QED
    BY <2>2, <2>3, <2>4
<1>4. PICK cancelled, vetoed, failed, edited \in BOOLEAN :
        call' = [call EXCEPT ![c] = Marked(cancelled, vetoed, failed, edited)]
  BY <1>3
<1> DEFINE record == Marked(cancelled, vetoed, failed, edited)
<1>5. /\ record \in RefRecord /\ record.phase = call[c].phase
      /\ record.parent = call[c].parent /\ record.status = call[c].status
      /\ record.results = call[c].results
  <2> DEFINE r1 == [call[c] EXCEPT !.at = call[c].at + 1]
             r2 == Flagged(r1, "cancelled", cancelled)
             r3 == Flagged(r2, "vetoed", vetoed)
             r4 == Flagged(r3, "failed", failed)
             r5 == Flagged(r4, "edited", edited)
  <2>1. r1 \in RefRecord /\ r1.phase = call[c].phase /\ r1.parent = call[c].parent
        /\ r1.status = call[c].status /\ r1.results = call[c].results
    BY <1>2 DEF RefRecord
  <2>2. /\ r2 = Flagged(r1, "cancelled", cancelled) /\ r3 = Flagged(r2, "vetoed", vetoed)
        /\ r4 = Flagged(r3, "failed", failed) /\ r5 = Flagged(r4, "edited", edited)
        /\ record = r5
    BY DEF Flagged
  <2> HIDE DEF r1, r2, r3, r4, r5, record
  <2>3. r2 \in RefRecord /\ r2.phase = r1.phase /\ r2.parent = r1.parent
        /\ r2.status = r1.status /\ r2.results = r1.results
    <3>1. r1 \in RefRecord /\ cancelled \in BOOLEAN /\ r2 = Flagged(r1, "cancelled", cancelled)
      BY <1>4, <2>1, <2>2
    <3> QED
      BY <3>1, RefMarks
  <2>4. r3 \in RefRecord /\ r3.phase = r2.phase /\ r3.parent = r2.parent
        /\ r3.status = r2.status /\ r3.results = r2.results
    <3>1. r2 \in RefRecord /\ vetoed \in BOOLEAN /\ r3 = Flagged(r2, "vetoed", vetoed)
      BY <1>4, <2>3, <2>2
    <3> QED
      BY <3>1, RefMarks
  <2>5. r4 \in RefRecord /\ r4.phase = r3.phase /\ r4.parent = r3.parent
        /\ r4.status = r3.status /\ r4.results = r3.results
    <3>1. r3 \in RefRecord /\ failed \in BOOLEAN /\ r4 = Flagged(r3, "failed", failed)
      BY <1>4, <2>4, <2>2
    <3> QED
      BY <3>1, RefMarks
  <2>6. r5 \in RefRecord /\ r5.phase = r4.phase /\ r5.parent = r4.parent
        /\ r5.status = r4.status /\ r5.results = r4.results
    <3>1. r4 \in RefRecord /\ edited \in BOOLEAN /\ r5 = Flagged(r4, "edited", edited)
      BY <1>4, <2>5, <2>2
    <3> QED
      BY <3>1, RefMarks
  <2> QED
    BY <2>1, <2>2, <2>3, <2>4, <2>5, <2>6
<1>6. call' = [call EXCEPT ![c] = record]
  BY <1>4
<1> HIDE DEF record
<1>7. RefOnlyCall(c) /\ call'[c] = record
  BY <1>2, <1>5, <1>6, RefUpdate
<1> QED
  BY <1>1, <1>2, <1>5, <1>7 DEF Goes, KeepsResult

\* A listener edits its event.
LEMMA RefEditMoves ==
  ASSUME RefTypeOK, NEW t \in Threads, NEW c, c = running[t], ListenerEdits(t)
  PROVE  /\ c \in Requests /\ Goes(c) /\ KeepsResult(c) /\ NothingWritten
         /\ UNCHANGED mutation_mutex
         /\ call[c].phase \in Publishing /\ call'[c].phase = call[c].phase
<1>1. InListener(t) /\ UNCHANGED running /\ NothingWritten /\ UNCHANGED mutation_mutex
  BY DEF ListenerEdits, NothingWritten
<1>2. /\ c \in Requests /\ call[c] \in RefRecord /\ call[c].phase \in Publishing
      /\ call[c].phase \in RefActive /\ call[c].at + 1 \in Nat
      /\ call \in [Requests -> RefRecord]
  BY <1>1, RefListener DEF RefTypeOK
<1> DEFINE first == IF InPhase(t, "before") THEN call[c].before ELSE NoSnapshots
           second == IF InPhase(t, "before") THEN call[c].after ELSE NoSnapshots
           record == [call[c] EXCEPT !.edited = TRUE, !.at = call[c].at + 1,
                                     !.before = first, !.after = second]
<1>3. call' = [call EXCEPT ![c] = record]
  BY <1>2 DEF ListenerEdits
<1>4. first \in Captures /\ second \in Captures
  BY <1>2, RefFields, NoSnapshotsType
<1> HIDE DEF first, second
<1>5. /\ record \in RefRecord /\ record.phase = call[c].phase
      /\ record.parent = call[c].parent /\ record.status = call[c].status
      /\ record.results = call[c].results
  BY <1>2, <1>4 DEF RefRecord
<1> HIDE DEF record
<1>6. RefOnlyCall(c) /\ call'[c] = record
  BY <1>2, <1>3, <1>5, RefUpdate
<1> QED
  BY <1>1, <1>2, <1>5, <1>6 DEF Goes, KeepsResult

\* A listener returns, decides, throws or edits its event.
LEMMA RefListenerMoves ==
  ASSUME RefTypeOK, NEW t \in Threads, NEW c, c = running[t],
         ListenerReturns(t) \/ ListenerDecides(t) \/ ListenerThrows(t) \/ ListenerEdits(t)
  PROVE  /\ c \in Requests /\ Goes(c) /\ KeepsResult(c) /\ NothingWritten
         /\ UNCHANGED mutation_mutex
         /\ call[c].phase \in Publishing /\ call'[c].phase = call[c].phase
BY RefMarkMoves, RefEditMoves

\* A listener's decision stops the call.
LEMMA RefCancelMoves ==
  ASSUME RefTypeOK, NEW t \in Threads, NEW c, c = running[t], Cancel(t)
  PROVE  /\ c \in Requests /\ Goes(c) /\ NothingWritten /\ UNCHANGED mutation_mutex
         /\ call[c].phase = "before" /\ call'[c].phase = "audit" /\ call'[c].at = 1
         /\ call'[c].status = "Cancelled"
<1> DEFINE record == [call[c] EXCEPT !.phase = "audit", !.at = 1, !.status = "Cancelled",
                                     !.results = All(c, "Cancelled")]
<1>1. /\ c \in Requests /\ call[c] \in RefRecord /\ call[c].phase = "before"
      /\ call \in [Requests -> RefRecord]
  BY RefRunning DEF Cancel, Published, InPhase, RefTypeOK
<1>2. All(c, "Cancelled") \in Seq(Statuses)
  BY <1>1, RequestFacts, RefNames DEF All
<1>3. "audit" \in RefPhases /\ "Cancelled" \in RefStatuses /\ 1 \in Nat
  BY RefNames
<1>4. /\ record \in RefRecord /\ record.phase = "audit" /\ record.at = 1
      /\ record.parent = call[c].parent /\ record.status = "Cancelled"
  BY <1>1, <1>2, <1>3 DEF RefRecord
<1>5. call' = [call EXCEPT ![c] = record]
  BY <1>1 DEF Cancel
<1> HIDE DEF record
<1>6. RefOnlyCall(c) /\ call'[c] = record
  BY <1>1, <1>4, <1>5, RefUpdate
<1>7. NothingWritten /\ UNCHANGED <<mutation_mutex, running>>
  BY DEF Cancel, NothingWritten
<1> QED
  BY <1>1, <1>4, <1>6, <1>7, RefNames DEF Goes

\* The move of a collection is published once more.
LEMMA RefMigratedMoves ==
  ASSUME RefTypeOK, NEW t \in Threads, NEW c, c = running[t], PublishMigrated(t)
  PROVE  /\ c \in Requests /\ Goes(c) /\ KeepsResult(c) /\ NothingWritten
         /\ UNCHANGED mutation_mutex
         /\ call[c].phase = "after" /\ call'[c].phase = "migrated"
<1> DEFINE record == [call[c] EXCEPT !.phase = "migrated", !.at = 1]
<1>1. /\ c \in Requests /\ call[c] \in RefRecord /\ call[c].phase = "after"
      /\ call \in [Requests -> RefRecord]
  BY RefRunning DEF PublishMigrated, Published, InPhase, RefTypeOK
<1>2. "migrated" \in RefPhases /\ 1 \in Nat
  BY RefNames
<1>3. /\ record \in RefRecord /\ record.phase = "migrated"
      /\ record.parent = call[c].parent /\ record.status = call[c].status
      /\ record.results = call[c].results
  BY <1>1, <1>2 DEF RefRecord
<1>4. call' = [call EXCEPT ![c] = record]
  BY <1>1 DEF PublishMigrated
<1> HIDE DEF record
<1>5. RefOnlyCall(c) /\ call'[c] = record
  BY <1>1, <1>3, <1>4, RefUpdate
<1>6. NothingWritten /\ UNCHANGED <<mutation_mutex, running>>
  BY DEF PublishMigrated, NothingWritten
<1> QED
  BY <1>1, <1>3, <1>5, <1>6, RefNames DEF Goes, KeepsResult

\* The events are over.
LEMMA RefBeginAuditMoves ==
  ASSUME RefTypeOK, NEW t \in Threads, NEW c, c = running[t], BeginAudit(t)
  PROVE  /\ c \in Requests /\ Goes(c) /\ KeepsResult(c) /\ NothingWritten
         /\ UNCHANGED mutation_mutex
         /\ call[c].phase \in {"after", "migrated"}
         /\ call'[c].phase = "audit" /\ call'[c].at = 1
<1> DEFINE record == [call[c] EXCEPT !.phase = "audit", !.at = 1]
<1>1. /\ c \in Requests /\ call[c] \in RefRecord /\ call[c].phase \in {"after", "migrated"}
      /\ call \in [Requests -> RefRecord]
  BY RefRunning DEF BeginAudit, Published, InPhase, RefTypeOK
<1>2. "audit" \in RefPhases /\ 1 \in Nat
  BY RefNames
<1>3. /\ record \in RefRecord /\ record.phase = "audit" /\ record.at = 1
      /\ record.parent = call[c].parent /\ record.status = call[c].status
      /\ record.results = call[c].results
  BY <1>1, <1>2 DEF RefRecord
<1>4. call' = [call EXCEPT ![c] = record]
  BY <1>1 DEF BeginAudit
<1> HIDE DEF record
<1>5. RefOnlyCall(c) /\ call'[c] = record
  BY <1>1, <1>3, <1>4, RefUpdate
<1>6. NothingWritten /\ UNCHANGED <<mutation_mutex, running>>
  BY DEF BeginAudit, NothingWritten
<1> QED
  BY <1>1, <1>3, <1>5, <1>6, RefNames DEF Goes, KeepsResult

\* A call that returns leaves the stack of its thread.
LEMMA RefReturn ==
  ASSUME RefTypeOK, NEW t \in Threads, NEW c \in Requests, NEW status \in RefStatuses,
         call[c].phase \in RefActive, Return(t, c, status)
  PROVE  Leaves(t, c, status)
<1> DEFINE record == [Idle EXCEPT !.phase = "returned", !.status = status,
                                  !.failed = call[c].failed,
                                  !.cancelled = call[c].cancelled,
                                  !.vetoed = call[c].vetoed,
                                  !.results = call[c].results]
<1>1. call[c] \in RefRecord
  BY DEF RefTypeOK
<1>2. record \in RefRecord /\ record.phase = "returned" /\ record.status = status
  BY <1>1, RefIdle, RefNames DEF RefRecord
<1>3. call' = [call EXCEPT ![c] = record] /\ running' = [running EXCEPT ![t] = call[c].parent]
  BY DEF Return
<1> HIDE DEF record
<1>4. RefOnlyCall(c) /\ call'[c] = record
  BY <1>2, <1>3, RefUpdate
<1> QED
  BY <1>2, <1>3, <1>4 DEF Leaves

\* The sink records one more result, or loses it.
LEMMA RefAuditMoves ==
  ASSUME RefTypeOK, RefAnswersOK, NEW t \in Threads, NEW c, c = running[t], Audit(t)
  PROVE  /\ c \in Requests /\ Goes(c) /\ KeepsResult(c)
         /\ UNCHANGED <<store, available, history, mutation_mutex>>
         /\ call[c].phase = "audit" /\ call'[c].phase = "audit"
         /\ call[c].at <= Len(call[c].results) /\ call'[c].at = call[c].at + 1
         /\ audits' \in [Requests -> Seq(AuditRecord)]
         /\ unrecorded' \in [Requests -> SUBSET LossRecord]
         /\ \A d \in Requests \ {c} : audits'[d] = audits[d] /\ unrecorded'[d] = unrecorded[d]
         /\ Handed(audits'[c], unrecorded'[c], call[c].at)
<1> DEFINE i == call[c].at
           record == [call[c] EXCEPT !.at = i + 1]
           entry == [operation |-> i, status |-> call[c].results[i],
                     rolled_back |-> call[c].rolled_back]
<1>1. /\ c \in Requests /\ call[c] \in RefRecord /\ call[c].phase = "audit"
      /\ call \in [Requests -> RefRecord]
      /\ audits \in [Requests -> Seq(AuditRecord)] /\ unrecorded \in [Requests -> SUBSET LossRecord]
  BY RefRunning DEF Audit, InPhase, RefTypeOK
<1>2. /\ i \in Nat \ {0} /\ call[c].results \in Seq(Statuses) /\ i <= Len(call[c].results)
      /\ call[c].rolled_back \in BOOLEAN
  <2>1. /\ i \in Nat /\ call[c].results \in Seq(Statuses) /\ i <= Len(call[c].results)
        /\ call[c].rolled_back \in BOOLEAN
    BY <1>1, RefFields DEF Audit
  <2>2. i \in 1..(Len(call[c].results) + 1)
    BY <1>1 DEF RefAnswersOK, RefAnswerOK
  <2> QED
    BY <2>1, <2>2
<1>3. /\ record \in RefRecord /\ record.phase = "audit" /\ record.at = i + 1
      /\ record.parent = call[c].parent /\ record.status = call[c].status
      /\ record.results = call[c].results
  <2>1. i + 1 \in Nat
    BY <1>2
  <2> HIDE DEF i
  <2> QED
    BY <1>1, <2>1 DEF RefRecord
<1>4. call' = [call EXCEPT ![c] = record]
  BY <1>1 DEF Audit
<1>5. /\ UNCHANGED <<store, available, history, mutation_mutex, running>>
      /\ \/ audits' = [audits EXCEPT ![c] = Append(audits[c], entry)] /\ UNCHANGED unrecorded
         \/ /\ UNCHANGED audits
            /\ \E handler \in FailureHandlers :
                 unrecorded' = [unrecorded EXCEPT ![c] =
                                  @ \cup {[operation |-> i, handler |-> handler]}]
  BY <1>1 DEF Audit
<1> HIDE DEF record
<1>6. RefOnlyCall(c) /\ call'[c] = record
  BY <1>1, <1>3, <1>4, RefUpdate
<1>7. Goes(c) /\ KeepsResult(c)
  BY <1>1, <1>3, <1>5, <1>6, RefNames DEF Goes, KeepsResult
<1>8. /\ audits' \in [Requests -> Seq(AuditRecord)]
      /\ unrecorded' \in [Requests -> SUBSET LossRecord]
      /\ \A d \in Requests \ {c} : audits'[d] = audits[d] /\ unrecorded'[d] = unrecorded[d]
      /\ Handed(audits'[c], unrecorded'[c], i)
  <2>3. Handed(audits[c], unrecorded[c], i - 1)
    BY <1>1 DEF RefAnswersOK, RefAnswerOK
  <2>1. ASSUME UNCHANGED audits, NEW handler \in FailureHandlers,
               unrecorded' = [unrecorded EXCEPT ![c] =
                                @ \cup {[operation |-> i, handler |-> handler]}]
        PROVE  /\ audits' \in [Requests -> Seq(AuditRecord)]
               /\ unrecorded' \in [Requests -> SUBSET LossRecord]
               /\ \A d \in Requests \ {c} :
                    audits'[d] = audits[d] /\ unrecorded'[d] = unrecorded[d]
               /\ Handed(audits'[c], unrecorded'[c], i)
    <3> DEFINE loss == [operation |-> i, handler |-> handler]
    <3>1. loss \in LossRecord /\ loss.operation = i
      BY <1>2, SchedulerAssumption DEF LossRecord
    <3> HIDE DEF loss, i, entry
    <3>2. /\ unrecorded' \in [Requests -> SUBSET LossRecord]
          /\ unrecorded'[c] = unrecorded[c] \cup {loss}
          /\ \A d \in Requests \ {c} : unrecorded'[d] = unrecorded[d]
      BY <1>1, <2>1, <3>1 DEF loss
    <3>3. Handed(audits[c], unrecorded[c] \cup {loss}, i)
      BY <1>2, <2>3, <3>1, LossHanded
    <3> QED
      BY <1>1, <2>1, <3>2, <3>3
  <2>2. CASE audits' = [audits EXCEPT ![c] = Append(audits[c], entry)] /\ UNCHANGED unrecorded
    <3>1. entry \in AuditRecord /\ entry.operation = i
      BY <1>2 DEF AuditRecord
    <3> HIDE DEF entry
    <3>2. /\ Append(audits[c], entry) \in Seq(AuditRecord)
          /\ audits' \in [Requests -> Seq(AuditRecord)]
          /\ audits'[c] = Append(audits[c], entry)
          /\ \A d \in Requests \ {c} : audits'[d] = audits[d]
      BY <1>1, <2>2, <3>1
    <3> HIDE DEF i
    <3>3. Handed(Append(audits[c], entry), unrecorded[c], i)
      BY <1>1, <1>2, <2>3, <3>1, RecordHanded
    <3> QED
      BY <1>1, <2>2, <3>2, <3>3
  <2> QED
    BY <1>5, <2>1, <2>2
<1> QED
  BY <1>1, <1>2, <1>3, <1>5, <1>6, <1>7, <1>8

\* The caller gets its answer.
LEMMA RefReplyMoves ==
  ASSUME RefTypeOK, NEW t \in Threads, NEW c, c = running[t], Reply(t)
  PROVE  /\ c \in Requests /\ Leaves(t, c, call[c].status) /\ NothingWritten
         /\ UNCHANGED mutation_mutex
         /\ call[c].phase = "audit" /\ call[c].at > Len(call[c].results)
<1>1. /\ c \in Requests /\ call[c] \in RefRecord /\ call[c].phase = "audit"
      /\ call[c].at > Len(call[c].results)
  BY RefRunning DEF Reply, InPhase
<1>2. Return(t, c, call[c].status) /\ NothingWritten /\ UNCHANGED mutation_mutex
  BY DEF Reply, NothingWritten
<1>3. call[c].status \in RefStatuses /\ call[c].phase \in RefActive
  BY <1>1, RefFields, RefNames
<1> QED
  BY <1>1, <1>2, <1>3, RefReturn

\* A capture visits one more of the collections.
LEMMA RefWithNext ==
  ASSUME RefTypeOK, CapturesOK, NEW c \in Requests,
         call[c].phase \in {"preflight", "dispatch"}
  PROVE  /\ NextRef(c) \in Refs(c) /\ Refs(c) # {}
         /\ WithNext(c) \in Captures
         /\ DOMAIN WithNext(c) = DOMAIN call[c].captured \cup {NextRef(c)}
         /\ DOMAIN WithNext(c) \subseteq Refs(c)
<1> DEFINE captured == call[c].captured
           D == DOMAIN captured \cup {NextRef(c)}
<1>1. captured \in Captures /\ \A r \in DOMAIN captured : captured[r] \in Snapshot
  <2>1. captured \in Captures
    BY DEF RefTypeOK, RefRecord
  <2> QED
    BY <2>1 DEF Captures
<1>2. DOMAIN captured \subseteq Refs(c) /\ DOMAIN captured # Refs(c)
  BY DEF CapturesOK, CapturesOf
<1>3. NextRef(c) \in Refs(c)
  BY <1>2 DEF NextRef
<1>4. D \subseteq Refs(c) /\ D \subseteq CollectionRef
  BY <1>2, <1>3, RequestFacts
<1>5. \A r \in D : (IF r = NextRef(c) THEN store[r] ELSE captured[r]) \in Snapshot
  BY <1>1, <1>4 DEF RefTypeOK, Store
<1>6. WithNext(c) = [r \in D |-> IF r = NextRef(c) THEN store[r] ELSE captured[r]]
  BY DEF WithNext
<1> HIDE DEF D, captured
<1>7. WithNext(c) \in [D -> Snapshot] /\ DOMAIN WithNext(c) = D
  BY <1>5, <1>6
<1> QED
  BY <1>3, <1>4, <1>7 DEF Captures, D, captured

\* The preflight refuses, captures one more collection, or is complete.
LEMMA RefPreflightMoves ==
  ASSUME RefTypeOK, CapturesOK, NEW t \in Threads, NEW c, c = running[t],
         ReferencePreflight(t)
  PROVE  /\ c \in Requests /\ NothingWritten /\ SameLocks
         /\ call[c].phase = "preflight"
         /\ \/ \E status \in Statuses \ {"Applied"} : Leaves(t, c, status)
            \/ /\ Goes(c) /\ KeepsResult(c) /\ CapturesOf(c)'
               /\ call'[c].phase \in {"preflight", "dispatch"}
<1> DEFINE captured == WithNext(c)
<1>1. /\ c \in Requests /\ call[c] \in RefRecord /\ call[c].phase = "preflight"
      /\ call \in [Requests -> RefRecord] /\ DOMAIN call[c].before = {}
  BY RefRunning DEF ReferencePreflight, InPhase, RefTypeOK, CapturesOK, CapturesOf
<1>2. /\ captured \in Captures /\ DOMAIN captured \subseteq Refs(c) /\ Refs(c) # {}
  BY <1>1, RefWithNext
<1>3. NothingWritten /\ SameLocks
  BY DEF ReferencePreflight, NothingWritten, SameLocks
<1>4. ReferenceLimits(c, captured) \in {"TargetUnavailable", "InvalidValue", "Applied"}
  BY DEF ReferenceLimits
<1>5. \/ Return(t, c, "TargetUnavailable") \/ Return(t, c, "InvalidValue")
      \/ /\ DOMAIN captured # Refs(c)
         /\ call' = [call EXCEPT ![c].captured = captured] /\ UNCHANGED running
      \/ /\ call' = [call EXCEPT ![c].captured = NoSnapshots, ![c].phase = "dispatch",
                                 ![c].at = 1]
         /\ UNCHANGED running
  BY <1>4 DEF ReferencePreflight
<1> HIDE DEF captured
<1>6. CASE Return(t, c, "TargetUnavailable") \/ Return(t, c, "InvalidValue")
  <2>1. {"TargetUnavailable", "InvalidValue"} \subseteq Statuses \ {"Applied"}
        /\ Statuses \subseteq RefStatuses /\ call[c].phase \in RefActive
    BY <1>1, RefNames
  <2> QED
    BY <1>1, <1>3, <1>6, <2>1, RefReturn
<1>7. CASE /\ DOMAIN captured # Refs(c)
           /\ call' = [call EXCEPT ![c].captured = captured] /\ UNCHANGED running
  <2> DEFINE record == [call[c] EXCEPT !.captured = captured]
  <2>1. /\ record \in RefRecord /\ record.phase = "preflight"
        /\ record.parent = call[c].parent /\ record.status = call[c].status
        /\ record.results = call[c].results
        /\ record.captured = captured /\ record.before = call[c].before
    BY <1>1, <1>2 DEF RefRecord
  <2>2. call' = [call EXCEPT ![c] = record]
    BY <1>1, <1>7
  <2> HIDE DEF record
  <2>3. RefOnlyCall(c) /\ call'[c] = record
    BY <1>1, <2>1, <2>2, RefUpdate
  <2>4. CapturesOf(c)'
    BY <1>1, <1>2, <1>7, <2>1, <2>3 DEF CapturesOf
  <2> QED
    BY <1>1, <1>3, <1>7, <2>1, <2>3, <2>4, RefNames DEF Goes, KeepsResult
<1>8. CASE /\ call' = [call EXCEPT ![c].captured = NoSnapshots, ![c].phase = "dispatch",
                                   ![c].at = 1]
           /\ UNCHANGED running
  <2> DEFINE record == [call[c] EXCEPT !.captured = NoSnapshots, !.phase = "dispatch",
                                       !.at = 1]
  <2>1. NoSnapshots \in Captures /\ DOMAIN NoSnapshots = {}
    BY DEF NoSnapshots, Captures
  <2>2. call' = [call EXCEPT ![c] = record]
    BY <1>1, <1>8
  <2>3. "dispatch" \in RefPhases /\ 1 \in Nat
    BY RefNames
  <2> HIDE DEF NoSnapshots
  <2>4. /\ record \in RefRecord /\ record.phase = "dispatch"
        /\ record.parent = call[c].parent /\ record.status = call[c].status
        /\ record.results = call[c].results
        /\ record.captured = NoSnapshots /\ record.before = call[c].before
    BY <1>1, <2>1, <2>3 DEF RefRecord
  <2> HIDE DEF record
  <2>5. RefOnlyCall(c) /\ call'[c] = record
    BY <1>1, <2>2, <2>4, RefUpdate
  <2>6. CapturesOf(c)'
    BY <1>1, <1>2, <2>1, <2>4, <2>5 DEF CapturesOf
  <2> QED
    BY <1>1, <1>3, <1>8, <2>4, <2>5, <2>6, RefNames DEF Goes, KeepsResult
<1> QED
  BY <1>5, <1>6, <1>7, <1>8

\* The before-event's snapshots are captured one by one.
LEMMA RefDispatchMoves ==
  ASSUME RefTypeOK, CapturesOK, NEW t \in Threads, NEW c, c = running[t], Dispatch(t)
  PROVE  /\ c \in Requests /\ Goes(c) /\ KeepsResult(c) /\ NothingWritten /\ SameLocks
         /\ call[c].phase = "dispatch" /\ call'[c].phase \in {"dispatch", "before"}
         /\ CapturesOf(c)'
<1> DEFINE visited == WithNext(c)
           seen == IF NextRef(c).target \in available THEN {NextRef(c)} ELSE {}
           D == DOMAIN call[c].before \cup seen
           before == [r \in D |-> visited[r]]
           phase == IF DOMAIN visited = Refs(c) THEN "before" ELSE "dispatch"
           record == [call[c] EXCEPT !.captured = visited, !.before = before, !.phase = phase]
<1>1. /\ c \in Requests /\ call[c] \in RefRecord /\ call[c].phase = "dispatch"
      /\ call \in [Requests -> RefRecord]
      /\ DOMAIN call[c].before \subseteq DOMAIN call[c].captured
  BY RefRunning DEF Dispatch, InPhase, RefTypeOK, CapturesOK, CapturesOf
<1>2. /\ visited \in Captures /\ DOMAIN visited \subseteq Refs(c)
      /\ DOMAIN visited = DOMAIN call[c].captured \cup {NextRef(c)}
  BY <1>1, RefWithNext
<1>3. NothingWritten /\ SameLocks /\ UNCHANGED running
  BY DEF Dispatch, NothingWritten, SameLocks
<1>4. call' = [call EXCEPT ![c] = record]
  BY <1>1 DEF Dispatch
<1>5. D \subseteq DOMAIN visited
  BY <1>1, <1>2
<1> HIDE DEF visited
<1>6. before \in Captures /\ DOMAIN before = D
  <2>1. D \in SUBSET CollectionRef
    BY <1>1, <1>2, <1>5, RequestFacts
  <2>2. \A r \in D : visited[r] \in Snapshot
    BY <1>2, <1>5 DEF Captures
  <2> HIDE DEF D
  <2>3. before \in [D -> Snapshot]
    BY <2>2
  <2> QED
    BY <2>1, <2>3 DEF Captures
<1>7. phase \in RefPhases /\ phase \in RefActive
  BY RefNames
<1>8. phase \in {"dispatch", "before"}
      /\ (phase = "dispatch" => DOMAIN visited # Refs(c))
  OBVIOUS
<1> HIDE DEF before, phase, D
<1>9. /\ record \in RefRecord /\ record.phase = phase
      /\ record.parent = call[c].parent /\ record.status = call[c].status
      /\ record.results = call[c].results
      /\ record.captured = visited /\ record.before = before
  BY <1>1, <1>2, <1>6, <1>7 DEF RefRecord
<1> HIDE DEF record
<1>10. RefOnlyCall(c) /\ call'[c] = record
  BY <1>1, <1>4, <1>9, RefUpdate
<1>11. CapturesOf(c)'
  BY <1>1, <1>2, <1>5, <1>6, <1>8, <1>9, <1>10 DEF CapturesOf
<1> QED
  BY <1>1, <1>3, <1>7, <1>8, <1>9, <1>10, <1>11, RefNames DEF Goes, KeepsResult

\* A listener is interrupted, before the commit or after it.
LEMMA RefInterruptMoves ==
  ASSUME RefTypeOK, NEW t \in Threads, NEW c, c = running[t], ListenerInterrupts(t)
  PROVE  /\ c \in Requests /\ NothingWritten /\ SameLocks
         /\ \/ call[c].phase = "before" /\ Leaves(t, c, "Interrupted")
            \/ /\ Goes(c) /\ call[c].phase \in {"after", "migrated"}
               /\ call'[c].phase = "audit" /\ call'[c].at = 1
               /\ call'[c].status = "Interrupted" /\ call'[c].results = call[c].results
<1>1. /\ c \in Requests /\ call[c] \in RefRecord /\ call[c].phase \in Publishing
      /\ call[c].phase \in RefActive /\ call \in [Requests -> RefRecord]
  BY RefListener DEF ListenerInterrupts, RefTypeOK
<1>2. NothingWritten /\ SameLocks
  BY DEF ListenerInterrupts, NothingWritten, SameLocks
<1>3. CASE InPhase(t, "before")
  <2>1. call[c].phase = "before" /\ Return(t, c, "Interrupted")
    BY <1>3 DEF ListenerInterrupts, InPhase
  <2> QED
    BY <1>1, <1>2, <2>1, RefNames, RefReturn
<1>4. CASE ~ InPhase(t, "before")
  <2> DEFINE record == [call[c] EXCEPT !.phase = "audit", !.at = 1, !.status = "Interrupted"]
  <2>1. call[c].phase \in {"after", "migrated"} /\ UNCHANGED running
        /\ call' = [call EXCEPT ![c] = record]
    <3>1. c # NoCall /\ UNCHANGED running
      BY <1>4 DEF ListenerInterrupts, InListener
    <3>2. call[c].phase \in {"after", "migrated"}
      BY <1>1, <1>4, <3>1 DEF InPhase, Publishing
    <3>3. call' = [call EXCEPT ![c] = record]
      BY <1>1, <1>4 DEF ListenerInterrupts, AfterInterrupt
    <3> QED
      BY <3>1, <3>2, <3>3
  <2>2. "audit" \in RefPhases /\ "Interrupted" \in RefStatuses /\ 1 \in Nat
    BY RefNames
  <2>3. /\ record \in RefRecord /\ record.phase = "audit" /\ record.at = 1
        /\ record.parent = call[c].parent /\ record.status = "Interrupted"
        /\ record.results = call[c].results
    BY <1>1, <2>2 DEF RefRecord
  <2> HIDE DEF record
  <2>4. RefOnlyCall(c) /\ call'[c] = record
    BY <1>1, <2>1, <2>3, RefUpdate
  <2> QED
    BY <1>1, <1>2, <2>1, <2>3, <2>4, RefNames DEF Goes
<1> QED
  BY <1>3, <1>4

\* What the adapter of the reference implementation answers.
LEMMA RefAdapterStatuses ==
  \A s, op, force : ReferenceStatus(s, op, force) \in Statuses
<1>1. {"Applied", "Conflict", "NotFound", "TargetUnavailable"} \subseteq Statuses
  BY DEF Statuses
<1>2. \A s, op : BranchStatus(s, op) \in {"Applied", "Conflict", "NotFound"}
  BY DEF BranchStatus
<1>3. \A s, a, op, force, r :
        RefStatus(s, a, op, force, r) \in {"Applied", "Conflict", "TargetUnavailable"}
  BY DEF RefStatus
<1> QED
  BY <1>1, <1>2, <1>3 DEF ReferenceStatus

\* The results of the adapter: they are those of all operations and all of
\* them are "applied", or the last of them is not.
LEMMA RefResults ==
  ASSUME NEW c \in Requests, Ops(c) # <<>>,
         NEW results, results = ReferenceResults(c)
  PROVE  /\ results \in Seq(Statuses)
         /\ Succeeds(results) =>
              /\ Len(results) = Len(Ops(c))
              /\ \A i \in 1..Len(Ops(c)) :
                   ReferenceStatus(Candidates(store, Ops(c))[i - 1], Ops(c)[i], Body[c].force)
                     = "Applied"
         /\ ~ Succeeds(results) /\ Len(Ops(c)) = 1 => results[1] \in Statuses \ {"Applied"}
<1> DEFINE n == Len(Ops(c))
           run == Candidates(store, Ops(c))
           Result(i) == ReferenceStatus(run[i - 1], Ops(c)[i], Body[c].force)
           failing == {i \in DOMAIN Ops(c) : Result(i) # "Applied"}
           first == CHOOSE i \in failing : \A j \in failing : i <= j
           last == IF failing = {} THEN n ELSE first
<1>1. n \in Nat \ {0} /\ DOMAIN Ops(c) = 1..n
  BY RequestFacts
<1>2. results = [i \in 1..last |-> Result(i)]
  BY DEF ReferenceResults
<1>3. \A i : Result(i) \in Statuses
  BY RefAdapterStatuses
<1>4. failing \in SUBSET (1..n) /\ \A i \in 1..n : i \in failing <=> Result(i) # "Applied"
  BY <1>1
<1> HIDE DEF failing, n
<1>5. failing # {} => first \in failing
  BY <1>1, <1>4, FirstPosition
<1>6. last \in 1..n /\ (failing # {} => last \in failing)
  <2>1. n \in 1..n
    BY <1>1
  <2>2. first \in failing => first \in 1..n
    BY <1>4
  <2> HIDE DEF first
  <2> QED
    BY <1>5, <2>1, <2>2
<1> HIDE DEF last, Result
<1>7. /\ results \in Seq(Statuses) /\ Len(results) = last /\ DOMAIN results = 1..last
      /\ \A i \in 1..last : results[i] = Result(i)
  BY <1>1, <1>2, <1>3, <1>6
<1>8. CASE failing = {}
  <2>1. last = n /\ \A i \in 1..n : Result(i) = "Applied"
    BY <1>4, <1>8 DEF last
  <2>2. Succeeds(results)
    BY <1>7, <2>1 DEF Succeeds
  <2> QED
    BY <1>7, <2>1, <2>2 DEF n, Result
<1>9. CASE failing # {}
  <2>1. last \in 1..last /\ results[last] # "Applied"
    BY <1>1, <1>4, <1>6, <1>7, <1>9
  <2>2. ~ Succeeds(results)
    BY <1>7, <2>1 DEF Succeeds
  <2>3. n = 1 => last = 1
    BY <1>6
  <2> QED
    BY <1>3, <1>7, <2>1, <2>2, <2>3 DEF n
<1> QED
  BY <1>8, <1>9

\* The lock of the service is taken.
LEMMA RefLockMoves ==
  ASSUME RefTypeOK, NEW t \in Threads, NEW c, c = running[t], LockService(t)
  PROVE  /\ c \in Requests /\ Goes(c) /\ KeepsResult(c) /\ NothingWritten
         /\ UNCHANGED mutation_mutex
         /\ call[c].phase = "before" /\ call'[c].phase = "queued" /\ ~ Stopped(c)
         /\ service_lock[Body[c].service] = NoThread
         /\ service_lock' = [service_lock EXCEPT ![Body[c].service] = t]
<1> DEFINE record == [call[c] EXCEPT !.phase = "queued", !.edited = FALSE]
<1>1. /\ c \in Requests /\ call[c] \in RefRecord /\ call[c].phase = "before"
      /\ call \in [Requests -> RefRecord]
  BY RefRunning DEF LockService, Published, InPhase, RefTypeOK
<1>2. "queued" \in RefPhases
  BY RefNames
<1>3. /\ record \in RefRecord /\ record.phase = "queued"
      /\ record.parent = call[c].parent /\ record.status = call[c].status
      /\ record.results = call[c].results
  BY <1>1, <1>2 DEF RefRecord
<1>4. call' = [call EXCEPT ![c] = record]
  BY <1>1 DEF LockService
<1> HIDE DEF record
<1>5. RefOnlyCall(c) /\ call'[c] = record
  BY <1>1, <1>3, <1>4, RefUpdate
<1>6. /\ NothingWritten /\ UNCHANGED <<mutation_mutex, running>> /\ ~ Stopped(c)
      /\ service_lock[Body[c].service] = NoThread
      /\ service_lock' = [service_lock EXCEPT ![Body[c].service] = t]
  BY DEF LockService, NothingWritten
<1> QED
  BY <1>1, <1>3, <1>5, <1>6, RefNames DEF Goes, KeepsResult

\* The limits are checked again, with the adapter's lock.
LEMMA RefCheckMoves ==
  ASSUME RefTypeOK, NEW t \in Threads, NEW c, c = running[t], CheckUnderGuard(t)
  PROVE  /\ c \in Requests /\ Goes(c) /\ NothingWritten /\ CanLock(t)
         /\ call[c].phase = "queued"
         /\ \/ /\ KeepsResult(c) /\ call'[c].phase = "locked"
               /\ Lock(t) /\ UNCHANGED service_lock
            \/ /\ call'[c].phase = "audit" /\ call'[c].at = 1 /\ call'[c].status # "Applied"
               /\ ReleaseService(t) /\ UNCHANGED mutation_mutex
<1> DEFINE status == ReferenceLimits(c, Capture(c))
<1>1. /\ c \in Requests /\ call[c] \in RefRecord /\ call[c].phase = "queued"
      /\ call \in [Requests -> RefRecord]
  BY RefRunning DEF CheckUnderGuard, InPhase, RefTypeOK
<1>2. NothingWritten /\ UNCHANGED running /\ CanLock(t)
  BY DEF CheckUnderGuard, NothingWritten, Guard
<1>3. status \in Statuses
  BY RefNames DEF ReferenceLimits
<1>4. \/ /\ status = "Applied" /\ Lock(t) /\ UNCHANGED service_lock
         /\ call' = [call EXCEPT ![c].phase = "locked"]
      \/ /\ status # "Applied" /\ ReleaseService(t) /\ UNCHANGED mutation_mutex
         /\ call' = [call EXCEPT ![c].phase = "audit", ![c].at = 1, ![c].status = status,
                                 ![c].results = All(c, status)]
  BY DEF CheckUnderGuard, Guard
<1> HIDE DEF status
<1>5. CASE /\ status = "Applied" /\ Lock(t) /\ UNCHANGED service_lock
           /\ call' = [call EXCEPT ![c].phase = "locked"]
  <2> DEFINE record == [call[c] EXCEPT !.phase = "locked"]
  <2>1. "locked" \in RefPhases
    BY RefNames
  <2>2. /\ record \in RefRecord /\ record.phase = "locked"
        /\ record.parent = call[c].parent /\ record.status = call[c].status
        /\ record.results = call[c].results
    BY <1>1, <2>1 DEF RefRecord
  <2>3. call' = [call EXCEPT ![c] = record]
    BY <1>1, <1>5
  <2> HIDE DEF record
  <2>4. RefOnlyCall(c) /\ call'[c] = record
    BY <1>1, <2>2, <2>3, RefUpdate
  <2> QED
    BY <1>1, <1>2, <1>5, <2>2, <2>4, RefNames DEF Goes, KeepsResult
<1>6. CASE /\ status # "Applied" /\ ReleaseService(t) /\ UNCHANGED mutation_mutex
           /\ call' = [call EXCEPT ![c].phase = "audit", ![c].at = 1, ![c].status = status,
                                   ![c].results = All(c, status)]
  <2> DEFINE results == All(c, status)
             record == [call[c] EXCEPT !.phase = "audit", !.at = 1, !.status = status,
                                       !.results = results]
  <2>1. "audit" \in RefPhases /\ 1 \in Nat /\ status \in RefStatuses
    BY <1>3, RefNames
  <2>2. results \in Seq(Statuses)
    BY <1>1, <1>3, RequestFacts DEF All
  <2>3. call' = [call EXCEPT ![c] = record]
    BY <1>1, <1>6
  <2> HIDE DEF results
  <2>4. /\ record \in RefRecord /\ record.phase = "audit" /\ record.at = 1
        /\ record.parent = call[c].parent /\ record.status = status
    BY <1>1, <2>1, <2>2 DEF RefRecord
  <2> HIDE DEF record
  <2>5. RefOnlyCall(c) /\ call'[c] = record
    BY <1>1, <2>3, <2>4, RefUpdate
  <2> QED
    BY <1>1, <1>2, <1>6, <2>4, <2>5, RefNames DEF Goes
<1> QED
  BY <1>4, <1>5, <1>6

\* The adapter writes everything or nothing, and both locks are released.
LEMMA RefWriteMoves ==
  ASSUME RefTypeOK, RefAnswersOK, NEW t \in Threads, NEW c, c = running[t],
         WriteUnderGuard(t)
  PROVE  /\ c \in Requests /\ Goes(c) /\ UNCHANGED <<available, audits, unrecorded>>
         /\ Unlock(t) /\ ReleaseService(t)
         /\ call[c].phase = "locked" /\ call'[c].phase = "after"
         /\ \/ /\ Commit(c, Candidates(store, Ops(c))[Len(Ops(c))])
               /\ call'[c].status = call[c].status
               /\ Len(call'[c].results) = Len(Ops(c))
               /\ \A i \in 1..Len(Ops(c)) :
                    ReferenceStatus(Candidates(store, Ops(c))[i - 1], Ops(c)[i],
                                    Body[c].force) = "Applied"
            \/ UNCHANGED <<store, history>> /\ call'[c].status # "Applied"
<1> DEFINE results == ReferenceResults(c)
           committed == Candidates(store, Ops(c))[Len(Ops(c))]
           reachable == {r \in Refs(c) : r.target \in available}
           snapshots == [r \in reachable |-> committed[r]]
<1>1. /\ c \in Requests /\ call[c] \in RefRecord /\ call[c].phase = "locked"
      /\ call \in [Requests -> RefRecord] /\ store \in Store
  BY RefRunning DEF WriteUnderGuard, InPhase, RefTypeOK
<1>2. /\ Ops(c) # <<>> /\ Ops(c) \in Seq(Operation) /\ Len(Ops(c)) \in Nat
      /\ Body[c].form \in {"apply", "transact"} /\ (Body[c].form = "apply" => Len(Ops(c)) = 1)
      /\ Body[c].rollback_on_failure \in BOOLEAN /\ Refs(c) \subseteq CollectionRef
  BY <1>1, RequestFacts, RefNames DEF RefAnswersOK, RefAnswerOK
<1>3. /\ results \in Seq(Statuses)
      /\ Succeeds(results) =>
              /\ Len(results) = Len(Ops(c))
              /\ \A i \in 1..Len(Ops(c)) :
                   ReferenceStatus(Candidates(store, Ops(c))[i - 1], Ops(c)[i], Body[c].force)
                     = "Applied"
      /\ ~ Succeeds(results) /\ Len(Ops(c)) = 1 => results[1] \in Statuses \ {"Applied"}
  BY <1>1, <1>2, RefResults
<1>4. /\ UNCHANGED <<available, running, audits, unrecorded>> /\ Unlock(t) /\ ReleaseService(t)
      /\ \/ /\ Succeeds(results) /\ Commit(c, committed)
            /\ call' = [call EXCEPT ![c].phase = "after", ![c].at = 1, ![c].results = results,
                                    ![c].before = BeforeKept(c), ![c].after = snapshots]
         \/ /\ ~ Succeeds(results) /\ UNCHANGED <<store, history>>
            /\ call' = [call EXCEPT
                 ![c].phase = "after", ![c].at = 1, ![c].results = results,
                 ![c].status = IF Body[c].form = "apply" THEN results[1] ELSE "TransactionFailed",
                 ![c].rolled_back = Body[c].form = "transact" /\ RolledBack(c),
                 ![c].after = IF Body[c].form = "apply" THEN NoSnapshots ELSE Capture(c)]
  BY DEF WriteUnderGuard
<1>5. "after" \in RefPhases /\ 1 \in Nat
  BY RefNames
<1>6. reachable \in SUBSET CollectionRef
  BY <1>2
<1> HIDE DEF results, reachable
<1>7. CASE /\ Succeeds(results) /\ Commit(c, committed)
           /\ call' = [call EXCEPT ![c].phase = "after", ![c].at = 1, ![c].results = results,
                                   ![c].before = BeforeKept(c), ![c].after = snapshots]
  <2> DEFINE before == BeforeKept(c)
             record == [call[c] EXCEPT !.phase = "after", !.at = 1, !.results = results,
                                       !.before = before, !.after = snapshots]
  <2>1. before \in Captures
    <3>1. [r \in Refs(c) |-> store[r]] \in Captures
      BY <1>1, <1>2, SnapshotsType
    <3> QED
      BY <1>1, <3>1, RefFields DEF BeforeKept
  <2>2. snapshots \in Captures
    <3>1. committed \in Store
      BY <1>1, <1>2, CandidatesInStore
    <3> HIDE DEF committed
    <3> QED
      BY <1>6, <3>1, SnapshotsType
  <2>3. call' = [call EXCEPT ![c] = record]
    BY <1>1, <1>7
  <2> HIDE DEF before, snapshots
  <2>4. /\ record \in RefRecord /\ record.phase = "after" /\ record.parent = call[c].parent
        /\ record.status = call[c].status /\ record.results = results
    BY <1>1, <1>3, <1>5, <2>1, <2>2 DEF RefRecord
  <2> HIDE DEF record
  <2>5. RefOnlyCall(c) /\ call'[c] = record
    BY <1>1, <2>3, <2>4, RefUpdate
  <2>6. Goes(c)
    BY <1>1, <1>4, <2>4, <2>5, RefNames DEF Goes
  <2> QED
    BY <1>1, <1>3, <1>4, <1>7, <2>4, <2>5, <2>6
<1>8. CASE /\ ~ Succeeds(results) /\ UNCHANGED <<store, history>>
           /\ call' = [call EXCEPT
                ![c].phase = "after", ![c].at = 1, ![c].results = results,
                ![c].status = IF Body[c].form = "apply" THEN results[1] ELSE "TransactionFailed",
                ![c].rolled_back = Body[c].form = "transact" /\ RolledBack(c),
                ![c].after = IF Body[c].form = "apply" THEN NoSnapshots ELSE Capture(c)]
  <2> DEFINE status == IF Body[c].form = "apply" THEN results[1] ELSE "TransactionFailed"
             rolled_back == Body[c].form = "transact" /\ RolledBack(c)
             after == IF Body[c].form = "apply" THEN NoSnapshots ELSE Capture(c)
             marked == [call[c] EXCEPT !.rolled_back = rolled_back]
             record == [marked EXCEPT !.phase = "after", !.at = 1, !.results = results,
                                      !.status = status, !.after = after]
  <2>1. status \in Statuses \ {"Applied"} /\ status \in RefStatuses
    BY <1>2, <1>3, <1>8, RefNames
  <2>2. rolled_back \in BOOLEAN
    BY <1>2 DEF RolledBack
  <2>3. after \in Captures
    <3>1. Capture(c) = [r \in reachable |-> store[r]]
      BY DEF Capture, reachable
    <3>2. Capture(c) \in Captures
      BY <1>1, <1>6, <3>1, SnapshotsType
    <3>3. NoSnapshots \in Captures
      BY DEF NoSnapshots, Captures
    <3> QED
      BY <3>2, <3>3
  <2> HIDE DEF status, rolled_back, after
  <2>4. /\ marked \in RefRecord /\ marked.phase = "locked"
        /\ marked.parent = call[c].parent
    BY <1>1, <2>2 DEF RefRecord
  <2>5. call' = [call EXCEPT ![c] = record]
    <3> DEFINE whole == [call[c] EXCEPT !.phase = "after", !.at = 1, !.results = results,
                                        !.status = status, !.rolled_back = rolled_back,
                                        !.after = after]
    <3>1. call' = [call EXCEPT ![c] = whole]
      BY <1>1, <1>8 DEF status, rolled_back, after
    <3>2. whole = record
      OBVIOUS
    <3> HIDE DEF whole, record
    <3> QED
      BY <3>1, <3>2
  <2> HIDE DEF marked
  <2>6. /\ record \in RefRecord /\ record.phase = "after" /\ record.parent = call[c].parent
        /\ record.status = status
    BY <1>3, <1>5, <2>1, <2>3, <2>4 DEF RefRecord
  <2> HIDE DEF record
  <2>7. RefOnlyCall(c) /\ call'[c] = record
    BY <1>1, <2>5, <2>6, RefUpdate
  <2>8. Goes(c)
    BY <1>1, <1>4, <2>6, <2>7, RefNames DEF Goes
  <2> QED
    BY <1>1, <1>4, <1>8, <2>1, <2>6, <2>7, <2>8
<1> QED
  BY <1>4, <1>7, <1>8

\* A call begins on top of the stack of its thread.
LEMMA RefBeginMoves ==
  ASSUME RefTypeOK, NEW t \in Threads, NEW c \in Requests, Begin(t, c)
  PROVE  /\ RefOnlyCall(c) /\ running' = [running EXCEPT ![t] = c] /\ NothingWritten
         /\ UNCHANGED mutation_mutex /\ MayCall(t)
         /\ call[c].phase = "idle" /\ Ops(c) # <<>> /\ Admission(c) = "Applied"
         /\ call'[c].phase = "preflight" /\ call'[c].parent = running[t]
         /\ call'[c].status = "Applied" /\ CapturesOf(c)'
<1> DEFINE record == [Idle EXCEPT !.phase = "preflight", !.parent = running[t]]
<1>1. /\ call[c].phase = "idle" /\ Ops(c) # <<>> /\ Admission(c) = "Applied"
      /\ call' = [call EXCEPT ![c] = record] /\ running' = [running EXCEPT ![t] = c]
      /\ NothingWritten /\ UNCHANGED mutation_mutex /\ MayCall(t)
  BY DEF Begin, NothingWritten
<1>2. running[t] \in Requests \cup {NoCall}
  BY DEF RefTypeOK
<1>3. /\ Idle.captured = NoSnapshots /\ Idle.before = NoSnapshots /\ Idle.status = "Applied"
  BY DEF Idle
<1>4. DOMAIN NoSnapshots = {} /\ Refs(c) # {}
  BY <1>1, RequestFacts DEF NoSnapshots
<1>5. /\ record \in RefRecord /\ record.phase = "preflight" /\ record.parent = running[t]
      /\ record.captured = NoSnapshots /\ record.before = NoSnapshots
      /\ record.status = "Applied"
  BY <1>2, <1>3, RefIdle, RefNames DEF RefRecord
<1> HIDE DEF record
<1>6. RefOnlyCall(c) /\ call'[c] = record
  BY <1>1, <1>5, RefUpdate
<1>7. CapturesOf(c)'
  BY <1>4, <1>5, <1>6 DEF CapturesOf
<1> QED
  BY <1>1, <1>5, <1>6, <1>7

\* A call is answered from the request alone.
LEMMA RefAtOnceMoves ==
  ASSUME RefTypeOK, NEW t \in Threads, NEW c \in Requests, ReturnAtOnce(t, c)
  PROVE  /\ RefOnlyCall(c) /\ UNCHANGED <<running, mutation_mutex>> /\ NothingWritten
         /\ call[c].phase = "idle" /\ call'[c].phase = "returned"
         /\ call'[c].status \in Statuses
         /\ call'[c].status = "Applied" <=> Ops(c) = <<>>
<1> DEFINE status == IF Ops(c) = <<>> THEN "Applied" ELSE Admission(c)
           record == [Idle EXCEPT !.phase = "returned", !.status = status]
<1>1. /\ call[c].phase = "idle" /\ call' = [call EXCEPT ![c] = record]
      /\ NothingWritten /\ UNCHANGED <<running, mutation_mutex>>
  BY DEF ReturnAtOnce, NothingWritten
<1>2. status \in Statuses /\ (status = "Applied" <=> Ops(c) = <<>>)
  BY ValidationTypes, RefNames DEF ReturnAtOnce
<1> HIDE DEF status
<1>3. record \in RefRecord /\ record.phase = "returned" /\ record.status = status
  BY <1>2, RefIdle, RefNames DEF RefRecord
<1> HIDE DEF record
<1>4. RefOnlyCall(c) /\ call'[c] = record
  BY <1>1, <1>3, RefUpdate
<1> QED
  BY <1>1, <1>2, <1>3, <1>4

-----------------------------------------------------------------------------
(* The stacks.                                                             *)

\* The stacks stay when the innermost call of a thread goes on.
LEMMA RefStackGoes ==
  ASSUME RefTypeOK, RefStackOK, NEW t \in Threads, NEW c \in Requests, c = running[t], Goes(c)
  PROVE  RefStackOK'
<1>1. /\ running' = running /\ \A d \in Requests \ {c} : call'[d] = call[d]
      /\ call[c].phase \in RefActive /\ call'[c].phase \in RefActive
      /\ call'[c].parent = call[c].parent
  BY DEF Goes, RefOnlyCall
<1>2. /\ running \in [Threads -> Requests \cup {NoCall}] /\ NoCall \notin Requests
      /\ \A d \in Requests : call[d].parent \in Requests \cup {NoCall}
  BY RefFields, SchedulerAssumption DEF RefTypeOK
<1>3. \A d \in Requests : (call'[d].phase \in RefActive <=> call[d].phase \in RefActive)
                          /\ call'[d].parent = call[d].parent
  BY <1>1
<1>4. \A d \in Requests : call[d].phase \in RefActive /\ call[d].parent # NoCall =>
        call[d].parent \in Requests \ {c}
  BY <1>2 DEF RefStackOK
<1> HIDE DEF RefActive, Publishing
<1>5. \A d \in Requests : call[d].phase \in RefActive /\ call[d].parent # NoCall =>
        call'[call[d].parent] = call[call[d].parent]
  BY <1>1, <1>4
<1> QED
  BY <1>1, <1>2, <1>3, <1>5 DEF RefStackOK

\* The stack of a thread without the call that returns.
LEMMA RefStackLeaves ==
  ASSUME RefTypeOK, RefStackOK, NEW t \in Threads, NEW c \in Requests, c = running[t],
         NEW status, Leaves(t, c, status)
  PROVE  RefStackOK' /\ running' \in [Threads -> Requests \cup {NoCall}]
<1>1. /\ \A d \in Requests \ {c} : call'[d] = call[d]
      /\ call[c].phase \in RefActive /\ call'[c].phase = "returned"
      /\ running' = [running EXCEPT ![t] = call[c].parent]
  BY DEF Leaves, RefOnlyCall
<1>2. /\ running \in [Threads -> Requests \cup {NoCall}] /\ NoCall \notin Requests
      /\ \A d \in Requests : call[d].parent \in Requests \cup {NoCall}
  BY RefFields, SchedulerAssumption DEF RefTypeOK
<1>3. /\ running'[t] = call[c].parent
      /\ \A u \in Threads \ {t} : running'[u] = running[u]
      /\ running' \in [Threads -> Requests \cup {NoCall}]
  BY <1>1, <1>2
<1>4. "returned" \notin RefActive /\ Publishing \subseteq RefActive
  BY RefNames DEF Publishing
<1> HIDE DEF RefActive, Publishing
<1>5. \A d \in Requests : call'[d].phase \in RefActive =>
        /\ d # c /\ call'[d] = call[d] /\ call[d].phase \in RefActive /\ call[d].parent # c
  BY <1>1, <1>2, <1>4 DEF RefStackOK
<1>6. call[c].parent # NoCall =>
        /\ call[call[c].parent].phase \in Publishing /\ call[c].parent # c
        /\ \A u \in Threads : running[u] # call[c].parent
        /\ call'[call[c].parent] = call[call[c].parent]
  BY <1>1, <1>2 DEF RefStackOK
<1>7. \A u \in Threads \ {t} : running[u] # c
  BY <1>2 DEF RefStackOK
<1>8. \A u \in Threads : running'[u] # NoCall => call'[running'[u]].phase \in RefActive
  BY <1>1, <1>2, <1>3, <1>4, <1>6, <1>7 DEF RefStackOK
<1>9. \A u, v \in Threads : running'[u] = running'[v] /\ running'[u] # NoCall => u = v
  BY <1>3, <1>6 DEF RefStackOK
<1>10. \A d \in Requests : call'[d].phase \in RefActive /\ call'[d].parent # NoCall =>
         /\ call'[call'[d].parent].phase \in Publishing
         /\ \A u \in Threads : running'[u] # call'[d].parent
  <2> SUFFICES ASSUME NEW d \in Requests, call'[d].phase \in RefActive, call'[d].parent # NoCall
               PROVE  /\ call'[call[d].parent].phase \in Publishing
                      /\ \A u \in Threads : running'[u] # call[d].parent
    BY <1>5
  <2>1. /\ d # c /\ call[d].phase \in RefActive /\ call[d].parent # c
        /\ call[d].parent # NoCall /\ call[d].parent \in Requests
    BY <1>2, <1>5
  <2>2. call[d].parent # call[c].parent
    BY <1>1, <2>1 DEF RefStackOK
  <2> QED
    BY <1>1, <1>3, <2>1, <2>2 DEF RefStackOK
<1>11. \A d, e \in Requests :
         (/\ call'[d].phase \in RefActive /\ call'[e].phase \in RefActive
          /\ call'[d].parent = call'[e].parent /\ call'[d].parent # NoCall) => d = e
  BY <1>5 DEF RefStackOK
<1> QED
  BY <1>3, <1>8, <1>9, <1>10, <1>11 DEF RefStackOK

\* The stack of a thread with the call that begins.
LEMMA RefStackBegins ==
  ASSUME RefTypeOK, RefStackOK, NEW t \in Threads, NEW c \in Requests, Begin(t, c)
  PROVE  RefStackOK' /\ running' \in [Threads -> Requests \cup {NoCall}]
<1>1. /\ \A d \in Requests \ {c} : call'[d] = call[d]
      /\ call[c].phase = "idle" /\ call'[c].phase = "preflight"
      /\ call'[c].parent = running[t] /\ running' = [running EXCEPT ![t] = c]
      /\ MayCall(t)
  BY RefBeginMoves DEF RefOnlyCall
<1>2. /\ running \in [Threads -> Requests \cup {NoCall}] /\ NoCall \notin Requests
      /\ \A d \in Requests : call[d].parent \in Requests \cup {NoCall}
  BY RefFields, SchedulerAssumption DEF RefTypeOK
<1>3. /\ running'[t] = c /\ \A u \in Threads \ {t} : running'[u] = running[u]
      /\ running' \in [Threads -> Requests \cup {NoCall}]
  BY <1>1, <1>2
<1>4. /\ "idle" \notin RefActive /\ "preflight" \in RefActive
      /\ "idle" \notin Publishing /\ Publishing \subseteq RefActive
  BY RefNames DEF Publishing
<1>5. running[t] # NoCall => call[running[t]].phase \in Publishing
  BY <1>1 DEF MayCall, InListener
<1> HIDE DEF RefActive, Publishing
<1>6. \A u \in Threads : running[u] # c
  BY <1>1, <1>2, <1>4 DEF RefStackOK
<1>7. \A d \in Requests : call[d].phase \in RefActive => d # c /\ call[d].parent # c
  BY <1>1, <1>2, <1>4 DEF RefStackOK
<1>8. \A d \in Requests \ {c} :
        call[d].phase \in RefActive /\ call[d].parent # NoCall => call[d].parent # running[t]
  BY DEF RefStackOK
<1>9. \A u \in Threads : running'[u] # NoCall => call'[running'[u]].phase \in RefActive
  BY <1>1, <1>2, <1>3, <1>4, <1>6 DEF RefStackOK
<1>10. \A u, v \in Threads : running'[u] = running'[v] /\ running'[u] # NoCall => u = v
  BY <1>3, <1>6 DEF RefStackOK
<1>11. \A d \in Requests : call'[d].phase \in RefActive /\ call'[d].parent # NoCall =>
         /\ call'[call'[d].parent].phase \in Publishing
         /\ \A u \in Threads : running'[u] # call'[d].parent
  <2> TAKE d \in Requests
  <2> HAVE call'[d].phase \in RefActive /\ call'[d].parent # NoCall
  <2>1. CASE d = c
    <3>1. running[t] # NoCall /\ running[t] \in Requests \ {c}
      BY <1>1, <1>2, <1>6, <2>1
    <3>2. \A u \in Threads : running'[u] # running[t]
      BY <1>3, <3>1 DEF RefStackOK
    <3> QED
      BY <1>1, <1>5, <2>1, <3>1, <3>2
  <2>2. CASE d # c
    <3>1. /\ call'[d] = call[d] /\ call[d].parent \in Requests \ {c}
          /\ call[d].phase \in RefActive
      BY <1>1, <1>2, <1>7, <2>2
    <3>2. /\ call[call[d].parent].phase \in Publishing
          /\ \A u \in Threads : running[u] # call[d].parent
      BY <1>2, <3>1 DEF RefStackOK
    <3> QED
      BY <1>1, <1>3, <3>1, <3>2
  <2> QED
    BY <2>1, <2>2
<1>12. \A d, e \in Requests :
         (/\ call'[d].phase \in RefActive /\ call'[e].phase \in RefActive
          /\ call'[d].parent = call'[e].parent /\ call'[d].parent # NoCall) => d = e
  BY <1>1, <1>8 DEF RefStackOK
<1> QED
  BY <1>3, <1>9, <1>10, <1>11, <1>12 DEF RefStackOK

\* A call that never gets on a stack changes none.
LEMMA RefStackAtOnce ==
  ASSUME RefTypeOK, RefStackOK, NEW t \in Threads, NEW c \in Requests, ReturnAtOnce(t, c)
  PROVE  RefStackOK'
<1>1. /\ \A d \in Requests \ {c} : call'[d] = call[d]
      /\ call[c].phase = "idle" /\ call'[c].phase = "returned" /\ running' = running
  BY RefAtOnceMoves DEF RefOnlyCall
<1>2. /\ running \in [Threads -> Requests \cup {NoCall}] /\ NoCall \notin Requests
      /\ \A d \in Requests : call[d].parent \in Requests \cup {NoCall}
  BY RefFields, SchedulerAssumption DEF RefTypeOK
<1>3. /\ "idle" \notin RefActive /\ "returned" \notin RefActive
      /\ "idle" \notin Publishing /\ Publishing \subseteq RefActive
  BY RefNames DEF Publishing
<1> HIDE DEF RefActive, Publishing
<1>4. \A u \in Threads : running[u] # c
  BY <1>1, <1>2, <1>3 DEF RefStackOK
<1>5. \A d \in Requests : call'[d].phase \in RefActive =>
        /\ d # c /\ call'[d] = call[d] /\ call[d].phase \in RefActive /\ call[d].parent # c
  BY <1>1, <1>2, <1>3 DEF RefStackOK
<1>6. \A d \in Requests : call'[d].phase \in RefActive /\ call[d].parent # NoCall =>
        call'[call[d].parent] = call[call[d].parent]
  BY <1>1, <1>2, <1>5
<1> QED
  BY <1>1, <1>2, <1>4, <1>5, <1>6 DEF RefStackOK

-----------------------------------------------------------------------------
(* The locks.                                                              *)

\* The locks stay as they are if no thread gets inside or outside.
LEMMA RefLocksKept ==
  ASSUME RefTypeOK, LocksOK, SameLocks,
         \A u \in Threads : (Inside(u)' <=> Inside(u))
                            /\ (Inside(u) => running'[u] = running[u])
                            /\ (InPhase(u, "locked")' <=> InPhase(u, "locked"))
  PROVE  LocksOK'
<1>1. service_lock \in [Services -> Threads \cup {NoThread}]
  BY DEF RefTypeOK
<1>2. service_lock' = service_lock /\ mutation_mutex' = mutation_mutex
  BY DEF SameLocks
<1>3. \A u \in Threads, s \in Services :
        service_lock'[s] = u <=> Inside(u)' /\ Body[running'[u]].service = s
  BY <1>2 DEF LocksOK
<1>5. \A u \in Threads : mutation_mutex'.owner = u <=> InPhase(u, "locked")'
  BY <1>2 DEF LocksOK
<1>6. mutation_mutex'.depth = IF mutation_mutex'.owner = NoThread THEN 0 ELSE 1
  BY <1>2 DEF LocksOK
<1> QED
  BY <1>3, <1>5, <1>6 DEF LocksOK

\* What a call that goes on means for the locks: only its own thread may get
\* inside or outside.
LEMMA RefInsideGoes ==
  ASSUME RefTypeOK, RefStackOK, NEW t \in Threads, NEW c \in Requests, c = running[t], Goes(c)
  PROVE  /\ \A u \in Threads \ {t} : (Inside(u)' <=> Inside(u))
                                     /\ (InPhase(u, "locked")' <=> InPhase(u, "locked"))
         /\ Inside(t) <=> call[c].phase \in {"queued", "locked"}
         /\ Inside(t)' <=> call'[c].phase \in {"queued", "locked"}
         /\ InPhase(t, "locked") <=> call[c].phase = "locked"
         /\ InPhase(t, "locked")' <=> call'[c].phase = "locked"
<1>1. /\ running' = running /\ \A d \in Requests \ {c} : call'[d] = call[d]
      /\ running \in [Threads -> Requests \cup {NoCall}] /\ NoCall \notin Requests
  BY SchedulerAssumption DEF Goes, RefOnlyCall, RefTypeOK
<1>2. \A u \in Threads \ {t} : running[u] # c
  BY <1>1 DEF RefStackOK
<1>3. \A u \in Threads \ {t} : running[u] # NoCall => call'[running[u]] = call[running[u]]
  BY <1>1, <1>2
<1> QED
  BY <1>1, <1>3 DEF Inside, InPhase

\* A call that goes on outside leaves the locks to whoever has them.
LEMMA RefLocksGoes ==
  ASSUME RefTypeOK, RefStackOK, LocksOK, SameLocks,
         NEW t \in Threads, NEW c \in Requests, c = running[t], Goes(c),
         call[c].phase \notin {"queued", "locked"}, call'[c].phase \notin {"queued", "locked"}
  PROVE  LocksOK'
<1>1. running' = running
  BY DEF Goes
<1> QED
  BY <1>1, RefInsideGoes, RefLocksKept

\* So does a call that returns: the thread is then back in a listener.
LEMMA RefLocksLeaves ==
  ASSUME RefTypeOK, RefStackOK, LocksOK, SameLocks,
         NEW t \in Threads, NEW c \in Requests, c = running[t], NEW status,
         Leaves(t, c, status), call[c].phase \notin {"queued", "locked"}
  PROVE  LocksOK'
<1>1. /\ \A d \in Requests \ {c} : call'[d] = call[d]
      /\ call[c].phase \in RefActive
      /\ running' = [running EXCEPT ![t] = call[c].parent]
  BY DEF Leaves, RefOnlyCall
<1>2. /\ running \in [Threads -> Requests \cup {NoCall}] /\ NoCall \notin Requests
      /\ call[c].parent \in Requests \cup {NoCall}
  BY RefFields, SchedulerAssumption DEF RefTypeOK
<1>3. running'[t] = call[c].parent /\ \A u \in Threads \ {t} : running'[u] = running[u]
  BY <1>1, <1>2
<1>4. ~ Inside(t) /\ ~ InPhase(t, "locked")
  BY <1>2 DEF Inside, InPhase
<1>5. ~ Inside(t)' /\ ~ InPhase(t, "locked")'
  <2>1. call[c].parent # NoCall =>
          call[c].parent # c /\ call[call[c].parent].phase \in Publishing
    BY <1>1 DEF RefStackOK
  <2> QED
    BY <1>1, <1>2, <1>3, <2>1 DEF Inside, InPhase, Publishing
<1>6. \A u \in Threads \ {t} : running[u] # NoCall => call'[running[u]] = call[running[u]]
  <2>1. \A u \in Threads \ {t} : running[u] # c
    BY <1>2 DEF RefStackOK
  <2> QED
    BY <1>1, <1>2, <2>1
<1>7. \A u \in Threads \ {t} : (Inside(u)' <=> Inside(u))
                               /\ (InPhase(u, "locked")' <=> InPhase(u, "locked"))
  BY <1>3, <1>6 DEF Inside, InPhase
<1> QED
  BY <1>3, <1>4, <1>5, <1>7, RefLocksKept

\* A thread that begins a call is not inside, and does not get there.
LEMMA RefLocksBegins ==
  ASSUME RefTypeOK, RefStackOK, LocksOK, SameLocks,
         NEW t \in Threads, NEW c \in Requests, Begin(t, c)
  PROVE  LocksOK'
<1>1. /\ \A d \in Requests \ {c} : call'[d] = call[d]
      /\ call[c].phase = "idle" /\ call'[c].phase = "preflight"
      /\ running' = [running EXCEPT ![t] = c] /\ MayCall(t)
  BY RefBeginMoves DEF RefOnlyCall
<1>2. running \in [Threads -> Requests \cup {NoCall}] /\ NoCall \notin Requests
  BY SchedulerAssumption DEF RefTypeOK
<1>3. running'[t] = c /\ \A u \in Threads \ {t} : running'[u] = running[u]
  BY <1>1, <1>2
<1>4. ~ Inside(t) /\ ~ InPhase(t, "locked")
  BY <1>1 DEF MayCall, InListener, Publishing, Inside, InPhase
<1>5. ~ Inside(t)' /\ ~ InPhase(t, "locked")'
  BY <1>1, <1>3 DEF Inside, InPhase
<1>6. \A u \in Threads \ {t} : running[u] # NoCall => call'[running[u]] = call[running[u]]
  <2>1. \A u \in Threads : running[u] # c
    BY <1>1, <1>2, RefNames DEF RefStackOK
  <2> QED
    BY <1>1, <1>2, <2>1
<1>7. \A u \in Threads \ {t} : (Inside(u)' <=> Inside(u))
                               /\ (InPhase(u, "locked")' <=> InPhase(u, "locked"))
  BY <1>3, <1>6 DEF Inside, InPhase
<1> QED
  BY <1>3, <1>4, <1>5, <1>7, RefLocksKept

\* A call that is answered at once does not touch them.
LEMMA RefLocksAtOnce ==
  ASSUME RefTypeOK, RefStackOK, LocksOK, SameLocks,
         NEW t \in Threads, NEW c \in Requests, ReturnAtOnce(t, c)
  PROVE  LocksOK'
<1>1. /\ \A d \in Requests \ {c} : call'[d] = call[d]
      /\ call[c].phase = "idle" /\ running' = running
  BY RefAtOnceMoves DEF RefOnlyCall
<1>2. running \in [Threads -> Requests \cup {NoCall}] /\ NoCall \notin Requests
  BY SchedulerAssumption DEF RefTypeOK
<1>3. \A u \in Threads : running[u] # c
  BY <1>1, <1>2, RefNames DEF RefStackOK
<1>4. \A u \in Threads : running[u] # NoCall => call'[running[u]] = call[running[u]]
  BY <1>1, <1>2, <1>3
<1>5. \A u \in Threads : (Inside(u)' <=> Inside(u))
                         /\ (InPhase(u, "locked")' <=> InPhase(u, "locked"))
  BY <1>1, <1>4 DEF Inside, InPhase
<1> QED
  BY <1>1, <1>5, RefLocksKept

\* The thread that takes the lock of its service is inside.
LEMMA RefLocksLock ==
  ASSUME RefTypeOK, RefStackOK, LocksOK, NEW t \in Threads, LockService(t)
  PROVE  LocksOK' /\ service_lock' \in [Services -> Threads \cup {NoThread}]
<1> SUFFICES ASSUME NEW c, c = running[t]
             PROVE  LocksOK' /\ service_lock' \in [Services -> Threads \cup {NoThread}]
  OBVIOUS
<1> DEFINE s == Body[c].service
<1>1. /\ c \in Requests /\ Goes(c) /\ mutation_mutex' = mutation_mutex
      /\ call[c].phase = "before" /\ call'[c].phase = "queued"
      /\ service_lock[s] = NoThread /\ service_lock' = [service_lock EXCEPT ![s] = t]
  BY RefLockMoves
<1>2. /\ s \in Services /\ running' = running /\ NoThread \notin Threads
      /\ service_lock \in [Services -> Threads \cup {NoThread}]
  BY <1>1, RequestAssumption, SchedulerAssumption DEF Request, Goes, RefTypeOK
<1>3. /\ \A u \in Threads \ {t} : (Inside(u)' <=> Inside(u))
                                  /\ (InPhase(u, "locked")' <=> InPhase(u, "locked"))
      /\ ~ Inside(t) /\ Inside(t)' /\ ~ InPhase(t, "locked") /\ ~ InPhase(t, "locked")'
  BY <1>1, RefInsideGoes
<1>4. /\ service_lock'[s] = t /\ \A v \in Services \ {s} : service_lock'[v] = service_lock[v]
      /\ service_lock' \in [Services -> Threads \cup {NoThread}]
  BY <1>1, <1>2
<1>5. \A u \in Threads, v \in Services :
        service_lock'[v] = u <=> Inside(u)' /\ Body[running'[u]].service = v
  <2> TAKE u \in Threads, v \in Services
  <2>1. service_lock[v] = u <=> Inside(u) /\ Body[running[u]].service = v
    BY DEF LocksOK
  <2>2. CASE u = t
    BY <1>2, <1>3, <1>4, <2>1, <2>2
  <2>3. CASE u # t
    BY <1>1, <1>2, <1>3, <1>4, <2>1, <2>3
  <2> QED
    BY <2>2, <2>3
<1>7. /\ \A u \in Threads : mutation_mutex'.owner = u <=> InPhase(u, "locked")'
      /\ mutation_mutex'.depth = IF mutation_mutex'.owner = NoThread THEN 0 ELSE 1
  BY <1>1, <1>3 DEF LocksOK
<1> QED
  BY <1>4, <1>5, <1>7 DEF LocksOK

\* The thread that awaited the adapter gets its lock, or gives its service's
\* lock back.
LEMMA RefLocksCheck ==
  ASSUME RefTypeOK, RefStackOK, LocksOK, NEW t \in Threads, CheckUnderGuard(t)
  PROVE  /\ LocksOK' /\ service_lock' \in [Services -> Threads \cup {NoThread}]
         /\ mutation_mutex' \in [owner : Threads \cup {NoThread}, depth : Nat]
<1> SUFFICES ASSUME NEW c, c = running[t]
             PROVE  /\ LocksOK' /\ service_lock' \in [Services -> Threads \cup {NoThread}]
                    /\ mutation_mutex' \in [owner : Threads \cup {NoThread}, depth : Nat]
  OBVIOUS
<1> DEFINE s == Body[c].service
<1>1. /\ c \in Requests /\ Goes(c) /\ CanLock(t) /\ call[c].phase = "queued"
      /\ \/ call'[c].phase = "locked" /\ Lock(t) /\ service_lock' = service_lock
         \/ /\ call'[c].phase = "audit"
            /\ ReleaseService(t) /\ mutation_mutex' = mutation_mutex
  BY RefCheckMoves
<1>2. /\ s \in Services /\ running' = running /\ NoThread \notin Threads
      /\ service_lock \in [Services -> Threads \cup {NoThread}]
      /\ mutation_mutex \in [owner : Threads \cup {NoThread}, depth : Nat]
  BY <1>1, RequestAssumption, SchedulerAssumption DEF Request, Goes, RefTypeOK
<1>3. /\ \A u \in Threads \ {t} : (Inside(u)' <=> Inside(u))
                                  /\ (InPhase(u, "locked")' <=> InPhase(u, "locked"))
      /\ Inside(t) /\ ~ InPhase(t, "locked")
      /\ Inside(t)' <=> call'[c].phase \in {"queued", "locked"}
      /\ InPhase(t, "locked")' <=> call'[c].phase = "locked"
  BY <1>1, RefInsideGoes
<1>4. mutation_mutex.owner # t
  BY <1>3 DEF LocksOK
<1>5. CASE call'[c].phase = "locked" /\ Lock(t) /\ service_lock' = service_lock
  <2>1. mutation_mutex.owner = NoThread /\ mutation_mutex.depth = 0
    BY <1>1, <1>4 DEF CanLock, LocksOK
  <2>2. mutation_mutex' = [owner |-> t, depth |-> 1]
    BY <1>5, <2>1 DEF Lock
  <2>3. \A u \in Threads, v \in Services :
          service_lock'[v] = u <=> Inside(u)' /\ Body[running'[u]].service = v
    BY <1>2, <1>3, <1>5 DEF LocksOK
  <2>4. \A u \in Threads \ {t} : ~ InPhase(u, "locked")
    BY <1>2, <2>1 DEF LocksOK
  <2>5. /\ \A u \in Threads : mutation_mutex'.owner = u <=> InPhase(u, "locked")'
        /\ mutation_mutex'.depth = IF mutation_mutex'.owner = NoThread THEN 0 ELSE 1
    BY <1>2, <1>3, <1>5, <2>2, <2>4
  <2> QED
    BY <1>2, <1>5, <2>2, <2>3, <2>5 DEF LocksOK
<1>6. CASE call'[c].phase = "audit" /\ ReleaseService(t) /\ mutation_mutex' = mutation_mutex
  <2>1. /\ service_lock'[s] = NoThread
        /\ \A v \in Services \ {s} : service_lock'[v] = service_lock[v]
        /\ service_lock' \in [Services -> Threads \cup {NoThread}]
    BY <1>2, <1>6 DEF ReleaseService
  <2>2. service_lock[s] = t /\ ~ Inside(t)' /\ ~ InPhase(t, "locked")'
    BY <1>2, <1>3, <1>6 DEF LocksOK
  <2>3. \A u \in Threads, v \in Services :
          service_lock'[v] = u <=> Inside(u)' /\ Body[running'[u]].service = v
    <3> TAKE u \in Threads, v \in Services
    <3>1. /\ service_lock[v] = u <=> Inside(u) /\ Body[running[u]].service = v
          /\ service_lock[v] = t <=> Inside(t) /\ Body[running[t]].service = v
      BY DEF LocksOK
    <3>2. CASE u = t
      BY <1>2, <1>3, <2>1, <2>2, <3>1, <3>2
    <3>3. CASE u # t
      BY <1>2, <1>3, <2>1, <2>2, <3>1, <3>3
    <3> QED
      BY <3>2, <3>3
  <2>4. /\ \A u \in Threads : mutation_mutex'.owner = u <=> InPhase(u, "locked")'
        /\ mutation_mutex'.depth = IF mutation_mutex'.owner = NoThread THEN 0 ELSE 1
    BY <1>3, <1>4, <1>6, <2>2 DEF LocksOK
  <2> QED
    BY <1>2, <1>6, <2>1, <2>3, <2>4 DEF LocksOK
<1> QED
  BY <1>1, <1>5, <1>6

\* The thread that has written gives both locks back.
LEMMA RefLocksWrite ==
  ASSUME RefTypeOK, RefStackOK, LocksOK, RefAnswersOK, NEW t \in Threads, WriteUnderGuard(t)
  PROVE  /\ LocksOK' /\ service_lock' \in [Services -> Threads \cup {NoThread}]
         /\ mutation_mutex' \in [owner : Threads \cup {NoThread}, depth : Nat]
<1> SUFFICES ASSUME NEW c, c = running[t]
             PROVE  /\ LocksOK' /\ service_lock' \in [Services -> Threads \cup {NoThread}]
                    /\ mutation_mutex' \in [owner : Threads \cup {NoThread}, depth : Nat]
  OBVIOUS
<1> DEFINE s == Body[c].service
<1>1. /\ c \in Requests /\ Goes(c) /\ Unlock(t) /\ ReleaseService(t)
      /\ call[c].phase = "locked" /\ call'[c].phase = "after"
  BY RefWriteMoves
<1>2. /\ s \in Services /\ running' = running /\ NoThread \notin Threads
      /\ service_lock \in [Services -> Threads \cup {NoThread}]
  BY <1>1, RequestAssumption, SchedulerAssumption DEF Request, Goes, RefTypeOK
<1>3. /\ \A u \in Threads \ {t} : (Inside(u)' <=> Inside(u))
                                  /\ (InPhase(u, "locked")' <=> InPhase(u, "locked"))
      /\ Inside(t) /\ InPhase(t, "locked") /\ ~ Inside(t)' /\ ~ InPhase(t, "locked")'
  BY <1>1, RefInsideGoes
<1>4. mutation_mutex.owner = t /\ mutation_mutex.depth = 1 /\ service_lock[s] = t
  BY <1>2, <1>3 DEF LocksOK
<1>5. /\ mutation_mutex' = [owner |-> NoThread, depth |-> 0]
      /\ service_lock'[s] = NoThread
      /\ \A v \in Services \ {s} : service_lock'[v] = service_lock[v]
      /\ service_lock' \in [Services -> Threads \cup {NoThread}]
  BY <1>1, <1>2, <1>4 DEF Unlock, ReleaseService
<1>6. \A u \in Threads, v \in Services :
        service_lock'[v] = u <=> Inside(u)' /\ Body[running'[u]].service = v
  <2> TAKE u \in Threads, v \in Services
  <2>1. /\ service_lock[v] = u <=> Inside(u) /\ Body[running[u]].service = v
        /\ service_lock[v] = t <=> Inside(t) /\ Body[running[t]].service = v
    BY DEF LocksOK
  <2>2. CASE u = t
    BY <1>2, <1>3, <1>4, <1>5, <2>1, <2>2
  <2>3. CASE u # t
    BY <1>2, <1>3, <1>4, <1>5, <2>1, <2>3
  <2> QED
    BY <2>2, <2>3
<1>7. /\ \A u \in Threads : mutation_mutex'.owner = u <=> InPhase(u, "locked")'
      /\ mutation_mutex'.depth = IF mutation_mutex'.owner = NoThread THEN 0 ELSE 1
  BY <1>2, <1>3, <1>4, <1>5 DEF LocksOK
<1> QED
  BY <1>2, <1>5, <1>6, <1>7 DEF LocksOK

-----------------------------------------------------------------------------
(* What each step does to the answers.                                     *)

\* A commit adds its own call to those that have committed, and no other.
LEMMA RefCommittedBy ==
  ASSUME RefTypeOK, NEW c \in Requests, NEW after, Commit(c, after)
  PROVE  /\ Committed(c)'
         /\ \A d \in Requests \ {c} : Committed(d)' <=> Committed(d)
<1> DEFINE entry == [call |-> c, before |-> store, after |-> after]
<1>1. history \in Seq(CommitRecord) /\ history' = Append(history, entry) /\ entry.call = c
  BY DEF Commit, RefTypeOK
<1> HIDE DEF entry
<1> QED
  BY <1>1, CommittedAppended

\* A call that a step does not touch keeps its answer.
LEMMA RefAnswerFrame ==
  ASSUME NEW c \in Requests, RefAnswerOK(c), call'[c] = call[c], audits'[c] = audits[c],
         unrecorded'[c] = unrecorded[c], Committed(c)' <=> Committed(c)
  PROVE  RefAnswerOK(c)'
BY DEF RefAnswerOK

\* A call that goes on, on either side of the write, keeps its answer.
LEMMA RefAnswerCarried ==
  ASSUME NEW c \in Requests, RefAnswerOK(c), NothingWritten, KeepsResult(c),
         \/ call[c].phase \in Unwritten \ {"idle"} /\ call'[c].phase \in Unwritten \ {"idle"}
         \/ call[c].phase \in {"after", "migrated"} /\ call'[c].phase \in {"after", "migrated"}
  PROVE  RefAnswerOK(c)'
<1>1. Committed(c)' <=> Committed(c)
  BY CommittedKept DEF NothingWritten
<1>2. /\ call[c].phase \in RefActive
      /\ call[c].phase \notin {"audit", "returned"} /\ call'[c].phase \notin {"audit", "returned"}
      /\ call[c].phase \in Unwritten <=> call'[c].phase \in Unwritten
      /\ call[c].phase \in {"after", "migrated", "audit"}
           <=> call'[c].phase \in {"after", "migrated", "audit"}
  BY RefNames DEF Unwritten
<1>3. audits'[c] = audits[c] /\ unrecorded'[c] = unrecorded[c]
  BY DEF NothingWritten
<1> HIDE DEF RefActive
<1> QED
  BY <1>1, <1>2, <1>3 DEF RefAnswerOK, KeepsResult

\* The audit starts, after the write or instead of it.
LEMMA RefAuditStarts ==
  ASSUME NEW c \in Requests, RefAnswerOK(c), NothingWritten, Goes(c),
         call'[c].phase = "audit", call'[c].at = 1,
         \/ call[c].phase \in Unwritten /\ call'[c].status # "Applied"
         \/ /\ call[c].phase \in {"after", "migrated"}
            /\ call'[c].results = call[c].results
            /\ call'[c].status \in {call[c].status, "Interrupted"}
  PROVE  RefAnswerOK(c)'
<1>1. Committed(c)' <=> Committed(c)
  BY CommittedKept DEF NothingWritten
<1>2. call[c].phase \in RefActive /\ call'[c] \in RefRecord
  BY DEF Goes, RefOnlyCall
<1>3. audits'[c] = <<>> /\ unrecorded'[c] = {}
  BY DEF RefAnswerOK, Unwritten, NothingWritten
<1>4. Len(call'[c].results) \in Nat
  BY <1>2, RefFields
<1>5. /\ call'[c].at \in 1..(Len(call'[c].results) + 1)
      /\ Handed(audits'[c], unrecorded'[c], call'[c].at - 1)
  BY <1>3, <1>4, NothingHanded
<1>6. call'[c].phase \notin Unwritten
  BY DEF Unwritten
<1>7. Ops(c) # <<>> /\ Admission(c) = "Applied"
  BY <1>2 DEF RefAnswerOK
<1>8. Committed(c) => /\ call'[c].status \in {"Applied", "Interrupted"}
                      /\ Len(call'[c].results) = Len(Ops(c))
  BY DEF RefAnswerOK
<1>9. call'[c].status = "Applied" => Committed(c)
  BY DEF RefAnswerOK
<1> QED
  BY <1>1, <1>3, <1>5, <1>6, <1>7, <1>8, <1>9 DEF RefAnswerOK

\* A record is written or lost.
LEMMA RefAuditAnswer ==
  ASSUME RefTypeOK, RefAnswersOK, NEW t \in Threads, NEW c, c = running[t], Audit(t)
  PROVE  RefAnswerOK(c)'
<1>1. /\ c \in Requests /\ Goes(c) /\ KeepsResult(c) /\ UNCHANGED history
      /\ call[c].phase = "audit" /\ call'[c].phase = "audit"
      /\ call[c].at <= Len(call[c].results) /\ call'[c].at = call[c].at + 1
      /\ Handed(audits'[c], unrecorded'[c], call[c].at)
  BY RefAuditMoves
<1>2. RefAnswerOK(c)
  BY <1>1 DEF RefAnswersOK
<1>3. Committed(c)' <=> Committed(c)
  BY <1>1, CommittedKept
<1>4. call[c].phase \in RefActive /\ call[c] \in RefRecord
  BY <1>1 DEF Goes, RefTypeOK
<1>5. Len(call[c].results) \in Nat
  BY <1>4, RefFields
<1>6. call[c].at \in 1..(Len(call[c].results) + 1)
  BY <1>1, <1>2 DEF RefAnswerOK
<1>7. call'[c].at \in 1..(Len(call'[c].results) + 1)
  BY <1>1, <1>5, <1>6 DEF KeepsResult
<1>8. Handed(audits'[c], unrecorded'[c], call'[c].at - 1)
  <2>1. call'[c].at - 1 = call[c].at
    BY <1>1, <1>6
  <2> QED
    BY <1>1, <2>1
<1>9. call'[c].phase \notin Unwritten
  BY <1>1 DEF Unwritten
<1> HIDE DEF RefActive
<1> QED
  BY <1>1, <1>2, <1>3, <1>4, <1>7, <1>8, <1>9 DEF RefAnswerOK, KeepsResult

\* A call that leaves before the write has not committed.
LEMMA RefAnswerLeaves ==
  ASSUME NEW c \in Requests, RefAnswerOK(c), NothingWritten, call[c].phase \in Unwritten,
         call'[c].phase = "returned"
  PROVE  RefAnswerOK(c)' /\ ~ Committed(c)'
<1>1. ~ Committed(c)'
  BY CommittedKept DEF NothingWritten, RefAnswerOK
<1>2. call'[c].phase \notin RefActive /\ call'[c].phase \notin Unwritten
  BY DEF RefActive, Unwritten
<1> QED
  BY <1>1, <1>2 DEF RefAnswerOK

\* A call that is answered has audited all of its results.
LEMMA RefAnswerReplies ==
  ASSUME RefTypeOK, RefAnswersOK, NEW t \in Threads, NEW c, c = running[t], Reply(t)
  PROVE  RefAnswerOK(c)'
<1>1. /\ c \in Requests /\ NothingWritten /\ call'[c].phase = "returned"
      /\ call[c].phase = "audit" /\ call[c].at > Len(call[c].results)
  BY RefReplyMoves DEF Leaves
<1>2. RefAnswerOK(c) /\ call[c] \in RefRecord
  BY <1>1 DEF RefAnswersOK, RefTypeOK
<1>3. Committed(c)' <=> Committed(c)
  BY <1>1, CommittedKept DEF NothingWritten
<1>4. audits'[c] = audits[c] /\ unrecorded'[c] = unrecorded[c]
  BY <1>1 DEF NothingWritten
<1>5. Committed(c) => Handed(audits[c], unrecorded[c], Len(Ops(c)))
  <2> SUFFICES ASSUME Committed(c) PROVE Handed(audits[c], unrecorded[c], Len(Ops(c)))
    OBVIOUS
  <2>1. /\ Len(call[c].results) = Len(Ops(c)) /\ call[c].at \in 1..(Len(call[c].results) + 1)
        /\ Handed(audits[c], unrecorded[c], call[c].at - 1)
    BY <1>1, <1>2 DEF RefAnswerOK
  <2>2. Len(call[c].results) \in Nat
    BY <1>1, <1>2, RefFields
  <2>3. call[c].at - 1 = Len(call[c].results)
    BY <1>1, <2>1, <2>2
  <2> QED
    BY <2>1, <2>2, <2>3
<1>6. call'[c].phase \notin RefActive /\ call'[c].phase \notin Unwritten
  BY <1>1 DEF RefActive, Unwritten
<1> QED
  BY <1>1, <1>3, <1>4, <1>5, <1>6 DEF RefAnswerOK

\* A call commits, or fails and knows it.
LEMMA RefAnswerWrites ==
  ASSUME RefTypeOK, RefAnswersOK, NEW t \in Threads, NEW c, c = running[t],
         WriteUnderGuard(t)
  PROVE  RefAnswerOK(c)' /\ \A d \in Requests \ {c} : Committed(d)' <=> Committed(d)
<1> DEFINE after == Candidates(store, Ops(c))[Len(Ops(c))]
<1>1. /\ c \in Requests /\ Goes(c) /\ UNCHANGED <<audits, unrecorded>>
      /\ call[c].phase = "locked" /\ call'[c].phase = "after"
      /\ \/ /\ Commit(c, after) /\ call'[c].status = call[c].status
            /\ Len(call'[c].results) = Len(Ops(c))
         \/ UNCHANGED <<store, history>> /\ call'[c].status # "Applied"
  BY RefWriteMoves
<1>2. RefAnswerOK(c) /\ call[c].phase \in RefActive
  BY <1>1 DEF RefAnswersOK, Goes
<1>3. /\ call[c].status = "Applied" /\ ~ Committed(c) /\ audits'[c] = <<>> /\ unrecorded'[c] = {}
      /\ Ops(c) # <<>> /\ Admission(c) = "Applied" /\ call'[c].phase \notin Unwritten
  BY <1>1, <1>2 DEF RefAnswerOK, Unwritten
<1> HIDE DEF after
<1>4. CASE /\ Commit(c, after) /\ call'[c].status = call[c].status
           /\ Len(call'[c].results) = Len(Ops(c))
  <2>1. Committed(c)' /\ \A d \in Requests \ {c} : Committed(d)' <=> Committed(d)
    BY <1>1, <1>4, RefCommittedBy
  <2> QED
    BY <1>1, <1>3, <1>4, <2>1 DEF RefAnswerOK
<1>5. CASE UNCHANGED <<store, history>> /\ call'[c].status # "Applied"
  <2>1. \A d \in Requests : Committed(d)' <=> Committed(d)
    BY <1>5, CommittedKept
  <2> QED
    BY <1>1, <1>3, <1>5, <2>1 DEF RefAnswerOK
<1> QED
  BY <1>1, <1>4, <1>5

\* A call begins with nothing written.
LEMMA RefAnswerBegins ==
  ASSUME RefTypeOK, RefAnswersOK, NEW t \in Threads, NEW c \in Requests, Begin(t, c)
  PROVE  RefAnswerOK(c)'
<1>1. /\ NothingWritten /\ call[c].phase = "idle" /\ Ops(c) # <<>> /\ Admission(c) = "Applied"
      /\ call'[c].phase = "preflight" /\ call'[c].status = "Applied"
  BY RefBeginMoves
<1>2. RefAnswerOK(c)
  BY DEF RefAnswersOK
<1>3. Committed(c)' <=> Committed(c)
  BY <1>1, CommittedKept DEF NothingWritten
<1> QED
  BY <1>1, <1>2, <1>3 DEF RefAnswerOK, NothingWritten, Unwritten

-----------------------------------------------------------------------------
(* The invariant is inductive.                                             *)

\* The calls a step leaves alone keep what is said of each of them.
LEMMA RefOthers ==
  ASSUME RefTypeOK, CapturesOK, RefAnswersOK, NEW c \in Requests, RefOnlyCall(c),
         CapturesOf(c)', RefAnswerOK(c)',
         \A d \in Requests \ {c} :
           /\ audits'[d] = audits[d] /\ unrecorded'[d] = unrecorded[d]
           /\ Committed(d)' <=> Committed(d)
  PROVE  CapturesOK' /\ RefAnswersOK'
<1>1. ASSUME NEW d \in Requests \ {c} PROVE CapturesOf(d)' /\ RefAnswerOK(d)'
  <2>1. call'[d] = call[d] /\ CapturesOf(d) /\ RefAnswerOK(d)
    BY DEF RefOnlyCall, CapturesOK, RefAnswersOK
  <2>2. RefAnswerOK(d)'
    BY <2>1, RefAnswerFrame
  <2>3. CapturesOf(d)'
    BY <2>1 DEF CapturesOf
  <2> QED
    BY <2>2, <2>3
<1> QED
  BY <1>1 DEF CapturesOK, RefAnswersOK

\* In particular if nothing is written.
LEMMA RefOthersRead ==
  ASSUME RefTypeOK, CapturesOK, RefAnswersOK, NEW c \in Requests, RefOnlyCall(c),
         NothingWritten, CapturesOf(c)', RefAnswerOK(c)'
  PROVE  CapturesOK' /\ RefAnswersOK'
<1>1. \A d \in Requests \ {c} :
        /\ audits'[d] = audits[d] /\ unrecorded'[d] = unrecorded[d]
        /\ Committed(d)' <=> Committed(d)
  BY CommittedKept DEF NothingWritten
<1> QED
  BY <1>1, RefOthers

\* Outside the two phases that capture nothing is said about captures.
LEMMA RefNoCaptures ==
  ASSUME NEW c \in Requests, call'[c].phase \notin {"preflight", "dispatch"}
  PROVE  CapturesOf(c)'
BY DEF CapturesOf

\* The types, if nothing is written.
LEMMA RefTypesRead ==
  ASSUME RefTypeOK, NEW c \in Requests, RefOnlyCall(c), NothingWritten,
         running' \in [Threads -> Requests \cup {NoCall}],
         service_lock' \in [Services -> Threads \cup {NoThread}],
         mutation_mutex' \in [owner : Threads \cup {NoThread}, depth : Nat]
  PROVE  RefTypeOK'
BY DEF RefTypeOK, RefOnlyCall, NothingWritten

\* A call that goes on without a lock and without writing.
LEMMA RefGoesOn ==
  ASSUME RefInv, NEW t \in Threads, NEW c \in Requests, c = running[t], Goes(c),
         NothingWritten, SameLocks,
         call[c].phase \notin {"queued", "locked"}, call'[c].phase \notin {"queued", "locked"},
         CapturesOf(c)', RefAnswerOK(c)'
  PROVE  RefInv'
<1>1. RefTypeOK /\ CapturesOK /\ RefStackOK /\ LocksOK /\ RefAnswersOK
  BY DEF RefInv
<1>2. RefOnlyCall(c) /\ running' = running
  BY DEF Goes
<1>3. RefTypeOK'
  <2>1. /\ running' \in [Threads -> Requests \cup {NoCall}]
        /\ service_lock' \in [Services -> Threads \cup {NoThread}]
        /\ mutation_mutex' \in [owner : Threads \cup {NoThread}, depth : Nat]
    BY <1>1, <1>2 DEF RefTypeOK, SameLocks
  <2> QED
    BY <1>1, <1>2, <2>1, RefTypesRead
<1> QED
  BY <1>1, <1>2, <1>3, RefStackGoes, RefLocksGoes, RefOthersRead DEF RefInv

\* A call that leaves without writing.
LEMMA RefGoesBack ==
  ASSUME RefInv, NEW t \in Threads, NEW c \in Requests, c = running[t], NEW status,
         Leaves(t, c, status), NothingWritten, SameLocks,
         call[c].phase \notin {"queued", "locked"}, RefAnswerOK(c)'
  PROVE  RefInv'
<1>1. RefTypeOK /\ CapturesOK /\ RefStackOK /\ LocksOK /\ RefAnswersOK
  BY DEF RefInv
<1>2. RefOnlyCall(c) /\ call'[c].phase = "returned"
  BY DEF Leaves
<1>3. RefStackOK' /\ running' \in [Threads -> Requests \cup {NoCall}]
  BY <1>1, RefStackLeaves
<1>4. /\ service_lock' \in [Services -> Threads \cup {NoThread}]
      /\ mutation_mutex' \in [owner : Threads \cup {NoThread}, depth : Nat]
  BY <1>1 DEF RefTypeOK, SameLocks
<1>5. CapturesOf(c)'
  BY <1>2, RefNoCaptures
<1>6. RefTypeOK'
  BY <1>1, <1>2, <1>3, <1>4, RefTypesRead
<1>7. LocksOK'
  BY <1>1, RefLocksLeaves
<1> QED
  BY <1>1, <1>2, <1>3, <1>5, <1>6, <1>7, RefOthersRead DEF RefInv

\* The steps before the commit, and the interrupt of a listener.
LEMMA RefKeptEarly ==
  ASSUME RefInv, NEW t \in Threads,
         ReferencePreflight(t) \/ Dispatch(t) \/ ListenerInterrupts(t)
  PROVE  RefInv'
<1> SUFFICES ASSUME NEW c, c = running[t] PROVE RefInv'
  OBVIOUS
<1>1. RefTypeOK /\ CapturesOK /\ RefStackOK /\ LocksOK /\ RefAnswersOK
  BY DEF RefInv
<1>2. \A d \in Requests : RefAnswerOK(d)
  BY <1>1 DEF RefAnswersOK
<1>3. CASE ReferencePreflight(t)
  <2>1. /\ c \in Requests /\ NothingWritten /\ SameLocks /\ call[c].phase = "preflight"
        /\ \/ \E status \in Statuses \ {"Applied"} : Leaves(t, c, status)
           \/ /\ Goes(c) /\ KeepsResult(c) /\ CapturesOf(c)'
              /\ call'[c].phase \in {"preflight", "dispatch"}
    BY <1>1, <1>3, RefPreflightMoves
  <2>2. CASE \E status \in Statuses \ {"Applied"} : Leaves(t, c, status)
    <3>1. PICK status \in Statuses \ {"Applied"} : Leaves(t, c, status)
      BY <2>2
    <3>2. RefAnswerOK(c)'
      BY <1>2, <2>1, <3>1, RefAnswerLeaves DEF Unwritten, Leaves
    <3> QED
      BY <2>1, <3>1, <3>2, RefGoesBack
  <2>3. CASE /\ Goes(c) /\ KeepsResult(c) /\ CapturesOf(c)'
             /\ call'[c].phase \in {"preflight", "dispatch"}
    <3>1. RefAnswerOK(c)'
      BY <1>2, <2>1, <2>3, RefAnswerCarried DEF Unwritten
    <3> QED
      BY <2>1, <2>3, <3>1, RefGoesOn
  <2> QED
    BY <2>1, <2>2, <2>3
<1>4. CASE Dispatch(t)
  <2>1. /\ c \in Requests /\ Goes(c) /\ KeepsResult(c) /\ NothingWritten /\ SameLocks
        /\ call[c].phase = "dispatch" /\ call'[c].phase \in {"dispatch", "before"}
        /\ CapturesOf(c)'
    BY <1>1, <1>4, RefDispatchMoves
  <2>2. RefAnswerOK(c)'
    BY <1>2, <2>1, RefAnswerCarried DEF Unwritten
  <2> QED
    BY <2>1, <2>2, RefGoesOn
<1>5. CASE ListenerInterrupts(t)
  <2>1. /\ c \in Requests /\ NothingWritten /\ SameLocks
        /\ \/ call[c].phase = "before" /\ Leaves(t, c, "Interrupted")
           \/ /\ Goes(c) /\ call[c].phase \in {"after", "migrated"}
              /\ call'[c].phase = "audit" /\ call'[c].at = 1
              /\ call'[c].status = "Interrupted" /\ call'[c].results = call[c].results
    BY <1>1, <1>5, RefInterruptMoves
  <2>2. CASE call[c].phase = "before" /\ Leaves(t, c, "Interrupted")
    <3>1. RefAnswerOK(c)'
      BY <1>2, <2>1, <2>2, RefAnswerLeaves DEF Unwritten, Leaves
    <3> QED
      BY <2>1, <2>2, <3>1, RefGoesBack
  <2>3. CASE /\ Goes(c) /\ call[c].phase \in {"after", "migrated"}
             /\ call'[c].phase = "audit" /\ call'[c].at = 1
             /\ call'[c].status = "Interrupted" /\ call'[c].results = call[c].results
    <3>1. RefAnswerOK(c)' /\ CapturesOf(c)'
      BY <1>2, <2>1, <2>3, RefAuditStarts, RefNoCaptures
    <3> QED
      BY <2>1, <2>3, <3>1, RefGoesOn
  <2> QED
    BY <2>1, <2>2, <2>3
<1> QED
  BY <1>3, <1>4, <1>5

\* The steps both implementations share, but for the audit.
LEMMA RefKeptShared ==
  ASSUME RefInv, NEW t \in Threads, UNCHANGED service_lock,
         \/ ListenerReturns(t) \/ ListenerDecides(t) \/ ListenerThrows(t) \/ ListenerEdits(t)
         \/ Cancel(t) \/ PublishMigrated(t) \/ BeginAudit(t) \/ Reply(t)
  PROVE  RefInv'
<1> SUFFICES ASSUME NEW c, c = running[t] PROVE RefInv'
  OBVIOUS
<1>1. RefTypeOK /\ CapturesOK /\ RefStackOK /\ LocksOK /\ RefAnswersOK
  BY DEF RefInv
<1>2. \A d \in Requests : RefAnswerOK(d)
  BY <1>1 DEF RefAnswersOK
<1>3. UNCHANGED mutation_mutex => SameLocks
  BY DEF SameLocks
<1>4. CASE ListenerReturns(t) \/ ListenerDecides(t) \/ ListenerThrows(t) \/ ListenerEdits(t)
  <2>1. /\ c \in Requests /\ Goes(c) /\ KeepsResult(c) /\ NothingWritten
        /\ UNCHANGED mutation_mutex
        /\ call[c].phase \in {"before", "after", "migrated"} /\ call'[c].phase = call[c].phase
    BY <1>1, <1>4, RefListenerMoves DEF Publishing
  <2>2. RefAnswerOK(c)' /\ CapturesOf(c)'
    BY <1>2, <2>1, RefAnswerCarried, RefNoCaptures DEF Unwritten
  <2> QED
    BY <1>3, <2>1, <2>2, RefGoesOn
<1>5. CASE Cancel(t)
  <2>1. /\ c \in Requests /\ Goes(c) /\ NothingWritten /\ UNCHANGED mutation_mutex
        /\ call[c].phase = "before" /\ call'[c].phase = "audit" /\ call'[c].at = 1
        /\ call'[c].status # "Applied"
    BY <1>1, <1>5, RefCancelMoves
  <2>2. RefAnswerOK(c)' /\ CapturesOf(c)'
    BY <1>2, <2>1, RefAuditStarts, RefNoCaptures DEF Unwritten
  <2> QED
    BY <1>3, <2>1, <2>2, RefGoesOn
<1>6. CASE PublishMigrated(t)
  <2>1. /\ c \in Requests /\ Goes(c) /\ KeepsResult(c) /\ NothingWritten
        /\ UNCHANGED mutation_mutex
        /\ call[c].phase = "after" /\ call'[c].phase = "migrated"
    BY <1>1, <1>6, RefMigratedMoves
  <2>2. RefAnswerOK(c)' /\ CapturesOf(c)'
    BY <1>2, <2>1, RefAnswerCarried, RefNoCaptures
  <2> QED
    BY <1>3, <2>1, <2>2, RefGoesOn
<1>7. CASE BeginAudit(t)
  <2>1. /\ c \in Requests /\ Goes(c) /\ KeepsResult(c) /\ NothingWritten
        /\ UNCHANGED mutation_mutex
        /\ call[c].phase \in {"after", "migrated"}
        /\ call'[c].phase = "audit" /\ call'[c].at = 1
    BY <1>1, <1>7, RefBeginAuditMoves
  <2>2. RefAnswerOK(c)' /\ CapturesOf(c)'
    BY <1>2, <2>1, RefAuditStarts, RefNoCaptures DEF KeepsResult
  <2> QED
    BY <1>3, <2>1, <2>2, RefGoesOn
<1>8. CASE Reply(t)
  <2>1. /\ c \in Requests /\ Leaves(t, c, call[c].status) /\ NothingWritten
        /\ UNCHANGED mutation_mutex /\ call[c].phase = "audit"
    BY <1>1, <1>8, RefReplyMoves
  <2>2. RefAnswerOK(c)'
    BY <1>1, <1>8, RefAnswerReplies
  <2> QED
    BY <1>3, <2>1, <2>2, RefGoesBack
<1> QED
  BY <1>4, <1>5, <1>6, <1>7, <1>8

\* The audit writes the records of its call only.
LEMMA RefKeptAudit ==
  ASSUME RefInv, NEW t \in Threads, UNCHANGED service_lock, Audit(t)
  PROVE  RefInv'
<1> SUFFICES ASSUME NEW c, c = running[t] PROVE RefInv'
  OBVIOUS
<1>1. RefTypeOK /\ CapturesOK /\ RefStackOK /\ LocksOK /\ RefAnswersOK
  BY DEF RefInv
<1>2. /\ c \in Requests /\ Goes(c)
      /\ UNCHANGED <<store, available, history, mutation_mutex>>
      /\ call[c].phase = "audit" /\ call'[c].phase = "audit"
      /\ audits' \in [Requests -> Seq(AuditRecord)]
      /\ unrecorded' \in [Requests -> SUBSET LossRecord]
      /\ \A d \in Requests \ {c} : audits'[d] = audits[d] /\ unrecorded'[d] = unrecorded[d]
  BY <1>1, RefAuditMoves
<1>3. RefOnlyCall(c) /\ running' = running /\ SameLocks
  BY <1>2 DEF Goes, SameLocks
<1>4. RefTypeOK'
  BY <1>1, <1>2, <1>3 DEF RefTypeOK, RefOnlyCall, SameLocks
<1>5. RefAnswerOK(c)' /\ CapturesOf(c)'
  BY <1>1, <1>2, RefAuditAnswer, RefNoCaptures
<1>6. \A d \in Requests : Committed(d)' <=> Committed(d)
  BY <1>2, CommittedKept
<1>7. CapturesOK' /\ RefAnswersOK'
  BY <1>1, <1>2, <1>3, <1>5, <1>6, RefOthers
<1>8. RefStackOK' /\ LocksOK'
  BY <1>1, <1>2, <1>3, RefStackGoes, RefLocksGoes
<1> QED
  BY <1>4, <1>7, <1>8 DEF RefInv

\* The commit.
LEMMA RefKeptCommit ==
  ASSUME RefInv, NEW t \in Threads,
         LockService(t) \/ CheckUnderGuard(t) \/ WriteUnderGuard(t)
  PROVE  RefInv'
<1> SUFFICES ASSUME NEW c, c = running[t] PROVE RefInv'
  OBVIOUS
<1>1. RefTypeOK /\ CapturesOK /\ RefStackOK /\ LocksOK /\ RefAnswersOK
  BY DEF RefInv
<1>2. \A d \in Requests : RefAnswerOK(d)
  BY <1>1 DEF RefAnswersOK
<1>3. ASSUME LockService(t) \/ CheckUnderGuard(t), c \in Requests, Goes(c), NothingWritten,
             RefAnswerOK(c)', CapturesOf(c)', LocksOK',
             service_lock' \in [Services -> Threads \cup {NoThread}],
             mutation_mutex' \in [owner : Threads \cup {NoThread}, depth : Nat]
      PROVE  RefInv'
  <2>1. RefOnlyCall(c) /\ running' \in [Threads -> Requests \cup {NoCall}]
    BY <1>1, <1>3 DEF Goes, RefTypeOK
  <2>2. RefTypeOK'
    BY <1>1, <1>3, <2>1, RefTypesRead
  <2> QED
    BY <1>1, <1>3, <2>1, <2>2, RefStackGoes, RefOthersRead DEF RefInv
<1>4. CASE LockService(t)
  <2>1. /\ c \in Requests /\ Goes(c) /\ KeepsResult(c) /\ NothingWritten
        /\ UNCHANGED mutation_mutex
        /\ call[c].phase = "before" /\ call'[c].phase = "queued"
    BY <1>1, <1>4, RefLockMoves
  <2>2. RefAnswerOK(c)' /\ CapturesOf(c)'
    BY <1>2, <2>1, RefAnswerCarried, RefNoCaptures DEF Unwritten
  <2>3. LocksOK' /\ service_lock' \in [Services -> Threads \cup {NoThread}]
    BY <1>1, <1>4, RefLocksLock
  <2>4. mutation_mutex' \in [owner : Threads \cup {NoThread}, depth : Nat]
    BY <1>1, <2>1 DEF RefTypeOK
  <2> QED
    BY <1>3, <1>4, <2>1, <2>2, <2>3, <2>4
<1>5. CASE CheckUnderGuard(t)
  <2>1. /\ c \in Requests /\ Goes(c) /\ NothingWritten /\ call[c].phase = "queued"
        /\ \/ KeepsResult(c) /\ call'[c].phase = "locked"
           \/ /\ call'[c].phase = "audit" /\ call'[c].at = 1
              /\ call'[c].status # "Applied"
    BY <1>1, <1>5, RefCheckMoves
  <2>2. RefAnswerOK(c)' /\ CapturesOf(c)'
    BY <1>2, <2>1, RefAnswerCarried, RefAuditStarts, RefNoCaptures DEF Unwritten
  <2>3. /\ LocksOK' /\ service_lock' \in [Services -> Threads \cup {NoThread}]
        /\ mutation_mutex' \in [owner : Threads \cup {NoThread}, depth : Nat]
    BY <1>1, <1>5, RefLocksCheck
  <2> QED
    BY <1>3, <1>5, <2>1, <2>2, <2>3
<1>6. CASE WriteUnderGuard(t)
  <2> DEFINE after == Candidates(store, Ops(c))[Len(Ops(c))]
  <2>1. /\ c \in Requests /\ Goes(c) /\ UNCHANGED <<available, audits, unrecorded>>
        /\ call'[c].phase = "after"
        /\ Commit(c, after) \/ UNCHANGED <<store, history>>
    BY <1>1, <1>6, RefWriteMoves
  <2>2. RefAnswerOK(c)' /\ \A d \in Requests \ {c} : Committed(d)' <=> Committed(d)
    BY <1>1, <1>6, RefAnswerWrites
  <2>3. /\ LocksOK' /\ service_lock' \in [Services -> Threads \cup {NoThread}]
        /\ mutation_mutex' \in [owner : Threads \cup {NoThread}, depth : Nat]
    BY <1>1, <1>6, RefLocksWrite
  <2>4. RefOnlyCall(c) /\ running' = running
    BY <2>1 DEF Goes
  <2>5. CapturesOK' /\ RefAnswersOK'
    BY <1>1, <2>1, <2>2, <2>4, RefNoCaptures, RefOthers
  <2>6. store' \in Store /\ history' \in Seq(CommitRecord)
    <3>1. store \in Store /\ history \in Seq(CommitRecord)
      BY <1>1 DEF RefTypeOK
    <3>2. after \in Store
      <4>1. Ops(c) \in Seq(Operation) /\ Len(Ops(c)) \in Nat
        BY <2>1, RequestFacts
      <4> QED
        BY <3>1, <4>1, CandidatesInStore
    <3> DEFINE entry == [call |-> c, before |-> store, after |-> after]
    <3> HIDE DEF after
    <3>3. entry \in CommitRecord
      BY <2>1, <3>1, <3>2 DEF CommitRecord
    <3>4. Commit(c, after) => store' = after /\ history' = Append(history, entry)
      BY DEF Commit
    <3> HIDE DEF entry
    <3> QED
      BY <2>1, <3>1, <3>2, <3>3, <3>4
  <2>7. RefTypeOK'
    BY <1>1, <2>1, <2>3, <2>4, <2>6 DEF RefTypeOK, RefOnlyCall
  <2>8. RefStackOK'
    BY <1>1, <2>1, RefStackGoes
  <2> QED
    BY <2>3, <2>5, <2>7, <2>8 DEF RefInv
<1> QED
  BY <1>4, <1>5, <1>6

\* A call begins, or is answered at once.
LEMMA RefKeptEntry ==
  ASSUME RefInv, NEW t \in Threads, NEW c \in Requests, ReturnAtOnce(t, c) \/ Begin(t, c),
         UNCHANGED service_lock
  PROVE  RefInv'
<1>1. RefTypeOK /\ CapturesOK /\ RefStackOK /\ LocksOK /\ RefAnswersOK
  BY DEF RefInv
<1>2. /\ service_lock' \in [Services -> Threads \cup {NoThread}]
      /\ running \in [Threads -> Requests \cup {NoCall}]
      /\ mutation_mutex \in [owner : Threads \cup {NoThread}, depth : Nat]
  BY <1>1 DEF RefTypeOK
<1>3. CASE Begin(t, c)
  <2>1. RefOnlyCall(c) /\ NothingWritten /\ UNCHANGED mutation_mutex /\ CapturesOf(c)'
    BY <1>1, <1>3, RefBeginMoves
  <2>2. RefStackOK' /\ running' \in [Threads -> Requests \cup {NoCall}]
    BY <1>1, <1>3, RefStackBegins
  <2>3. LocksOK'
    BY <1>1, <1>3, <2>1, RefLocksBegins DEF SameLocks
  <2>4. CapturesOK' /\ RefAnswersOK'
    BY <1>1, <1>3, <2>1, RefAnswerBegins, RefOthersRead
  <2>5. RefTypeOK'
    BY <1>1, <1>2, <2>1, <2>2, RefTypesRead
  <2> QED
    BY <2>2, <2>3, <2>4, <2>5 DEF RefInv
<1>4. CASE ReturnAtOnce(t, c)
  <2>1. /\ RefOnlyCall(c) /\ UNCHANGED <<running, mutation_mutex>> /\ NothingWritten
        /\ call[c].phase = "idle" /\ call'[c].phase = "returned"
    BY <1>1, <1>4, RefAtOnceMoves
  <2>2. RefAnswerOK(c)' /\ CapturesOf(c)'
    BY <1>1, <2>1, RefAnswerLeaves, RefNoCaptures DEF Unwritten, RefAnswersOK
  <2>3. LocksOK'
    BY <1>1, <1>4, <2>1, RefLocksAtOnce DEF SameLocks
  <2>4. CapturesOK' /\ RefAnswersOK'
    BY <1>1, <2>1, <2>2, RefOthersRead
  <2>5. RefTypeOK'
    BY <1>1, <1>2, <2>1, RefTypesRead
  <2> QED
    BY <1>1, <1>4, <2>3, <2>4, <2>5, RefStackAtOnce DEF RefInv
<1> QED
  BY <1>3, <1>4

\* A step that changes no variable but the availability.
LEMMA RefKeptIdle ==
  ASSUME RefInv, available' \subseteq Targets,
         UNCHANGED <<store, mutation_mutex, running, call, audits, unrecorded, history,
                     service_lock>>
  PROVE  RefInv'
<1>1. RefTypeOK /\ CapturesOK /\ RefStackOK /\ LocksOK /\ RefAnswersOK
  BY DEF RefInv
<1>2. RefTypeOK'
  BY <1>1 DEF RefTypeOK
<1>3. CapturesOK' /\ RefStackOK'
  BY <1>1 DEF CapturesOK, CapturesOf, RefStackOK
<1>4. LocksOK'
  BY <1>1 DEF LocksOK, Inside, InPhase
<1>5. RefAnswersOK'
  <2> SUFFICES ASSUME NEW c \in Requests PROVE RefAnswerOK(c)'
    BY DEF RefAnswersOK
  <2>1. RefAnswerOK(c) /\ (Committed(c)' <=> Committed(c))
    BY <1>1, CommittedKept DEF RefAnswersOK
  <2> QED
    BY <2>1, RefAnswerFrame
<1> QED
  BY <1>2, <1>3, <1>4, <1>5 DEF RefInv

\* Every step keeps the invariant.
LEMMA RefInvariantKept == RefInv /\ [RefNext]_refvars => RefInv'
<1> SUFFICES ASSUME RefInv, [RefNext]_refvars PROVE RefInv'
  OBVIOUS
<1>1. ASSUME NEW t \in Threads, ReferenceAdvance(t) PROVE RefInv'
  BY <1>1, RefKeptEarly, RefKeptShared, RefKeptAudit, RefKeptCommit
     DEF ReferenceAdvance, SharedStep
<1>2. ASSUME NEW t \in Threads, NEW c \in Requests,
             (ReturnAtOnce(t, c) \/ Begin(t, c)) /\ UNCHANGED service_lock
      PROVE  RefInv'
  BY <1>2, RefKeptEntry
<1>3. ASSUME NEW target \in FlakyTargets, SetTargetAvailable(target), UNCHANGED service_lock
      PROVE  RefInv'
  <2>1. available' \subseteq Targets
    BY <1>3, SchedulerAssumption DEF SetTargetAvailable, RefInv, RefTypeOK
  <2> QED
    BY <1>3, <2>1, RefKeptIdle DEF SetTargetAvailable
<1>4. ASSUME UNCHANGED refvars PROVE RefInv'
  BY <1>4, RefKeptIdle DEF refvars, vars, RefInv, RefTypeOK
<1>5. CASE Terminated /\ UNCHANGED service_lock
  BY <1>4, <1>5 DEF Terminated, refvars
<1> QED
  BY <1>1, <1>2, <1>3, <1>4, <1>5 DEF RefNext

\* It holds at first.
LEMMA RefInvariantHolds == RefInit => RefInv
<1> SUFFICES ASSUME RefInit PROVE RefInv
  OBVIOUS
<1>1. /\ store = InitialStore /\ available = Targets
      /\ mutation_mutex = [owner |-> NoThread, depth |-> 0]
      /\ running = [t \in Threads |-> NoCall] /\ call = [c \in Requests |-> Idle]
      /\ audits = [c \in Requests |-> <<>>] /\ unrecorded = [c \in Requests |-> {}]
      /\ history = <<>> /\ service_lock = [s \in Services |-> NoThread]
  BY DEF RefInit, Init
<1>2. Idle \in RefRecord /\ Idle.phase = "idle" /\ Idle.status = "Applied"
  BY RefIdle DEF Idle
<1> HIDE DEF Idle
<1>3. RefTypeOK
  BY <1>1, <1>2, StoreAssumption DEF RefTypeOK
<1>4. \A c \in Requests : call[c].phase = "idle" /\ call[c].status = "Applied"
  BY <1>1, <1>2
<1>5. CapturesOK
  BY <1>4 DEF CapturesOK, CapturesOf
<1>6. \A t \in Threads : running[t] = NoCall
  BY <1>1
<1>7. RefStackOK
  BY <1>4, <1>6, RefNames DEF RefStackOK
<1>8. LocksOK
  BY <1>1, <1>6, SchedulerAssumption DEF LocksOK, Inside, InPhase
<1>9. RefAnswersOK
  <2>1. \A c \in Requests : ~ Committed(c)
    BY <1>1 DEF Committed
  <2>2. \A c \in Requests : audits[c] = <<>> /\ unrecorded[c] = {}
    BY <1>1
  <2> QED
    BY <1>4, <2>1, <2>2, RefNames DEF RefAnswersOK, RefAnswerOK
<1> QED
  BY <1>3, <1>5, <1>7, <1>8, <1>9 DEF RefInv

\* It is an invariant of the reference implementation.
LEMMA RefInvariance == RefSpec => []RefInv
BY RefInvariantHolds, RefInvariantKept, PTL DEF RefSpec

\* Who commits holds both locks, and no callback runs under either: a listener
\* that calls its own service does not wait for itself
\* (python/.../service.py, `with self._mutation_lock`).
THEOREM ReferenceLocksNest == RefSpec => []LocksNest
<1>1. RefInv => LocksNest
  <2> SUFFICES ASSUME RefInv PROVE LocksNest
    OBVIOUS
  <2>1. /\ service_lock \in [Services -> Threads \cup {NoThread}]
        /\ running \in [Threads -> Requests \cup {NoCall}] /\ LocksOK
    BY DEF RefInv, RefTypeOK
  <2>2. ASSUME NEW t \in Threads, InPhase(t, "locked")
        PROVE  mutation_mutex.owner = t /\ service_lock[Body[running[t]].service] = t
    <3>1. running[t] \in Requests /\ Inside(t)
      BY <2>1, <2>2 DEF InPhase, Inside
    <3>2. Body[running[t]].service \in Services
      BY <3>1, RequestAssumption DEF Request
    <3> QED
      BY <2>1, <2>2, <3>1, <3>2 DEF LocksOK
  <2>3. ASSUME NEW s \in Services, service_lock[s] # NoThread
        PROVE  /\ ~ InListener(service_lock[s])
               /\ running[service_lock[s]] # NoCall
               /\ call[running[service_lock[s]]].phase \in {"queued", "locked"}
    <3>1. service_lock[s] \in Threads
      BY <2>1, <2>3
    <3>2. Inside(service_lock[s])
      BY <2>1, <3>1 DEF LocksOK
    <3> QED
      BY <3>2 DEF Inside, InListener, Publishing
  <2> QED
    BY <2>2, <2>3 DEF LocksNest
<1> QED
  BY <1>1, RefInvariance, PTL

\* Every operation of a commit of the reference implementation has been handed
\* to the sink once and in order when the call returns or raises (the `finally`
\* of apply and transact in python/.../service.py).
THEOREM ReferenceCommitsAudited == RefSpec => []CommitsAuditedAtReturn
<1>1. RefInv => CommitsAuditedAtReturn
  <2> SUFFICES ASSUME RefInv, NEW i \in DOMAIN history,
                      call[history[i].call].phase = "returned"
               PROVE  LET c == history[i].call IN
                      Handed(audits[c], unrecorded[c], Len(Ops(c)))
    BY DEF CommitsAuditedAtReturn, AllHanded
  <2>1. history \in Seq(CommitRecord)
    BY DEF RefInv, RefTypeOK
  <2>2. history[i].call \in Requests
    <3>1. history[i] \in CommitRecord
      BY <2>1
    <3> QED
      BY <3>1 DEF CommitRecord
  <2>3. Committed(history[i].call)
    BY DEF Committed
  <2> QED
    BY <2>2, <2>3 DEF RefInv, RefAnswersOK, RefAnswerOK
<1> QED
  BY <1>1, RefInvariance, PTL

-----------------------------------------------------------------------------
(* The reference implementation implements AtomicCalls too.                *)

\* The abstract specification's copies of the adapter's operators.
LEMMA KnownCandidates == \A s, ops : Known!Candidates(s, ops) = Candidates(s, ops)
BY DEF Known!Candidates, Candidates, Known!Effect, Effect, Known!Source, Known!Destination, Known!Collection,
  Known!MergeInto, Known!Missing, Known!Empty, Known!Placed, Source, Destination,
  Collection, MergeInto, Missing, Empty, Placed

LEMMA KnownStatus ==
  \A s, a, op, f : Known!ApplyStatus(s, a, op, f) = ApplyStatus(s, a, op, f)
BY DEF Known!ApplyStatus, ApplyStatus, RefStatus, Known!RefStatus,
  Known!ExpectedRevision, ExpectedRevision, Known!ConflictingExpectations,
  ConflictingExpectations, Known!BranchStatus, BranchStatus, Blocked, Known!Blocked,
  Source, Destination, Known!Source, Known!Destination, KeysOf, Known!KeysOf

\* What the callers know of all calls.
KnownStates == [c \in Requests |-> KnownState(c)]

\* A call that a step leaves alone looks the same.
LEMMA KnownKept ==
  ASSUME NEW c \in Requests, call'[c] = call[c], Committed(c)' <=> Committed(c)
  PROVE  KnownState(c)' = KnownState(c)
BY DEF KnownState, CallState

\* So does one that goes on, until it commits.
LEMMA KnownGoes ==
  ASSUME NEW c \in Requests, Goes(c), Committed(c)' <=> Committed(c)
  PROVE  KnownState(c)' = KnownState(c)
<1>1. /\ call[c].phase \notin {"idle", "returned"} /\ call'[c].phase \notin {"idle", "returned"}
  BY RefNames DEF Goes
<1> QED
  BY <1>1 DEF KnownState, CallState

\* And one that leaves because it is interrupted.
LEMMA KnownInterrupted ==
  ASSUME NEW c \in Requests, NEW t, Leaves(t, c, "Interrupted"),
         Committed(c)' <=> Committed(c)
  PROVE  KnownState(c)' = KnownState(c)
<1>1. /\ call[c].phase \notin {"idle", "returned"}
      /\ call'[c].phase = "returned" /\ call'[c].status = "Interrupted"
  BY RefNames DEF Leaves
<1> QED
  BY <1>1 DEF KnownState, CallState

\* If every call looks the same, so do all of them together.
LEMMA KnownStatesKept ==
  ASSUME \A d \in Requests : KnownState(d)' = KnownState(d)
  PROVE  KnownStates' = KnownStates
BY DEF KnownStates

\* If one call changes its looks, the others do not.
LEMMA KnownStatesMove ==
  ASSUME NEW c \in Requests, NEW x, KnownState(c)' = x,
         \A d \in Requests \ {c} : KnownState(d)' = KnownState(d)
  PROVE  KnownStates' = [KnownStates EXCEPT ![c] = x]
BY DEF KnownStates

\* What the abstract actions say in the service's own terms.
LEMMA KnownActions ==
  ASSUME NEW c \in Requests, UNCHANGED store,
         \A d \in Requests \ {c} : KnownState(d)' = KnownState(d),
         \/ KnownState(c) = "idle" /\ KnownState(c)' = "open"
         \/ KnownState(c) = "effected" /\ KnownState(c)' = "ok"
         \/ KnownState(c) = "idle" /\ Ops(c) = <<>> /\ KnownState(c)' = "ok"
         \/ KnownState(c) \in {"idle", "open"} /\ KnownState(c)' = "refused"
  PROVE  Known!Next
<1>1. KnownStates[c] = KnownState(c)
  BY DEF KnownStates
<1>2. \A x : KnownState(c)' = x => KnownStates' = [KnownStates EXCEPT ![c] = x]
  BY KnownStatesMove
<1>3. CASE KnownState(c) = "idle" /\ KnownState(c)' = "open"
  <2>1. KnownStates[c] = "idle" /\ KnownStates' = [KnownStates EXCEPT ![c] = "open"]
    BY <1>1, <1>2, <1>3
  <2>2. Known!Open(c)
    BY <2>1 DEF Known!Open, KnownStates
  <2> QED
    BY <2>2 DEF Known!Next
<1>4. CASE KnownState(c) = "effected" /\ KnownState(c)' = "ok"
  <2>1. KnownStates[c] = "effected" /\ KnownStates' = [KnownStates EXCEPT ![c] = "ok"]
    BY <1>1, <1>2, <1>4
  <2>2. Known!CloseEffected(c)
    BY <2>1 DEF Known!CloseEffected, KnownStates
  <2> QED
    BY <2>2 DEF Known!Next
<1>5. CASE KnownState(c) = "idle" /\ Ops(c) = <<>> /\ KnownState(c)' = "ok"
  <2>1. KnownStates[c] = "idle" /\ KnownStates' = [KnownStates EXCEPT ![c] = "ok"]
    BY <1>1, <1>2, <1>5
  <2>2. Known!CloseEmpty(c)
    BY <1>5, <2>1 DEF Known!CloseEmpty, KnownStates
  <2> QED
    BY <2>2 DEF Known!Next
<1>6. CASE KnownState(c) \in {"idle", "open"} /\ KnownState(c)' = "refused"
  <2>1. /\ KnownStates[c] \in {"idle", "open"}
        /\ KnownStates' = [KnownStates EXCEPT ![c] = "refused"]
    BY <1>1, <1>2, <1>6
  <2>2. Known!Refuse(c)
    BY <2>1 DEF Known!Refuse, KnownStates
  <2> QED
    BY <2>2 DEF Known!Next
<1> QED
  BY <1>3, <1>4, <1>5, <1>6

\* A commit is the instant at which the abstract call takes effect.
LEMMA KnownEffect ==
  ASSUME NEW c \in Requests, KnownState(c) = "open", KnownState(c)' = "effected",
         \A d \in Requests \ {c} : KnownState(d)' = KnownState(d),
         store' = Candidates(store, Ops(c))[Len(Ops(c))],
         \A i \in DOMAIN Ops(c) :
           ApplyStatus(Candidates(store, Ops(c))[i - 1], Targets, Ops(c)[i], Body[c].force)
             = "Applied"
  PROVE  Known!Next
<1>1. Known!Succeeds(c)
  BY KnownCandidates, KnownStatus DEF Known!Succeeds
<1>2. store' = Known!Candidates(store, Ops(c))[Len(Ops(c))]
  BY KnownCandidates
<1>3. KnownStates[c] = "open" /\ KnownStates' = [KnownStates EXCEPT ![c] = "effected"]
  BY KnownStatesMove DEF KnownStates
<1>4. Known!TakeEffect(c)
  BY <1>1, <1>2, <1>3 DEF Known!TakeEffect, KnownStates
<1> QED
  BY <1>4 DEF Known!Next

\* The adapter of the reference implementation does not compare the two
\* revisions an operation may expect, but the validation of the call has.
LEMMA ReferenceAppliedAnywhere ==
  ASSUME available \subseteq Targets, NEW c \in Requests, Admission(c) = "Applied",
         NEW i \in 1..Len(Ops(c)), NEW s,
         ReferenceStatus(s, Ops(c)[i], Body[c].force) = "Applied"
  PROVE  ApplyStatus(s, Targets, Ops(c)[i], Body[c].force) = "Applied"
<1>1. ValidationStatus(c) = "Applied"
  BY DEF Admission
<1>2. OperationStatus(Ops(c)[i], Body[c].context, Body[c].service) = "Applied"
  BY <1>1, ValidationCoversAll
<1>3. ~ ConflictingExpectations(Ops(c)[i])
  BY <1>2 DEF OperationStatus
<1> QED
  BY <1>3 DEF ReferenceStatus, ApplyStatus, RefStatus

\* The write is a step of the abstract calls, or fails.
LEMMA WriteRefines ==
  ASSUME RefInv, NEW t \in Threads, NEW c, c = running[t], WriteUnderGuard(t)
  PROVE  Known!Next \/ (KnownStates' = KnownStates /\ store' = store)
<1> DEFINE after == Candidates(store, Ops(c))[Len(Ops(c))]
<1>1. RefTypeOK /\ RefAnswersOK /\ available \subseteq Targets
  BY DEF RefInv, RefTypeOK
<1>2. /\ c \in Requests /\ Goes(c)
      /\ call[c].phase = "locked" /\ call'[c].phase = "after"
      /\ \/ /\ Commit(c, after)
            /\ \A i \in 1..Len(Ops(c)) :
                 ReferenceStatus(Candidates(store, Ops(c))[i - 1], Ops(c)[i], Body[c].force)
                   = "Applied"
         \/ UNCHANGED <<store, history>>
  BY <1>1, RefWriteMoves
<1>3. \A d \in Requests \ {c} : (Committed(d)' <=> Committed(d)) /\ call'[d] = call[d]
  BY <1>1, <1>2, RefAnswerWrites DEF Goes, RefOnlyCall
<1>4. \A d \in Requests \ {c} : KnownState(d)' = KnownState(d)
  BY <1>3, KnownKept
<1>5. ~ Committed(c) /\ Admission(c) = "Applied"
  BY <1>1, <1>2 DEF RefAnswersOK, RefAnswerOK, Unwritten, Goes
<1>6. CASE /\ Commit(c, after)
           /\ \A i \in 1..Len(Ops(c)) :
                ReferenceStatus(Candidates(store, Ops(c))[i - 1], Ops(c)[i], Body[c].force)
                  = "Applied"
  <2>1. Committed(c)'
    <3> HIDE DEF after
    <3> QED
      BY <1>1, <1>2, <1>6, RefCommittedBy
  <2>2. KnownState(c) = "open" /\ KnownState(c)' = "effected"
    BY <1>2, <1>5, <2>1 DEF KnownState, CallState
  <2>3. \A i \in 1..Len(Ops(c)) :
          ApplyStatus(Candidates(store, Ops(c))[i - 1], Targets, Ops(c)[i], Body[c].force)
            = "Applied"
    BY <1>1, <1>2, <1>5, <1>6, ReferenceAppliedAnywhere
  <2>4. DOMAIN Ops(c) = 1..Len(Ops(c))
    BY <1>2, RequestFacts
  <2>5. store' = after
    BY <1>6 DEF Commit
  <2> QED
    BY <1>2, <1>4, <2>2, <2>3, <2>4, <2>5, KnownEffect
<1>7. CASE UNCHANGED <<store, history>>
  <2>1. KnownState(c)' = KnownState(c)
    BY <1>2, <1>7, CommittedKept, KnownGoes
  <2> QED
    BY <1>4, <1>7, <2>1, KnownStatesKept
<1> QED
  BY <1>2, <1>6, <1>7

\* A call that goes on without writing looks the same, and so do the others.
LEMMA ReadingRefines ==
  ASSUME NEW c \in Requests, Goes(c), UNCHANGED <<store, history>>
  PROVE  KnownStates' = KnownStates /\ store' = store
<1>1. \A d \in Requests : Committed(d)' <=> Committed(d)
  BY CommittedKept
<1>2. \A d \in Requests \ {c} : KnownState(d)' = KnownState(d)
  BY <1>1, KnownKept DEF Goes, RefOnlyCall
<1>3. KnownState(c)' = KnownState(c)
  BY <1>1, KnownGoes
<1> QED
  BY <1>2, <1>3, KnownStatesKept

\* A call that leaves is closed as it deserves, or was interrupted.
LEMMA LeavingRefines ==
  ASSUME RefInv, NEW t \in Threads, NEW c \in Requests, NEW status,
         Leaves(t, c, status), NothingWritten,
         \/ call[c].phase \in Unwritten /\ status # "Applied"
         \/ call[c].phase = "audit" /\ status = call[c].status
  PROVE  Known!Next \/ (KnownStates' = KnownStates /\ store' = store)
<1>1. /\ \A d \in Requests : Committed(d)' <=> Committed(d)
      /\ store' = store
  BY CommittedKept DEF NothingWritten
<1>2. /\ \A d \in Requests \ {c} : call'[d] = call[d]
      /\ call[c].phase \in RefActive /\ call'[c].phase = "returned" /\ call'[c].status = status
  BY DEF Leaves, RefOnlyCall
<1>3. \A d \in Requests \ {c} : KnownState(d)' = KnownState(d)
  BY <1>1, <1>2, KnownKept
<1>4. /\ Committed(c) => call[c].phase = "audit" /\ status \in {"Applied", "Interrupted"}
      /\ status = "Applied" => Committed(c)
  BY DEF RefInv, RefAnswersOK, RefAnswerOK
<1>5. CASE status = "Interrupted"
  <2>1. KnownState(c)' = KnownState(c)
    BY <1>1, <1>5, KnownInterrupted
  <2> QED
    BY <1>1, <1>3, <2>1, KnownStatesKept
<1>6. CASE status # "Interrupted"
  <2>1. KnownState(c) = (IF Committed(c) THEN "effected" ELSE "open")
    BY <1>2, RefNames DEF KnownState, CallState
  <2>2. KnownState(c)' = (IF status = "Applied" THEN "ok" ELSE "refused")
    BY <1>2, <1>6 DEF KnownState, CallState
  <2>3. \/ KnownState(c) = "effected" /\ KnownState(c)' = "ok"
        \/ KnownState(c) = "open" /\ KnownState(c)' = "refused"
    BY <1>4, <1>6, <2>1, <2>2
  <2> QED
    BY <1>1, <1>3, <2>3, KnownActions
<1> QED
  BY <1>5, <1>6

\* The running call's step is a step or a stutter of the abstract calls.
LEMMA ReferenceAdvanceRefines ==
  ASSUME RefInv, NEW t \in Threads, ReferenceAdvance(t)
  PROVE  Known!Next \/ (KnownStates' = KnownStates /\ store' = store)
<1> SUFFICES ASSUME NEW c, c = running[t]
             PROVE  Known!Next \/ (KnownStates' = KnownStates /\ store' = store)
  OBVIOUS
<1>1. RefTypeOK /\ CapturesOK /\ RefAnswersOK
  BY DEF RefInv
<1>2. CASE c \in Requests /\ Goes(c) /\ UNCHANGED <<store, history>>
  BY <1>2, ReadingRefines
<1>3. CASE ReferencePreflight(t)
  <2>1. /\ c \in Requests /\ NothingWritten /\ call[c].phase = "preflight"
        /\ Goes(c) \/ \E status \in Statuses \ {"Applied"} : Leaves(t, c, status)
    BY <1>1, <1>3, RefPreflightMoves
  <2> QED
    BY <1>2, <2>1, LeavingRefines DEF Unwritten, NothingWritten
<1>4. CASE ListenerInterrupts(t)
  <2>1. /\ c \in Requests /\ NothingWritten
        /\ Goes(c) \/ (call[c].phase = "before" /\ Leaves(t, c, "Interrupted"))
    BY <1>1, <1>4, RefInterruptMoves
  <2> QED
    BY <1>2, <2>1, LeavingRefines DEF Unwritten, NothingWritten
<1>5. CASE Reply(t)
  <2>1. /\ c \in Requests /\ NothingWritten /\ Leaves(t, c, call[c].status)
        /\ call[c].phase = "audit"
    BY <1>1, <1>5, RefReplyMoves
  <2> QED
    BY <2>1, LeavingRefines
<1>6. CASE WriteUnderGuard(t)
  BY <1>6, WriteRefines
<1>7. CASE Dispatch(t)
  BY <1>1, <1>2, <1>7, RefDispatchMoves DEF NothingWritten
<1>8. CASE LockService(t) \/ CheckUnderGuard(t)
  BY <1>1, <1>2, <1>8, RefLockMoves, RefCheckMoves DEF NothingWritten
<1>9. CASE ListenerReturns(t) \/ ListenerDecides(t) \/ ListenerThrows(t) \/ ListenerEdits(t)
  BY <1>1, <1>2, <1>9, RefListenerMoves DEF NothingWritten
<1>10. CASE Cancel(t) \/ PublishMigrated(t) \/ BeginAudit(t)
  BY <1>1, <1>2, <1>10, RefCancelMoves, RefMigratedMoves, RefBeginAuditMoves DEF NothingWritten
<1>11. CASE Audit(t)
  BY <1>1, <1>2, <1>11, RefAuditMoves
<1> QED
  BY <1>3, <1>4, <1>5, <1>6, <1>7, <1>8, <1>9, <1>10, <1>11 DEF ReferenceAdvance, SharedStep

\* So is the begin of a call, and an answer given from the request alone.
LEMMA ReferenceEntryRefines ==
  ASSUME RefInv, NEW t \in Threads, NEW c \in Requests, ReturnAtOnce(t, c) \/ Begin(t, c)
  PROVE  Known!Next
<1>1. RefTypeOK
  BY DEF RefInv
<1>2. /\ NothingWritten /\ \A d \in Requests \ {c} : call'[d] = call[d]
      /\ call[c].phase = "idle"
      /\ \/ call'[c].phase = "preflight"
         \/ /\ call'[c].phase = "returned" /\ call'[c].status # "Interrupted"
            /\ call'[c].status = "Applied" <=> Ops(c) = <<>>
  <2>1. "Interrupted" \notin Statuses
    BY DEF Statuses
  <2>2. CASE Begin(t, c)
    BY <1>1, <2>2, RefBeginMoves DEF RefOnlyCall
  <2>3. CASE ReturnAtOnce(t, c)
    BY <1>1, <2>1, <2>3, RefAtOnceMoves DEF RefOnlyCall
  <2> QED
    BY <2>2, <2>3
<1>3. store' = store /\ \A d \in Requests : Committed(d)' <=> Committed(d)
  BY <1>2, CommittedKept DEF NothingWritten
<1>4. \A d \in Requests \ {c} : KnownState(d)' = KnownState(d)
  BY <1>2, <1>3, KnownKept
<1>5. KnownState(c) = "idle" /\ ~ Committed(c)
  BY <1>2 DEF KnownState, CallState, RefInv, RefAnswersOK, RefAnswerOK, Unwritten
<1>6. \/ KnownState(c)' = "open" \/ KnownState(c)' = "refused"
      \/ KnownState(c)' = "ok" /\ Ops(c) = <<>>
  BY <1>2, <1>3, <1>5 DEF KnownState, CallState
<1> QED
  BY <1>3, <1>4, <1>5, <1>6, KnownActions

\* Every step of the reference implementation is a step or a stutter.
LEMMA ReferenceStepRefines ==
  RefInv /\ [RefNext]_refvars => [Known!Next]_(Known!vars)
<1> SUFFICES ASSUME RefInv, [RefNext]_refvars
             PROVE  Known!Next \/ (KnownStates' = KnownStates /\ store' = store)
  BY DEF Known!vars, KnownStates
<1>1. CASE UNCHANGED <<store, call, history>>
  <2>1. \A d \in Requests : KnownState(d)' = KnownState(d)
    BY <1>1, CommittedKept, KnownKept
  <2> QED
    BY <1>1, <2>1, KnownStatesKept
<1>2. ASSUME NEW t \in Threads, ReferenceAdvance(t)
      PROVE  Known!Next \/ (KnownStates' = KnownStates /\ store' = store)
  BY <1>2, ReferenceAdvanceRefines
<1>3. ASSUME NEW t \in Threads, NEW c \in Requests, ReturnAtOnce(t, c) \/ Begin(t, c)
      PROVE  Known!Next
  BY <1>3, ReferenceEntryRefines
<1> QED
  BY <1>1, <1>2, <1>3 DEF RefNext, SetTargetAvailable, Terminated, vars, refvars

\* The calls of the reference implementation are atomic too, and those that
\* return are answered truthfully; one that a listener interrupts is not
\* answered, but has taken effect at one instant or not at all (apply and
\* transact of python/.../service.py).
THEOREM ReferenceIsAtomic == RefSpec => ReferenceCallsAreAtomic
<1>1. RefInit => Known!Init
  <2> SUFFICES ASSUME RefInit PROVE Known!Init
    OBVIOUS
  <2>1. \A c \in Requests : KnownState(c) = "idle"
    BY DEF RefInit, Init, KnownState, CallState, Idle
  <2>2. [c \in Requests |-> KnownState(c)] = [c \in Requests |-> "idle"]
    BY <2>1
  <2> QED
    BY <2>2 DEF RefInit, Init, Known!Init
<1> QED
  BY <1>1, ReferenceStepRefines, RefInvariance, PTL
     DEF RefSpec, ReferenceCallsAreAtomic, Known!Spec
=============================================================================
