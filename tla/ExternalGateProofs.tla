-------------------------- MODULE ExternalGateProofs --------------------------
(***************************************************************************)
(* What the gate for external mutations guarantees, for any hooks,         *)
(* platforms, listeners and limit.                                         *)
(***************************************************************************)
EXTENDS ExternalGate, PropertyStoreProofs

-----------------------------------------------------------------------------
(* Types.                                                                  *)

HookPhases ==
  {"idle", "asking", "limits", "before", "decided", "after", "migrated", "audit", "done"}

GateStatuses ==
  StatusesOfApply \cup {"Unsupported", "PermissionDenied", "InvalidKey", "Cancelled"}

SnapshotRecord == [ref : CollectionRef, snapshot : Snapshot]

GateRecord ==
  [phase : HookPhases, at : Nat, cancelled : BOOLEAN, failed : BOOLEAN, lost : BOOLEAN,
   decision : {"ObserveOnly", "Cancel", "Allow"}, status : GateStatuses,
   before : SUBSET SnapshotRecord, after : SUBSET SnapshotRecord]

ExternalRecord ==
  [hook : Hooks, status : GateStatuses,
   before : SUBSET SnapshotRecord, after : SUBSET SnapshotRecord]

WriteRecord == [status : GateStatuses, before : Store, after : Store]

\* Every variable has its type.
TypeOK ==
  /\ platform \in Platforms
  /\ store \in Store
  /\ lease \in Hooks \cup {NoHook}
  /\ gate \in [Hooks -> GateRecord]
  /\ audits \in Seq(ExternalRecord)
  /\ writes \in [Hooks -> Seq(WriteRecord)]

\* The request of a hook.
LEMMA HookFacts ==
  ASSUME NEW h \in Hooks
  PROVE  /\ h # NoHook
         /\ Op(h) \in Operation
         /\ Body[h].cancellable \in BOOLEAN
         /\ Refs(h) = {Source(Op(h)), Destination(Op(h))}
         /\ Refs(h) \in SUBSET CollectionRef
<1>1. /\ h # NoHook
      /\ Body[h] \in [operation : Operation, cancellable : BOOLEAN, permitted : BOOLEAN]
  BY GateAssumption
<1>2. Op(h) \in Operation /\ Body[h].cancellable \in BOOLEAN
  BY <1>1 DEF Op
<1>3. Refs(h) = {Source(Op(h)), Destination(Op(h))}
  BY DEF Refs, InvolvedRefs
<1> QED
  BY <1>1, <1>2, <1>3, OperationRefs

\* The snapshots of a hook's collections are well formed.
LEMMA SnapshotsType ==
  ASSUME NEW h \in Hooks, NEW s \in Store
  PROVE  Snapshots(s, Refs(h)) \in SUBSET SnapshotRecord
BY HookFacts DEF Snapshots, SnapshotRecord, Store

\* What the original function reports and leaves behind.
LEMMA OriginalType ==
  ASSUME NEW h \in Hooks, store \in Store
  PROVE  BranchStatus(store, Op(h)) \in GateStatuses /\ Effect(store, Op(h)) \in Store
<1>1. Op(h) \in Operation
  BY HookFacts
<1>2. BranchStatus(store, Op(h)) \in StatusesOfApply
  BY <1>1, BranchStatusType
<1>3. Effect(store, Op(h)) \in Store
  BY <1>1, OperationFollows DEF Follows
<1> QED
  BY <1>2, <1>3 DEF GateStatuses

\* Hooks begin well formed.
LEMMA IdleGateType == Idle \in GateRecord
BY DEF Idle, GateRecord, HookPhases, GateStatuses

-----------------------------------------------------------------------------
(* The steps of a hook.                                                    *)

\* Only the record of this hook changes, and its flags do not.
OnlyHook(h) ==
  /\ gate' \in [Hooks -> GateRecord]
  /\ \A g \in Hooks \ {h} : gate'[g] = gate[g]

FlagsKept(h) ==
  gate'[h].cancelled = gate[h].cancelled /\ gate'[h].failed = gate[h].failed

LossKept(h) == gate'[h].lost = gate[h].lost

\* Writing the record of one hook.
LEMMA RecordWritten ==
  ASSUME TypeOK, NEW h \in Hooks, NEW record \in GateRecord,
         gate' = [gate EXCEPT ![h] = record]
  PROVE  OnlyHook(h) /\ gate'[h] = record
BY DEF TypeOK, OnlyHook

\* The gate answers.
LEMMA DecideMoves ==
  ASSUME TypeOK, NEW h \in Hooks, NEW decision \in {"ObserveOnly", "Cancel", "Allow"},
         NEW status \in GateStatuses, Decide(h, decision, status)
  PROVE  /\ OnlyHook(h) /\ FlagsKept(h) /\ LossKept(h)
         /\ gate'[h].phase = "decided" /\ gate'[h].decision = decision
<1> DEFINE record == [gate[h] EXCEPT !.phase = "decided", !.decision = decision,
                                     !.status = status]
<1>1. gate[h] \in GateRecord
  BY DEF TypeOK
<1>2. /\ record \in GateRecord /\ record.phase = "decided" /\ record.decision = decision
      /\ record.cancelled = gate[h].cancelled /\ record.failed = gate[h].failed
      /\ record.lost = gate[h].lost
  BY <1>1 DEF GateRecord, HookPhases
<1>3. gate' = [gate EXCEPT ![h] = record]
  BY DEF Decide, TypeOK
<1> HIDE DEF record
<1> QED
  BY <1>2, <1>3, RecordWritten DEF FlagsKept, LossKept

\* The hook goes on to another phase, its answer and its flags stay.
LEMMA PhaseMoves ==
  ASSUME TypeOK, NEW h \in Hooks, NEW phase \in HookPhases,
         \/ gate' = [gate EXCEPT ![h].phase = phase]
         \/ gate' = [gate EXCEPT ![h].phase = phase, ![h].at = 1]
  PROVE  /\ OnlyHook(h) /\ FlagsKept(h) /\ LossKept(h)
         /\ gate'[h].phase = phase /\ gate'[h].decision = gate[h].decision
         /\ gate'[h].status = gate[h].status
         /\ gate'[h].before = gate[h].before /\ gate'[h].after = gate[h].after
<1>1. gate[h] \in GateRecord
  BY DEF TypeOK
<1>2. CASE gate' = [gate EXCEPT ![h].phase = phase]
  <2> DEFINE record == [gate[h] EXCEPT !.phase = phase]
  <2>1. /\ record \in GateRecord /\ record.phase = phase
        /\ record.decision = gate[h].decision /\ record.status = gate[h].status
        /\ record.before = gate[h].before /\ record.after = gate[h].after
        /\ record.cancelled = gate[h].cancelled /\ record.failed = gate[h].failed
        /\ record.lost = gate[h].lost
    BY <1>1 DEF GateRecord
  <2>2. gate' = [gate EXCEPT ![h] = record]
    BY <1>2 DEF TypeOK
  <2> HIDE DEF record
  <2> QED
    BY <2>1, <2>2, RecordWritten DEF FlagsKept, LossKept
<1>3. CASE gate' = [gate EXCEPT ![h].phase = phase, ![h].at = 1]
  <2> DEFINE record == [gate[h] EXCEPT !.phase = phase, !.at = 1]
  <2>1. /\ record \in GateRecord /\ record.phase = phase
        /\ record.decision = gate[h].decision /\ record.status = gate[h].status
        /\ record.before = gate[h].before /\ record.after = gate[h].after
        /\ record.cancelled = gate[h].cancelled /\ record.failed = gate[h].failed
        /\ record.lost = gate[h].lost
    BY <1>1 DEF GateRecord
  <2>2. gate' = [gate EXCEPT ![h] = record]
    BY <1>3 DEF TypeOK
  <2> HIDE DEF record
  <2> QED
    BY <2>1, <2>2, RecordWritten DEF FlagsKept, LossKept
<1> QED
  BY <1>2, <1>3

\* What a listener does to the record of its hook, seen from the answer.
Kept(h, record) ==
  /\ record \in GateRecord
  /\ record.phase = gate[h].phase /\ record.decision = gate[h].decision
  /\ record.status = gate[h].status /\ record.lost = gate[h].lost
  /\ record.before = gate[h].before /\ record.after = gate[h].after

\* The next listener is called, and a flag may be another.
LEMMA KeptByListener ==
  ASSUME TypeOK, NEW h \in Hooks, NEW record, NEW flag \in BOOLEAN,
         \/ record = [gate[h] EXCEPT !.at = @ + 1]
         \/ record = [gate[h] EXCEPT !.at = @ + 1, !.cancelled = flag]
         \/ record = [gate[h] EXCEPT !.at = @ + 1, !.failed = flag]
  PROVE  Kept(h, record)
<1>1. gate[h] \in GateRecord /\ gate[h].at + 1 \in Nat
  BY DEF TypeOK, GateRecord
<1> QED
  BY <1>1 DEF GateRecord, Kept

\* A listener returns, decides or throws; only before the write does that
\* count.
LEMMA ListenerMoves ==
  ASSUME TypeOK, NEW h \in Hooks, ListenerReturns(h) \/ ListenerDecides(h) \/ ListenerThrows(h)
  PROVE  /\ UNCHANGED <<platform, store, lease, audits, writes>>
         /\ OnlyHook(h) /\ LossKept(h)
         /\ gate[h].phase \in Publishing /\ gate'[h].phase = gate[h].phase
         /\ gate'[h].decision = gate[h].decision /\ gate'[h].status = gate[h].status
         /\ gate'[h].before = gate[h].before /\ gate'[h].after = gate[h].after
         /\ gate[h].phase # "before" => FlagsKept(h)
<1>1. gate[h] \in GateRecord /\ gate \in [Hooks -> GateRecord]
  BY DEF TypeOK
<1>2. /\ UNCHANGED <<platform, store, lease, audits, writes>> /\ gate[h].phase \in Publishing
      /\ \E record \in GateRecord :
           /\ gate' = [gate EXCEPT ![h] = record] /\ Kept(h, record)
           /\ gate[h].phase # "before" =>
                record.cancelled = gate[h].cancelled /\ record.failed = gate[h].failed
  <2>1. CASE ListenerReturns(h)
    <3> DEFINE record == [gate[h] EXCEPT !.at = @ + 1]
    <3>1. Kept(h, record)
      BY KeptByListener
    <3>2. gate' = [gate EXCEPT ![h] = record]
      BY <1>1, <2>1 DEF ListenerReturns
    <3>3. record.cancelled = gate[h].cancelled /\ record.failed = gate[h].failed
      BY <1>1 DEF GateRecord
    <3> HIDE DEF record
    <3> QED
      BY <2>1, <3>1, <3>2, <3>3 DEF ListenerReturns, InListener, Kept
  <2>2. CASE ListenerDecides(h)
    <3>1. PICK flag \in BOOLEAN : gate' = [gate EXCEPT ![h].at = @ + 1, ![h].cancelled = flag]
      BY <2>2 DEF ListenerDecides
    <3> DEFINE record == [gate[h] EXCEPT !.at = @ + 1, !.cancelled = flag]
    <3>2. Kept(h, record)
      BY KeptByListener
    <3>3. gate' = [gate EXCEPT ![h] = record]
      BY <1>1, <3>1
    <3> HIDE DEF record
    <3> QED
      BY <2>2, <3>2, <3>3 DEF ListenerDecides, InListener, Kept
  <2>3. CASE ListenerThrows(h)
    <3> DEFINE flag == gate[h].failed \/ gate[h].phase = "before"
               record == [gate[h] EXCEPT !.at = @ + 1, !.failed = flag]
    <3>1. gate' = [gate EXCEPT ![h] = record]
      BY <1>1, <2>3 DEF ListenerThrows
    <3>2. flag \in BOOLEAN
      OBVIOUS
    <3>3. gate[h].failed \in BOOLEAN
      BY <1>1 DEF GateRecord
    <3>4. gate[h].phase # "before" => flag = gate[h].failed
      BY <3>3
    <3> HIDE DEF flag
    <3>5. Kept(h, record)
      BY <3>2, KeptByListener
    <3>6. record.cancelled = gate[h].cancelled /\ record.failed = flag
      BY <1>1, <3>2 DEF GateRecord
    <3> HIDE DEF record
    <3> QED
      BY <2>3, <3>1, <3>4, <3>5, <3>6 DEF ListenerThrows, InListener, Kept
  <2> QED
    BY <2>1, <2>2, <2>3
<1>3. PICK record \in GateRecord :
        /\ gate' = [gate EXCEPT ![h] = record] /\ Kept(h, record)
        /\ gate[h].phase # "before" =>
             record.cancelled = gate[h].cancelled /\ record.failed = gate[h].failed
  BY <1>2
<1>4. OnlyHook(h) /\ gate'[h] = record
  BY <1>3, RecordWritten
<1> QED
  BY <1>2, <1>3, <1>4 DEF FlagsKept, LossKept, Kept

\* The original function runs, and what it did is noted.
LEMMA OriginalMoves ==
  ASSUME TypeOK, NEW h \in Hooks, Original(h)
  PROVE  LET status == BranchStatus(store, Op(h)) IN
         /\ gate[h].phase = "decided" /\ gate[h].decision # "Cancel"
         /\ store' \in Store
         /\ store' = IF status = "Applied" THEN Effect(store, Op(h)) ELSE store
         /\ UNCHANGED <<platform, lease, audits>>
         /\ OnlyHook(h) /\ FlagsKept(h) /\ LossKept(h)
         /\ gate'[h].phase = "after" /\ gate'[h].status = status
         /\ gate'[h].before = Snapshots(store, Refs(h))
         /\ gate'[h].after = Snapshots(store', Refs(h))
         /\ writes' \in [Hooks -> Seq(WriteRecord)]
         /\ \A g \in Hooks \ {h} : writes'[g] = writes[g]
         /\ writes'[h] =
              Append(writes[h], [status |-> status, before |-> store, after |-> store'])
<1> DEFINE status == BranchStatus(store, Op(h))
           after == IF status = "Applied" THEN Effect(store, Op(h)) ELSE store
           was == Snapshots(store, Refs(h))
           is == Snapshots(after, Refs(h))
           entry == [status |-> status, before |-> store, after |-> after]
           record == [gate[h] EXCEPT !.phase = "after", !.at = 1, !.status = status,
                                     !.before = was, !.after = is]
<1>1. /\ store' = after
      /\ gate' = [gate EXCEPT ![h].phase = "after", ![h].at = 1, ![h].status = status,
                              ![h].before = was, ![h].after = is]
      /\ writes' = [writes EXCEPT ![h] = Append(@, entry)]
      /\ UNCHANGED <<platform, lease, audits>>
      /\ gate[h].phase = "decided" /\ gate[h].decision # "Cancel"
  BY DEF Original, Withheld
<1>2. status \in GateStatuses /\ after \in Store
  BY OriginalType DEF TypeOK
<1> HIDE DEF status
<1>3. is = Snapshots(store', Refs(h)) /\ entry = [status |-> status, before |-> store, after |-> store']
      /\ store' = IF status = "Applied" THEN Effect(store, Op(h)) ELSE store
  BY <1>1
<1> HIDE DEF after
<1>4. was \in SUBSET SnapshotRecord /\ is \in SUBSET SnapshotRecord
  BY <1>2, SnapshotsType DEF TypeOK
<1>5. entry \in WriteRecord
  BY <1>2 DEF WriteRecord, TypeOK
<1> HIDE DEF was, is, entry
<1>6. gate[h] \in GateRecord
  BY DEF TypeOK
<1>7. /\ record \in GateRecord
      /\ record.phase = "after" /\ record.status = status
      /\ record.before = was /\ record.after = is
      /\ record.cancelled = gate[h].cancelled /\ record.failed = gate[h].failed
      /\ record.lost = gate[h].lost
  BY <1>2, <1>4, <1>6 DEF GateRecord, HookPhases
<1>8. gate' = [gate EXCEPT ![h] = record]
  BY <1>1 DEF TypeOK
<1> HIDE DEF record
<1>9. OnlyHook(h) /\ gate'[h] = record
  BY <1>7, <1>8, RecordWritten
<1>10. /\ writes' \in [Hooks -> Seq(WriteRecord)]
       /\ \A g \in Hooks \ {h} : writes'[g] = writes[g]
       /\ writes'[h] = Append(writes[h], entry)
  BY <1>1, <1>5 DEF TypeOK
<1> QED
  BY <1>1, <1>2, <1>3, <1>7, <1>9, <1>10 DEF FlagsKept, LossKept, was, status

\* The report of a write goes to the audit, which keeps it or throws, and the
\* hook returns.
LEMMA AuditMoves ==
  ASSUME TypeOK, NEW h \in Hooks, Audit(h)
  PROVE  /\ UNCHANGED <<platform, store, writes>>
         /\ lease' = IF lease = h THEN NoHook ELSE lease
         /\ OnlyHook(h) /\ FlagsKept(h)
         /\ gate[h].phase = "audit" /\ gate'[h].phase = "done"
         /\ gate'[h].decision = gate[h].decision
         /\ Record(h) \in ExternalRecord
         /\ \/ ~ gate'[h].lost /\ audits' = Append(audits, Record(h))
            \/ gate'[h].lost /\ audits' = audits
<1>1. gate[h] \in GateRecord
  BY DEF TypeOK
<1>2. PICK lost \in {FALSE, SinkMayThrow} :
        /\ audits' = IF lost THEN audits ELSE Append(audits, Record(h))
        /\ gate' = [gate EXCEPT ![h] =
                      [Idle EXCEPT !.phase = "done", !.cancelled = gate[h].cancelled,
                                   !.failed = gate[h].failed, !.lost = lost,
                                   !.decision = gate[h].decision]]
  BY DEF Audit
<1> DEFINE record == [Idle EXCEPT !.phase = "done", !.cancelled = gate[h].cancelled,
                                  !.failed = gate[h].failed, !.lost = lost,
                                  !.decision = gate[h].decision]
<1>3. lost \in BOOLEAN
  BY GateAssumption
<1>4. /\ record \in GateRecord /\ record.phase = "done"
      /\ record.decision = gate[h].decision /\ record.lost = lost
      /\ record.cancelled = gate[h].cancelled /\ record.failed = gate[h].failed
  BY <1>1, <1>3, IdleGateType DEF GateRecord, HookPhases
<1>5. gate' = [gate EXCEPT ![h] = record]
  BY <1>2
<1>6. Record(h) \in ExternalRecord
  BY <1>1 DEF Record, ExternalRecord, GateRecord
<1> HIDE DEF record
<1>7. OnlyHook(h) /\ gate'[h] = record
  BY <1>4, <1>5, RecordWritten
<1>8. \/ ~ lost /\ audits' = Append(audits, Record(h))
      \/ lost /\ audits' = audits
  BY <1>2, <1>3
<1> QED
  BY <1>4, <1>6, <1>7, <1>8 DEF FlagsKept, Audit, ReturnLease

\* The write is intercepted.
LEMMA InterceptMoves ==
  ASSUME TypeOK, NEW h \in Hooks, Intercept(h)
  PROVE  /\ UNCHANGED <<platform, store, audits, writes>>
         /\ h \in platform.hooks /\ lease = NoHook
         /\ lease' = IF platform.leased THEN h ELSE NoHook
         /\ OnlyHook(h) /\ FlagsKept(h) /\ LossKept(h)
         /\ gate[h].phase = "idle" /\ gate'[h].phase = "asking"
<1>1. "asking" \in HookPhases
  BY DEF HookPhases
<1> QED
  BY <1>1, PhaseMoves DEF Intercept

\* The gate's checks before the event: an answer, or one phase further.
LEMMA CheckMoves ==
  ASSUME TypeOK, NEW h \in Hooks, Ask(h) \/ CheckLimits(h)
  PROVE  /\ UNCHANGED <<platform, store, lease, audits, writes>>
         /\ OnlyHook(h) /\ FlagsKept(h) /\ LossKept(h)
         /\ gate[h].phase \in {"asking", "limits"}
         /\ \/ /\ gate'[h].phase = "decided"
               /\ platform.observation => gate'[h].decision = Refusal(h)
            \/ /\ gate[h].phase = "asking" /\ gate'[h].phase = "limits"
               /\ RequestStatus(h) = "Applied"
            \/ gate[h].phase = "limits" /\ gate'[h].phase = "before"
<1>1. Refusal(h) \in {"ObserveOnly", "Cancel", "Allow"}
  BY DEF Refusal
<1>2. RequestStatus(h) \in GateStatuses
      /\ {"Unsupported", "InvalidValue"} \subseteq GateStatuses
      /\ "limits" \in HookPhases /\ "before" \in HookPhases
  BY DEF RequestStatus, GateStatuses, StatusesOfApply, HookPhases
<1>3. CASE Ask(h)
  <2>1. UNCHANGED <<platform, store, lease, audits, writes>> /\ gate[h].phase = "asking"
    BY <1>3 DEF Ask
  <2>2. CASE ~ platform.observation /\ Decide(h, "ObserveOnly", "Unsupported")
    BY <1>2, <2>1, <2>2, DecideMoves
  <2>3. CASE Decide(h, Refusal(h), RequestStatus(h))
    BY <1>1, <1>2, <2>1, <2>3, DecideMoves
  <2>4. CASE RequestStatus(h) = "Applied" /\ gate' = [gate EXCEPT ![h].phase = "limits"]
    BY <1>2, <2>1, <2>4, PhaseMoves
  <2> QED
    BY <1>3, <2>2, <2>3, <2>4 DEF Ask
<1>4. CASE CheckLimits(h)
  <2>1. UNCHANGED <<platform, store, lease, audits, writes>> /\ gate[h].phase = "limits"
    BY <1>4 DEF CheckLimits
  <2>2. CASE Decide(h, Refusal(h), "InvalidValue")
    BY <1>1, <1>2, <2>1, <2>2, DecideMoves
  <2>3. CASE gate' = [gate EXCEPT ![h].phase = "before", ![h].at = 1]
    BY <1>2, <2>1, <2>3, PhaseMoves
  <2> QED
    BY <1>4, <2>2, <2>3 DEF CheckLimits
<1> QED
  BY <1>3, <1>4

\* The gate's answer after the event.
LEMMA ConcludeMoves ==
  ASSUME TypeOK, NEW h \in Hooks, Conclude(h)
  PROVE  /\ UNCHANGED <<platform, store, lease, audits, writes>>
         /\ OnlyHook(h) /\ FlagsKept(h) /\ LossKept(h)
         /\ gate[h].phase = "before" /\ gate'[h].phase = "decided"
         /\ \/ gate'[h].decision = "Cancel"
            \/ ~ Stopped(h) /\ StillAccepted(h)
            \/ ~ CanCancel(h)
<1>1. Refusal(h) \in {"ObserveOnly", "Cancel", "Allow"}
      /\ (CanCancel(h) => Refusal(h) = "Cancel")
  BY DEF Refusal
<1>2. {"Unsupported", "InvalidValue", "Cancelled", "Applied"} \subseteq GateStatuses
  BY DEF GateStatuses, StatusesOfApply
<1>3. UNCHANGED <<platform, store, lease, audits, writes>> /\ gate[h].phase = "before"
  BY DEF Conclude
<1>4. \E decision \in {"ObserveOnly", "Cancel", "Allow"}, status \in GateStatuses :
        /\ Decide(h, decision, status)
        /\ decision = "Cancel" \/ (~ Stopped(h) /\ StillAccepted(h)) \/ ~ CanCancel(h)
  BY <1>1, <1>2 DEF Conclude, RefuseLate
<1> QED
  BY <1>3, <1>4, DecideMoves

\* The steps between the listeners and the audit, and past the write.
Pass(h) == Skip(h) \/ PublishMigrated(h) \/ Notified(h)

\* The hook returns without a write, or its listeners have heard of it.
LEMMA PassMoves ==
  ASSUME TypeOK, NEW h \in Hooks, Pass(h)
  PROVE  /\ UNCHANGED <<platform, store, audits, writes>>
         /\ OnlyHook(h) /\ FlagsKept(h) /\ LossKept(h)
         /\ gate'[h].decision = gate[h].decision
         /\ \/ /\ gate[h].phase = "decided" /\ gate'[h].phase = "done"
               /\ gate[h].decision = "Cancel"
               /\ lease' = IF lease = h THEN NoHook ELSE lease
            \/ /\ gate[h].phase \in {"after", "migrated"}
               /\ gate'[h].phase \in {"migrated", "audit"}
               /\ gate'[h].status = gate[h].status
               /\ gate'[h].before = gate[h].before /\ gate'[h].after = gate[h].after
               /\ UNCHANGED lease
<1>1. "done" \in HookPhases /\ "audit" \in HookPhases /\ "migrated" \in HookPhases
  BY DEF HookPhases
<1>2. CASE Skip(h)
  BY <1>1, <1>2, PhaseMoves DEF Skip, ReturnLease, Withheld
<1>3. CASE PublishMigrated(h)
  BY <1>1, <1>3, PhaseMoves DEF PublishMigrated
<1>4. CASE Notified(h)
  BY <1>1, <1>4, PhaseMoves DEF Notified
<1> QED
  BY <1>2, <1>3, <1>4 DEF Pass

\* Every step keeps the types.
LEMMA TypesInductive ==
  /\ Init => TypeOK
  /\ TypeOK /\ [Next]_vars => TypeOK'
<1>1. Init => TypeOK
  BY IdleGateType, GateAssumption DEF Init, TypeOK
<1>2. ASSUME TypeOK, [Next]_vars PROVE TypeOK'
  <2>1. CASE UNCHANGED vars
    BY <1>2, <2>1 DEF TypeOK, vars
  <2>2. ASSUME NEW h \in Hooks, Intercept(h) \/ HookStep(h) PROVE TypeOK'
    <3>1. CASE Intercept(h)
      BY <1>2, <3>1, InterceptMoves DEF TypeOK, OnlyHook
    <3>2. CASE Ask(h) \/ CheckLimits(h)
      BY <1>2, <3>2, CheckMoves DEF TypeOK, OnlyHook
    <3>3. CASE ListenerReturns(h) \/ ListenerDecides(h) \/ ListenerThrows(h)
      BY <1>2, <3>3, ListenerMoves DEF TypeOK, OnlyHook
    <3>4. CASE Conclude(h)
      BY <1>2, <3>4, ConcludeMoves DEF TypeOK, OnlyHook
    <3>5. CASE Original(h)
      BY <1>2, <3>5, OriginalMoves DEF TypeOK, OnlyHook
    <3>6. CASE Pass(h)
      BY <1>2, <3>6, PassMoves DEF TypeOK, OnlyHook
    <3>7. CASE Audit(h)
      <4>1. PICK record \in ExternalRecord : audits' \in {audits, Append(audits, record)}
        BY <1>2, <3>7, AuditMoves
      <4>2. Append(audits, record) \in Seq(ExternalRecord)
        BY <1>2 DEF TypeOK
      <4>3. audits' \in Seq(ExternalRecord)
        BY <1>2, <4>1, <4>2 DEF TypeOK
      <4> QED
        BY <1>2, <3>7, <4>3, AuditMoves DEF TypeOK, OnlyHook
    <3> QED
      BY <2>2, <3>1, <3>2, <3>3, <3>4, <3>5, <3>6, <3>7 DEF HookStep, Pass
  <2>3. ASSUME NEW op \in ApiOperations, ServiceCommits(op) PROVE TypeOK'
    <3>1. op \in Operation /\ store \in Store
      BY <1>2, GateAssumption DEF TypeOK
    <3>2. Effect(store, op) \in Store
      BY <3>1, OperationFollows DEF Follows
    <3> QED
      BY <1>2, <2>3, <3>2 DEF ServiceCommits, TypeOK
  <2> QED
    BY <1>2, <2>1, <2>2, <2>3 DEF Next
<1> QED
  BY <1>1, <1>2
-----------------------------------------------------------------------------
(* The inductive invariant.                                                *)

\* A hook between its interception and its return is installed, and holds the
\* lease where hooks keep one.
LeaseOK(h) ==
  /\ gate[h].phase # "idle" => h \in platform.hooks
  /\ platform.leased /\ gate[h].phase \notin {"idle", "done"} => lease = h

BeforeTheWrite == {"idle", "asking", "limits", "before", "decided"}

\* A listener's veto precedes the answer, and the answer obeys it.
VetoOK(h) ==
  /\ gate[h].phase \in {"idle", "asking", "limits"} =>
       ~ gate[h].cancelled /\ ~ gate[h].failed
  /\ gate[h].phase \in BeforeTheWrite => writes[h] = <<>>
  /\ gate[h].phase = "decided" /\ gate[h].decision # "Cancel" /\ CanCancel(h) =>
       ~ gate[h].cancelled /\ ~ gate[h].failed
  /\ writes[h] # <<>> /\ CanCancel(h) => ~ gate[h].cancelled /\ ~ gate[h].failed

\* What a result or a record says is what a write did.
Reports(h, report, write) ==
  /\ report.status = write.status
  /\ report.before = Snapshots(write.before, Refs(h))
  /\ report.after = Snapshots(write.after, Refs(h))

\* The result a hook carries, and then its only record, report its only write.
TrailOK(h) ==
  /\ gate[h].phase \in BeforeTheWrite => writes[h] = <<>>
  /\ gate[h].phase \in {"after", "migrated", "audit"} =>
       Len(writes[h]) = 1 /\ Reports(h, gate[h], writes[h][1])
  /\ gate[h].phase # "done" => Audited(h) = {} /\ ~ gate[h].lost
  /\ gate[h].phase = "done" =>
       \/ writes[h] = <<>> /\ Audited(h) = {} /\ ~ gate[h].lost
       \/ Len(writes[h]) = 1 /\ gate[h].lost /\ Audited(h) = {}
       \/ Len(writes[h]) = 1 /\ ~ gate[h].lost /\ \E i \in DOMAIN audits : Audited(h) = {i}
  /\ \A i \in Audited(h) : writes[h] # <<>> /\ Reports(h, audits[i], writes[h][1])

\* What the gate lets through can be written within the limit.
Admissible(h) ==
  /\ gate[h].phase \in {"limits", "before"} => ~ MovesOntoItself(Op(h))
  /\ gate[h].phase = "decided" /\ gate[h].decision # "Cancel" =>
       ~ MovesOntoItself(Op(h)) /\ ~ Exceeds(h)

WithinLimit(s) == \A r \in CollectionRef : Size(s, r) <= Limit

LimitsOK == Guarded => WithinLimit(store) /\ \A h \in Hooks : Admissible(h)

HooksOK == TypeOK /\ \A h \in Hooks : LeaseOK(h) /\ VetoOK(h) /\ TrailOK(h)

\* Only a hook's own steps touch what is said of it.
LEMMA LeaseInductive ==
  ASSUME TypeOK, Next, \A h \in Hooks : LeaseOK(h)
  PROVE  \A h \in Hooks : LeaseOK(h)'
<1>1. ASSUME NEW h \in Hooks, Intercept(h) PROVE \A g \in Hooks : LeaseOK(g)'
  <2>1. /\ h \in platform.hooks /\ lease = NoHook /\ platform' = platform
        /\ lease' = IF platform.leased THEN h ELSE NoHook
        /\ \A g \in Hooks \ {h} : gate'[g] = gate[g]
    BY <1>1, InterceptMoves DEF OnlyHook
  <2>2. \A g \in Hooks : platform.leased => gate[g].phase \in {"idle", "done"}
    BY <2>1, HookFacts DEF LeaseOK
  <2> QED
    BY <2>1, <2>2 DEF LeaseOK
<1>2. ASSUME NEW h \in Hooks, platform' = platform, lease' = lease,
             gate[h].phase \notin {"idle", "done"},
             \A g \in Hooks \ {h} : gate'[g] = gate[g]
      PROVE  \A g \in Hooks : LeaseOK(g)'
  BY <1>2 DEF LeaseOK
<1>3. ASSUME NEW h \in Hooks, platform' = platform,
             lease' = (IF lease = h THEN NoHook ELSE lease),
             gate[h].phase \notin {"idle", "done"}, gate'[h].phase = "done",
             \A g \in Hooks \ {h} : gate'[g] = gate[g]
      PROVE  \A g \in Hooks : LeaseOK(g)'
  BY <1>3 DEF LeaseOK
<1>4. ASSUME NEW h \in Hooks, HookStep(h) PROVE \A g \in Hooks : LeaseOK(g)'
  <2>1. CASE Ask(h) \/ CheckLimits(h)
    BY <1>2, <2>1, CheckMoves DEF OnlyHook
  <2>2. CASE ListenerReturns(h) \/ ListenerDecides(h) \/ ListenerThrows(h)
    BY <1>2, <2>2, ListenerMoves DEF OnlyHook, Publishing
  <2>3. CASE Conclude(h)
    BY <1>2, <2>3, ConcludeMoves DEF OnlyHook
  <2>4. CASE Original(h)
    BY <1>2, <2>4, OriginalMoves DEF OnlyHook
  <2>5. CASE Pass(h)
    BY <1>2, <1>3, <2>5, PassMoves DEF OnlyHook
  <2>6. CASE Audit(h)
    BY <1>3, <2>6, AuditMoves DEF OnlyHook
  <2> QED
    BY <1>4, <2>1, <2>2, <2>3, <2>4, <2>5, <2>6 DEF HookStep, Pass
<1>5. ASSUME NEW op \in ApiOperations, ServiceCommits(op) PROVE \A g \in Hooks : LeaseOK(g)'
  BY <1>5 DEF ServiceCommits, LeaseOK
<1> QED
  BY <1>1, <1>4, <1>5 DEF Next

\* The veto: flags are raised only while the listeners are asked, and the
\* answer looks at them.
LEMMA VetoInductive ==
  ASSUME TypeOK, Next, \A h \in Hooks : VetoOK(h)
  PROVE  \A h \in Hooks : VetoOK(h)'
<1>1. ASSUME NEW h \in Hooks, platform' = platform, writes' = writes,
             \A g \in Hooks \ {h} : gate'[g] = gate[g], VetoOK(h)'
      PROVE  \A g \in Hooks : VetoOK(g)'
  BY <1>1 DEF VetoOK, CanCancel
<1>2. ASSUME NEW h \in Hooks, Intercept(h) \/ HookStep(h)
      PROVE  \A g \in Hooks : VetoOK(g)'
  <2>1. CASE Intercept(h)
    <3>1. VetoOK(h)'
      BY <2>1, InterceptMoves DEF VetoOK, FlagsKept, CanCancel, BeforeTheWrite
    <3> QED
      BY <1>1, <2>1, <3>1, InterceptMoves DEF OnlyHook
  <2>2. CASE Ask(h) \/ CheckLimits(h)
    <3>1. VetoOK(h)'
      BY <2>2, CheckMoves DEF VetoOK, FlagsKept, CanCancel, BeforeTheWrite
    <3> QED
      BY <1>1, <2>2, <3>1, CheckMoves DEF OnlyHook
  <2>3. CASE ListenerReturns(h) \/ ListenerDecides(h) \/ ListenerThrows(h)
    <3>1. VetoOK(h)'
      BY <2>3, ListenerMoves DEF VetoOK, FlagsKept, CanCancel, BeforeTheWrite, Publishing
    <3> QED
      BY <1>1, <2>3, <3>1, ListenerMoves DEF OnlyHook
  <2>4. CASE Conclude(h)
    <3>1. VetoOK(h)'
      BY <2>4, ConcludeMoves DEF VetoOK, FlagsKept, CanCancel, BeforeTheWrite, Stopped
    <3> QED
      BY <1>1, <2>4, <3>1, ConcludeMoves DEF OnlyHook
  <2>5. CASE Original(h)
    <3>1. /\ platform' = platform /\ FlagsKept(h) /\ gate[h].phase = "decided"
          /\ gate[h].decision # "Cancel" /\ gate'[h].phase = "after"
          /\ \A g \in Hooks \ {h} : gate'[g] = gate[g] /\ writes'[g] = writes[g]
      BY <2>5, OriginalMoves DEF OnlyHook
    <3> QED
      BY <3>1 DEF VetoOK, FlagsKept, CanCancel, BeforeTheWrite
  <2>6. CASE Pass(h)
    <3>1. VetoOK(h)'
      BY <2>6, PassMoves DEF VetoOK, FlagsKept, CanCancel, BeforeTheWrite
    <3> QED
      BY <1>1, <2>6, <3>1, PassMoves DEF OnlyHook
  <2>7. CASE Audit(h)
    <3>1. VetoOK(h)'
      BY <2>7, AuditMoves DEF VetoOK, FlagsKept, CanCancel, BeforeTheWrite
    <3> QED
      BY <1>1, <2>7, <3>1, AuditMoves DEF OnlyHook
  <2> QED
    BY <1>2, <2>1, <2>2, <2>3, <2>4, <2>5, <2>6, <2>7 DEF HookStep, Pass
<1>3. ASSUME NEW op \in ApiOperations, ServiceCommits(op) PROVE \A g \in Hooks : VetoOK(g)'
  BY <1>3 DEF ServiceCommits, VetoOK, CanCancel
<1> QED
  BY <1>2, <1>3 DEF Next

\* A new record is one more of its hook, and changes no other.
LEMMA RecordAppended ==
  ASSUME TypeOK, NEW record \in ExternalRecord, audits' = Append(audits, record),
         NEW g \in Hooks
  PROVE  LET new == Len(audits) + 1 IN
         /\ new \in DOMAIN audits' /\ audits'[new] = record
         /\ \A i \in DOMAIN audits : audits'[i] = audits[i]
         /\ Audited(g)' = IF record.hook = g THEN Audited(g) \cup {new} ELSE Audited(g)
<1>1. audits \in Seq(ExternalRecord)
  BY DEF TypeOK
<1>2. /\ DOMAIN audits' = 1..(Len(audits) + 1) /\ DOMAIN audits = 1..Len(audits)
      /\ Len(audits) \in Nat
      /\ \A i \in 1..Len(audits) : audits'[i] = audits[i]
      /\ audits'[Len(audits) + 1] = record
  BY <1>1
<1>3. 1..(Len(audits) + 1) = 1..Len(audits) \cup {Len(audits) + 1}
  BY <1>2
<1> QED
  BY <1>2, <1>3 DEF Audited

\* What is reported of a write.
LEMMA TrailInductive ==
  ASSUME TypeOK, Next, \A h \in Hooks : TrailOK(h)
  PROVE  \A h \in Hooks : TrailOK(h)'
<1>1. ASSUME NEW h \in Hooks, writes' = writes, audits' = audits,
             \A g \in Hooks \ {h} : gate'[g] = gate[g], TrailOK(h)'
      PROVE  \A g \in Hooks : TrailOK(g)'
  BY <1>1 DEF TrailOK, Audited, Reports
<1>2. ASSUME NEW h \in Hooks, Intercept(h) \/ HookStep(h)
      PROVE  \A g \in Hooks : TrailOK(g)'
  <2>1. CASE Intercept(h)
    <3>1. TrailOK(h)'
      BY <2>1, InterceptMoves DEF TrailOK, Audited, Reports, BeforeTheWrite, LossKept
    <3> QED
      BY <1>1, <2>1, <3>1, InterceptMoves DEF OnlyHook
  <2>2. CASE Ask(h) \/ CheckLimits(h)
    <3>1. TrailOK(h)'
      BY <2>2, CheckMoves DEF TrailOK, Audited, Reports, BeforeTheWrite, LossKept
    <3> QED
      BY <1>1, <2>2, <3>1, CheckMoves DEF OnlyHook
  <2>3. CASE ListenerReturns(h) \/ ListenerDecides(h) \/ ListenerThrows(h)
    <3>1. TrailOK(h)'
      BY <2>3, ListenerMoves DEF TrailOK, Audited, Reports, BeforeTheWrite, LossKept, Publishing
    <3> QED
      BY <1>1, <2>3, <3>1, ListenerMoves DEF OnlyHook
  <2>4. CASE Conclude(h)
    <3>1. TrailOK(h)'
      BY <2>4, ConcludeMoves DEF TrailOK, Audited, Reports, BeforeTheWrite, LossKept
    <3> QED
      BY <1>1, <2>4, <3>1, ConcludeMoves DEF OnlyHook
  <2>5. CASE Original(h)
    <3> DEFINE entry == [status |-> BranchStatus(store, Op(h)), before |-> store, after |-> store']
    <3>1. /\ audits' = audits /\ gate[h].phase = "decided" /\ gate'[h].phase = "after"
          /\ \A g \in Hooks \ {h} : gate'[g] = gate[g] /\ writes'[g] = writes[g]
          /\ writes'[h] = Append(writes[h], entry) /\ Reports(h, gate'[h], entry)
          /\ gate'[h].lost = gate[h].lost
      BY <2>5, OriginalMoves DEF OnlyHook, Reports, LossKept
    <3> HIDE DEF entry
    <3>2. writes[h] = <<>> /\ Audited(h) = {} /\ ~ gate'[h].lost
      BY <3>1 DEF TrailOK, BeforeTheWrite
    <3>3. Len(writes'[h]) = 1 /\ writes'[h][1] = entry
      BY <3>1, <3>2
    <3>4. \A g \in Hooks : Audited(g)' = Audited(g)
      BY <3>1 DEF Audited
    <3>5. TrailOK(h)'
      BY <3>1, <3>2, <3>3, <3>4 DEF TrailOK, BeforeTheWrite, Reports
    <3>6. \A g \in Hooks \ {h} : TrailOK(g)'
      BY <3>1, <3>4 DEF TrailOK, Reports
    <3> QED
      BY <3>5, <3>6
  <2>6. CASE Pass(h)
    <3>1. TrailOK(h)'
      BY <2>6, PassMoves DEF TrailOK, Audited, Reports, BeforeTheWrite, LossKept
    <3> QED
      BY <1>1, <2>6, <3>1, PassMoves DEF OnlyHook
  <2>7. CASE Audit(h)
    <3>1. /\ writes' = writes /\ gate[h].phase = "audit" /\ gate'[h].phase = "done"
          /\ \A g \in Hooks \ {h} : gate'[g] = gate[g]
          /\ Record(h) \in ExternalRecord
          /\ \/ ~ gate'[h].lost /\ audits' = Append(audits, Record(h))
             \/ gate'[h].lost /\ audits' = audits
      BY <2>7, AuditMoves DEF OnlyHook
    <3>2. CASE gate'[h].lost /\ audits' = audits
      <4>1. TrailOK(h)'
        BY <3>1, <3>2 DEF TrailOK, Audited, Reports, BeforeTheWrite
      <4> QED
        BY <1>1, <3>1, <3>2, <4>1
    <3>3. /\ Len(writes[h]) = 1 /\ Audited(h) = {}
          /\ Record(h).hook = h /\ Reports(h, Record(h), writes[h][1])
      BY <3>1 DEF TrailOK, Record, Reports
    <3>4. CASE ~ gate'[h].lost /\ audits' = Append(audits, Record(h))
      <4>1. \A g \in Hooks \ {h} : TrailOK(g)'
        <5> SUFFICES ASSUME NEW g \in Hooks \ {h} PROVE TrailOK(g)'
          OBVIOUS
        <5>1. /\ \A i \in DOMAIN audits : audits'[i] = audits[i]
              /\ Audited(g)' = Audited(g)
              /\ DOMAIN audits \subseteq DOMAIN audits'
          BY <3>1, <3>3, <3>4, RecordAppended DEF TypeOK
        <5>2. Audited(g) \subseteq DOMAIN audits
          BY DEF Audited
        <5> QED
          BY <3>1, <3>4, <5>1, <5>2 DEF TrailOK, Reports
      <4>2. TrailOK(h)'
        <5>1. PICK new \in DOMAIN audits' : audits'[new] = Record(h) /\ Audited(h)' = {new}
          BY <3>1, <3>3, <3>4, RecordAppended
        <5>2. Reports(h, audits'[new], writes'[h][1]) /\ Len(writes'[h]) = 1 /\ writes'[h] # <<>>
          BY <3>1, <3>3, <3>4, <5>1
        <5> HIDE DEF Record
        <5> QED
          BY <3>1, <3>4, <5>1, <5>2 DEF TrailOK, BeforeTheWrite, Reports
      <4> QED
        BY <4>1, <4>2
    <3> QED
      BY <3>1, <3>2, <3>4
  <2> QED
    BY <1>2, <2>1, <2>2, <2>3, <2>4, <2>5, <2>6, <2>7 DEF HookStep, Pass
<1>3. ASSUME NEW op \in ApiOperations, ServiceCommits(op) PROVE \A g \in Hooks : TrailOK(g)'
  BY <1>3 DEF ServiceCommits, TrailOK, Audited, Reports
<1> QED
  BY <1>2, <1>3 DEF Next

\* An admissible write keeps the limit.
LEMMA WriteWithinLimit ==
  ASSUME NEW s \in Store, WithinLimit(s), NEW op \in Operation, ~ MovesOntoItself(op),
         BranchStatus(s, op) = "Applied",
         ~ ExceedsLimit([r \in InvolvedRefs(<<op>>) |-> s[r]], <<op>>, Limit)
  PROVE  WithinLimit(Effect(s, op))
<1>1. Limit \in Nat
  BY GateAssumption
<1> QED
  BY <1>1, OneOperationLimited DEF WithinLimit, Size

\* The limit: what the gate let through is what is written, since nobody else
\* writes while the hook that was told to go on holds the lease.
LEMMA LimitsInductive ==
  ASSUME TypeOK, Next, \A h \in Hooks : LeaseOK(h), LimitsOK
  PROVE  LimitsOK'
<1>1. platform' = platform
  BY DEF Next, Intercept, HookStep, Ask, CheckLimits, ListenerReturns, ListenerDecides,
         ListenerThrows, Conclude, Original, Skip, PublishMigrated, Notified, Audit, ServiceCommits
<1>2. Guarded' = Guarded
  BY <1>1 DEF Guarded, CanCancel
<1> SUFFICES ASSUME Guarded PROVE WithinLimit(store)' /\ \A g \in Hooks : Admissible(g)'
  BY <1>2 DEF LimitsOK
<1>3. WithinLimit(store) /\ \A g \in Hooks : Admissible(g)
  BY DEF LimitsOK
<1>4. /\ platform.revalidates /\ platform.observation
      /\ \A g \in Hooks : gate[g].phase \notin {"idle", "done"} => lease = g /\ CanCancel(g)
  BY DEF Guarded, LeaseOK
<1>5. ASSUME NEW h \in Hooks, store' = store, \A g \in Hooks \ {h} : gate'[g] = gate[g],
             Admissible(h)'
      PROVE  WithinLimit(store)' /\ \A g \in Hooks : Admissible(g)'
  BY <1>3, <1>5 DEF Admissible, Exceeds, WithinLimit, Size
<1>6. ASSUME NEW h \in Hooks, Intercept(h)
      PROVE  WithinLimit(store)' /\ \A g \in Hooks : Admissible(g)'
  <2>1. Admissible(h)'
    BY <1>6, InterceptMoves DEF Admissible
  <2> QED
    BY <1>5, <1>6, <2>1, InterceptMoves DEF OnlyHook
<1>7. ASSUME NEW h \in Hooks, HookStep(h)
      PROVE  WithinLimit(store)' /\ \A g \in Hooks : Admissible(g)'
  <2>1. CASE Ask(h) \/ CheckLimits(h)
    <3>1. gate'[h].phase = "decided" => gate'[h].decision = "Cancel"
      BY <1>4, <2>1, CheckMoves DEF Refusal
    <3>2. gate'[h].phase \in {"limits", "before"} => ~ MovesOntoItself(Op(h))
      BY <1>3, <2>1, CheckMoves DEF Admissible, RequestStatus
    <3>3. Admissible(h)'
      BY <3>1, <3>2 DEF Admissible
    <3> QED
      BY <1>5, <2>1, <3>3, CheckMoves DEF OnlyHook
  <2>2. CASE ListenerReturns(h) \/ ListenerDecides(h) \/ ListenerThrows(h)
    <3>1. Admissible(h)'
      BY <1>3, <2>2, ListenerMoves DEF Admissible, Publishing
    <3> QED
      BY <1>5, <2>2, <3>1, ListenerMoves DEF OnlyHook
  <2>3. CASE Conclude(h)
    <3>1. /\ store' = store /\ gate[h].phase = "before" /\ gate'[h].phase = "decided"
          /\ gate'[h].decision = "Cancel" \/ StillAccepted(h) \/ ~ CanCancel(h)
      BY <2>3, ConcludeMoves
    <3>2. gate'[h].decision = "Cancel" \/ ~ Exceeds(h)
      BY <1>4, <3>1 DEF StillAccepted
    <3>3. Admissible(h)'
      BY <1>3, <3>1, <3>2 DEF Admissible, Exceeds
    <3> QED
      BY <1>5, <2>3, <3>3, ConcludeMoves DEF OnlyHook
  <2>4. CASE Original(h)
    <3>1. /\ gate[h].phase = "decided" /\ gate'[h].phase = "after"
          /\ store' = IF BranchStatus(store, Op(h)) = "Applied" THEN Effect(store, Op(h)) ELSE store
          /\ \A g \in Hooks \ {h} : gate'[g] = gate[g]
          /\ ~ MovesOntoItself(Op(h)) /\ ~ Exceeds(h)
      BY <1>3, <2>4, OriginalMoves DEF OnlyHook, Admissible
    <3>2. Op(h) \in Operation /\ store \in Store
      BY HookFacts DEF TypeOK
    <3>3. WithinLimit(store')
      BY <1>3, <3>1, <3>2, WriteWithinLimit DEF Exceeds, Refs
    <3>4. \A g \in Hooks \ {h} : gate[g].phase \in {"idle", "done"}
      BY <1>4, <3>1
    <3>5. \A g \in Hooks : Admissible(g)'
      BY <1>3, <3>1, <3>4 DEF Admissible
    <3> QED
      BY <3>3, <3>5 DEF WithinLimit, Size
  <2>5. CASE Pass(h)
    <3>1. Admissible(h)'
      BY <2>5, PassMoves DEF Admissible
    <3> QED
      BY <1>5, <2>5, <3>1, PassMoves DEF OnlyHook
  <2>6. CASE Audit(h)
    <3>1. Admissible(h)'
      BY <2>6, AuditMoves DEF Admissible
    <3> QED
      BY <1>5, <2>6, <3>1, AuditMoves DEF OnlyHook
  <2> QED
    BY <1>7, <2>1, <2>2, <2>3, <2>4, <2>5, <2>6 DEF HookStep, Pass
<1>8. ASSUME NEW op \in ApiOperations, ServiceCommits(op)
      PROVE  WithinLimit(store)' /\ \A g \in Hooks : Admissible(g)'
  <2>1. op \in Operation /\ store \in Store
    BY GateAssumption DEF TypeOK
  <2>2. BranchStatus(store, op) = "Applied"
    BY <1>8 DEF ServiceCommits, ApplyStatus
  <2>3. WithinLimit(store')
    BY <1>3, <1>8, <2>1, <2>2, WriteWithinLimit DEF ServiceCommits
  <2>4. \A g \in Hooks : gate[g].phase # "decided" /\ gate' = gate
    BY <1>4, <1>8, HookFacts DEF ServiceCommits, InListener, Publishing
  <2>5. \A g \in Hooks : Admissible(g)'
    BY <1>3, <2>4 DEF Admissible
  <2> QED
    BY <2>3, <2>5 DEF WithinLimit, Size
<1> QED
  BY <1>6, <1>7, <1>8, SMTT(30) DEF Next

-----------------------------------------------------------------------------
(* The theorems.                                                           *)

\* What is said of the hooks is inductive, whatever the store holds at first.
LEMMA HooksInductive ==
  /\ Init => HooksOK
  /\ HooksOK /\ [Next]_vars => HooksOK'
<1>1. ASSUME Init PROVE HooksOK
  <2>1. audits = <<>> /\ \A h \in Hooks : gate[h] = Idle /\ writes[h] = <<>>
    BY <1>1 DEF Init
  <2>2. \A h \in Hooks : /\ gate[h].phase = "idle" /\ ~ gate[h].cancelled
                          /\ ~ gate[h].failed /\ ~ gate[h].lost
    BY <2>1 DEF Idle
  <2>3. \A h \in Hooks : Audited(h) = {}
    BY <2>1 DEF Audited
  <2>4. \A h \in Hooks : LeaseOK(h) /\ VetoOK(h) /\ TrailOK(h)
    BY <2>1, <2>2, <2>3 DEF LeaseOK, VetoOK, TrailOK, BeforeTheWrite
  <2> QED
    BY <1>1, <2>4, TypesInductive DEF HooksOK
<1>2. ASSUME HooksOK, Next PROVE HooksOK'
  <2>1. TypeOK /\ \A h \in Hooks : LeaseOK(h) /\ VetoOK(h) /\ TrailOK(h)
    BY <1>2 DEF HooksOK
  <2> QED
    BY <1>2, <2>1, TypesInductive, LeaseInductive, VetoInductive, TrailInductive DEF HooksOK
<1>3. ASSUME HooksOK, UNCHANGED vars PROVE HooksOK'
  <2>1. TypeOK'
    BY <1>3, TypesInductive DEF HooksOK
  <2>2. \A h \in Hooks : LeaseOK(h)'
    BY <1>3 DEF HooksOK, vars, LeaseOK
  <2>3. \A h \in Hooks : VetoOK(h)'
    BY <1>3 DEF HooksOK, vars, VetoOK, CanCancel
  <2>4. \A h \in Hooks : TrailOK(h)'
    BY <1>3 DEF HooksOK, vars, TrailOK, Audited, Reports
  <2> QED
    BY <2>1, <2>2, <2>3, <2>4 DEF HooksOK
<1> QED
  BY <1>1, <1>2, <1>3

\* Every variable keeps its type: the lease belongs to a hook or to nobody,
\* each hook's record and each audit record is well formed.
THEOREM GateTypeCorrect == Spec => []TypeOK
<1> QED
  BY TypesInductive, PTL DEF Spec

\* API.md:115: in whatever order listeners cancel, approve and throw, and in
\* whatever order the hooks are served, a write that a listener failed at, or
\* whose cancellation stands after the last listener, does not happen where the
\* hook can prevent it.
THEOREM VetoIsHonoured == Spec => []VetoHonoured
<1>1. HooksOK => VetoHonoured
  BY DEF HooksOK, VetoHonoured, VetoOK
<1> QED
  BY <1>1, HooksInductive, PTL DEF Spec

\* EXTERNAL_HOOKS.md:22-24: when a hook returns that let its write through, the
\* audit has one record of it, or none if the sink threw at that one; and the
\* record says what the write did, whoever wrote in between.
THEOREM ExternalAuditIsTruthful == Spec => []ExternalAuditTruthful
<1>1. ASSUME HooksOK, NEW h \in Hooks
      PROVE  /\ gate[h].phase = "done" =>
                  Cardinality(Audited(h)) = IF gate[h].lost THEN 0 ELSE Len(writes[h])
             /\ gate[h].lost => Len(writes[h]) = 1
             /\ \A i \in Audited(h) :
                  /\ writes[h] # <<>>
                  /\ audits[i].status = writes[h][1].status
                  /\ audits[i].before = Snapshots(writes[h][1].before, Refs(h))
                  /\ audits[i].after = Snapshots(writes[h][1].after, Refs(h))
  <2>1. TrailOK(h)
    BY <1>1 DEF HooksOK
  <2>2. writes[h] = <<>> => Len(writes[h]) = 0
    OBVIOUS
  <2>3. gate[h].lost => Len(writes[h]) = 1
    BY <2>1 DEF TrailOK
  <2>4. ASSUME gate[h].phase = "done"
        PROVE  Cardinality(Audited(h)) = IF gate[h].lost THEN 0 ELSE Len(writes[h])
    <3>1. CASE writes[h] = <<>> /\ Audited(h) = {} /\ ~ gate[h].lost
      BY <2>2, <3>1, FS_EmptySet
    <3>2. CASE gate[h].lost /\ Audited(h) = {}
      BY <3>2, FS_EmptySet
    <3>3. CASE /\ Len(writes[h]) = 1 /\ ~ gate[h].lost
               /\ \E i \in DOMAIN audits : Audited(h) = {i}
      BY <3>3, FS_Singleton
    <3> QED
      BY <2>1, <2>4, <3>1, <3>2, <3>3 DEF TrailOK
  <2> QED
    BY <2>1, <2>3, <2>4 DEF TrailOK, Reports
<1>2. HooksOK => ExternalAuditTruthful
  BY <1>1 DEF ExternalAuditTruthful
<1> QED
  BY <1>2, HooksInductive, PTL DEF Spec

\* ARCHITECTURE.md:49-51, service.cpp:719-757: in a host whose platform lets
\* the gate answer and whose stored content is within the limit, no sequence
\* of external writes and calls of the service, from listeners or from other
\* threads, takes a collection beyond it.
THEOREM ExternalWritesStayWithinLimit ==
  ASSUME WithinLimit(InitialStore)
  PROVE  Spec => []NothingExceedsLimit
<1> DEFINE IInv == HooksOK /\ LimitsOK
<1>1. Init => IInv
  <2>1. ASSUME Init PROVE LimitsOK
    <3>1. store = InitialStore /\ \A h \in Hooks : gate[h].phase = "idle"
      BY <2>1 DEF Init, Idle
    <3> QED
      BY <3>1 DEF LimitsOK, Admissible
  <2> QED
    BY <2>1, HooksInductive
<1>2. IInv /\ [Next]_vars => IInv'
  <2>1. ASSUME HooksOK, LimitsOK, Next PROVE LimitsOK'
    BY <2>1, LimitsInductive DEF HooksOK
  <2>2. ASSUME LimitsOK, UNCHANGED vars PROVE LimitsOK'
    BY <2>2 DEF vars, LimitsOK, Admissible, WithinLimit, Guarded, CanCancel, Exceeds, Size
  <2> QED
    BY <2>1, <2>2, HooksInductive
<1>3. IInv => NothingExceedsLimit
  BY DEF LimitsOK, NothingExceedsLimit, WithinLimit
<1> HIDE DEF IInv
<1> QED
  BY <1>1, <1>2, <1>3, PTL DEF Spec
=============================================================================
