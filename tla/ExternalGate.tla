----------------------------- MODULE ExternalGate -----------------------------
(***************************************************************************)
(* Mutations the service does not make: a hook of the host asks            *)
(* beforeExternalMutation, calls the platform's original function unless   *)
(* the answer is Cancel, and reports to afterExternalMutation              *)
(* (src/service.cpp, docs/EXTERNAL_HOOKS.md).  Calls of the service itself *)
(* compete with it; they are atomic steps here, which is what              *)
(* DynamicPropertyService!CallsAreAtomic establishes for them.  A hook     *)
(* passes through                                                          *)
(*    idle       before the script's write                                 *)
(*    asking     beforeExternalMutation, checks from the request alone     *)
(*    limits     validatePropertyLimits before the event                   *)
(*    before     the BeforeExternalMutation listeners run                  *)
(*    decided    the hook has its answer                                   *)
(*    after      the AfterExternalMutation listeners run                   *)
(*    migrated   those of CollectionMigrated, after a move of a collection *)
(*    audit      the audit record                                          *)
(*    done       the hook returns to the script                            *)
(***************************************************************************)
EXTENDS PropertyStore

CONSTANTS
  Hooks,          \* the external mutations
  Body,           \* [operation, cancellable, permitted] of each of them
  ApiOperations,  \* what callers of the service write meanwhile
  Platforms,      \* what the host may be, see PlatformRecord
  Limit,          \* limits_.max_properties_per_collection
  Listeners,      \* the number of listeners
  ListenerPowers, \* what they do besides returning
  SinkMayThrow,   \* whether the audit sink may throw
  InitialStore,
  NoHook

\* The hooks that are installed, the capabilities external_change_observation
\* and external_change_cancellation, whether hooks keep the platform's lease
\* (ARCHITECTURE.md:51), and whether the gate has its second check: the C++
\* one has, the Python one has not.
PlatformRecord ==
  [hooks : SUBSET Hooks, observation : BOOLEAN, cancellation : BOOLEAN,
   leased : BOOLEAN, revalidates : BOOLEAN]

ASSUME GateAssumption ==
  /\ NoHook \notin Hooks
  /\ \A h \in Hooks :
       Body[h] \in [operation : Operation, cancellable : BOOLEAN, permitted : BOOLEAN]
  /\ ApiOperations \subseteq Operation
  /\ Platforms \subseteq PlatformRecord
  /\ Limit \in Nat /\ Listeners \in Nat
  /\ SinkMayThrow \in BOOLEAN
  /\ InitialStore \in Store

VARIABLES
  platform,  \* the host, fixed at its start
  store,
  lease,     \* the hook that holds the platform's lease
  gate,      \* the activation record of each hook
  audits,    \* the external records of the sink
  writes     \* history: what each hook really wrote, with the stores around it

vars == <<platform, store, lease, gate, audits, writes>>

Op(h) == Body[h].operation

Refs(h) == InvolvedRefs(<<Op(h)>>)

\* `before` and `after` are the snapshots of the result that the hook reports:
\* listeners get copies.  `lost` remembers that the sink threw.
Idle ==
  [phase |-> "idle", at |-> 0, cancelled |-> FALSE, failed |-> FALSE, lost |-> FALSE,
   decision |-> "ObserveOnly", status |-> "Unsupported", before |-> {}, after |-> {}]

Init ==
  /\ platform \in Platforms
  /\ store = InitialStore
  /\ lease = NoHook
  /\ gate = [h \in Hooks |-> Idle]
  /\ audits = <<>>
  /\ writes = [h \in Hooks |-> <<>>]

-----------------------------------------------------------------------------
(* beforeExternalMutation.                                                 *)

Snapshots(s, refs) == {[ref |-> r, snapshot |-> s[r]] : r \in refs}

\* Whether the answer may be Cancel.
CanCancel(h) == Body[h].cancellable /\ platform.cancellation

\* The answer to a mutation that must not happen.
Refusal(h) == IF CanCancel(h) THEN "Cancel" ELSE "ObserveOnly"

Decide(h, decision, status) ==
  gate' = [gate EXCEPT ![h].phase = "decided", ![h].decision = decision,
                       ![h].status = status]

\* The script's write reaches the hook, which takes the lease.
Intercept(h) ==
  /\ h \in platform.hooks
  /\ gate[h].phase = "idle"
  /\ lease = NoHook
  /\ lease' = IF platform.leased THEN h ELSE NoHook
  /\ gate' = [gate EXCEPT ![h].phase = "asking"]
  /\ UNCHANGED <<platform, store, audits, writes>>

\* What validateOperation finds in the request.
RequestStatus(h) ==
  IF ~ Body[h].permitted THEN "PermissionDenied"
  ELSE IF ConflictingExpectations(Op(h)) THEN "InvalidValue"
  ELSE IF MovesOntoItself(Op(h)) THEN "InvalidKey"
  ELSE "Applied"

Ask(h) ==
  /\ gate[h].phase = "asking"
  /\ \/ ~ platform.observation /\ Decide(h, "ObserveOnly", "Unsupported")
     \/ /\ platform.observation /\ RequestStatus(h) # "Applied"
        /\ Decide(h, Refusal(h), RequestStatus(h))
     \/ /\ platform.observation /\ RequestStatus(h) = "Applied"
        /\ gate' = [gate EXCEPT ![h].phase = "limits"]
  /\ UNCHANGED <<platform, store, lease, audits, writes>>

Exceeds(h) == ExceedsLimit([r \in Refs(h) |-> store[r]], <<Op(h)>>, Limit)

CheckLimits(h) ==
  /\ gate[h].phase = "limits"
  /\ \/ Exceeds(h) /\ Decide(h, Refusal(h), "InvalidValue")
     \/ ~ Exceeds(h) /\ gate' = [gate EXCEPT ![h].phase = "before", ![h].at = 1]
  /\ UNCHANGED <<platform, store, lease, audits, writes>>

Publishing == {"before", "after", "migrated"}

InListener(h) == gate[h].phase \in Publishing /\ gate[h].at <= Listeners

ListenerReturns(h) ==
  /\ InListener(h)
  /\ gate' = [gate EXCEPT ![h].at = @ + 1]
  /\ UNCHANGED <<platform, store, lease, audits, writes>>

\* A listener sets or clears event.cancelled, whoever set it before.
ListenerDecides(h) ==
  /\ InListener(h) /\ gate[h].phase = "before"
  /\ \E cancelled \in {b \in BOOLEAN :
                         (IF b THEN "cancel" ELSE "approve") \in ListenerPowers} :
       gate' = [gate EXCEPT ![h].at = @ + 1, ![h].cancelled = cancelled]
  /\ UNCHANGED <<platform, store, lease, audits, writes>>

ListenerThrows(h) ==
  /\ InListener(h) /\ "throw" \in ListenerPowers
  /\ gate' = [gate EXCEPT ![h].at = @ + 1,
                          ![h].failed = @ \/ gate[h].phase = "before"]
  /\ UNCHANGED <<platform, store, lease, audits, writes>>

\* Mutation: a failed listener counts like one that returned.
StoppedByFlag(h) == gate[h].cancelled

\* The listeners leave the event cancelled, or one of them threw.
Stopped(h) == gate[h].cancelled \/ gate[h].failed

\* Mutation: the limits are not looked at again.
AcceptedUnseen(h) == TRUE

\* The check after the event, under mutation_mutex_.
StillAccepted(h) == platform.revalidates => ~ Exceeds(h)

\* Mutation: the event is published again for the new state.
AskAgain(h) == gate' = [gate EXCEPT ![h].phase = "before", ![h].at = 1]

\* What the second check refuses.
RefuseLate(h) == Decide(h, Refusal(h), "InvalidValue")

\* The event is over: publishBefore's verdict, then the second check.
Conclude(h) ==
  /\ gate[h].phase = "before" /\ gate[h].at > Listeners
  /\ \/ Stopped(h) /\ CanCancel(h) /\ Decide(h, "Cancel", "Cancelled")
     \/ /\ ~ (Stopped(h) /\ CanCancel(h))
        /\ \/ ~ StillAccepted(h) /\ RefuseLate(h)
           \/ /\ StillAccepted(h)
              /\ IF Body[h].cancellable /\ ~ CanCancel(h)
                 THEN Decide(h, "ObserveOnly", "Unsupported")
                 ELSE Decide(h, "Allow", "Applied")
  /\ UNCHANGED <<platform, store, lease, audits, writes>>

-----------------------------------------------------------------------------
(* The hook, and afterExternalMutation.                                    *)

\* The hook's last step gives the lease back.
ReturnLease(h) == lease' = IF lease = h THEN NoHook ELSE lease

\* Whether the hook keeps the original function from running.
Withheld(h) == gate[h].decision = "Cancel"

\* The original function runs, once; it knows no expected revisions.
Original(h) ==
  /\ gate[h].phase = "decided" /\ ~ Withheld(h)
  /\ LET status == BranchStatus(store, Op(h))
         after == IF status = "Applied" THEN Effect(store, Op(h)) ELSE store IN
     /\ store' = after
     /\ gate' = [gate EXCEPT ![h].phase = "after", ![h].at = 1, ![h].status = status,
                             ![h].before = Snapshots(store, Refs(h)),
                             ![h].after = Snapshots(after, Refs(h))]
     /\ writes' = [writes EXCEPT ![h] =
                     Append(@, [status |-> status, before |-> store, after |-> after])]
  /\ UNCHANGED <<platform, lease, audits>>

\* The hook returns without calling the original function.
Skip(h) ==
  /\ gate[h].phase = "decided" /\ Withheld(h)
  /\ gate' = [gate EXCEPT ![h].phase = "done"]
  /\ ReturnLease(h)
  /\ UNCHANGED <<platform, store, audits, writes>>

\* Moves of whole collections are published once more.
Migrates(h) ==
  gate[h].status = "Applied" /\ Op(h).kind = "transfer_collection" /\ Op(h).remove_source

PublishMigrated(h) ==
  /\ gate[h].phase = "after" /\ gate[h].at > Listeners /\ Migrates(h)
  /\ gate' = [gate EXCEPT ![h].phase = "migrated", ![h].at = 1]
  /\ UNCHANGED <<platform, store, lease, audits, writes>>

Notified(h) ==
  /\ gate[h].at > Listeners
  /\ gate[h].phase = "migrated" \/ (gate[h].phase = "after" /\ ~ Migrates(h))
  /\ gate' = [gate EXCEPT ![h].phase = "audit"]
  /\ UNCHANGED <<platform, store, lease, audits, writes>>

\* Mutation: the record is written from what the collections hold now.
RecordOfNow(h) ==
  [hook |-> h, status |-> gate[h].status,
   before |-> gate[h].before, after |-> Snapshots(store, Refs(h))]

\* The record of the result that the hook passed in.
Record(h) ==
  [hook |-> h, status |-> gate[h].status,
   before |-> gate[h].before, after |-> gate[h].after]

\* audit(): the sink keeps the record, or throws, and the record is gone.
Audit(h) ==
  /\ gate[h].phase = "audit"
  /\ \E lost \in {FALSE, SinkMayThrow} :
       /\ audits' = IF lost THEN audits ELSE Append(audits, Record(h))
       /\ gate' = [gate EXCEPT ![h] =
                     [Idle EXCEPT !.phase = "done", !.cancelled = gate[h].cancelled,
                                  !.failed = gate[h].failed, !.lost = lost,
                                  !.decision = gate[h].decision]]
  /\ ReturnLease(h)
  /\ UNCHANGED <<platform, store, writes>>

\* A call of the service commits.  The lease keeps calls from other threads
\* away from the store; the listeners of its holder may always call.
ServiceCommits(op) ==
  /\ lease # NoHook => InListener(lease)
  /\ ~ MovesOntoItself(op)
  /\ ApplyStatus(store, Targets, op, FALSE) = "Applied"
  /\ ~ ExceedsLimit([r \in InvolvedRefs(<<op>>) |-> store[r]], <<op>>, Limit)
  /\ store' = Effect(store, op)
  /\ UNCHANGED <<platform, lease, gate, audits, writes>>

HookStep(h) ==
  \/ Ask(h) \/ CheckLimits(h)
  \/ ListenerReturns(h) \/ ListenerDecides(h) \/ ListenerThrows(h)
  \/ Conclude(h) \/ Original(h) \/ Skip(h) \/ PublishMigrated(h) \/ Notified(h) \/ Audit(h)

Next ==
  \/ \E h \in Hooks : Intercept(h) \/ HookStep(h)
  \/ \E op \in ApiOperations : ServiceCommits(op)

Spec == Init /\ [][Next]_vars

\* An intercepted write goes on and listeners return; no script has to write.
FairSpec == Spec /\ \A h \in Hooks : WF_vars(HookStep(h))

-----------------------------------------------------------------------------
(* Properties.                                                             *)

Size(s, r) == Cardinality(KeysOf(s[r].properties))

\* The platform lets the gate answer, and each hook obey.
Guarded ==
  /\ platform.leased /\ platform.revalidates /\ platform.observation
  /\ \A h \in platform.hooks : CanCancel(h)

\* On such a platform no external write and no call of the service ever takes
\* a collection beyond the limit, although listeners call the service between
\* the gate's first check and the write.
NothingExceedsLimit == Guarded => \A r \in CollectionRef : Size(store, r) <= Limit

\* API.md:115: a failure in a cancellable before-event fails closed.  If the hook
\* can prevent it, nothing is written that a listener failed at, or whose
\* cancellation stands after the last listener (a later one may clear it).
VetoHonoured ==
  \A h \in Hooks :
    writes[h] # <<>> /\ CanCancel(h) => ~ gate[h].cancelled /\ ~ gate[h].failed

Audited(h) == {i \in DOMAIN audits : audits[i].hook = h}

\* EXTERNAL_HOOKS.md:22-24: every write that a hook let through has its audit
\* record when the hook returns, unless the sink threw at that record, and the
\* record tells what the write did, whoever wrote between it and the audit.
ExternalAuditTruthful ==
  \A h \in Hooks :
    /\ gate[h].phase = "done" =>
         Cardinality(Audited(h)) = IF gate[h].lost THEN 0 ELSE Len(writes[h])
    /\ gate[h].lost => Len(writes[h]) = 1
    /\ \A i \in Audited(h) :
         /\ writes[h] # <<>>
         /\ audits[i].status = writes[h][1].status
         /\ audits[i].before = Snapshots(writes[h][1].before, Refs(h))
         /\ audits[i].after = Snapshots(writes[h][1].after, Refs(h))

\* Every intercepted write is answered, and the lease is given back.
EveryHookReturns ==
  \A h \in Hooks : gate[h].phase = "asking" ~> (gate[h].phase = "done" /\ lease # h)

\* ARCHITECTURE.md:49: "A listener may therefore perform a nested write; the
\* outer request is revalidated against the resulting state": an external
\* write that was allowed stays within the limit.
AllowedIsRevalidated ==
  \A h \in Hooks : platform.leased /\ gate[h].decision = "Allow" /\ writes[h] # <<>> =>
    \A r \in Refs(h) : Size(writes[h][1].after, r) <= Limit
=============================================================================
