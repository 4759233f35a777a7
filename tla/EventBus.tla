------------------------------ MODULE EventBus ------------------------------
(***************************************************************************)
(* DynamicPropertyEventBus (src/events.cpp): threads subscribe, replace    *)
(* the failure handler and publish, also from inside the listeners and the *)
(* failure handler that a publication is running.  A publication copies    *)
(* the matching subscriptions and the handler under the mutex and runs     *)
(* them after releasing it.  Its phases are                                *)
(*    called       publish was called, the mutex is not yet taken          *)
(*    copying      the mutex is held, the subscriptions are copied         *)
(*    delivering   the first of the pending listeners is running           *)
(*    reporting    it threw, and the failure handler is running            *)
(*    returned     the caller knows whether listeners failed               *)
(***************************************************************************)
EXTENDS Naturals, Sequences, FiniteSets

CONSTANTS
  Threads,
  Publications,      \* the calls of publish, each made at most once
  Event,             \* what each of them publishes
  Filters,           \* the filters that are subscribed with
  Handlers,          \* failure handlers
  Unset,             \* a field of a filter that is not set, an event without key
  NoHandler, NoThread, NoPublication,
  MaxSubscriptions   \* bounds how often subscribe is called

ASSUME BusAssumption ==
  /\ NoThread \notin Threads
  /\ NoPublication \notin Publications
  /\ NoHandler \notin Handlers
  /\ MaxSubscriptions \in Nat

VARIABLES
  mutex,             \* mutex_, held by a thread or by nobody
  subscriptions,     \* subscriptions_, the filter of every subscription by id
  next_id,           \* next_subscription_id_
  failure_handler,   \* failure_handler_
  running,           \* the innermost publication of each thread
  publication,       \* the activation record of each publication
  withdrawn          \* history: the ids that were passed to unsubscribe

vars ==
  <<mutex, subscriptions, next_id, failure_handler, running, publication, withdrawn>>

-----------------------------------------------------------------------------
(* EventFilter::matches.                                                   *)

Accepts(field, value) == field = Unset \/ field = value

\* Mutation: each field may be satisfied by another collection of the event.
MatchesApart(filter, event) ==
  /\ Accepts(filter.kind, event.kind) /\ Accepts(filter.key, event.key)
  /\ \E ref \in event.collections : Accepts(filter.target, ref.target)
  /\ \E ref \in event.collections : Accepts(filter.target_kind, ref.target.kind)
  /\ \E ref \in event.collections : Accepts(filter.collection, ref.collection)

\* One collection of the event satisfies all fields that speak of collections.
Matches(filter, event) ==
  /\ Accepts(filter.kind, event.kind)
  /\ Accepts(filter.key, event.key)
  /\ \/ filter.target_kind = Unset /\ filter.target = Unset /\ filter.collection = Unset
     \/ \E ref \in event.collections :
          /\ Accepts(filter.target_kind, ref.target.kind)
          /\ Accepts(filter.target, ref.target)
          /\ Accepts(filter.collection, ref.collection)

\* The subscriptions that publish copies.
Matching(event) ==
  {id \in DOMAIN subscriptions : Matches(subscriptions[id], event)}

-----------------------------------------------------------------------------
Idle ==
  [phase |-> "idle", parent |-> NoPublication, known |-> {}, gone |-> {},
   pending |-> {}, delivered |-> <<>>, handler |-> NoHandler, failed |-> FALSE]

Init ==
  /\ mutex = NoThread
  /\ subscriptions = <<>>
  /\ next_id = 1
  /\ failure_handler = NoHandler
  /\ running = [t \in Threads |-> NoPublication]
  /\ publication = [p \in Publications |-> Idle]
  /\ withdrawn = {}

InPhase(t, phase) ==
  running[t] # NoPublication /\ publication[running[t]].phase = phase

InListener(t) == InPhase(t, "delivering") /\ publication[running[t]].pending # {}

\* Code outside the bus runs at the top level and in callbacks.
MayCall(t) == running[t] = NoPublication \/ InListener(t) \/ InPhase(t, "reporting")

\* The id of the next subscription.
NewId == next_id

\* (An empty listener gets the id 0 before the lock is taken: nothing changes.)
Subscribe(t, filter) ==
  /\ MayCall(t) /\ mutex = NoThread
  /\ next_id <= MaxSubscriptions
  /\ subscriptions' =
       [id \in DOMAIN subscriptions \cup {NewId} |->
          IF id = NewId THEN filter ELSE subscriptions[id]]
  /\ next_id' = next_id + 1
  /\ UNCHANGED <<mutex, failure_handler, running, publication, withdrawn>>

\* Mutation: the newest subscription goes instead.
WithoutNewest(id) ==
  [i \in {i \in DOMAIN subscriptions : \E j \in DOMAIN subscriptions : j > i} |->
     subscriptions[i]]

\* What is left after erase(id), which need not be subscribed.
Without(id) == [i \in DOMAIN subscriptions \ {id} |-> subscriptions[i]]

\* An id that subscribe returned is given back, perhaps for the second time.
Unsubscribe(t, id) ==
  /\ MayCall(t) /\ mutex = NoThread
  /\ id < next_id
  /\ subscriptions' = Without(id)
  /\ withdrawn' = withdrawn \cup {id}
  /\ UNCHANGED <<mutex, next_id, failure_handler, running, publication>>

SetListenerFailureHandler(t, handler) ==
  /\ MayCall(t) /\ mutex = NoThread
  /\ failure_handler' = handler
  /\ UNCHANGED <<mutex, subscriptions, next_id, running, publication, withdrawn>>

\* publish is called; `known` and `gone` remember who was subscribed then, and
\* who had been before.
Publish(t, p) ==
  /\ MayCall(t)
  /\ publication[p].phase = "idle"
  /\ publication' = [publication EXCEPT ![p] =
       [Idle EXCEPT !.phase = "called", !.parent = running[t],
                    !.known = (1..(next_id - 1)) \ withdrawn, !.gone = withdrawn]]
  /\ running' = [running EXCEPT ![t] = p]
  /\ UNCHANGED <<mutex, subscriptions, next_id, failure_handler, withdrawn>>

\* Mutation: the list is copied without the mutex.
LockNothing(t) == mutex = NoThread /\ UNCHANGED mutex

Lock(t) == mutex = NoThread /\ mutex' = t

CopySubscriptions(t) ==
  /\ InPhase(t, "called")
  /\ Lock(t)
  /\ publication' = [publication EXCEPT ![running[t]].phase = "copying",
                                        ![running[t]].pending = Matching(Event[running[t]])]
  /\ UNCHANGED <<subscriptions, next_id, failure_handler, running, withdrawn>>

CopyHandler(t) ==
  /\ InPhase(t, "copying")
  /\ mutex' = NoThread
  /\ publication' = [publication EXCEPT ![running[t]].phase = "delivering",
                                        ![running[t]].handler = failure_handler]
  /\ UNCHANGED <<subscriptions, next_id, failure_handler, running, withdrawn>>

\* Mutation: the latest subscription first.
CurrentLast(p) ==
  CHOOSE id \in publication[p].pending : \A j \in publication[p].pending : id >= j

\* The listener whose turn it is: the copy is in the order of the ids.
Current(p) ==
  CHOOSE id \in publication[p].pending : \A j \in publication[p].pending : id <= j

\* The record of a publication once its current listener is over.
Advanced(p) ==
  [publication[p] EXCEPT !.pending = @ \ {Current(p)},
                         !.delivered = Append(@, Current(p)),
                         !.phase = "delivering"]

ListenerReturns(t) ==
  /\ InListener(t)
  /\ publication' = [publication EXCEPT ![running[t]] = Advanced(running[t])]
  /\ UNCHANGED <<mutex, subscriptions, next_id, failure_handler, running, withdrawn>>

\* Where a publication goes on after its current listener threw.
AfterFailure(p) ==
  IF publication[p].handler = NoHandler
  THEN Advanced(p)
  ELSE [publication[p] EXCEPT !.phase = "reporting"]

ListenerThrows(t) ==
  LET p == running[t] IN
  /\ InListener(t)
  /\ publication' = [publication EXCEPT
       ![p] = [AfterFailure(p) EXCEPT !.failed = TRUE]]
  /\ UNCHANGED <<mutex, subscriptions, next_id, failure_handler, running, withdrawn>>

\* The failure handler returns, or throws and publish swallows that too.
HandlerEnds(t) ==
  /\ InPhase(t, "reporting")
  /\ publication' = [publication EXCEPT ![running[t]] = Advanced(running[t])]
  /\ UNCHANGED <<mutex, subscriptions, next_id, failure_handler, running, withdrawn>>

Return(t) ==
  LET p == running[t] IN
  /\ InPhase(t, "delivering") /\ publication[p].pending = {}
  /\ publication' = [publication EXCEPT
       ![p] = [Idle EXCEPT !.phase = "returned", !.failed = publication[p].failed]]
  /\ running' = [running EXCEPT ![t] = publication[p].parent]
  /\ UNCHANGED <<mutex, subscriptions, next_id, failure_handler, withdrawn>>

Advance(t) ==
  \/ CopySubscriptions(t) \/ CopyHandler(t)
  \/ ListenerReturns(t) \/ ListenerThrows(t) \/ HandlerEnds(t)
  \/ Return(t)

Next ==
  \E t \in Threads :
    \/ Advance(t)
    \/ \E filter \in Filters : Subscribe(t, filter)
    \/ \E id \in 1..MaxSubscriptions : Unsubscribe(t, id)
    \/ \E handler \in Handlers \cup {NoHandler} : SetListenerFailureHandler(t, handler)
    \/ \E p \in Publications : Publish(t, p)

Spec == Init /\ [][Next]_vars

-----------------------------------------------------------------------------
(* Properties.                                                             *)

\* Every variable has its type.
TypeOK ==
  /\ mutex \in Threads \cup {NoThread}
  /\ next_id \in Nat \ {0}
  /\ DOMAIN subscriptions \subseteq 1..(next_id - 1)
  /\ \A id \in DOMAIN subscriptions : subscriptions[id] \in Filters
  /\ failure_handler \in Handlers \cup {NoHandler}
  /\ running \in [Threads -> Publications \cup {NoPublication}]
  /\ publication \in [Publications ->
       [phase : {"idle", "called", "copying", "delivering", "reporting", "returned"},
        parent : Publications \cup {NoPublication},
        known : SUBSET Nat, gone : SUBSET Nat, pending : SUBSET Nat, delivered : Seq(Nat),
        handler : Handlers \cup {NoHandler}, failed : BOOLEAN]]
  /\ withdrawn \subseteq 1..(next_id - 1)

Ran(p) == {publication[p].delivered[i] : i \in DOMAIN publication[p].delivered}

\* The collections a filter speaks of: those that pass each field it sets.
Covers(filter) ==
  LET refs == UNION {Event[p].collections : p \in Publications}
      Passing(set, Has(_)) == IF set = Unset THEN refs ELSE {r \in refs : Has(r)} IN
  Passing(filter.target_kind, LAMBDA r : r.target.kind = filter.target_kind)
    \cap Passing(filter.target, LAMBDA r : r.target = filter.target)
    \cap Passing(filter.collection, LAMBDA r : r.collection = filter.collection)

\* A filter that sets none of these fields covers events without collections too.
SpeaksOfCollections(filter) ==
  filter.target_kind # Unset \/ filter.target # Unset \/ filter.collection # Unset

Concerns(filter, event) ==
  /\ filter.kind \in {Unset, event.kind}
  /\ filter.key \in {Unset, event.key}
  /\ SpeaksOfCollections(filter) => event.collections \cap Covers(filter) # {}

\* events.cpp:56-57: a faulty observer must not suppress later observers.  A
\* listener that was subscribed when publish was called and still is when it
\* is about to return has run if and only if its filter covers the event,
\* whoever threw, subscribed or unsubscribed meanwhile.
ReachesEveryObserver ==
  \A t \in Threads :
    LET p == running[t] IN
    InPhase(t, "delivering") /\ publication[p].pending = {} =>
      \A id \in publication[p].known \ withdrawn :
        id \in Ran(p) <=> Concerns(subscriptions[id], Event[p])

\* A listener whose unsubscribe has returned runs in no publication that is
\* called afterwards, only in those that may have copied it before.
UnsubscribedStaysSilent ==
  \A p \in Publications :
    (Ran(p) \cup publication[p].pending) \cap publication[p].gone = {}

\* Listeners run in the order of subscription, each once, failed ones too.
InSubscriptionOrder ==
  \A p \in Publications :
    LET delivered == publication[p].delivered IN
    /\ \A i, j \in DOMAIN delivered : i < j => delivered[i] < delivered[j]
    /\ \A id \in publication[p].pending, i \in DOMAIN delivered : delivered[i] < id

\* A publication's listeners and its failure handler are those of one moment:
\* when it starts to run them, both are still the ones the bus has.
CopiesOneMoment ==
  [][\A p \in Publications :
       (publication[p].phase = "copying" /\ publication'[p].phase = "delivering") =>
         /\ publication'[p].pending = Matching(Event[p])'
         /\ publication'[p].handler = failure_handler']_vars

=============================================================================
