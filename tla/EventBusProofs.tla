---------------------------- MODULE EventBusProofs ----------------------------
(***************************************************************************)
(* The event bus delivers in order, from one copy, to nobody who left and  *)
(* to everybody whose filter covers the event, for any threads,            *)
(* publications, filters and handlers.                                     *)
(*                                                                         *)
(* The argument: ids are never used again, so what is subscribed was never *)
(* withdrawn; a publication is filled once, while its thread holds the     *)
(* mutex, and afterwards only hands its least pending id on, so what it    *)
(* has delivered and what is pending are together what it copied.          *)
(***************************************************************************)
EXTENDS EventBus, TLAPS, SequenceTheorems, WellFoundedInduction

PublicationRecord ==
  [phase : {"idle", "called", "copying", "delivering", "reporting", "returned"},
   parent : Publications \cup {NoPublication},
   known : SUBSET Nat, gone : SUBSET Nat, pending : SUBSET Nat, delivered : Seq(Nat),
   handler : Handlers \cup {NoHandler}, failed : BOOLEAN]

\* An id that was given back is not subscribed again.
NeverAgain ==
  /\ withdrawn \cap DOMAIN subscriptions = {}
  /\ \A p \in Publications : publication[p].gone \subseteq withdrawn

\* What a publication has copied and delivered in each phase.
Shape ==
  \A p \in Publications :
    /\ publication[p].phase \in {"idle", "called", "returned"} => publication[p].pending = {}
    /\ publication[p].phase \notin {"delivering", "reporting"} => publication[p].delivered = <<>>
    /\ publication[p].phase = "reporting" => publication[p].pending # {}

\* While a publication copies, its thread holds the mutex and nothing changes.
Copying ==
  \A p \in Publications : publication[p].phase = "copying" =>
    /\ mutex # NoThread /\ running[mutex] = p
    /\ publication[p].pending = Matching(Event[p])

BusInv ==
  /\ TypeOK /\ NeverAgain /\ Shape /\ Copying
  /\ UnsubscribedStaysSilent /\ InSubscriptionOrder

\* What one publication alone must satisfy.
RecordOK(record) ==
  /\ record \in PublicationRecord
  /\ record.phase \in {"idle", "called", "returned"} => record.pending = {}
  /\ record.phase \notin {"delivering", "reporting"} => record.delivered = <<>>
  /\ record.phase = "reporting" => record.pending # {}
  /\ record.gone \subseteq withdrawn
  /\ ({record.delivered[i] : i \in DOMAIN record.delivered} \cup record.pending)
       \cap record.gone = {}
  /\ \A i, j \in DOMAIN record.delivered : i < j => record.delivered[i] < record.delivered[j]
  /\ \A id \in record.pending, i \in DOMAIN record.delivered : record.delivered[i] < id

\* The conjuncts about publications are about each of them.
LEMMA Records ==
  ASSUME BusInv
  PROVE  publication \in [Publications -> PublicationRecord]
         /\ \A p \in Publications : RecordOK(publication[p])
<1>1. publication \in [Publications -> PublicationRecord]
  BY DEF BusInv, TypeOK, PublicationRecord
<1> QED
  BY <1>1 DEF BusInv, RecordOK, Shape, NeverAgain, UnsubscribedStaysSilent, InSubscriptionOrder, Ran

-----------------------------------------------------------------------------
LEMMA InitBus == Init => BusInv
<1> SUFFICES ASSUME Init PROVE BusInv
  OBVIOUS
<1>1. \A p \in Publications : publication[p] = Idle
  BY DEF Init
<1>2. Idle \in PublicationRecord /\ Idle.delivered = <<>> /\ Idle.pending = {} /\ Idle.gone = {}
      /\ Idle.phase = "idle"
  BY DEF Idle, PublicationRecord
<1>3. DOMAIN subscriptions = {}
  BY DEF Init
<1>4. publication \in [Publications -> PublicationRecord]
  BY <1>2 DEF Init
<1>5. TypeOK
  BY <1>3, <1>4 DEF Init, TypeOK, PublicationRecord
<1>6. NeverAgain /\ Shape /\ Copying
  BY <1>1, <1>2, <1>3 DEF Init, NeverAgain, Shape, Copying
<1>7. UnsubscribedStaysSilent /\ InSubscriptionOrder
  BY <1>1, <1>2 DEF UnsubscribedStaysSilent, InSubscriptionOrder, Ran
<1> QED BY <1>5, <1>6, <1>7 DEF BusInv

\* What the list and the handler look like matters to nobody but a copier, and
\* while one copies they do not change.
LEMMA ListSteps ==
  ASSUME BusInv, NEW t \in Threads,
         \/ \E filter \in Filters : Subscribe(t, filter)
         \/ \E id \in 1..MaxSubscriptions : Unsubscribe(t, id)
         \/ \E handler \in Handlers \cup {NoHandler} : SetListenerFailureHandler(t, handler)
  PROVE  BusInv'
<1> USE DEF BusInv
<1>1. UNCHANGED <<mutex, running, publication>> /\ mutex = NoThread
  BY DEF Subscribe, Unsubscribe, SetListenerFailureHandler
<1>2. TypeOK' /\ NeverAgain'
  <2>1. ASSUME NEW filter \in Filters, Subscribe(t, filter)
        PROVE  TypeOK' /\ NeverAgain'
    <3>1. next_id \notin withdrawn /\ next_id \in Nat
      BY DEF TypeOK
    <3>2. DOMAIN subscriptions' = DOMAIN subscriptions \cup {next_id}
          /\ \A id \in DOMAIN subscriptions' : subscriptions'[id] \in Filters
      BY <2>1 DEF Subscribe, NewId, TypeOK
    <3>3. next_id' = next_id + 1 /\ withdrawn' = withdrawn /\ failure_handler' = failure_handler
      BY <2>1 DEF Subscribe
    <3>4. next_id' \in Nat \ {0} /\ withdrawn' \subseteq 1..(next_id' - 1)
          /\ DOMAIN subscriptions' \subseteq 1..(next_id' - 1)
      BY <3>1, <3>2, <3>3 DEF TypeOK
    <3>5. TypeOK'
      BY <1>1, <3>2, <3>3, <3>4 DEF TypeOK
    <3>6. NeverAgain'
      BY <1>1, <3>1, <3>2, <3>3 DEF NeverAgain
    <3> QED BY <3>5, <3>6
  <2>2. ASSUME NEW id \in 1..MaxSubscriptions, Unsubscribe(t, id)
        PROVE  TypeOK' /\ NeverAgain'
    <3>1. DOMAIN subscriptions' = DOMAIN subscriptions \ {id}
          /\ \A i \in DOMAIN subscriptions' : subscriptions'[i] \in Filters
      BY <2>2 DEF Unsubscribe, Without, TypeOK
    <3> QED BY <1>1, <2>2, <3>1, BusAssumption DEF Unsubscribe, TypeOK, NeverAgain
  <2>3. ASSUME NEW handler \in Handlers \cup {NoHandler}, SetListenerFailureHandler(t, handler)
        PROVE  TypeOK' /\ NeverAgain'
    BY <1>1, <2>3 DEF SetListenerFailureHandler, TypeOK, NeverAgain
  <2> QED BY <2>1, <2>2, <2>3
<1>3. Copying'
  BY <1>1 DEF Copying
<1>4. Shape' /\ UnsubscribedStaysSilent' /\ InSubscriptionOrder'
  BY <1>1 DEF Shape, UnsubscribedStaysSilent, InSubscriptionOrder, Ran
<1> QED BY <1>2, <1>3, <1>4

\* A step of one publication that leaves the list alone.
LEMMA OneRecord ==
  ASSUME BusInv, NEW p \in Publications, NEW record, RecordOK(record),
         publication' = [publication EXCEPT ![p] = record],
         UNCHANGED <<subscriptions, next_id, failure_handler, withdrawn>>,
         running' \in [Threads -> Publications \cup {NoPublication}],
         mutex' \in Threads \cup {NoThread},
         Copying'
  PROVE  BusInv'
<1> USE DEF BusInv
<1>1. \A q \in Publications : publication'[q] \in PublicationRecord /\ RecordOK(publication'[q])
      /\ publication' \in [Publications -> PublicationRecord]
  BY Records DEF RecordOK
<1>2. TypeOK'
  BY <1>1 DEF TypeOK, PublicationRecord
<1>3. NeverAgain'
  BY <1>1 DEF NeverAgain, RecordOK
<1>4. Shape'
  BY <1>1 DEF Shape, RecordOK
<1>5. UnsubscribedStaysSilent'
  BY <1>1 DEF UnsubscribedStaysSilent, RecordOK, Ran
<1>6. InSubscriptionOrder'
  BY <1>1 DEF InSubscriptionOrder, RecordOK
<1> QED BY <1>2, <1>3, <1>4, <1>5, <1>6

\* A publication that does not copy is not what another one's copying is about.
LEMMA OthersCopy ==
  ASSUME BusInv, NEW p \in Publications, NEW record,
         publication[p].phase # "copying", record.phase # "copying",
         publication' = [publication EXCEPT ![p] = record],
         UNCHANGED <<mutex, subscriptions>>,
         mutex # NoThread => running'[mutex] = running[mutex]
  PROVE  Copying'
<1>1. publication \in [Publications -> PublicationRecord]
  BY Records
<1> QED
  BY <1>1 DEF BusInv, Copying, Matching

-----------------------------------------------------------------------------
(* A set of ids has a least one.                                           *)

LEMMA LeastId ==
  ASSUME NEW S \in SUBSET Nat, S # {}
  PROVE  \E id \in S : \A j \in S : id <= j
<1> DEFINE R == {ss \in Nat \X Nat : ss[1] < ss[2]}
<1>1. IsWellFoundedOn(R, Nat)
  BY NatLessThanWellFounded DEF OpToRel
<1>2. \E x \in S : \A y \in S : ~ (<<y, x>> \in R)
  <2> HIDE DEF R
  <2> QED BY <1>1, WFMin
<1>3. \A x, y \in Nat : ~ (<<y, x>> \in R) => x <= y
  OBVIOUS
<1> QED BY <1>2, <1>3

LEMMA CurrentIsLeast ==
  ASSUME NEW p, publication[p].pending \in SUBSET Nat, publication[p].pending # {}
  PROVE  /\ Current(p) \in publication[p].pending
         /\ \A j \in publication[p].pending : Current(p) <= j
BY LeastId DEF Current

\* Handing the least pending id on keeps a publication's record well formed.
LEMMA AdvancedOK ==
  ASSUME BusInv, NEW p \in Publications, publication[p].pending # {},
         publication[p].phase \in {"delivering", "reporting"}
  PROVE  RecordOK(Advanced(p)) /\ Advanced(p).phase = "delivering"
<1> DEFINE old == publication[p]
           id == Current(p)
<1>1. old \in PublicationRecord /\ RecordOK(old)
  BY Records
<1>2. old.pending \in SUBSET Nat /\ old.delivered \in Seq(Nat)
  BY <1>1 DEF PublicationRecord
<1>3. id \in old.pending /\ id \in Nat /\ \A j \in old.pending : id <= j
  BY <1>2, CurrentIsLeast
<1> DEFINE delivered == Append(old.delivered, id)
           pending == old.pending \ {id}
<1>4. delivered \in Seq(Nat) /\ pending \in SUBSET Nat /\ "delivering" \in
        {"idle", "called", "copying", "delivering", "reporting", "returned"}
  BY <1>2, <1>3
<1>5. Advanced(p) = [old EXCEPT !.pending = pending, !.delivered = delivered,
                                !.phase = "delivering"]
  BY DEF Advanced
<1>6. Len(old.delivered) \in Nat /\ DOMAIN old.delivered = 1..Len(old.delivered)
  BY <1>2
<1>7. /\ DOMAIN delivered = 1..(Len(old.delivered) + 1)
      /\ \A i \in 1..Len(old.delivered) : delivered[i] = old.delivered[i]
      /\ delivered[Len(old.delivered) + 1] = id
  <2> HIDE DEF old, id
  <2> QED BY <1>2, <1>3, AppendProperties
<1>13. \A i \in 1..Len(old.delivered) : old.delivered[i] < id /\ old.delivered[i] \in Nat
  BY <1>1, <1>2, <1>3, <1>6 DEF RecordOK
<1>14. \A i \in DOMAIN delivered :
         \/ i \in 1..Len(old.delivered) /\ delivered[i] = old.delivered[i]
         \/ i = Len(old.delivered) + 1 /\ delivered[i] = id
  BY <1>6, <1>7
<1> HIDE DEF delivered, pending, old, id
<1>8. Advanced(p) \in PublicationRecord
  BY <1>1, <1>4, <1>5, Zenon DEF PublicationRecord
<1>9. /\ Advanced(p).pending = pending /\ Advanced(p).delivered = delivered
      /\ Advanced(p).phase = "delivering" /\ Advanced(p).gone = old.gone
  BY <1>1, <1>5 DEF PublicationRecord
<1>10. ({delivered[i] : i \in DOMAIN delivered} \cup pending) \cap old.gone = {}
  BY <1>1, <1>3, <1>6, <1>14 DEF RecordOK, pending
<1>11. \A i, j \in DOMAIN delivered : i < j => delivered[i] < delivered[j]
  BY <1>1, <1>6, <1>13, <1>14 DEF RecordOK
<1>12. \A j \in pending, i \in DOMAIN delivered : delivered[i] < j
  <2> SUFFICES ASSUME NEW j \in pending, NEW i \in DOMAIN delivered PROVE delivered[i] < j
    OBVIOUS
  <2>1. j \in old.pending /\ j # id /\ j \in Nat /\ id < j
    BY <1>2, <1>3 DEF pending
  <2> QED BY <1>1, <1>6, <1>14, <2>1 DEF RecordOK
<1> QED BY <1>1, <1>8, <1>9, <1>10, <1>11, <1>12 DEF RecordOK

-----------------------------------------------------------------------------
(* The steps of publish.                                                   *)

\* A thread that runs a publication in a phase.
LEMMA RunningPublication ==
  ASSUME BusInv, NEW t \in Threads, running[t] # NoPublication
  PROVE  running[t] \in Publications /\ RecordOK(publication[running[t]])
         /\ publication[running[t]] \in PublicationRecord
BY Records DEF BusInv, TypeOK

\* The thread that holds the mutex for a copy makes no calls.
LEMMA CopierBusy ==
  ASSUME BusInv, NEW t \in Threads, NEW p \in Publications, publication[p].phase = "copying",
         running[t] = NoPublication \/ publication[running[t]].phase # "copying"
  PROVE  t # mutex
BY BusAssumption DEF BusInv, Copying

LEMMA PublishStep ==
  ASSUME BusInv, NEW t \in Threads, NEW p \in Publications, Publish(t, p)
  PROVE  BusInv'
<1> DEFINE known == (1..(next_id - 1)) \ withdrawn
           record == [Idle EXCEPT !.phase = "called", !.parent = running[t],
                                  !.known = known, !.gone = withdrawn]
<1>1. Idle \in PublicationRecord /\ Idle.delivered = <<>> /\ Idle.pending = {}
  BY DEF Idle, PublicationRecord
<1>2. running[t] \in Publications \cup {NoPublication} /\ known \in SUBSET Nat
      /\ withdrawn \in SUBSET Nat
  BY DEF BusInv, TypeOK
<1>3. "called" \in {"idle", "called", "copying", "delivering", "reporting", "returned"}
  OBVIOUS
<1> HIDE DEF known
<1>4. record \in PublicationRecord
  BY <1>1, <1>2, <1>3, Zenon DEF PublicationRecord
<1>5. record.phase = "called" /\ record.gone = withdrawn /\ record.pending = {}
      /\ record.delivered = <<>>
  BY <1>1 DEF PublicationRecord
<1>6. publication' = [publication EXCEPT ![p] = record] /\ publication[p].phase = "idle"
  BY DEF Publish, known
<1> HIDE DEF record
<1>7. RecordOK(record)
  BY <1>4, <1>5 DEF RecordOK
<1>8. running' \in [Threads -> Publications \cup {NoPublication}]
  BY DEF Publish, BusInv, TypeOK
<1>9. Copying'
  <2> SUFFICES ASSUME NEW q \in Publications, publication'[q].phase = "copying"
               PROVE  mutex # NoThread /\ running'[mutex] = q
                      /\ publication'[q].pending = Matching(Event[q])
    BY DEF Copying, Publish, Matching
  <2>1. q # p /\ publication'[q] = publication[q]
    BY <1>5, <1>6, Records
  <2>2. t # mutex
    BY <2>1, CopierBusy DEF Publish, MayCall, InListener, InPhase
  <2> QED BY <2>1, <2>2 DEF Publish, BusInv, Copying, TypeOK
<1>10. mutex' \in Threads \cup {NoThread}
       /\ UNCHANGED <<subscriptions, next_id, failure_handler, withdrawn>>
  BY DEF Publish, BusInv, TypeOK
<1> QED BY <1>6, <1>7, <1>8, <1>9, <1>10, OneRecord

LEMMA CopySubscriptionsStep ==
  ASSUME BusInv, NEW t \in Threads, CopySubscriptions(t)
  PROVE  BusInv'
<1> DEFINE p == running[t]
           old == publication[p]
           pending == Matching(Event[p])
           record == [old EXCEPT !.phase = "copying", !.pending = pending]
<1>1. p \in Publications /\ RecordOK(old) /\ old \in PublicationRecord /\ old.phase = "called"
  BY RunningPublication DEF CopySubscriptions, InPhase
<1>2. pending \in SUBSET Nat /\ pending \cap withdrawn = {}
  BY DEF Matching, BusInv, TypeOK, NeverAgain
<1>3. "copying" \in {"idle", "called", "copying", "delivering", "reporting", "returned"}
  OBVIOUS
<1>4. publication' = [publication EXCEPT ![p] = record]
  BY <1>1 DEF CopySubscriptions, BusInv, TypeOK
<1>5. mutex = NoThread /\ mutex' = t /\ running' = running
      /\ UNCHANGED <<subscriptions, next_id, failure_handler, withdrawn>>
  BY DEF CopySubscriptions, Lock
<1> HIDE DEF pending, old
<1>6. record \in PublicationRecord
  BY <1>1, <1>2, <1>3, Zenon DEF PublicationRecord
<1>7. record.phase = "copying" /\ record.pending = pending /\ record.delivered = old.delivered
      /\ record.gone = old.gone
  BY <1>1 DEF PublicationRecord
<1> HIDE DEF record
<1>8. RecordOK(record)
  BY <1>1, <1>2, <1>6, <1>7 DEF RecordOK
<1>9. Copying'
  <2> SUFFICES ASSUME NEW q \in Publications, publication'[q].phase = "copying"
               PROVE  t # NoThread /\ running[t] = q
                      /\ publication'[q].pending = Matching(Event[q])
    BY <1>5 DEF Copying, Matching
  <2>1. q = p
    BY <1>4, <1>5, Records DEF BusInv, Copying
  <2>2. publication'[q] = record
    BY <1>1, <1>4, <2>1, Records
  <2> QED BY <1>7, <2>1, <2>2, BusAssumption DEF pending
<1>10. running' \in [Threads -> Publications \cup {NoPublication}]
       /\ mutex' \in Threads \cup {NoThread}
  BY <1>5 DEF BusInv, TypeOK
<1> QED BY <1>1, <1>4, <1>5, <1>8, <1>9, <1>10, OneRecord

LEMMA CopyHandlerStep ==
  ASSUME BusInv, NEW t \in Threads, CopyHandler(t)
  PROVE  BusInv'
<1> DEFINE p == running[t]
           old == publication[p]
           record == [old EXCEPT !.phase = "delivering", !.handler = failure_handler]
<1>1. p \in Publications /\ RecordOK(old) /\ old \in PublicationRecord /\ old.phase = "copying"
  BY RunningPublication DEF CopyHandler, InPhase
<1>2. failure_handler \in Handlers \cup {NoHandler}
  BY DEF BusInv, TypeOK
<1>3. "delivering" \in {"idle", "called", "copying", "delivering", "reporting", "returned"}
  OBVIOUS
<1>4. publication' = [publication EXCEPT ![p] = record]
  BY <1>1 DEF CopyHandler, BusInv, TypeOK
<1>5. mutex' = NoThread /\ running' = running
      /\ UNCHANGED <<subscriptions, next_id, failure_handler, withdrawn>>
  BY DEF CopyHandler
<1> HIDE DEF old
<1>6. record \in PublicationRecord
  BY <1>1, <1>2, <1>3, Zenon DEF PublicationRecord
<1>7. record.phase = "delivering" /\ record.pending = old.pending
      /\ record.delivered = old.delivered /\ record.gone = old.gone
  BY <1>1 DEF PublicationRecord
<1> HIDE DEF record
<1>8. RecordOK(record)
  BY <1>1, <1>6, <1>7 DEF RecordOK
<1>9. Copying'
  <2> SUFFICES ASSUME NEW q \in Publications, publication'[q].phase = "copying" PROVE FALSE
    BY DEF Copying
  <2>1. q # p /\ publication[q].phase = "copying"
    BY <1>4, <1>7, Records
  <2>2. running[mutex] = q /\ running[mutex] = p
    BY <1>1, <2>1 DEF BusInv, Copying, old
  <2> QED BY <2>1, <2>2
<1>10. running' \in [Threads -> Publications \cup {NoPublication}]
       /\ mutex' \in Threads \cup {NoThread}
  BY <1>5 DEF BusInv, TypeOK
<1> QED BY <1>1, <1>4, <1>5, <1>8, <1>9, <1>10, OneRecord

\* Writing the record of a publication that delivers.
LEMMA DeliveryStep ==
  ASSUME BusInv, NEW t \in Threads, running[t] # NoPublication, NEW record,
         publication[running[t]].phase # "copying",
         RecordOK(record), record.phase # "copying",
         publication' = [publication EXCEPT ![running[t]] = record],
         UNCHANGED <<mutex, subscriptions, next_id, failure_handler, running, withdrawn>>
  PROVE  BusInv'
<1>1. running[t] \in Publications
  BY RunningPublication
<1>2. Copying'
  BY <1>1, OthersCopy
<1>3. running' \in [Threads -> Publications \cup {NoPublication}]
      /\ mutex' \in Threads \cup {NoThread}
  BY DEF BusInv, TypeOK
<1> QED BY <1>1, <1>2, <1>3, OneRecord

LEMMA ListenerSteps ==
  ASSUME BusInv, NEW t \in Threads, ListenerReturns(t) \/ HandlerEnds(t)
  PROVE  BusInv'
<1> DEFINE p == running[t]
<1>1. /\ p \in Publications /\ p # NoPublication
      /\ publication[p].phase \in {"delivering", "reporting"} /\ publication[p].pending # {}
  BY RunningPublication DEF ListenerReturns, HandlerEnds, InListener, InPhase, BusInv, Shape
<1>2. RecordOK(Advanced(p)) /\ Advanced(p).phase = "delivering"
  BY <1>1, AdvancedOK
<1>3. publication' = [publication EXCEPT ![p] = Advanced(p)]
      /\ UNCHANGED <<mutex, subscriptions, next_id, failure_handler, running, withdrawn>>
  BY DEF ListenerReturns, HandlerEnds
<1> QED BY <1>1, <1>2, <1>3, DeliveryStep

LEMMA ListenerThrowsStep ==
  ASSUME BusInv, NEW t \in Threads, ListenerThrows(t)
  PROVE  BusInv'
<1> DEFINE p == running[t]
           after == AfterFailure(p)
           record == [after EXCEPT !.failed = TRUE]
<1>1. /\ p \in Publications /\ p # NoPublication
      /\ publication[p].phase = "delivering" /\ publication[p].pending # {}
  BY RunningPublication DEF ListenerThrows, InListener, InPhase
<1>2. RecordOK(publication[p]) /\ publication[p] \in PublicationRecord
  BY <1>1, Records
<1>3. RecordOK(after) /\ after \in PublicationRecord /\ after.phase \in {"delivering", "reporting"}
  <2>1. CASE publication[p].handler = NoHandler
    BY <1>1, <2>1, AdvancedOK DEF AfterFailure, RecordOK
  <2>2. CASE publication[p].handler # NoHandler
    <3> DEFINE old == publication[p]
               reporting == [old EXCEPT !.phase = "reporting"]
    <3>1. old \in PublicationRecord /\ "reporting" \in
            {"idle", "called", "copying", "delivering", "reporting", "returned"}
      BY <1>2
    <3> HIDE DEF old
    <3>2. reporting \in PublicationRecord
      BY <3>1, Zenon DEF PublicationRecord
    <3>3. reporting.phase = "reporting" /\ reporting.pending = old.pending
          /\ reporting.delivered = old.delivered /\ reporting.gone = old.gone
      BY <3>1 DEF PublicationRecord
    <3>4. after = reporting
      BY <2>2 DEF AfterFailure, old
    <3> HIDE DEF reporting, after
    <3>5. RecordOK(reporting)
      BY <1>1, <1>2, <3>2, <3>3 DEF RecordOK, old
    <3> QED BY <3>2, <3>3, <3>4, <3>5
  <2> QED BY <2>1, <2>2
<1>4. publication' = [publication EXCEPT ![p] = record]
      /\ UNCHANGED <<mutex, subscriptions, next_id, failure_handler, running, withdrawn>>
  BY DEF ListenerThrows
<1> HIDE DEF after
<1>5. record \in PublicationRecord
  BY <1>3, Zenon DEF PublicationRecord
<1>6. record.phase = after.phase /\ record.pending = after.pending
      /\ record.delivered = after.delivered /\ record.gone = after.gone
  BY <1>3 DEF PublicationRecord
<1> HIDE DEF record
<1>7. RecordOK(record) /\ record.phase # "copying"
  BY <1>3, <1>5, <1>6 DEF RecordOK
<1> QED BY <1>1, <1>4, <1>7, DeliveryStep

LEMMA ReturnStep ==
  ASSUME BusInv, NEW t \in Threads, Return(t)
  PROVE  BusInv'
<1> DEFINE p == running[t]
           failed == publication[p].failed
           record == [Idle EXCEPT !.phase = "returned", !.failed = failed]
<1>1. p \in Publications /\ publication[p] \in PublicationRecord
      /\ publication[p].phase = "delivering"
  BY RunningPublication DEF Return, InPhase
<1>2. Idle \in PublicationRecord /\ Idle.delivered = <<>> /\ Idle.pending = {} /\ Idle.gone = {}
  BY DEF Idle, PublicationRecord
<1>3. failed \in BOOLEAN /\ publication[p].parent \in Publications \cup {NoPublication}
      /\ "returned" \in {"idle", "called", "copying", "delivering", "reporting", "returned"}
  BY <1>1 DEF PublicationRecord
<1>4. publication' = [publication EXCEPT ![p] = record]
      /\ running' = [running EXCEPT ![t] = publication[p].parent]
      /\ UNCHANGED <<mutex, subscriptions, next_id, failure_handler, withdrawn>>
  BY DEF Return
<1> HIDE DEF failed
<1>5. record \in PublicationRecord
  BY <1>2, <1>3, Zenon DEF PublicationRecord
<1>6. record.phase = "returned" /\ record.pending = {} /\ record.delivered = <<>>
      /\ record.gone = {}
  BY <1>2 DEF PublicationRecord
<1> HIDE DEF record
<1>7. RecordOK(record)
  BY <1>5, <1>6 DEF RecordOK
<1>8. running' \in [Threads -> Publications \cup {NoPublication}]
      /\ mutex' \in Threads \cup {NoThread}
  BY <1>3, <1>4 DEF BusInv, TypeOK
<1>9. Copying'
  <2> SUFFICES ASSUME NEW q \in Publications, publication'[q].phase = "copying"
               PROVE  mutex # NoThread /\ running'[mutex] = q
                      /\ publication'[q].pending = Matching(Event[q])
    BY <1>4 DEF Copying, Matching
  <2>1. q # p /\ publication'[q] = publication[q]
    BY <1>4, <1>6, Records
  <2>2. t # mutex
    BY <1>1, <2>1, CopierBusy
  <2> QED BY <1>4, <2>1, <2>2 DEF BusInv, Copying, TypeOK
<1> QED BY <1>1, <1>4, <1>7, <1>8, <1>9, OneRecord

LEMMA BusStep == BusInv /\ [Next]_vars => BusInv'
<1> SUFFICES ASSUME BusInv, [Next]_vars PROVE BusInv'
  OBVIOUS
<1>1. CASE UNCHANGED vars
  BY <1>1 DEF vars, BusInv, TypeOK, NeverAgain, Shape, Copying, Matching, UnsubscribedStaysSilent,
     InSubscriptionOrder, Ran
<1>2. ASSUME NEW t \in Threads, Advance(t)
      PROVE  BusInv'
  BY <1>2, CopySubscriptionsStep, CopyHandlerStep, ListenerSteps, ListenerThrowsStep, ReturnStep
     DEF Advance
<1> QED BY <1>1, <1>2, ListSteps, PublishStep DEF Next

THEOREM BusInvariant == Spec => []BusInv
BY InitBus, BusStep, PTL DEF Spec

-----------------------------------------------------------------------------

\* Every variable keeps its type; an id that is subscribed was handed out.
THEOREM BusTyped == Spec => []TypeOK
BY BusInvariant, PTL DEF BusInv

\* Nobody who left before publish was called is run by it.
THEOREM BusUnsubscribedStaysSilent == Spec => []UnsubscribedStaysSilent
BY BusInvariant, PTL DEF BusInv

\* Listeners run in the order of subscription, each at most once.
THEOREM BusInSubscriptionOrder == Spec => []InSubscriptionOrder
BY BusInvariant, PTL DEF BusInv

\* A publication that starts to deliver has copied what the bus still has: no
\* other publication or call comes between its copy and its first listener.
LEMMA CopyStep ==
  ASSUME BusInv, [Next]_vars, NEW p \in Publications,
         publication[p].phase = "copying", publication'[p].phase = "delivering"
  PROVE  /\ publication'[p].pending = Matching(Event[p])'
         /\ publication'[p].handler = failure_handler'
<1>1. publication \in [Publications -> PublicationRecord] /\ mutex # NoThread
  BY Records DEF BusInv, Copying
<1>2. PICK t \in Threads : CopyHandler(t)
  <2>1. publication' # publication
    OBVIOUS
  <2>2. ASSUME NEW t \in Threads, NEW q \in Publications, Publish(t, q) PROVE FALSE
    <3>1. q # p
      BY <2>2 DEF Publish
    <3> QED BY <1>1, <2>2, <3>1 DEF Publish
  <2>3. ASSUME NEW t \in Threads, CopySubscriptions(t) PROVE FALSE
    BY <1>1, <2>3 DEF CopySubscriptions, Lock
  <2>4. ASSUME NEW t \in Threads,
               ListenerReturns(t) \/ ListenerThrows(t) \/ HandlerEnds(t) \/ Return(t)
        PROVE  FALSE
    <3>1. running[t] # p
      BY <2>4 DEF ListenerReturns, ListenerThrows, HandlerEnds, Return, InListener, InPhase
    <3>2. publication'[p] = publication[p]
      BY <1>1, <2>4, <3>1 DEF ListenerReturns, ListenerThrows, HandlerEnds, Return
    <3> QED BY <3>2
  <2> QED
    BY <2>1, <2>2, <2>3, <2>4 DEF Next, Advance, vars, Subscribe, Unsubscribe,
       SetListenerFailureHandler
<1>3. running[t] = p
  BY <1>1, <1>2 DEF CopyHandler
<1> DEFINE old == publication[p]
           record == [old EXCEPT !.phase = "delivering", !.handler = failure_handler]
<1>4. publication'[p] = record
  BY <1>1, <1>2, <1>3 DEF CopyHandler
<1>5. record.pending = old.pending /\ record.handler = failure_handler
  <2>1. old \in PublicationRecord
    BY <1>1
  <2> HIDE DEF old
  <2> QED BY <2>1 DEF PublicationRecord
<1>6. Matching(Event[p])' = Matching(Event[p]) /\ failure_handler' = failure_handler
  BY <1>2 DEF CopyHandler, Matching
<1> QED BY <1>4, <1>5, <1>6 DEF BusInv, Copying

THEOREM BusCopiesOneMoment == Spec => CopiesOneMoment
<1>1. BusInv /\ [Next]_vars =>
        [\A p \in Publications :
           (publication[p].phase = "copying" /\ publication'[p].phase = "delivering") =>
             /\ publication'[p].pending = Matching(Event[p])'
             /\ publication'[p].handler = failure_handler']_vars
  BY CopyStep
<1> QED BY <1>1, BusInvariant, PTL DEF Spec, CopiesOneMoment

-----------------------------------------------------------------------------
(* Who is reached.                                                         *)

\* A publication that has copied runs, sooner or later, exactly the listeners
\* with a matching filter among those that were subscribed when publish was
\* called and still are.
HeardBy(p, record) ==
  /\ record.known \subseteq 1..(next_id - 1)
  /\ record.phase \in {"copying", "delivering", "reporting"} =>
       \A id \in record.known \ withdrawn :
         id \in {record.delivered[i] : i \in DOMAIN record.delivered} \cup record.pending
           <=> Matches(subscriptions[id], Event[p])

\* Nobody is forgotten: an id that was handed out and not given back is there.
Heard ==
  /\ 1..(next_id - 1) \subseteq withdrawn \cup DOMAIN subscriptions
  /\ \A p \in Publications : HeardBy(p, publication[p])

\* A step of one publication that leaves the list alone.
LEMMA OneHeard ==
  ASSUME BusInv, Heard, NEW p \in Publications, NEW record, HeardBy(p, record),
         publication' = [publication EXCEPT ![p] = record],
         UNCHANGED <<subscriptions, next_id, withdrawn>>
  PROVE  Heard'
<1>1. \A q \in Publications : HeardBy(q, publication'[q])
  BY Records DEF Heard
<1> QED BY <1>1 DEF Heard, HeardBy

\* The next listener is delivered to; the rest is pending as before.
LEMMA AdvancedHeard ==
  ASSUME BusInv, NEW p \in Publications, publication[p].pending # {},
         publication[p].phase \in {"delivering", "reporting"}, HeardBy(p, publication[p])
  PROVE  HeardBy(p, Advanced(p)) /\ Advanced(p) \in PublicationRecord
<1> DEFINE old == publication[p]
           id == Current(p)
           delivered == Append(old.delivered, id)
           pending == old.pending \ {id}
<1>1. old \in PublicationRecord
  BY Records
<1>2. old.pending \in SUBSET Nat /\ old.delivered \in Seq(Nat)
  BY <1>1 DEF PublicationRecord
<1>3. id \in old.pending /\ id \in Nat
  BY <1>2, CurrentIsLeast
<1>4. Advanced(p) = [old EXCEPT !.pending = pending, !.delivered = delivered,
                                !.phase = "delivering"]
  BY DEF Advanced
<1>5. Len(old.delivered) \in Nat /\ DOMAIN old.delivered = 1..Len(old.delivered)
  BY <1>2
<1>6. /\ DOMAIN delivered = 1..(Len(old.delivered) + 1)
      /\ \A i \in 1..Len(old.delivered) : delivered[i] = old.delivered[i]
      /\ delivered[Len(old.delivered) + 1] = id
  <2> HIDE DEF old, id
  <2> QED BY <1>2, <1>3, AppendProperties
<1> HIDE DEF delivered, old, id
<1>7. {delivered[i] : i \in DOMAIN delivered} = {old.delivered[i] : i \in DOMAIN old.delivered} \cup {id}
  BY <1>5, <1>6
<1>8. {delivered[i] : i \in DOMAIN delivered} \cup pending
        = {old.delivered[i] : i \in DOMAIN old.delivered} \cup old.pending
  BY <1>3, <1>7
<1> HIDE DEF pending
<1>9. /\ Advanced(p).pending = pending /\ Advanced(p).delivered = delivered
      /\ Advanced(p).known = old.known
  BY <1>1, <1>4 DEF PublicationRecord
<1>10. Advanced(p) \in PublicationRecord
  BY AdvancedOK DEF RecordOK
<1> QED BY <1>8, <1>9, <1>10 DEF HeardBy, old

LEMMA HeardInit == Init => Heard
<1> SUFFICES ASSUME Init PROVE Heard
  OBVIOUS
<1>1. next_id - 1 = 0 /\ \A p \in Publications : publication[p] = Idle
  BY DEF Init
<1>2. Idle.known = {} /\ Idle.phase = "idle"
  BY DEF Idle
<1> QED BY <1>1, <1>2 DEF Heard, HeardBy

\* The list changes under the feet of publications that have copied it.
LEMMA HeardListSteps ==
  ASSUME BusInv, Heard, NEW t \in Threads,
         \/ \E filter \in Filters : Subscribe(t, filter)
         \/ \E id \in 1..MaxSubscriptions : Unsubscribe(t, id)
         \/ \E handler \in Handlers \cup {NoHandler} : SetListenerFailureHandler(t, handler)
  PROVE  Heard'
<1>1. /\ next_id \in Nat \ {0} /\ 1..(next_id - 1) \subseteq withdrawn \cup DOMAIN subscriptions
      /\ DOMAIN subscriptions \subseteq 1..(next_id - 1)
      /\ \A p \in Publications : HeardBy(p, publication[p])
  BY DEF BusInv, TypeOK, Heard
<1>2. ASSUME NEW filter \in Filters, Subscribe(t, filter) PROVE Heard'
  <2>1. /\ publication' = publication /\ withdrawn' = withdrawn /\ next_id' = next_id + 1
        /\ DOMAIN subscriptions' = DOMAIN subscriptions \cup {next_id}
        /\ \A id \in DOMAIN subscriptions \ {next_id} : subscriptions'[id] = subscriptions[id]
    BY <1>2 DEF Subscribe, NewId
  <2>2. 1..(next_id' - 1) = 1..(next_id - 1) \cup {next_id} /\ next_id \notin 1..(next_id - 1)
    BY <1>1, <2>1
  <2>3. ASSUME NEW p \in Publications PROVE HeardBy(p, publication[p])'
    <3>1. \A id \in publication[p].known \ withdrawn : subscriptions'[id] = subscriptions[id]
      BY <1>1, <2>1, <2>2 DEF HeardBy
    <3> QED BY <1>1, <2>1, <2>2, <3>1 DEF HeardBy
  <2> QED BY <1>1, <2>1, <2>2, <2>3 DEF Heard
<1>3. ASSUME NEW id \in 1..MaxSubscriptions, Unsubscribe(t, id) PROVE Heard'
  <2>1. /\ publication' = publication /\ withdrawn' = withdrawn \cup {id} /\ next_id' = next_id
        /\ DOMAIN subscriptions' = DOMAIN subscriptions \ {id}
        /\ \A i \in DOMAIN subscriptions \ {id} : subscriptions'[i] = subscriptions[i]
    BY <1>3 DEF Unsubscribe, Without
  <2>2. ASSUME NEW p \in Publications PROVE HeardBy(p, publication[p])'
    <3>1. \A i \in publication[p].known \ withdrawn' : subscriptions'[i] = subscriptions[i]
      BY <1>1, <2>1 DEF HeardBy
    <3> QED BY <1>1, <2>1, <3>1 DEF HeardBy
  <2> QED BY <1>1, <2>1, <2>2 DEF Heard
<1>4. ASSUME NEW handler \in Handlers \cup {NoHandler}, SetListenerFailureHandler(t, handler)
      PROVE  Heard'
  BY <1>4 DEF SetListenerFailureHandler, Heard, HeardBy
<1> QED BY <1>2, <1>3, <1>4

\* What publish does with the list.
LEMMA HeardPublishSteps ==
  ASSUME BusInv, Heard, NEW t \in Threads, Advance(t) \/ \E p \in Publications : Publish(t, p)
  PROVE  Heard'
<1>1. ASSUME NEW p \in Publications, Publish(t, p) PROVE Heard'
  <2> DEFINE record == [Idle EXCEPT !.phase = "called", !.parent = running[t],
                          !.known = (1..(next_id - 1)) \ withdrawn, !.gone = withdrawn]
  <2>1. record.known = (1..(next_id - 1)) \ withdrawn /\ record.phase = "called"
    BY DEF Idle
  <2>2. publication' = [publication EXCEPT ![p] = record]
        /\ UNCHANGED <<subscriptions, next_id, withdrawn>>
    BY <1>1 DEF Publish
  <2> HIDE DEF record
  <2>3. HeardBy(p, record)
    BY <2>1 DEF HeardBy
  <2> QED BY <2>2, <2>3, OneHeard
<1> DEFINE p == running[t]
<1>2. ASSUME p # NoPublication
      PROVE  p \in Publications /\ publication[p] \in PublicationRecord
             /\ HeardBy(p, publication[p])
  BY <1>2, RunningPublication DEF Heard
<1>3. CASE CopySubscriptions(t)
  <2> DEFINE old == publication[p]
             pending == Matching(Event[p])
             record == [old EXCEPT !.phase = "copying", !.pending = pending]
  <2>1. p \in Publications /\ old \in PublicationRecord /\ HeardBy(p, old) /\ old.phase = "called"
    BY <1>2, <1>3 DEF CopySubscriptions, InPhase
  <2>2. old.delivered = <<>>
    BY <2>1 DEF BusInv, Shape
  <2>3. publication' = [publication EXCEPT ![p] = record]
        /\ UNCHANGED <<subscriptions, next_id, withdrawn>>
    BY <1>3, <2>1, Records DEF CopySubscriptions
  <2>4. \A id \in old.known \ withdrawn : id \in pending <=> Matches(subscriptions[id], Event[p])
    BY <2>1 DEF Matching, HeardBy, Heard
  <2> HIDE DEF old, pending
  <2>5. record.known = old.known /\ record.pending = pending /\ record.delivered = <<>>
    BY <2>1, <2>2 DEF PublicationRecord
  <2> HIDE DEF record
  <2>6. HeardBy(p, record)
    BY <2>1, <2>4, <2>5 DEF HeardBy
  <2> QED BY <2>1, <2>3, <2>6, OneHeard
<1>4. CASE CopyHandler(t)
  <2> DEFINE old == publication[p]
             record == [old EXCEPT !.phase = "delivering", !.handler = failure_handler]
  <2>1. p \in Publications /\ old \in PublicationRecord /\ HeardBy(p, old) /\ old.phase = "copying"
    BY <1>2, <1>4 DEF CopyHandler, InPhase
  <2>2. publication' = [publication EXCEPT ![p] = record]
        /\ UNCHANGED <<subscriptions, next_id, withdrawn>>
    BY <1>4, <2>1, Records DEF CopyHandler
  <2> HIDE DEF old
  <2>3. record.known = old.known /\ record.pending = old.pending
        /\ record.delivered = old.delivered
    BY <2>1 DEF PublicationRecord
  <2> HIDE DEF record
  <2>4. HeardBy(p, record)
    BY <2>1, <2>3 DEF HeardBy
  <2> QED BY <2>1, <2>2, <2>4, OneHeard
<1>5. CASE ListenerReturns(t) \/ HandlerEnds(t)
  <2>1. /\ p \in Publications /\ HeardBy(p, publication[p])
        /\ publication[p].phase \in {"delivering", "reporting"} /\ publication[p].pending # {}
    BY <1>2, <1>5 DEF ListenerReturns, HandlerEnds, InListener, InPhase, BusInv, Shape
  <2>2. publication' = [publication EXCEPT ![p] = Advanced(p)]
        /\ UNCHANGED <<subscriptions, next_id, withdrawn>>
    BY <1>5 DEF ListenerReturns, HandlerEnds
  <2>3. HeardBy(p, Advanced(p))
    BY <2>1, AdvancedHeard
  <2> QED BY <2>1, <2>2, <2>3, OneHeard
<1>6. CASE ListenerThrows(t)
  <2> DEFINE after == AfterFailure(p)
             record == [after EXCEPT !.failed = TRUE]
  <2>1. /\ p \in Publications /\ publication[p] \in PublicationRecord
        /\ HeardBy(p, publication[p])
        /\ publication[p].phase = "delivering" /\ publication[p].pending # {}
    BY <1>2, <1>6 DEF ListenerThrows, InListener, InPhase
  <2>2. publication' = [publication EXCEPT ![p] = record]
        /\ UNCHANGED <<subscriptions, next_id, withdrawn>>
    BY <1>6 DEF ListenerThrows
  <2>3. HeardBy(p, after) /\ after \in PublicationRecord /\ after.phase \in {"delivering", "reporting"}
    <3>1. CASE publication[p].handler = NoHandler
      BY <2>1, <3>1, AdvancedHeard, AdvancedOK DEF AfterFailure
    <3>2. CASE publication[p].handler # NoHandler
      <4> DEFINE old == publication[p]
                 reporting == [old EXCEPT !.phase = "reporting"]
      <4>1. after = reporting
        BY <3>2 DEF AfterFailure
      <4> HIDE DEF after
      <4>2. old \in PublicationRecord /\ HeardBy(p, old) /\ old.phase = "delivering"
        BY <2>1
      <4> HIDE DEF old
      <4>3. "reporting" \in {"idle", "called", "copying", "delivering", "reporting", "returned"}
        OBVIOUS
      <4>4. reporting \in PublicationRecord
        BY <4>2, <4>3, Zenon DEF PublicationRecord
      <4>5. reporting.phase = "reporting" /\ reporting.pending = old.pending
            /\ reporting.delivered = old.delivered /\ reporting.known = old.known
        BY <4>2 DEF PublicationRecord
      <4> HIDE DEF reporting
      <4>6. HeardBy(p, reporting)
        BY <4>2, <4>5 DEF HeardBy
      <4> QED BY <4>1, <4>4, <4>5, <4>6
    <3> QED BY <3>1, <3>2
  <2> HIDE DEF after
  <2>4. record.phase = after.phase /\ record.pending = after.pending
        /\ record.delivered = after.delivered /\ record.known = after.known
    BY <2>3 DEF PublicationRecord
  <2> HIDE DEF record
  <2>5. HeardBy(p, record)
    BY <2>3, <2>4 DEF HeardBy
  <2> QED BY <2>1, <2>2, <2>5, OneHeard
<1>7. CASE Return(t)
  <2> DEFINE record == [Idle EXCEPT !.phase = "returned", !.failed = publication[p].failed]
  <2>1. p \in Publications
    BY <1>2, <1>7 DEF Return, InPhase
  <2>2. publication' = [publication EXCEPT ![p] = record]
        /\ UNCHANGED <<subscriptions, next_id, withdrawn>>
    BY <1>7 DEF Return
  <2>3. record.known = {} /\ record.phase = "returned"
    BY DEF Idle
  <2> HIDE DEF record
  <2>4. HeardBy(p, record)
    BY <2>3 DEF HeardBy
  <2> QED BY <2>1, <2>2, <2>4, OneHeard
<1> QED BY <1>1, <1>3, <1>4, <1>5, <1>6, <1>7 DEF Advance

LEMMA HeardStep == BusInv /\ Heard /\ [Next]_vars => Heard'
<1> SUFFICES ASSUME BusInv, Heard, [Next]_vars PROVE Heard'
  OBVIOUS
<1>1. CASE UNCHANGED vars
  BY <1>1 DEF vars, Heard, HeardBy
<1> QED BY <1>1, HeardListSteps, HeardPublishSteps DEF Next

\* EventFilter::matches (events.cpp:8-18) accepts an event just when a single
\* collection of it passes every field that the filter sets.
LEMMA MatchesConcerns ==
  ASSUME NEW p \in Publications, NEW filter
  PROVE  Matches(filter, Event[p]) <=> Concerns(filter, Event[p])
<1> DEFINE refs == UNION {Event[q].collections : q \in Publications}
           Passes(r) == /\ Accepts(filter.target_kind, r.target.kind)
                        /\ Accepts(filter.target, r.target)
                        /\ Accepts(filter.collection, r.collection)
<1>1. Covers(filter) = {r \in refs : Passes(r)}
  BY DEF Covers, Accepts
<1>2. Event[p].collections \subseteq refs
  OBVIOUS
<1>3. (\E r \in Event[p].collections : Passes(r)) <=> Event[p].collections \cap Covers(filter) # {}
  <2> HIDE DEF refs, Passes
  <2> QED BY <1>1, <1>2
<1> QED BY <1>3 DEF Matches, Concerns, SpeaksOfCollections, Accepts

\* events.cpp:56-57: whoever throws, subscribes or leaves meanwhile, in this
\* thread or in another, a publication that is about to return has run each
\* listener that was subscribed all the time if and only if its filter covers
\* the event.
THEOREM BusReachesEveryObserver == Spec => []ReachesEveryObserver
<1>1. ASSUME BusInv, Heard, NEW t \in Threads, InPhase(t, "delivering"),
             publication[running[t]].pending = {},
             NEW id \in publication[running[t]].known \ withdrawn
      PROVE  id \in Ran(running[t]) <=> Concerns(subscriptions[id], Event[running[t]])
  <2>1. running[t] \in Publications
    BY <1>1, RunningPublication DEF InPhase
  <2>2. id \in Ran(running[t]) <=> Matches(subscriptions[id], Event[running[t]])
    BY <1>1, <2>1 DEF Heard, HeardBy, InPhase, Ran
  <2> QED BY <2>1, <2>2, MatchesConcerns
<1>2. BusInv /\ Heard => ReachesEveryObserver
  BY <1>1 DEF ReachesEveryObserver
<1> QED BY <1>2, HeardInit, HeardStep, BusInvariant, PTL DEF Spec
=============================================================================
