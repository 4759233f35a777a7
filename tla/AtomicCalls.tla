----------------------------- MODULE AtomicCalls -----------------------------
(***************************************************************************)
(* What the service promises a caller, with nothing said about how: a call *)
(* is opened, takes effect at most once, all its operations at one instant *)
(* between opening and closing, and is closed with "ok" exactly if it took *)
(* effect.  Nothing else changes a collection.                             *)
(***************************************************************************)
EXTENDS PropertyStore

CONSTANTS Calls, Operations, Force, InitialStore

VARIABLES
  store,
  state   \* of each call: "idle", "open", "effected", "ok" or "refused"

vars == <<store, state>>

Init == store = InitialStore /\ state = [c \in Calls |-> "idle"]

\* All operations of a call succeed one after the other, each on the store
\* its predecessors left and each with the revisions the caller expects.
Succeeds(c) ==
  LET run == Candidates(store, Operations[c]) IN
  \A i \in DOMAIN Operations[c] :
    ApplyStatus(run[i - 1], Targets, Operations[c][i], Force[c]) = "Applied"

Open(c) ==
  /\ state[c] = "idle"
  /\ state' = [state EXCEPT ![c] = "open"]
  /\ UNCHANGED store

TakeEffect(c) ==
  /\ state[c] = "open"
  /\ Succeeds(c)
  /\ store' = Candidates(store, Operations[c])[Len(Operations[c])]
  /\ state' = [state EXCEPT ![c] = "effected"]

CloseEffected(c) ==
  /\ state[c] = "effected"
  /\ state' = [state EXCEPT ![c] = "ok"]
  /\ UNCHANGED store

\* A call without operations succeeds and changes nothing.
CloseEmpty(c) ==
  /\ state[c] = "idle" /\ Operations[c] = <<>>
  /\ state' = [state EXCEPT ![c] = "ok"]
  /\ UNCHANGED store

Refuse(c) ==
  /\ state[c] \in {"idle", "open"}
  /\ state' = [state EXCEPT ![c] = "refused"]
  /\ UNCHANGED store

Next ==
  \E c \in Calls :
    Open(c) \/ TakeEffect(c) \/ CloseEffected(c) \/ CloseEmpty(c) \/ Refuse(c)

Spec == Init /\ [][Next]_vars
=============================================================================
