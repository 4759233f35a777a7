---------------------------- MODULE MutexRegistry ----------------------------
(***************************************************************************)
(* How services come to share a mutex: mutationMutexFor (src/service.cpp)  *)
(* keeps a weak pointer per adapter address, while services and adapters   *)
(* are created and destroyed by any thread and the allocator hands out an  *)
(* address again once its adapter is gone.  A service passes through       *)
(*    none, purging, looking, installing   the constructor                 *)
(*    live, committing                     used, and inside a commit       *)
(*    released, gone                       the destructor: the mutex goes  *)
(*                                         before the adapter              *)
(* A mutex is named after the service whose constructor created it.        *)
(***************************************************************************)
EXTENDS FiniteSets

CONSTANTS
  Services,    \* the service objects, each constructed at most once
  Adapters,    \* the adapter objects; the name of one that is gone may be used again
  Addresses,   \* where an adapter may be allocated
  None

ASSUME NoneAssumption == None \notin Services \cup Adapters \cup Addresses

VARIABLES
  address,         \* of each adapter while it is alive
  handles,         \* the adapters that the host itself still refers to
  service,         \* the phase, adapter_ and mutation_mutex_ of each service
  registry,        \* the mutex each address is mapped to
  registry_mutex   \* held by the constructor of a service, or by nobody

vars == <<address, handles, service, registry, registry_mutex>>

Init ==
  /\ address = [a \in Adapters |-> None]
  /\ handles = {}
  /\ service = [s \in Services |-> [phase |-> "none", adapter |-> None, mutex |-> None]]
  /\ registry = [x \in Addresses |-> None]
  /\ registry_mutex = None

Unused(x) == \A a \in Adapters : address[a] # x

\* Some shared_ptr to the adapter exists.
Referenced(a) == a \in handles \/ \E s \in Services : service[s].adapter = a

CreateAdapter(a, x) ==
  /\ address[a] = None /\ ~ Referenced(a)
  /\ Unused(x)
  /\ address' = [address EXCEPT ![a] = x]
  /\ handles' = handles \cup {a}
  /\ UNCHANGED <<service, registry, registry_mutex>>

DropHandle(a) ==
  /\ a \in handles
  /\ handles' = handles \ {a}
  /\ UNCHANGED <<address, service, registry, registry_mutex>>

\* The last shared_ptr destroys the adapter.
DestroyAdapter(a) ==
  /\ address[a] # None /\ ~ Referenced(a)
  /\ address' = [address EXCEPT ![a] = None]
  /\ UNCHANGED <<handles, service, registry, registry_mutex>>

\* The weak pointers to a mutex have expired: no service refers to it.
Expired(m) == \A s \in Services : service[s].mutex # m

\* The constructor stores its adapter and waits for registry_mutex.
Construct(s, a) ==
  /\ service[s].phase = "none"
  /\ a \in handles
  /\ service' = [service EXCEPT ![s].phase = "purging", ![s].adapter = a]
  /\ UNCHANGED <<address, handles, registry, registry_mutex>>

\* Mutation: the registry is used without its mutex.
LockNothing(s) == UNCHANGED registry_mutex

LockRegistry(s) == registry_mutex = None /\ registry_mutex' = s

Purge(s) ==
  /\ service[s].phase = "purging"
  /\ LockRegistry(s)
  /\ registry' = [x \in Addresses |-> IF Expired(registry[x]) THEN None ELSE registry[x]]
  /\ service' = [service EXCEPT ![s].phase = "looking"]
  /\ UNCHANGED <<address, handles>>

Key(s) == address[service[s].adapter]

\* Mutation: the mutex of some other adapter will do.
FoundAnywhere(s) == {registry[x] : x \in Addresses} \ {None}

\* The mutex registered for the adapter's address.
Found(s) == {registry[Key(s)]} \ {None}

\* The registered mutex is locked, which keeps it alive, unless it expired
\* after the registry was purged.
Share(s) ==
  /\ service[s].phase = "looking"
  /\ \E m \in Found(s) :
       /\ ~ Expired(m)
       /\ service' = [service EXCEPT ![s].phase = "live", ![s].mutex = m]
  /\ registry_mutex' = None
  /\ UNCHANGED <<address, handles, registry>>

\* Nothing is registered, or what is has expired: a new mutex is created.
Create(s) ==
  /\ service[s].phase = "looking"
  /\ \A m \in Found(s) : Expired(m)
  /\ service' = [service EXCEPT ![s].phase = "installing", ![s].mutex = s]
  /\ UNCHANGED <<address, handles, registry, registry_mutex>>

Install(s) ==
  /\ service[s].phase = "installing"
  /\ registry' = [registry EXCEPT ![Key(s)] = s]
  /\ service' = [service EXCEPT ![s].phase = "live"]
  /\ registry_mutex' = None
  /\ UNCHANGED <<address, handles>>

\* A thread of the service locks its mutex for a commit, and unlocks it.
BeginCommit(s) ==
  /\ service[s].phase = "live"
  /\ \A other \in Services :
       service[other].phase = "committing" => service[other].mutex # service[s].mutex
  /\ service' = [service EXCEPT ![s].phase = "committing"]
  /\ UNCHANGED <<address, handles, registry, registry_mutex>>

EndCommit(s) ==
  /\ service[s].phase = "committing"
  /\ service' = [service EXCEPT ![s].phase = "live"]
  /\ UNCHANGED <<address, handles, registry, registry_mutex>>

\* Mutation: the members are declared in another order.
AdapterReleased(s) == [service[s] EXCEPT !.phase = "released", !.adapter = None]

\* What the destructor has left once it destroyed the last member.
MutexReleased(s) == [service[s] EXCEPT !.phase = "released", !.mutex = None]

Release(s) ==
  /\ service[s].phase = "live"
  /\ service' = [service EXCEPT ![s] = MutexReleased(s)]
  /\ UNCHANGED <<address, handles, registry, registry_mutex>>

Destroyed(s) ==
  /\ service[s].phase = "released"
  /\ service' = [service EXCEPT ![s] = [phase |-> "gone", adapter |-> None, mutex |-> None]]
  /\ UNCHANGED <<address, handles, registry, registry_mutex>>

ServiceStep(s) ==
  \/ \E a \in Adapters : Construct(s, a)
  \/ Purge(s) \/ Share(s) \/ Create(s) \/ Install(s)
  \/ BeginCommit(s) \/ EndCommit(s)
  \/ Release(s) \/ Destroyed(s)

Next ==
  \/ \E a \in Adapters :
       DropHandle(a) \/ DestroyAdapter(a) \/ \E x \in Addresses : CreateAdapter(a, x)
  \/ \E s \in Services : ServiceStep(s)

Spec == Init /\ [][Next]_vars

-----------------------------------------------------------------------------
(* Properties.                                                             *)

Phases ==
  {"none", "purging", "looking", "installing", "live", "committing", "released", "gone"}

\* Every variable has its type; live adapters never share an address, and what
\* the host or a service refers to is alive.
TypeOK ==
  /\ address \in [Adapters -> Addresses \cup {None}]
  /\ handles \subseteq Adapters
  /\ service \in [Services -> [phase : Phases, adapter : Adapters \cup {None},
                               mutex : Services \cup {None}]]
  /\ registry \in [Addresses -> Services \cup {None}]
  /\ registry_mutex \in Services \cup {None}
  /\ \A a, b \in Adapters : address[a] # None /\ address[a] = address[b] => a = b
  /\ \A a \in handles : address[a] # None
  /\ \A s \in Services :
       service[s].adapter # None => address[service[s].adapter] # None

\* service.h:177-178: commits are serialized for the services that wrap one
\* adapter: two of them are never inside a commit at the same time, whatever
\* was created and destroyed before.
CommitsExclusive ==
  \A s, other \in Services :
    /\ s # other
    /\ service[s].phase = "committing" /\ service[other].phase = "committing"
    => service[s].adapter # service[other].adapter

\* A service never shares its mutex with one that wraps another adapter, also
\* not with one under destruction whose adapter's address was used again.
MutexBelongsToAdapter ==
  \A s, other \in Services :
    service[s].mutex # None /\ service[s].mutex = service[other].mutex =>
      service[s].adapter = service[other].adapter
=============================================================================
