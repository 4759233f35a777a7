------------------------- MODULE MutexRegistryProofs -------------------------
(***************************************************************************)
(* The mutexes that mutationMutexFor hands out are one per adapter object  *)
(* that lives, for any number of services, adapters and addresses.         *)
(*                                                                         *)
(* Neither property is inductive: they hold because the registry maps the  *)
(* address of an adapter to the mutex of every service that wraps it, and  *)
(* because a mutex that is new is known to nobody but its creator.         *)
(***************************************************************************)
EXTENDS MutexRegistry, TLAPS

\* The fields of a service in each phase.
Lifecycle ==
  \A s \in Services :
    /\ service[s].phase \in {"none", "gone"} =>
         service[s].adapter = None /\ service[s].mutex = None
    /\ service[s].phase \in {"purging", "looking", "released"} =>
         service[s].adapter # None /\ service[s].mutex = None
    /\ service[s].phase = "installing" => service[s].adapter # None /\ service[s].mutex = s
    /\ service[s].phase \in {"live", "committing"} =>
         service[s].adapter # None /\ service[s].mutex # None

\* The constructor that searches the registry is the one that holds its mutex.
OneConstructor ==
  \A s \in Services : service[s].phase \in {"looking", "installing"} => registry_mutex = s

\* The registry knows the mutex of every service, but for one being installed.
Registered ==
  \A s \in Services :
    service[s].mutex # None /\ service[s].phase # "installing" =>
      registry[Key(s)] = service[s].mutex

\* No mutex is registered twice.
Injective ==
  \A x, y \in Addresses : registry[x] # None /\ registry[x] = registry[y] => x = y

\* A mutex that does not exist yet, or is not installed, is known to nobody else.
Fresh ==
  \A s \in Services :
    service[s].phase \in {"none", "purging", "looking", "installing"} =>
      /\ \A x \in Addresses : registry[x] # s
      /\ \A other \in Services : service[other].mutex = s => other = s

\* A mutex is created only if no service of the adapter has one.
Alone ==
  \A s, other \in Services :
    /\ s # other
    /\ service[s].phase = "installing" /\ service[other].mutex # None
    => service[other].adapter # service[s].adapter

\* A recursive mutex has one owner.
OneOwner ==
  \A s, other \in Services :
    /\ s # other
    /\ service[s].phase = "committing" /\ service[other].phase = "committing"
    => service[s].mutex # service[other].mutex

RegistryInv ==
  TypeOK /\ Lifecycle /\ OneConstructor /\ Registered /\ Injective /\ Fresh /\ Alone /\ OneOwner

-----------------------------------------------------------------------------
(* The properties follow.                                                  *)

LEMMA InvMutexBelongs == RegistryInv => MutexBelongsToAdapter
<1> SUFFICES ASSUME RegistryInv,
                    NEW s \in Services, NEW other \in Services,
                    service[s].mutex # None, service[s].mutex = service[other].mutex
             PROVE  service[s].adapter = service[other].adapter
  BY DEF MutexBelongsToAdapter
<1> USE DEF RegistryInv
<1>1. CASE service[s].phase = "installing" \/ service[other].phase = "installing"
  <2>1. s = other
    BY <1>1 DEF Lifecycle, Fresh
  <2> QED BY <2>1
<1>2. CASE service[s].phase # "installing" /\ service[other].phase # "installing"
  <2>1. service[s].adapter \in Adapters /\ service[other].adapter \in Adapters
    BY DEF Lifecycle, TypeOK, Phases
  <2>2. Key(s) \in Addresses /\ Key(other) \in Addresses
    BY <2>1, NoneAssumption DEF TypeOK, Key
  <2>3. Key(s) = Key(other)
    BY <1>2, <2>2 DEF Registered, Injective
  <2> QED BY <2>1, <2>2, <2>3, NoneAssumption DEF TypeOK, Key
<1> QED BY <1>1, <1>2

LEMMA InvCommitsExclusive == RegistryInv => CommitsExclusive
<1> SUFFICES ASSUME RegistryInv,
                    NEW s \in Services, NEW other \in Services, s # other,
                    service[s].phase = "committing", service[other].phase = "committing",
                    service[s].adapter = service[other].adapter
             PROVE  FALSE
  BY DEF CommitsExclusive
<1>1. service[s].mutex # None /\ service[other].mutex # None
  BY DEF RegistryInv, Lifecycle
<1>2. service[s].mutex = service[other].mutex
  BY <1>1 DEF RegistryInv, Registered, Key
<1> QED BY <1>2 DEF RegistryInv, OneOwner

-----------------------------------------------------------------------------
(* The steps.                                                              *)

ServiceRecord ==
  [phase : Phases, adapter : Adapters \cup {None}, mutex : Services \cup {None}]

\* Two fields of a service are written.
LEMMA WriteAdapter ==
  ASSUME TypeOK, NEW s \in Services, NEW p \in Phases, NEW a \in Adapters,
         service' = [service EXCEPT ![s].phase = p, ![s].adapter = a]
  PROVE  /\ service' \in [Services -> ServiceRecord]
         /\ service'[s].phase = p /\ service'[s].adapter = a
         /\ service'[s].mutex = service[s].mutex
<1> DEFINE new == [service[s] EXCEPT !.phase = p, !.adapter = a]
<1>0. service[s] \in ServiceRecord /\ a \in Adapters \cup {None}
  BY DEF TypeOK, ServiceRecord
<1>1. new \in ServiceRecord
  BY <1>0, Zenon DEF ServiceRecord
<1>2. new.phase = p /\ new.adapter = a /\ new.mutex = service[s].mutex
  BY SMT DEF TypeOK
<1>3. service' = [service EXCEPT ![s] = new]
  BY DEF TypeOK
<1>4. service \in [Services -> ServiceRecord]
  BY DEF TypeOK, ServiceRecord
<1> HIDE DEF new, ServiceRecord
<1> QED BY <1>1, <1>2, <1>3, <1>4

LEMMA WriteMutex ==
  ASSUME TypeOK, NEW s \in Services, NEW p \in Phases, NEW m \in Services \cup {None},
         \/ service' = [service EXCEPT ![s].phase = p, ![s].mutex = m]
         \/ service' = [service EXCEPT ![s] = [service[s] EXCEPT !.phase = p, !.mutex = m]]
  PROVE  /\ service' \in [Services -> ServiceRecord]
         /\ service'[s].phase = p /\ service'[s].mutex = m
         /\ service'[s].adapter = service[s].adapter
<1> DEFINE new == [service[s] EXCEPT !.phase = p, !.mutex = m]
<1>0. service[s] \in ServiceRecord
  BY DEF TypeOK, ServiceRecord
<1>1. new \in ServiceRecord
  BY <1>0, Zenon DEF ServiceRecord
<1>2. new.phase = p /\ new.mutex = m /\ new.adapter = service[s].adapter
  BY SMT DEF TypeOK
<1>3. service' = [service EXCEPT ![s] = new]
  BY DEF TypeOK
<1>4. service \in [Services -> ServiceRecord]
  BY DEF TypeOK, ServiceRecord
<1> HIDE DEF new, ServiceRecord
<1> QED BY <1>1, <1>2, <1>3, <1>4

LEMMA InitInv == Init => RegistryInv
BY NoneAssumption
DEF Init, RegistryInv, TypeOK, Phases, Lifecycle, OneConstructor, Registered, Injective, Fresh,
    Alone, OneOwner

\* What happens to adapters leaves the address of every adapter that a service
\* refers to alone.
LEMMA AdapterSteps ==
  ASSUME RegistryInv, NEW a \in Adapters,
         \/ DropHandle(a) \/ DestroyAdapter(a)
         \/ \E x \in Addresses : CreateAdapter(a, x)
  PROVE  RegistryInv'
<1> USE DEF RegistryInv
<1>1. UNCHANGED <<service, registry, registry_mutex>>
  BY DEF DropHandle, DestroyAdapter, CreateAdapter
<1>2. TypeOK'
  <2>1. CASE DropHandle(a)
    BY <2>1 DEF DropHandle, TypeOK
  <2>2. CASE DestroyAdapter(a)
    BY <2>2, NoneAssumption DEF DestroyAdapter, TypeOK, Referenced
  <2>3. ASSUME NEW x \in Addresses, CreateAdapter(a, x)
        PROVE  TypeOK'
    BY <2>3, NoneAssumption DEF CreateAdapter, TypeOK, Referenced, Unused
  <2> QED BY <2>1, <2>2, <2>3
<1>3. \A s \in Services : service[s].adapter # None => address'[service[s].adapter] = Key(s)
  <2> SUFFICES ASSUME NEW s \in Services, service[s].adapter # None
               PROVE  address'[service[s].adapter] = Key(s)
    OBVIOUS
  <2>1. service[s].adapter \in Adapters /\ (address' # address => service[s].adapter # a)
    BY DEF TypeOK, DropHandle, DestroyAdapter, CreateAdapter, Referenced
  <2> QED BY <2>1 DEF DropHandle, DestroyAdapter, CreateAdapter, TypeOK, Key
<1>4. Registered'
  BY <1>1, <1>3 DEF Registered, Lifecycle, Key, TypeOK, Phases
<1>5. Lifecycle' /\ OneConstructor' /\ Injective' /\ Fresh' /\ Alone' /\ OneOwner'
  BY <1>1 DEF Lifecycle, OneConstructor, Injective, Fresh, Alone, OneOwner
<1> QED BY <1>2, <1>4, <1>5

\* A service is used and destroyed without the registry.
LEMMA LifeSteps ==
  ASSUME RegistryInv, NEW s \in Services,
         \/ \E a \in Adapters : Construct(s, a)
         \/ BeginCommit(s) \/ EndCommit(s) \/ Release(s) \/ Destroyed(s)
  PROVE  RegistryInv'
<1> USE DEF RegistryInv
<1>1. UNCHANGED <<address, handles, registry, registry_mutex>>
  BY DEF Construct, BeginCommit, EndCommit, Release, Destroyed
<1> DEFINE old == service[s]
           now == service'[s]
<1>2. old \in ServiceRecord
  BY DEF TypeOK, ServiceRecord
<1>3. \A other \in Services : other # s => service'[other] = service[other]
  BY DEF Construct, BeginCommit, EndCommit, Release, Destroyed, TypeOK
<1>4. /\ service' \in [Services -> ServiceRecord]
      /\ \/ /\ old.phase = "none" /\ now.phase = "purging"
            /\ now.adapter \in handles /\ now.mutex = old.mutex
         \/ /\ old.phase = "live" /\ now.phase = "committing"
            /\ now.adapter = old.adapter /\ now.mutex = old.mutex
            /\ \A other \in Services :
                 service[other].phase = "committing" => service[other].mutex # old.mutex
         \/ /\ old.phase = "committing" /\ now.phase = "live"
            /\ now.adapter = old.adapter /\ now.mutex = old.mutex
         \/ /\ old.phase = "live" /\ now.phase = "released"
            /\ now.adapter = old.adapter /\ now.mutex = None
         \/ /\ old.phase = "released" /\ now.phase = "gone"
            /\ now.adapter = None /\ now.mutex = None
  <2> USE <1>2 DEF TypeOK, Phases, ServiceRecord
  <2>1. CASE \E a \in Adapters : Construct(s, a)
    <3>1. PICK a \in Adapters :
            /\ service' = [service EXCEPT ![s].phase = "purging", ![s].adapter = a]
            /\ a \in handles /\ service[s].phase = "none"
      BY <2>1 DEF Construct
    <3> QED BY <3>1, WriteAdapter
  <2>2. CASE BeginCommit(s)
    BY <2>2 DEF BeginCommit
  <2>3. CASE EndCommit(s)
    BY <2>3 DEF EndCommit
  <2>4. CASE Release(s)
    <3>1. /\ service' = [service EXCEPT ![s] = [service[s] EXCEPT !.phase = "released", !.mutex = None]]
          /\ service[s].phase = "live"
      BY <2>4 DEF Release, MutexReleased
    <3> QED BY <3>1, WriteMutex
  <2>5. CASE Destroyed(s)
    BY <2>5 DEF Destroyed
  <2> QED BY <2>1, <2>2, <2>3, <2>4, <2>5
<1> HIDE DEF old, now
<1>5. TypeOK'
  <2>1. \A other \in Services :
          service'[other].adapter # None => address[service'[other].adapter] # None
    BY <1>3, <1>4 DEF TypeOK, old, now
  <2> QED BY <1>1, <1>4, <2>1 DEF TypeOK, ServiceRecord
<1>6. Lifecycle'
  BY <1>3, <1>4, NoneAssumption DEF TypeOK, Lifecycle, old, now
<1>7. OneConstructor'
  BY <1>1, <1>3, <1>4 DEF OneConstructor, old, now
<1>8. Registered'
  <2> SUFFICES ASSUME NEW other \in Services,
                      service'[other].mutex # None, service'[other].phase # "installing"
               PROVE  registry'[Key(other)'] = service'[other].mutex
    BY DEF Registered
  <2>1. CASE other # s
    BY <1>1, <1>3, <2>1 DEF Registered, Key
  <2>2. CASE other = s
    <3>1. service[s].phase \in {"live", "committing"}
      BY <1>4, <2>2 DEF Lifecycle, old, now
    <3>2. service[s].mutex # None /\ service'[s].mutex = service[s].mutex /\ Key(s)' = Key(s)
      BY <1>1, <1>4, <2>2, <3>1 DEF Key, old, now
    <3> QED BY <1>1, <2>2, <3>1, <3>2 DEF Registered
  <2> QED BY <2>1, <2>2
<1>9. Injective'
  BY <1>1 DEF Injective
<1>10. Fresh'
  BY <1>1, <1>3, <1>4, NoneAssumption DEF Fresh, Lifecycle, old, now
<1>11. Alone'
  BY <1>1, <1>3, <1>4 DEF Alone, Lifecycle, old, now
<1>12. OneOwner'
  BY <1>3, <1>4 DEF OneOwner, old, now
<1> QED BY <1>5, <1>6, <1>7, <1>8, <1>9, <1>10, <1>11, <1>12

\* The constructor, under registry_mutex.
LEMMA ConstructorSteps ==
  ASSUME RegistryInv, NEW s \in Services,
         Purge(s) \/ Share(s) \/ Create(s) \/ Install(s)
  PROVE  RegistryInv'
<1> USE DEF RegistryInv
<1>0. UNCHANGED <<address, handles>> /\ \A other \in Services : other # s => service'[other] = service[other]
  BY DEF Purge, Share, Create, Install, TypeOK
<1>a. service[s] \in ServiceRecord
  BY DEF TypeOK, ServiceRecord
<1>1. CASE Purge(s)
  <2>1. /\ service'[s].phase = "looking" /\ service'[s].adapter = service[s].adapter
        /\ service'[s].mutex = None /\ service[s].phase = "purging" /\ service[s].mutex = None
        /\ \A other \in Services : service'[other].mutex = service[other].mutex
    BY <1>1, <1>a DEF ServiceRecord, Purge, TypeOK, Lifecycle
  <2>2. registry_mutex = None /\ registry_mutex' = s
    BY <1>1 DEF Purge, LockRegistry
  <2>3. \A x \in Addresses : registry'[x] = IF Expired(registry[x]) THEN None ELSE registry[x]
    BY <1>1 DEF Purge
  <2>4. TypeOK'
    <3>1. service' \in [Services -> ServiceRecord]
      BY <1>1 DEF Purge, TypeOK, Phases, ServiceRecord
    <3>2. registry' \in [Addresses -> Services \cup {None}]
      BY <1>1 DEF Purge, TypeOK
    <3> QED BY <1>0, <2>1, <2>2, <3>1, <3>2 DEF TypeOK, ServiceRecord
  <2>5. Lifecycle'
    BY <1>0, <2>1 DEF Lifecycle
  <2>6. OneConstructor'
    BY <1>0, <2>2, NoneAssumption DEF OneConstructor
  <2>7. Registered'
    <3> SUFFICES ASSUME NEW other \in Services,
                        service'[other].mutex # None, service'[other].phase # "installing"
                 PROVE  registry'[Key(other)'] = service'[other].mutex
      BY DEF Registered
    <3>1. other # s /\ service'[other] = service[other] /\ Key(other)' = Key(other)
      BY <1>0, <2>1 DEF Key
    <3>2. Key(other) \in Addresses /\ registry[Key(other)] = service[other].mutex
      BY <3>1, NoneAssumption DEF Registered, TypeOK, Lifecycle, Key, Phases
    <3>3. ~ Expired(registry[Key(other)])
      BY <3>2 DEF Expired
    <3> QED BY <2>3, <3>1, <3>2, <3>3
  <2>8. Injective'
    BY <2>3 DEF Injective
  <2>9. Fresh'
    BY <1>0, <2>1, <2>3, NoneAssumption DEF Fresh
  <2>10. Alone' /\ OneOwner'
    BY <1>0, <2>1 DEF Alone, OneOwner
  <2> QED BY <2>4, <2>5, <2>6, <2>7, <2>8, <2>9, <2>10
<1>2. CASE Share(s)
  <2>1. PICK m \in Found(s) :
          ~ Expired(m) /\ service' = [service EXCEPT ![s].phase = "live", ![s].mutex = m]
    BY <1>2 DEF Share
  <2>2. service[s].phase = "looking" /\ service[s].adapter \in Adapters /\ service[s].adapter # None
    BY <1>2, <1>a DEF ServiceRecord, Share, Lifecycle
  <2>3. Key(s) \in Addresses /\ m = registry[Key(s)] /\ m # None /\ m \in Services
    BY <2>2 DEF Found, Key, TypeOK
  <2>4. /\ service'[s].phase = "live" /\ service'[s].adapter = service[s].adapter
        /\ service'[s].mutex = m
    BY <2>1, <1>a DEF ServiceRecord, TypeOK
  <2>5. registry' = registry /\ registry_mutex' = None /\ registry_mutex = s
    BY <1>2, <2>2 DEF Share, OneConstructor
  <2>6. \A other \in Services : service[other].phase # "installing"
    BY <2>2, <2>5 DEF OneConstructor
  <2>7. TypeOK'
    <3>1. service' \in [Services -> ServiceRecord]
      BY <2>1, <2>3, WriteMutex DEF Phases
    <3> QED BY <1>0, <2>4, <2>5, <3>1 DEF TypeOK, ServiceRecord
  <2>8. Lifecycle'
    BY <1>0, <2>2, <2>3, <2>4 DEF Lifecycle
  <2>9. OneConstructor'
    BY <1>0, <2>4, <2>5 DEF OneConstructor
  <2>10. Registered'
    BY <1>0, <2>3, <2>4, <2>5 DEF Registered, Key
  <2>11. Injective'
    BY <2>5 DEF Injective
  <2>12. Fresh'
    BY <1>0, <2>3, <2>4, <2>5 DEF Fresh
  <2>13. Alone' /\ OneOwner'
    BY <1>0, <2>4, <2>6 DEF Alone, OneOwner
  <2> QED BY <2>7, <2>8, <2>9, <2>10, <2>11, <2>12, <2>13
<1>3. CASE Create(s)
  <2>1. /\ service[s].phase = "looking" /\ service[s].adapter \in Adapters
        /\ service[s].adapter # None /\ service[s].mutex = None
    BY <1>3, <1>a DEF ServiceRecord, Create, Lifecycle
  <2>2. /\ service'[s].phase = "installing" /\ service'[s].adapter = service[s].adapter
        /\ service'[s].mutex = s
    BY <1>3, <1>a DEF ServiceRecord, Create, TypeOK
  <2>3. registry' = registry /\ registry_mutex' = registry_mutex /\ registry_mutex = s
    BY <1>3, <2>1 DEF Create, OneConstructor
  <2>4. Alone'
    <3> SUFFICES ASSUME NEW other \in Services, other # s, service[other].mutex # None,
                        service[other].adapter = service[s].adapter
                 PROVE  FALSE
      BY <1>0, <2>2, <2>3 DEF Alone, OneConstructor
    <3>1. service[other].phase # "installing"
      BY <2>3 DEF OneConstructor
    <3>2. registry[Key(s)] = service[other].mutex
      BY <3>1 DEF Registered, Key
    <3> QED BY <1>3, <3>2 DEF Create, Found, Expired
  <2>5. TypeOK'
    <3>1. service' \in [Services -> ServiceRecord]
      BY <1>3, WriteMutex DEF Create, Phases
    <3> QED BY <1>0, <2>2, <2>3, <3>1 DEF TypeOK, ServiceRecord
  <2>6. Lifecycle'
    BY <1>0, <2>1, <2>2 DEF Lifecycle
  <2>7. OneConstructor'
    BY <1>0, <2>3 DEF OneConstructor
  <2>8. Registered'
    BY <1>0, <2>2, <2>3 DEF Registered, Key
  <2>9. Injective'
    BY <2>3 DEF Injective
  <2>10. Fresh'
    BY <1>0, <2>1, <2>2, <2>3 DEF Fresh
  <2>11. OneOwner'
    BY <1>0, <2>2 DEF OneOwner
  <2> QED BY <2>4, <2>5, <2>6, <2>7, <2>8, <2>9, <2>10, <2>11
<1>4. CASE Install(s)
  <2>1. /\ service[s].phase = "installing" /\ service[s].adapter \in Adapters
        /\ service[s].adapter # None /\ service[s].mutex = s
    BY <1>4, <1>a DEF ServiceRecord, Install, Lifecycle
  <2>2. Key(s) \in Addresses
    BY <2>1 DEF Key, TypeOK
  <2>3. /\ service'[s].phase = "live" /\ service'[s].adapter = service[s].adapter
        /\ service'[s].mutex = s
    BY <1>4, <1>a, <2>1 DEF Install, TypeOK
  <2>4. registry_mutex = s /\ registry_mutex' = None
    BY <1>4, <2>1 DEF Install, OneConstructor
  <2>5. \A x \in Addresses : registry'[x] = IF x = Key(s) THEN s ELSE registry[x]
    BY <1>4, <2>2 DEF Install, TypeOK
  <2>6. TypeOK'
    <3>1. service' \in [Services -> ServiceRecord]
      BY <1>4 DEF Install, TypeOK, Phases, ServiceRecord
    <3>2. registry' \in [Addresses -> Services \cup {None}]
      BY <1>4, <2>2 DEF Install, TypeOK
    <3> QED BY <1>0, <2>3, <2>4, <3>1, <3>2 DEF TypeOK, ServiceRecord
  <2>7. Lifecycle'
    BY <1>0, <2>1, <2>3, NoneAssumption DEF Lifecycle
  <2>8. OneConstructor'
    BY <1>0, <2>3, <2>4 DEF OneConstructor
  <2>9. Registered'
    <3> SUFFICES ASSUME NEW other \in Services, other # s,
                        service[other].mutex # None, service[other].phase # "installing"
                 PROVE  registry'[Key(other)] = service[other].mutex
      BY <1>0, <2>2, <2>3, <2>5 DEF Registered, Key
    <3>1. service[other].adapter \in Adapters /\ service[other].adapter # None
      BY DEF Lifecycle, TypeOK, Phases
    <3>2. Key(other) \in Addresses /\ Key(other) # Key(s)
      BY <2>1, <2>2, <3>1 DEF Alone, Key, TypeOK
    <3> QED BY <2>5, <3>2 DEF Registered
  <2>10. Injective'
    BY <2>1, <2>5 DEF Injective, Fresh
  <2>11. Fresh'
    BY <1>0, <2>1, <2>3, <2>5 DEF Fresh
  <2>12. Alone' /\ OneOwner'
    BY <1>0, <2>3, <2>4 DEF Alone, OneOwner, OneConstructor
  <2> QED BY <2>6, <2>7, <2>8, <2>9, <2>10, <2>11, <2>12
<1> QED BY <1>1, <1>2, <1>3, <1>4

LEMMA StepInv == RegistryInv /\ [Next]_vars => RegistryInv'
<1> SUFFICES ASSUME RegistryInv, [Next]_vars PROVE RegistryInv'
  OBVIOUS
<1>1. CASE UNCHANGED vars
  BY <1>1 DEF vars, RegistryInv, TypeOK, Lifecycle, OneConstructor, Registered, Injective, Fresh,
     Alone, OneOwner, Key
<1>2. ASSUME NEW s \in Services, ServiceStep(s)
      PROVE  RegistryInv'
  BY <1>2, LifeSteps, ConstructorSteps DEF ServiceStep
<1> QED BY <1>1, <1>2, AdapterSteps DEF Next

THEOREM RegistryInvariant == Spec => []RegistryInv
BY InitInv, StepInv, PTL DEF Spec

-----------------------------------------------------------------------------

\* Live adapters never share an address, and nothing refers to a dead one.
THEOREM RegistryTyped == Spec => []TypeOK
BY RegistryInvariant, PTL DEF RegistryInv

\* Two services that wrap one adapter are never inside a commit together.
THEOREM RegistryCommitsExclusive == Spec => []CommitsExclusive
BY RegistryInvariant, InvCommitsExclusive, PTL

\* Services of different adapters never share a mutex, however addresses are
\* used again.
THEOREM RegistryMutexBelongsToAdapter == Spec => []MutexBelongsToAdapter
BY RegistryInvariant, InvMutexBelongs, PTL
=============================================================================
