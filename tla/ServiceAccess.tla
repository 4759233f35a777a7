---------------------------- MODULE ServiceAccess ----------------------------
(***************************************************************************)
(* The service's front door: every call of a client, in the order the      *)
(* service asks its questions (target, capability of the target, name of   *)
(* the collection, access, capability of the call), on an adapter that     *)
(* keeps collections and may lack capabilities or targets.                 *)
(*                                                                         *)
(* The store is the set of collections that exist.  What is inside them,   *)
(* revisions, force, events and locks are in DynamicPropertyService; a     *)
(* call is one step here, and what the contents decide is a free choice.   *)
(***************************************************************************)
EXTENDS Targets, AccessPolicy

CONSTANTS
  Contexts,       \* the callers: records of plugin_id and raw_admin
  ClientTargets,  \* the targets clients address
  Outages,        \* those that may become unavailable
  Refs,           \* the collections clients address
  MaxNameLength,  \* ValidationLimits::max_collection_bytes
  Adapters        \* the capability sets an adapter may have

VARIABLES
  capabilities,  \* of the adapter, fixed when it is made
  store,         \* the collections that exist
  unavailable,   \* the targets the adapter reports unavailable
  answer         \* the last call and what it was answered

vars == <<capabilities, store, unavailable, answer>>

ASSUME AccessAssumption ==
  /\ Outages \subseteq ClientTargets
  /\ \A target \in ClientTargets : target.kind \in TargetKind
  /\ \A ref \in Refs : ref.target \in ClientTargets /\ ref.collection \in Seq(Char)
  /\ \A context \in Contexts : context.plugin_id \in Seq(Char)

\* What a call was answered; a listing also keeps its caller and the names.
Answer(call, target, status) == [call |-> call, target |-> target, status |-> status]

Listing(context, target, status, names) ==
  [call |-> "list", context |-> context, target |-> target, status |-> status, names |-> names]

Init ==
  /\ capabilities \in Adapters
  /\ store = {}
  /\ unavailable = {}
  /\ answer \in {Answer("none", World(w), "Captured") : w \in Worlds}

\* What the service reports: it always has a sink and a bus of its own.
ServiceCapabilities == capabilities \cup {"audit", "watches"}

-----------------------------------------------------------------------------
(* Validation.  Each operator is the status of the first question that     *)
(* fails, or "Captured".                                                   *)

TargetStatus(target) ==
  IF ~ ValidTarget(target) THEN "InvalidTarget"
  ELSE IF ~ TargetCapability(target.kind) \subseteq capabilities THEN "Unsupported"
  ELSE "Captured"

ValidName(name) == Len(name) \in 1..MaxNameLength

RefStatus(context, ref) ==
  IF TargetStatus(ref.target) # "Captured" THEN TargetStatus(ref.target)
  ELSE IF ~ ValidName(ref.collection) THEN "InvalidCollection"
  ELSE IF ~ CanAccess(context, ref) THEN "PermissionDenied"
  ELSE "Captured"

Availability(target) == IF target \in unavailable THEN "TargetUnavailable" ELSE "Captured"

-----------------------------------------------------------------------------
(* Reads.                                                                  *)

CaptureStatus(context, ref) ==
  IF RefStatus(context, ref) # "Captured" THEN RefStatus(context, ref)
  ELSE IF "read" \notin capabilities THEN "Unsupported"
  ELSE Availability(ref.target)

ReadStatus(call, context, ref) ==
  IF call = "export" /\ "export_import" \notin capabilities THEN "Unsupported"
  ELSE CaptureStatus(context, ref)

\* A get of a valid key also misses a key that is not there.
ReadAnswers(call, context, ref) ==
  LET status == ReadStatus(call, context, ref) IN
  IF call # "get" \/ status # "Captured" THEN {status}
  ELSE {"NotFound"} \cup (IF ref \in store THEN {"Captured"} ELSE {})

\* capture, get and exportCollection.
Read(context, ref) ==
  /\ \E call \in {"capture", "get", "export"} :
       \E status \in ReadAnswers(call, context, ref) :
         answer' = Answer(call, ref.target, status)
  /\ UNCHANGED <<capabilities, store, unavailable>>

\* Mutation: the target is taken for its world.
WorldNames(target) == {ref.collection : ref \in {r \in store : r.target.world = target.world}}

\* The names the adapter lists: of this target, of every owner.
AdapterNames(target) == {ref.collection : ref \in {r \in store : r.target = target}}

\* listCollections tests the prefix itself, it does not ask canAccess.
Visible(context, names) ==
  IF CanListRawCollections(context) THEN names
  ELSE {name \in names : IsPrefix(PluginPrefix(context.plugin_id), name)}

ListStatus(context, target) ==
  IF TargetStatus(target) # "Captured" THEN TargetStatus(target)
  ELSE IF "list_collections" \notin capabilities THEN "Unsupported"
  ELSE IF Availability(target) # "Captured" THEN Availability(target)
  ELSE IF ~ CanListRawCollections(context) /\ PluginPrefix(context.plugin_id) = <<>>
  THEN "PermissionDenied"
  ELSE "Captured"

ListCollections(context, target) ==
  /\ answer' = Listing(context, target, ListStatus(context, target),
       IF ListStatus(context, target) = "Captured"
       THEN Visible(context, AdapterNames(target)) ELSE {})
  /\ UNCHANGED <<capabilities, store, unavailable>>

FlushStatus(target) ==
  IF TargetStatus(target) # "Captured" THEN TargetStatus(target)
  ELSE IF "persistence_flush" \notin capabilities THEN "Unsupported"
  ELSE Availability(target)

Flush(context, target) ==
  /\ answer' = Answer("flush", target, FlushStatus(target))
  /\ UNCHANGED <<capabilities, store, unavailable>>

-----------------------------------------------------------------------------
(* Mutations: an operation names the collections it involves, source first. *)

RequiredCapability ==
  [set_property |-> "write", set_many |-> "bulk_set", remove_property |-> "remove",
   remove_many |-> "remove", clear_collection |-> "clear",
   rename_collection |-> "collection_rename", transfer_property |-> "property_copy_move",
   transfer_collection |-> "collection_copy_move", import_collection |-> "export_import"]

Creating == {"set_property", "set_many", "import_collection"}

Moving == {"rename_collection", "transfer_collection"}

\* What may be asked of these two collections, the same or not.
Kinds(from, to) ==
  {"transfer_property"} \cup
  (IF from = to
   THEN Creating \cup {"remove_property", "remove_many", "clear_collection"}
   ELSE {"transfer_collection"}
          \cup (IF from.target = to.target THEN {"rename_collection"} ELSE {}))

OperationStatus(kind, context, from, to) ==
  IF RefStatus(context, from) # "Captured" THEN RefStatus(context, from)
  ELSE IF RefStatus(context, to) # "Captured" THEN RefStatus(context, to)
  ELSE IF RequiredCapability[kind] \notin capabilities THEN "Unsupported"
  ELSE IF {from.target, to.target} \cap unavailable # {} THEN "TargetUnavailable"
  ELSE IF kind \in Moving \cup {"transfer_property"} /\ from \notin store THEN "NotFound"
  ELSE "Captured"

\* The kinds that what the collections hold may refuse: a property to remove
\* or to transfer is missing, a destination that may not exist does.
Refusable == DOMAIN RequiredCapability \ {"set_property", "set_many", "clear_collection"}

Stored(kind, from, to) ==
  CASE kind \in Creating \cup {"transfer_property"} -> store \cup {to}
    [] kind \in Moving -> (store \ {from}) \cup {to}
    [] kind = "clear_collection" -> store \ {from}
    [] OTHER -> store

\* apply without force; a clear removes the collection, a transfer of a
\* collection its source.
Apply(context, from, to) ==
  /\ \E kind \in Kinds(from, to) :
       LET status == OperationStatus(kind, context, from, to) IN
       \/ /\ status = "Captured"
          /\ store' = Stored(kind, from, to)
          /\ answer' = Answer("apply", to.target, "Captured")
       \/ /\ status # "Captured" \/ kind \in Refusable
          /\ answer' = Answer("apply", to.target,
                              IF status = "Captured" THEN "NotFound" ELSE status)
          /\ UNCHANGED store
  /\ UNCHANGED <<capabilities, unavailable>>

\* A transaction that asks for atomicity, before it looks at its operations.
Transact(target) ==
  /\ answer' = Answer("transact", target,
       IF "atomic_transactions" \in capabilities THEN "Captured" ELSE "Unsupported")
  /\ UNCHANGED <<capabilities, store, unavailable>>

\* The verdict on an external mutation that passed its checks and its
\* listeners: unsupported when it cannot be seen, or cannot be stopped though
\* the hook could.
BeforeExternalMutation(target) ==
  /\ \E cancellable \in BOOLEAN :
       answer' = Answer("external", target,
         IF "external_change_observation" \in capabilities
              /\ (cancellable => "external_change_cancellation" \in capabilities)
         THEN "Captured" ELSE "Unsupported")
  /\ UNCHANGED <<capabilities, store, unavailable>>

SetTargetAvailable(target) ==
  /\ unavailable' \in {unavailable \cup {target}, unavailable \ {target}}
  /\ UNCHANGED <<capabilities, store, answer>>

\* A call that changes nothing.
Ask(context, target) ==
  \/ \E ref \in Refs : ref.target = target /\ Read(context, ref)
  \/ ListCollections(context, target)
  \/ Flush(context, target)
  \/ Transact(target)
  \/ BeforeExternalMutation(target)

Next ==
  \/ \E context \in Contexts :
       \/ \E target \in ClientTargets : Ask(context, target)
       \/ \E from, to \in Refs : Apply(context, from, to)
  \/ \E target \in Outages : SetTargetAvailable(target)

Spec == Init /\ [][Next]_vars

-----------------------------------------------------------------------------
(* Properties.                                                             *)

\* Two plugins that may touch one stored collection have the same normalised
\* id, and it is not empty: an id that begins another's, or one of which
\* normalisation leaves nothing, opens no one else's collections
\* (access_policy.cpp:30-50).
NamespacesApart ==
  \A ref \in store, a, b \in Contexts :
    /\ ~ a.raw_admin /\ RefStatus(a, ref) = "Captured"
    /\ ~ b.raw_admin /\ RefStatus(b, ref) = "Captured"
    => /\ Normalize(a.plugin_id) = Normalize(b.plugin_id)
       /\ Normalize(a.plugin_id) # <<>>

\* A plugin owns the same stored collections whether its id reaches the
\* service raw or already normalised (access_policy.cpp:12-28).
OneOwnerPerSpelling ==
  \A ref \in store, context \in Contexts :
    Owns(context.plugin_id, ref.collection)
      <=> Owns(Normalize(context.plugin_id), ref.collection)

\* A listing that succeeds names exactly the collections that exist on that
\* target and that the same caller may read: the filter of listCollections
\* and the check of capture agree (service.cpp:84-97, 115-129).
ListedIsReadable ==
  [][answer' # answer /\ answer'.call = "list" /\ answer'.status = "Captured"
       => answer'.names =
            {ref.collection : ref \in {r \in store :
               /\ r.target = answer'.target
               /\ CaptureStatus(answer'.context, r) \in {"Captured", "Unsupported"}}}]_vars

\* With an adapter the plugin would register, whose capabilities are all there,
\* none of the service's own flag checks refuses a call as unsupported:
\* completeControl demands every flag any call asks for (types.cpp:91-101,
\* service.cpp:21-37, 75-224).  The adapter itself may still answer so of a
\* target it does not serve (TARGETS.md:33).
CompleteControlSuffices ==
  CompleteControl(ServiceCapabilities) => answer.status # "Unsupported"

=============================================================================
