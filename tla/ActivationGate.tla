---------------------------- MODULE ActivationGate ----------------------------
(***************************************************************************)
(* How the native service comes to be registered, from the proofs in the   *)
(* manifest to the plugin's onEnable:                                      *)
(*   - the manifest collects proofs; activate_verified_manifest.py checks  *)
(*     it with verify_native_manifest and writes the generated header;     *)
(*   - CMake builds a plugin from that header, with or without the bridge; *)
(*   - in a running server onEnable inspects the executable, makes the     *)
(*     verified or the guarded adapter, and registers the service or not;  *)
(*   - onDisable takes it back, though clients may hold on to the provider.*)
(* Meanwhile the bridge's source and the server's executable may change.   *)
(***************************************************************************)
EXTENDS Naturals, FiniteSets

CONSTANTS
  Images,          \* contents of BDS executables; a SHA-256 is the content
  SizeOf,          \* their sizes
  RuntimeImages,   \* those that report BDS 26.33
  Bridges,         \* versions of src/verified_bds_26_30_adapter.cpp
  CompleteBridges, \* those whose adapter claims complete control
  Proofs,          \* what a manifest must prove beside executable and bridge
  PathSurvives,    \* the process finds its path after the file was replaced
  None

ASSUME ActivationAssumption ==
  /\ SizeOf \in [Images -> Nat \ {0}]
  /\ RuntimeImages \subseteq Images /\ CompleteBridges \subseteq Bridges
  /\ PathSurvives \in BOOLEAN
  /\ None \notin Images /\ None \notin Bridges

\* The flags of the generated header, and all of a report's conditions.
Gates == {"manifest", "symbols", "storage", "hooks", "probe"}

Conditions == Gates \cup {"runtime", "endstone", "executable", "bridge"}

PackageRecord ==
  [boundary : BOOLEAN, gates : {{}, Gates}, executable : Images \cup {None},
   bridge : Bridges \cup {None}]

ServerRecord ==
  [image : Images, replaced : BOOLEAN, package : PackageRecord, endstone : BOOLEAN]

AdapterRecord ==
  [kind : {"verified", "guarded"}, bridge : Bridges \cup {None}, hashed : Images \cup {None}]

ProviderRecord == [adapter : AdapterRecord, image : Images]

PluginRecord ==
  [phase : {"off", "located", "sized", "made", "on", "refused"},
   size : Nat, path : BOOLEAN, report : SUBSET Conditions, failed : BOOLEAN,
   adapter : AdapterRecord \cup {None}, service : BOOLEAN,
   registered : ProviderRecord \cup {None}, held : SUBSET ProviderRecord]

ASSUME NoneAssumption ==
  None \notin PackageRecord /\ None \notin ServerRecord
  /\ None \notin AdapterRecord /\ None \notin ProviderRecord

VARIABLES
  bridge_source,  \* the bridge in the source tree
  manifest,       \* proofs, executable and bridge it records
  activations,    \* every manifest that was activated (history)
  header,         \* generated/native_manifest_data.h
  package,        \* the plugin that was built last
  installed,      \* the executable at the server's path
  server,         \* the running server, or None
  plugin          \* the plugin inside it

vars ==
  <<bridge_source, manifest, activations, header, package, installed, server, plugin>>

Source == <<bridge_source, manifest, activations, header, package>>

ClosedHeader == [gates |-> {}, executable |-> None]

Unloaded ==
  [phase |-> "off", size |-> 0, path |-> FALSE, report |-> {}, failed |-> FALSE,
   adapter |-> None, service |-> FALSE, registered |-> None, held |-> {}]

Init ==
  /\ bridge_source = None
  /\ manifest = [proofs |-> {}, executable |-> None, bridge |-> None]
  /\ activations = {}
  /\ header = ClosedHeader
  /\ package = None
  /\ installed \in Images
  /\ server = None
  /\ plugin = Unloaded

-----------------------------------------------------------------------------
(* The source tree.                                                        *)

EditBridge(bridge) ==
  /\ bridge_source' = bridge
  /\ UNCHANGED <<manifest, activations, header, package, installed, server, plugin>>

\* The review adds what it has established to the manifest.
Record ==
  /\ \/ \E p \in Proofs : manifest' = [manifest EXCEPT !.proofs = @ \cup {p}]
     \/ \E image \in Images : manifest' = [manifest EXCEPT !.executable = image]
     \/ manifest' = [manifest EXCEPT !.bridge = bridge_source]
  /\ UNCHANGED <<bridge_source, activations, header, package, installed, server, plugin>>

\* _validation_errors finds nothing.
Verified ==
  /\ manifest.proofs = Proofs
  /\ manifest.executable # None
  /\ manifest.bridge # None /\ bridge_source = manifest.bridge

Activate ==
  /\ Verified
  /\ header' = [gates |-> Gates, executable |-> manifest.executable]
  /\ activations' = activations \cup {manifest}
  /\ UNCHANGED <<bridge_source, manifest, package, installed, server, plugin>>

\* CMake asks only that the bridge's source exists.
Build(boundary, with_bridge) ==
  /\ with_bridge => bridge_source # None
  /\ package' = [boundary |-> boundary, gates |-> header.gates,
                 executable |-> header.executable,
                 bridge |-> IF with_bridge THEN bridge_source ELSE None]
  /\ UNCHANGED <<bridge_source, manifest, activations, header, installed, server, plugin>>

-----------------------------------------------------------------------------
(* The server.                                                             *)

StartServer(endstone_matches) ==
  /\ server = None /\ package # None
  /\ server' = [image |-> installed, replaced |-> FALSE, package |-> package,
                endstone |-> endstone_matches]
  /\ plugin' = Unloaded
  /\ UNCHANGED <<Source, installed>>

\* The server ends, or crashes.
StopServer ==
  /\ server # None
  /\ server' = None /\ plugin' = Unloaded
  /\ UNCHANGED <<Source, installed>>

\* Another file is put at the server's path; a running server goes on.
ReplaceExecutable(image) ==
  /\ installed' = image
  /\ server' = IF server = None THEN None ELSE [server EXCEPT !.replaced = TRUE]
  /\ UNCHANGED <<Source, plugin>>

-----------------------------------------------------------------------------
(* onEnable.                                                               *)

\* NativeActivationReport::complete.
Complete(report, failed) == report = Conditions /\ ~ failed

\* inspectBds2633DynamicPropertyActivation: the conditions that hold, when
\* the executable's hash does or does not match.
Report(hash_matches) ==
  server.package.gates
    \cup (IF server.image \in RuntimeImages THEN {"runtime"} ELSE {})
    \cup (IF server.endstone THEN {"endstone"} ELSE {})
    \cup (IF hash_matches THEN {"executable"} ELSE {})
    \cup (IF server.package.bridge # None THEN {"bridge"} ELSE {})

\* makeBds2633DynamicPropertyAdapter.  `hashed` is what was found in the file.
MakeAdapter(hash_matches, failed, hashed) ==
  LET report == Report(hash_matches) IN
  plugin' = [plugin EXCEPT
    !.phase = "made", !.report = report, !.failed = failed,
    !.adapter = [kind |-> IF server.package.bridge # None /\ Complete(report, failed)
                          THEN "verified" ELSE "guarded",
                 bridge |-> server.package.bridge, hashed |-> hashed]]

\* The plugin is enabled; without an executable in the header none is read.
Enable ==
  /\ server # None /\ plugin.phase = "off"
  /\ \/ /\ ~ server.package.boundary
        /\ plugin' = [plugin EXCEPT !.phase = "refused"]
     \/ /\ server.package.boundary /\ server.package.executable = None
        /\ MakeAdapter(FALSE, FALSE, None)
     \/ /\ server.package.boundary /\ server.package.executable # None
        /\ plugin' = [plugin EXCEPT !.phase = "located",
                                    !.path = PathSurvives \/ ~ server.replaced]
  /\ UNCHANGED <<Source, installed, server>>

\* file_size, of the file that is at the path now.
ReadSize ==
  /\ plugin.phase = "located"
  /\ IF plugin.path
     THEN plugin' = [plugin EXCEPT !.phase = "sized", !.size = SizeOf[installed]]
     ELSE MakeAdapter(FALSE, TRUE, None)
  /\ UNCHANGED <<Source, installed, server>>

\* Mutation: the size is enough.
SizeMatches == plugin.size = SizeOf[server.package.executable]

Matches ==
  plugin.size = SizeOf[server.package.executable] /\ installed = server.package.executable

\* sha256File, of the file that is at the path now: it is opened once.
ReadHash ==
  /\ plugin.phase = "sized"
  /\ MakeAdapter(Matches, FALSE, installed)
  /\ UNCHANGED <<Source, installed, server>>

\* DynamicPropertyService::capabilities().completeControl(): the guarded
\* adapter claims no target and no operation.
CompleteControl(adapter) == adapter.kind = "verified" /\ adapter.bridge \in CompleteBridges

\* Mutation: the service manager is not told.
ReleasedQuietly == [Unloaded EXCEPT !.held = plugin.held, !.registered = plugin.registered]

\* What is left when a refusal or onDisable has released everything.
Released == [Unloaded EXCEPT !.held = plugin.held]

Register ==
  /\ plugin.phase = "made" /\ CompleteControl(plugin.adapter)
  /\ plugin' = [plugin EXCEPT !.phase = "on", !.service = TRUE,
                              !.registered = [adapter |-> plugin.adapter,
                                              image |-> server.image]]
  /\ UNCHANGED <<Source, installed, server>>

Refuse ==
  /\ plugin.phase = "made" /\ ~ CompleteControl(plugin.adapter)
  /\ plugin' = [Released EXCEPT !.phase = "refused"]
  /\ UNCHANGED <<Source, installed, server>>

Disable ==
  /\ plugin.phase \in {"on", "refused"}
  /\ plugin' = Released
  /\ UNCHANGED <<Source, installed, server>>

\* Another plugin loads the service and keeps the shared pointer.
Load ==
  /\ plugin.registered # None
  /\ plugin' = [plugin EXCEPT !.held = @ \cup {plugin.registered}]
  /\ UNCHANGED <<Source, installed, server>>

Next ==
  \/ \E bridge \in Bridges : EditBridge(bridge)
  \/ Record \/ Activate
  \/ \E boundary, with_bridge \in BOOLEAN : Build(boundary, with_bridge)
  \/ \E endstone_matches \in BOOLEAN : StartServer(endstone_matches)
  \/ StopServer
  \/ \E image \in Images : ReplaceExecutable(image)
  \/ Enable \/ ReadSize \/ ReadHash \/ Register \/ Refuse \/ Disable
  \/ Load

Spec == Init /\ [][Next]_vars

-----------------------------------------------------------------------------
(* Properties.                                                             *)

\* Every variable has its type.
TypeOK ==
  /\ bridge_source \in Bridges \cup {None}
  /\ manifest \in [proofs : SUBSET Proofs, executable : Images \cup {None},
                   bridge : Bridges \cup {None}]
  /\ activations \subseteq [proofs : {Proofs}, executable : Images, bridge : Bridges]
  /\ header \in [gates : {{}, Gates}, executable : Images \cup {None}]
  /\ package \in PackageRecord \cup {None}
  /\ installed \in Images
  /\ server \in ServerRecord \cup {None}
  /\ plugin \in PluginRecord

\* The providers through which somebody can write.
Reachable == plugin.held \cup ({plugin.registered} \ {None})

\* A service that can be reached, also after the plugin was disabled, writes
\* through the bridge, in a build whose header a complete manifest opened, and
\* the executable it was checked against is one that such a manifest names.
ServesOnlyActivated ==
  \A provider \in Reachable :
    /\ provider.adapter.kind = "verified"
    /\ \E m \in activations :
         m.proofs = Proofs /\ m.executable = provider.adapter.hashed

\* The service manager has a provider exactly while the plugin is on; in all
\* other phases after onEnable no adapter and no service is left behind.
RefusalLeavesNothing ==
  /\ plugin.registered # None <=> plugin.phase = "on"
  /\ plugin.phase \in {"off", "refused"} => plugin.adapter = None /\ ~ plugin.service

-----------------------------------------------------------------------------
(* What the documentation says and the code does not do.                   *)

\* README.md:36: "Exact running executable SHA-256 and size match the
\* reviewed manifest": the process that serves runs what was reviewed.
RunningImageReviewed ==
  \A provider \in Reachable : \E m \in activations : m.executable = provider.image

\* README.md:40: "The reviewed native bridge source matches its recorded
\* SHA-256": the bridge that serves is the one a manifest recorded.
ServingBridgeReviewed ==
  \A provider \in Reachable : \E m \in activations : m.bridge = provider.adapter.bridge
=============================================================================
