------------------------- MODULE ActivationGateProofs -------------------------
(***************************************************************************)
(* A service that somebody can reach went through a header that a complete *)
(* manifest opened and through an executable with that manifest's hash,    *)
(* for any executables, bridges and proofs.                                *)
(*                                                                         *)
(* The argument follows the hash: from the activated manifest into the     *)
(* header, from there into every package and every server that runs one,   *)
(* and into the adapter, which is verified only if the hash that was read  *)
(* is the one in the package.                                              *)
(*                                                                         *)
(* And the hash that is read is that of the whole file: what the compressor*)
(* was fed and what it still buffers are a prefix of the padded message,   *)
(* cut where a block ends.                                                 *)
(***************************************************************************)
EXTENDS ActivationGate, Sha256, TLAPS

\* A header or package is closed, or carries the hash of an activated manifest.
Opened(built) ==
  built.gates = {} \/ \E m \in activations : m.executable = built.executable

\* An adapter is guarded, or a manifest names the executable it was checked against.
Justified(adapter) ==
  adapter.kind = "verified" => \E m \in activations : m.executable = adapter.hashed

HashesFlow ==
  /\ Opened(header)
  /\ package # None => Opened(package)
  /\ server # None => Opened(server.package)

\* What onEnable has got to.
PluginOK ==
  /\ plugin.phase \in {"located", "sized", "made", "on"} => server # None
  /\ plugin.phase \in {"located", "sized"} => server.package.executable # None
  /\ plugin.phase = "made" => plugin.adapter # None /\ Justified(plugin.adapter)
  /\ \A provider \in Reachable :
       provider.adapter.kind = "verified" /\ Justified(provider.adapter)

ActivationInv == TypeOK /\ HashesFlow /\ PluginOK /\ RefusalLeavesNothing

-----------------------------------------------------------------------------
LEMMA InvServes == ActivationInv => ServesOnlyActivated
BY DEF ActivationInv, PluginOK, Justified, ServesOnlyActivated, TypeOK

LEMMA UnloadedOK ==
  Unloaded \in PluginRecord /\ Unloaded.phase = "off" /\ Unloaded.adapter = None
  /\ ~ Unloaded.service /\ Unloaded.registered = None /\ Unloaded.held = {}
BY DEF Unloaded, PluginRecord

LEMMA InitActivation == Init => ActivationInv
<1> SUFFICES ASSUME Init PROVE ActivationInv
  OBVIOUS
<1>1. TypeOK
  BY UnloadedOK DEF Init, TypeOK, ClosedHeader
<1>2. HashesFlow
  BY DEF Init, HashesFlow, Opened, ClosedHeader
<1>3. PluginOK /\ RefusalLeavesNothing
  BY UnloadedOK DEF Init, PluginOK, RefusalLeavesNothing, Reachable
<1> QED BY <1>1, <1>2, <1>3 DEF ActivationInv

\* The source tree changes; manifests that were activated stay activated.
LEMMA SourceSteps ==
  ASSUME ActivationInv,
         \/ \E bridge \in Bridges : EditBridge(bridge)
         \/ Record \/ Activate
         \/ \E boundary, with_bridge \in BOOLEAN : Build(boundary, with_bridge)
  PROVE  ActivationInv'
<1> USE DEF ActivationInv
<1>1. UNCHANGED <<installed, server, plugin>> /\ activations \subseteq activations'
  BY DEF EditBridge, Record, Activate, Build
<1>2. PluginOK' /\ RefusalLeavesNothing'
  BY <1>1 DEF PluginOK, RefusalLeavesNothing, Reachable, Justified
<1>3. CASE \E bridge \in Bridges : EditBridge(bridge)
  BY <1>1, <1>2, <1>3 DEF EditBridge, TypeOK, HashesFlow, Opened
<1>4. CASE Record
  BY <1>1, <1>2, <1>4 DEF Record, TypeOK, HashesFlow, Opened
<1>5. CASE Activate
  <2>1. manifest \in [proofs : {Proofs}, executable : Images, bridge : Bridges]
    BY <1>5 DEF Activate, Verified, TypeOK
  <2>2. header'.executable = manifest.executable /\ manifest \in activations'
    BY <1>5 DEF Activate
  <2>3. header' \in [gates : {{}, Gates}, executable : Images \cup {None}]
    BY <1>5, <2>1 DEF Activate
  <2>4. TypeOK'
    BY <1>1, <1>5, <2>1, <2>3 DEF Activate, TypeOK
  <2>5. HashesFlow'
    BY <1>1, <1>5, <2>2 DEF Activate, HashesFlow, Opened
  <2> QED BY <1>2, <2>4, <2>5
<1>6. ASSUME NEW boundary \in BOOLEAN, NEW with_bridge \in BOOLEAN, Build(boundary, with_bridge)
      PROVE  ActivationInv'
  <2>1. package' \in PackageRecord
    BY <1>6 DEF Build, TypeOK, PackageRecord
  <2>2. package'.gates = header.gates /\ package'.executable = header.executable
    BY <1>6 DEF Build
  <2>3. TypeOK'
    BY <1>1, <1>6, <2>1 DEF Build, TypeOK
  <2>4. HashesFlow'
    BY <1>1, <1>6, <2>2 DEF Build, HashesFlow, Opened
  <2> QED BY <1>2, <2>3, <2>4
<1> QED BY <1>3, <1>4, <1>5, <1>6

\* Servers start and stop, and their executable is replaced.
LEMMA ServerSteps ==
  ASSUME ActivationInv,
         \/ \E endstone_matches \in BOOLEAN : StartServer(endstone_matches)
         \/ StopServer
         \/ \E image \in Images : ReplaceExecutable(image)
  PROVE  ActivationInv'
<1> USE DEF ActivationInv
<1>1. UNCHANGED Source
  BY DEF StartServer, StopServer, ReplaceExecutable
<1>2. ASSUME NEW endstone_matches \in BOOLEAN, StartServer(endstone_matches)
      PROVE  ActivationInv'
  <2>1. package \in PackageRecord
    BY <1>2 DEF StartServer, TypeOK
  <2>2. server' \in ServerRecord /\ server'.package = package
    BY <1>2, <2>1 DEF StartServer, TypeOK, ServerRecord
  <2>3. TypeOK'
    BY <1>1, <1>2, <2>2, UnloadedOK DEF StartServer, TypeOK, Source
  <2>4. HashesFlow'
    BY <1>1, <1>2, <2>2 DEF StartServer, HashesFlow, Opened, Source
  <2>5. PluginOK' /\ RefusalLeavesNothing'
    BY <1>2, UnloadedOK DEF StartServer, PluginOK, RefusalLeavesNothing, Reachable
  <2> QED BY <2>3, <2>4, <2>5
<1>3. CASE StopServer
  <2>1. PluginOK' /\ RefusalLeavesNothing'
    BY <1>3, UnloadedOK DEF StopServer, PluginOK, RefusalLeavesNothing, Reachable
  <2> QED BY <1>1, <1>3, <2>1, UnloadedOK DEF StopServer, TypeOK, HashesFlow, Opened, Source
<1>4. ASSUME NEW image \in Images, ReplaceExecutable(image)
      PROVE  ActivationInv'
  <2>1. /\ server = None => server' = None
        /\ server # None => /\ server' \in ServerRecord /\ server' # None
                            /\ server'.package = server.package
    BY <1>4, NoneAssumption DEF ReplaceExecutable, TypeOK, ServerRecord
  <2>2. TypeOK'
    BY <1>1, <1>4, <2>1 DEF ReplaceExecutable, TypeOK, Source
  <2>3. HashesFlow'
    BY <1>1, <2>1 DEF HashesFlow, Opened, Source
  <2>4. PluginOK' /\ RefusalLeavesNothing'
    BY <1>1, <1>4, <2>1 DEF ReplaceExecutable, PluginOK, RefusalLeavesNothing, Reachable, Justified,
       Source
  <2> QED BY <2>2, <2>3, <2>4
<1> QED BY <1>2, <1>3, <1>4

-----------------------------------------------------------------------------
(* onEnable and onDisable.                                                 *)

\* A step of the plugin alone.
LEMMA PluginStep ==
  ASSUME ActivationInv, UNCHANGED <<Source, installed, server>>,
         plugin' \in PluginRecord, PluginOK', RefusalLeavesNothing'
  PROVE  ActivationInv'
BY DEF ActivationInv, Source, TypeOK, HashesFlow, Opened

\* An adapter is made: verified only for the hash in the package.
LEMMA MakeAdapterStep ==
  ASSUME ActivationInv, UNCHANGED <<Source, installed, server>>,
         server # None, plugin.phase \in {"off", "located", "sized"},
         NEW hash_matches \in BOOLEAN, NEW failed \in BOOLEAN, NEW hashed \in Images \cup {None},
         hash_matches => hashed = server.package.executable,
         MakeAdapter(hash_matches, failed, hashed)
  PROVE  ActivationInv'
<1> USE DEF ActivationInv
<1> DEFINE report == Report(hash_matches)
           adapter == [kind |-> IF server.package.bridge # None /\ Complete(report, failed)
                                THEN "verified" ELSE "guarded",
                       bridge |-> server.package.bridge, hashed |-> hashed]
           new == [plugin EXCEPT !.phase = "made", !.report = report, !.failed = failed,
                                 !.adapter = adapter]
<1>1. server \in ServerRecord /\ server.package \in PackageRecord
  BY DEF TypeOK, ServerRecord
<1>2. report \in SUBSET Conditions
  BY <1>1 DEF Report, PackageRecord, Conditions, Gates
<1>3. adapter \in AdapterRecord
  BY <1>1 DEF AdapterRecord, PackageRecord
<1>4. adapter # None
  <2> HIDE DEF adapter
  <2> QED BY <1>3, NoneAssumption
<1>5. Justified(adapter)
  <2> SUFFICES ASSUME adapter.kind = "verified"
               PROVE  \E m \in activations : m.executable = adapter.hashed
    BY DEF Justified
  <2>1. report = Conditions
    BY DEF Complete
  <2>2. hash_matches
    BY <1>1, <2>1 DEF Report, Conditions, Gates, PackageRecord
  <2>3. server.package.gates # {}
    BY <2>1 DEF Report, Conditions, Gates
  <2> QED BY <2>2, <2>3 DEF HashesFlow, Opened
<1>6. plugin' = new
  BY DEF MakeAdapter
<1>7. plugin \in PluginRecord
  BY DEF TypeOK
<1> HIDE DEF report, adapter
<1>8. new \in PluginRecord
  <2>1. "made" \in {"off", "located", "sized", "made", "on", "refused"}
        /\ adapter \in AdapterRecord \cup {None}
    BY <1>3
  <2> QED BY <1>2, <1>7, <2>1, Zenon DEF PluginRecord
<1>9. new.phase = "made" /\ new.adapter = adapter /\ new.registered = plugin.registered
      /\ new.held = plugin.held
  BY <1>7 DEF PluginRecord
<1> HIDE DEF new
<1>10. PluginOK'
  BY <1>4, <1>5, <1>6, <1>9 DEF PluginOK, Reachable, Justified, Source
<1>11. RefusalLeavesNothing'
  BY <1>6, <1>9 DEF RefusalLeavesNothing
<1> QED BY <1>6, <1>8, <1>10, <1>11, PluginStep

LEMMA EnableStep == ASSUME ActivationInv, Enable PROVE ActivationInv'
<1> USE DEF ActivationInv
<1>1. UNCHANGED <<Source, installed, server>> /\ server # None /\ plugin.phase = "off"
  BY DEF Enable
<1>2. plugin \in PluginRecord
  BY DEF TypeOK
<1>3. CASE server.package.boundary /\ server.package.executable = None
  BY <1>1, <1>3, MakeAdapterStep DEF Enable
<1>4. CASE ~ server.package.boundary
  <2>1. plugin' = [plugin EXCEPT !.phase = "refused"]
    BY <1>4 DEF Enable
  <2>2. plugin' \in PluginRecord /\ plugin'.phase = "refused" /\ plugin'.adapter = plugin.adapter
        /\ plugin'.service = plugin.service /\ plugin'.registered = plugin.registered
        /\ plugin'.held = plugin.held
    BY <1>2, <2>1 DEF PluginRecord
  <2>3. PluginOK' /\ RefusalLeavesNothing'
    BY <1>1, <2>2 DEF PluginOK, RefusalLeavesNothing, Reachable, Justified, Source
  <2> QED BY <1>1, <2>2, <2>3, PluginStep
<1>5. CASE server.package.boundary /\ server.package.executable # None
  <2> DEFINE path == PathSurvives \/ ~ server.replaced
             new == [plugin EXCEPT !.phase = "located", !.path = path]
  <2>1. plugin' = new
    BY <1>5 DEF Enable
  <2>2. path \in BOOLEAN /\ "located" \in {"off", "located", "sized", "made", "on", "refused"}
    OBVIOUS
  <2> HIDE DEF path
  <2>3. new \in PluginRecord
    BY <1>2, <2>2, Zenon DEF PluginRecord
  <2>4. new.phase = "located" /\ new.adapter = plugin.adapter
        /\ new.service = plugin.service /\ new.registered = plugin.registered
        /\ new.held = plugin.held
    BY <1>2 DEF PluginRecord
  <2> HIDE DEF new
  <2>5. PluginOK' /\ RefusalLeavesNothing'
    BY <1>1, <1>5, <2>1, <2>4 DEF PluginOK, RefusalLeavesNothing, Reachable, Justified, Source
  <2> QED BY <1>1, <2>1, <2>3, <2>5, PluginStep
<1> QED BY <1>3, <1>4, <1>5

LEMMA ReadSizeStep == ASSUME ActivationInv, ReadSize PROVE ActivationInv'
<1> USE DEF ActivationInv
<1>1. UNCHANGED <<Source, installed, server>> /\ server # None /\ plugin.phase = "located"
  BY DEF ReadSize, PluginOK
<1>2. plugin \in PluginRecord
  BY DEF TypeOK
<1>3. CASE ~ plugin.path
  BY <1>1, <1>3, MakeAdapterStep DEF ReadSize
<1>4. CASE plugin.path
  <2> DEFINE read == SizeOf[installed]
             new == [plugin EXCEPT !.phase = "sized", !.size = read]
  <2>1. plugin' = new
    BY <1>4 DEF ReadSize
  <2>2. read \in Nat /\ "sized" \in {"off", "located", "sized", "made", "on", "refused"}
    BY ActivationAssumption DEF TypeOK
  <2> HIDE DEF read
  <2>3. new \in PluginRecord
    BY <1>2, <2>2, Zenon DEF PluginRecord
  <2>4. new.phase = "sized" /\ new.adapter = plugin.adapter
        /\ new.service = plugin.service /\ new.registered = plugin.registered
        /\ new.held = plugin.held
    BY <1>2 DEF PluginRecord
  <2> HIDE DEF new
  <2>5. PluginOK' /\ RefusalLeavesNothing'
    BY <1>1, <2>1, <2>4 DEF PluginOK, RefusalLeavesNothing, Reachable, Justified, Source
  <2> QED BY <1>1, <2>1, <2>3, <2>5, PluginStep
<1> QED BY <1>3, <1>4

LEMMA ReadHashStep == ASSUME ActivationInv, ReadHash PROVE ActivationInv'
<1> USE DEF ActivationInv
<1>1. UNCHANGED <<Source, installed, server>> /\ server # None /\ plugin.phase = "sized"
  BY DEF ReadHash, PluginOK
<1>2. Matches \in BOOLEAN /\ (Matches => installed = server.package.executable)
  BY DEF Matches
<1>3. installed \in Images \cup {None} /\ MakeAdapter(Matches, FALSE, installed)
  BY DEF ReadHash, TypeOK
<1> QED BY <1>1, <1>2, <1>3, MakeAdapterStep

LEMMA RegisterStep == ASSUME ActivationInv, Register PROVE ActivationInv'
<1> USE DEF ActivationInv
<1> DEFINE provider == [adapter |-> plugin.adapter, image |-> server.image]
           new == [plugin EXCEPT !.phase = "on", !.service = TRUE, !.registered = provider]
<1>1. /\ UNCHANGED <<Source, installed, server>> /\ server # None
      /\ plugin.phase = "made" /\ plugin.adapter.kind = "verified" /\ plugin' = new
  BY DEF Register, PluginOK, CompleteControl
<1>2. plugin \in PluginRecord /\ server \in ServerRecord
  BY <1>1 DEF TypeOK
<1>3. plugin.adapter \in AdapterRecord /\ Justified(plugin.adapter)
  BY <1>1, <1>2 DEF PluginOK, PluginRecord
<1>4. provider \in ProviderRecord
  BY <1>2, <1>3 DEF ProviderRecord, ServerRecord
<1>5. provider.adapter = plugin.adapter
  OBVIOUS
<1>6. provider \in ProviderRecord \cup {None} /\ TRUE \in BOOLEAN
      /\ "on" \in {"off", "located", "sized", "made", "on", "refused"}
  BY <1>4
<1> HIDE DEF provider
<1>7. new \in PluginRecord
  BY <1>2, <1>6, Zenon DEF PluginRecord
<1>8. new.phase = "on" /\ new.registered = provider /\ new.held = plugin.held
  BY <1>2 DEF PluginRecord
<1> HIDE DEF new
<1>9. PluginOK'
  BY <1>1, <1>3, <1>5, <1>8 DEF PluginOK, Reachable, Justified, Source
<1>10. RefusalLeavesNothing'
  BY <1>1, <1>4, <1>8, NoneAssumption DEF RefusalLeavesNothing
<1> QED BY <1>1, <1>7, <1>9, <1>10, PluginStep

\* What is left after a refusal or onDisable.
LEMMA ReleasedOK ==
  ASSUME ActivationInv
  PROVE  /\ Released \in PluginRecord /\ Released.phase = "off" /\ Released.adapter = None
         /\ ~ Released.service /\ Released.registered = None /\ Released.held = plugin.held
<1> DEFINE held == plugin.held
           new == [Unloaded EXCEPT !.held = held]
<1>1. held \in SUBSET ProviderRecord
  BY DEF ActivationInv, TypeOK, PluginRecord
<1>2. Released = new
  BY DEF Released
<1> HIDE DEF held
<1>3. new \in PluginRecord
  BY <1>1, UnloadedOK DEF PluginRecord
<1>4. new.phase = "off" /\ new.adapter = None /\ ~ new.service /\ new.registered = None
      /\ new.held = held
  BY UnloadedOK DEF PluginRecord
<1> QED BY <1>2, <1>3, <1>4 DEF held

LEMMA ReleaseSteps == ASSUME ActivationInv, Refuse \/ Disable PROVE ActivationInv'
<1> USE DEF ActivationInv
<1>1. UNCHANGED <<Source, installed, server>>
  BY DEF Refuse, Disable
<1>2. /\ plugin' \in PluginRecord /\ plugin'.phase \in {"off", "refused"} /\ plugin'.adapter = None
      /\ ~ plugin'.service /\ plugin'.registered = None /\ plugin'.held = plugin.held
  <2>1. CASE Disable
    BY <2>1, ReleasedOK DEF Disable
  <2>2. CASE Refuse
    <3>1. plugin' = [Released EXCEPT !.phase = "refused"]
      BY <2>2 DEF Refuse
    <3> QED BY <3>1, ReleasedOK DEF PluginRecord
  <2> QED BY <2>1, <2>2
<1>3. PluginOK' /\ RefusalLeavesNothing'
  BY <1>1, <1>2 DEF PluginOK, RefusalLeavesNothing, Reachable, Justified, Source
<1> QED BY <1>1, <1>2, <1>3, PluginStep

LEMMA LoadStep == ASSUME ActivationInv, Load PROVE ActivationInv'
<1> USE DEF ActivationInv
<1> DEFINE held == plugin.held \cup {plugin.registered}
<1>1. UNCHANGED <<Source, installed, server>> /\ plugin.registered # None
      /\ plugin' = [plugin EXCEPT !.held = held]
  BY DEF Load
<1>2. plugin \in PluginRecord
  BY DEF TypeOK
<1>3. held \in SUBSET ProviderRecord
  BY <1>1, <1>2 DEF PluginRecord
<1> HIDE DEF held
<1>4. /\ plugin' \in PluginRecord /\ plugin'.phase = plugin.phase
      /\ plugin'.adapter = plugin.adapter /\ plugin'.service = plugin.service
      /\ plugin'.registered = plugin.registered /\ plugin'.held = held
  BY <1>1, <1>2, <1>3 DEF PluginRecord
<1>5. Reachable' = Reachable
  BY <1>1, <1>4 DEF Reachable, held
<1>6. PluginOK' /\ RefusalLeavesNothing'
  BY <1>1, <1>4, <1>5 DEF PluginOK, RefusalLeavesNothing, Justified, Source
<1> QED BY <1>1, <1>4, <1>6, PluginStep

LEMMA ActivationStep == ActivationInv /\ [Next]_vars => ActivationInv'
<1> SUFFICES ASSUME ActivationInv, [Next]_vars PROVE ActivationInv'
  OBVIOUS
<1>1. CASE UNCHANGED vars
  BY <1>1 DEF vars, ActivationInv, TypeOK, HashesFlow, Opened, PluginOK, Reachable, Justified,
     RefusalLeavesNothing
<1> QED
  BY <1>1, SourceSteps, ServerSteps, EnableStep, ReadSizeStep, ReadHashStep, RegisterStep,
     ReleaseSteps, LoadStep DEF Next

THEOREM ActivationInvariant == Spec => []ActivationInv
BY InitActivation, ActivationStep, PTL DEF Spec

-----------------------------------------------------------------------------

\* Every variable keeps its type, among them the shape of what was activated.
THEOREM ActivationTyped == Spec => []TypeOK
BY ActivationInvariant, PTL DEF ActivationInv

\* A service that can be reached was checked against an executable that a
\* complete, activated manifest names.
THEOREM ActivationServesOnlyActivated == Spec => []ServesOnlyActivated
BY ActivationInvariant, InvServes, PTL

\* The service manager has a provider exactly while the plugin is on.
THEOREM ActivationRefusalLeavesNothing == Spec => []RefusalLeavesNothing
BY ActivationInvariant, PTL DEF ActivationInv

-----------------------------------------------------------------------------
\* The bytes that a digest can be made of.
Symbol ==
  {FileByte(i) : i \in Nat} \cup {EndMark, Zero} \cup {LengthByte(n, j) : n, j \in Nat}

\* What stands at a position of the padded message: the file, the mark, zeros.
Filler(n, i) == IF i <= n THEN FileByte(i) ELSE IF i = n + 1 THEN EndMark ELSE Zero

\* And behind them the length, if there are z zeros.
Filled(n, z, i) ==
  IF i <= n + 1 + z THEN Filler(n, i) ELSE LengthByte(n, i - (n + 1 + z))

\* The padded message, if there are z zeros.
PaddedBy(n, z) ==
  [i \in 1..n |-> FileByte(i)] \o <<EndMark>> \o Zeros(z)
    \o [j \in 1..LengthSize |-> LengthByte(n, j)]

\* A block has room for the length, and for a byte more.
LEMMA BlockFacts ==
  /\ BlockSize \in Nat /\ LengthSize \in Nat /\ LengthSize < BlockSize
BY Sha256Assumption

\* Zeros, position by position.
LEMMA ZerosFacts ==
  ASSUME NEW n \in Nat
  PROVE  /\ Zeros(n) \in Seq(Symbol) /\ Len(Zeros(n)) = n
         /\ \A i \in 1..n : Zeros(n)[i] = Zero
<1>1. Zero \in Symbol
  BY DEF Symbol
<1> HIDE DEF Symbol, Zero
<1> QED
  BY <1>1 DEF Zeros

\* The bytes of the length, position by position.
LEMMA LengthFacts ==
  ASSUME NEW n \in Nat
  PROVE  LET length == [j \in 1..LengthSize |-> LengthByte(n, j)] IN
         /\ length \in Seq(Symbol) /\ Len(length) = LengthSize
         /\ \A j \in 1..LengthSize : length[j] = LengthByte(n, j)
<1>1. \A j \in 1..LengthSize : LengthByte(n, j) \in Symbol
  BY BlockFacts DEF Symbol
<1> HIDE DEF Symbol, LengthByte
<1> QED
  BY <1>1, BlockFacts

\* Two sequences behind each other.
LEMMA Joined ==
  ASSUME NEW S, NEW s \in Seq(S), NEW t \in Seq(S)
  PROVE  /\ s \o t \in Seq(S) /\ Len(s \o t) = Len(s) + Len(t)
         /\ Len(s) \in Nat /\ Len(t) \in Nat
         /\ \A i \in 1..Len(s) : (s \o t)[i] = s[i]
         /\ \A i \in 1..Len(t) : (s \o t)[Len(s) + i] = t[i]
OBVIOUS

\* The padded message, position by position.
LEMMA PaddedByFacts ==
  ASSUME NEW n \in Nat, NEW z \in Nat
  PROVE  /\ PaddedBy(n, z) \in Seq(Symbol)
         /\ Len(PaddedBy(n, z)) = n + 1 + z + LengthSize
         /\ \A i \in 1..(n + 1 + z + LengthSize) : PaddedBy(n, z)[i] = Filled(n, z, i)
<1> DEFINE file == [i \in 1..n |-> FileByte(i)]
           length == [j \in 1..LengthSize |-> LengthByte(n, j)]
           s1 == file \o <<EndMark>>
           zeros == Zeros(z)
           s2 == s1 \o zeros
           s3 == s2 \o length
<1>1. /\ file \in Seq(Symbol) /\ Len(file) = n /\ \A i \in 1..n : file[i] = FileByte(i)
  <2>1. \A i \in 1..n : FileByte(i) \in Symbol
    BY DEF Symbol
  <2> HIDE DEF Symbol, FileByte
  <2> QED
    BY <2>1
<1>2. <<EndMark>> \in Seq(Symbol) /\ Len(<<EndMark>>) = 1 /\ <<EndMark>>[1] = EndMark
  <2>1. EndMark \in Symbol
    BY DEF Symbol
  <2> HIDE DEF Symbol, EndMark
  <2> QED
    BY <2>1
<1>3. /\ length \in Seq(Symbol) /\ Len(length) = LengthSize
      /\ \A j \in 1..LengthSize : length[j] = LengthByte(n, j)
  BY LengthFacts
<1>4. /\ zeros \in Seq(Symbol) /\ Len(zeros) = z
      /\ \A i \in 1..z : zeros[i] = Zero
  BY ZerosFacts
<1>5. PaddedBy(n, z) = s3
  BY DEF PaddedBy
<1>6. BlockSize \in Nat /\ LengthSize \in Nat
  BY BlockFacts
<1> HIDE DEF file, length, Symbol, EndMark, FileByte, Zero, LengthByte, zeros
<1> DEFINE mark == <<EndMark>>
<1> HIDE DEF mark
<1>7. /\ s1 \in Seq(Symbol) /\ Len(s1) = n + 1
      /\ \A i \in 1..(n + 1) : s1[i] = Filler(n, i)
  <2>1. mark \in Seq(Symbol) /\ Len(mark) = 1 /\ mark[1] = EndMark /\ s1 = file \o mark
    BY <1>2 DEF mark
  <2>2. /\ s1 \in Seq(Symbol) /\ Len(s1) = n + 1
        /\ \A i \in 1..n : s1[i] = file[i]
        /\ \A i \in 1..1 : s1[n + i] = mark[i]
    BY <1>1, <2>1, Joined
  <2>3. s1[n + 1] = EndMark
    BY <2>1, <2>2
  <2> HIDE DEF s1
  <2>4. ASSUME NEW i \in 1..(n + 1) PROVE s1[i] = Filler(n, i)
    <3>1. CASE i <= n
      <4>1. i \in 1..n
        BY <3>1
      <4>2. s1[i] = FileByte(i)
        BY <1>1, <2>2, <4>1
      <4> QED
        BY <3>1, <4>2 DEF Filler
    <3>2. CASE i = n + 1
      <4>1. ~ i <= n /\ s1[i] = EndMark
        BY <2>3, <3>2
      <4> QED
        BY <3>2, <4>1 DEF Filler
    <3> QED
      BY <3>1, <3>2
  <2> QED
    BY <2>2, <2>4
<1> HIDE DEF s1
<1>8. /\ s2 \in Seq(Symbol) /\ Len(s2) = n + 1 + z
      /\ \A i \in 1..(n + 1 + z) : s2[i] = Filler(n, i)
  <2>1. /\ s2 \in Seq(Symbol) /\ Len(s2) = n + 1 + z
        /\ \A i \in 1..(n + 1) : s2[i] = s1[i]
        /\ \A i \in 1..z : s2[n + 1 + i] = zeros[i]
    <3>1. s1 \in Seq(Symbol) /\ zeros \in Seq(Symbol)
      BY <1>4, <1>7
    <3>2. /\ s2 \in Seq(Symbol) /\ Len(s2) = Len(s1) + Len(zeros)
          /\ \A i \in 1..Len(s1) : s2[i] = s1[i]
          /\ \A i \in 1..Len(zeros) : s2[Len(s1) + i] = zeros[i]
      BY <3>1, Joined
    <3>3. Len(s1) = n + 1 /\ Len(zeros) = z
      BY <1>4, <1>7
    <3> HIDE DEF s2
    <3> QED
      BY <3>2, <3>3
  <2> HIDE DEF s2
  <2>2. ASSUME NEW i \in 1..(n + 1 + z) PROVE s2[i] = Filler(n, i)
    <3>1. CASE i <= n + 1
      BY <1>7, <2>1, <3>1
    <3>2. CASE i > n + 1
      <4>1. i - (n + 1) \in 1..z /\ n + 1 + (i - (n + 1)) = i
        BY <3>2
      <4>2. s2[i] = Zero
        BY <1>4, <2>1, <4>1
      <4> QED
        BY <3>2, <4>2 DEF Filler
    <3> QED
      BY <3>1, <3>2
  <2> QED
    BY <2>1, <2>2
<1> HIDE DEF s2
<1>9. /\ s3 \in Seq(Symbol) /\ Len(s3) = n + 1 + z + LengthSize
      /\ \A i \in 1..(n + 1 + z) : s3[i] = s2[i]
      /\ \A i \in 1..LengthSize : s3[n + 1 + z + i] = length[i]
  BY <1>3, <1>8, Joined
<1> HIDE DEF s3
<1>10. ASSUME NEW i \in 1..(n + 1 + z + LengthSize) PROVE s3[i] = Filled(n, z, i)
  <2>1. CASE i <= n + 1 + z
    BY <1>8, <1>9, <2>1 DEF Filled
  <2>2. CASE i > n + 1 + z
    <3>1. i - (n + 1 + z) \in 1..LengthSize /\ n + 1 + z + (i - (n + 1 + z)) = i
      BY <1>6, <2>2
    <3>2. s3[i] = LengthByte(n, i - (n + 1 + z))
      BY <1>3, <1>9, <3>1
    <3> QED
      BY <2>2, <3>2 DEF Filled
  <2> QED
    BY <1>6, <2>1, <2>2
<1> QED
  BY <1>5, <1>9, <1>10

\* A number of blocks leaves no rest, and what leaves no rest is a number of
\* blocks.
LEMMA WholeBlocks ==
  ASSUME NEW b \in Nat, NEW n \in Nat, n = b * BlockSize
  PROVE  n % BlockSize = 0
BY BlockFacts

LEMMA BlocksWhole ==
  ASSUME NEW n \in Nat, n % BlockSize = 0
  PROVE  \E b \in Nat : n = b * BlockSize
<1>1. n = (BlockSize * (n \div BlockSize)) + (n % BlockSize) /\ n \div BlockSize \in Nat
  BY BlockFacts
<1> DEFINE b == n \div BlockSize
<1>2. b \in Nat /\ n = (BlockSize * b) + (n % BlockSize)
  BY <1>1
<1> HIDE DEF b
<1>3. n = b * BlockSize
  BY <1>2, BlockFacts
<1> QED
  BY <1>2, <1>3

\* Two multiples of a block that are less than a block apart are one.
LEMMA OneBlockApart ==
  ASSUME NEW a \in Nat, NEW b \in Nat, NEW d \in Nat, d < BlockSize,
         a * BlockSize = b * BlockSize + d
  PROVE  d = 0
<1>1. CASE a <= b
  <2>1. a * BlockSize <= b * BlockSize
    BY <1>1, BlockFacts
  <2> QED
    BY <2>1, BlockFacts
<1>2. CASE a > b
  <2>1. PICK k \in Nat : a = b + 1 + k
    <3>1. a - b - 1 \in Nat /\ a = b + 1 + (a - b - 1)
      BY <1>2
    <3> QED
      BY <3>1
  <2>2. a * BlockSize = b * BlockSize + BlockSize + k * BlockSize
    BY <2>1, BlockFacts
  <2>3. k * BlockSize >= 0 /\ k * BlockSize \in Nat /\ b * BlockSize \in Nat
    BY BlockFacts
  <2> QED
    BY <2>2, <2>3, BlockFacts
<1> QED
  BY <1>1, <1>2

\* Fewer zeros than a block has bytes fill up the last block in one way only.
LEMMA PaddingUnique ==
  ASSUME NEW n \in Nat, NEW z \in 0..(BlockSize - 1), NEW b \in Nat,
         n + 1 + z + LengthSize = b * BlockSize
  PROVE  Padded(n) = PaddedBy(n, z)
<1> DEFINE Fits(k) == (n + 1 + k + LengthSize) % BlockSize = 0
           zeros == CHOOSE k \in 0..(BlockSize - 1) : Fits(k)
<1>1. Fits(z)
  <2>1. n + 1 + z + LengthSize \in Nat
    BY BlockFacts
  <2> QED
    BY <2>1, WholeBlocks
<1>2. ASSUME NEW k \in 0..(BlockSize - 1), Fits(k) PROVE k = z
  <2>1. n + 1 + k + LengthSize \in Nat
    BY BlockFacts
  <2>2. PICK a \in Nat : n + 1 + k + LengthSize = a * BlockSize
    BY <1>2, <2>1, BlocksWhole
  <2>3. CASE k >= z
    <3>1. k - z \in Nat /\ k - z < BlockSize
      BY <2>3, BlockFacts
    <3>2. a * BlockSize = b * BlockSize + (k - z)
      BY <2>2, BlockFacts
    <3>3. k - z = 0
      BY <3>1, <3>2, OneBlockApart
    <3> QED
      BY <3>3, BlockFacts
  <2>4. CASE k < z
    <3>1. z - k \in Nat /\ z - k < BlockSize
      BY <2>4, BlockFacts
    <3>2. b * BlockSize = a * BlockSize + (z - k)
      BY <2>2, BlockFacts
    <3>3. z - k = 0
      BY <3>1, <3>2, OneBlockApart
    <3> QED
      BY <3>3, BlockFacts
  <2> QED
    BY <2>3, <2>4, BlockFacts
<1>3. Padded(n) = PaddedBy(n, zeros)
  BY DEF Padded, PaddedBy
<1> HIDE DEF Fits
<1>4. zeros = z
  BY <1>1, <1>2
<1> QED
  BY <1>3, <1>4

-----------------------------------------------------------------------------
(* The invariant: what was fed and what is buffered, put behind each other, *)
(* is a prefix of the padded message, cut where a block ends.               *)

\* What stands at position i of all blocks.
At(i) == IF i <= Len(fed) THEN fed[i] ELSE buffer[i - Len(fed)]

Ahead == Len(fed) + Len(buffer)

HashTypeOK ==
  /\ size \in Nat /\ total \in 0..size
  /\ fed \in Seq(Symbol) /\ buffer \in Seq(Symbol)
  /\ phase \in {"reading", "marked", "full", "returned"}

\* Only whole blocks are transformed.
BlocksOK == \E b \in Nat : Len(fed) = b * BlockSize

ReadingOK ==
  /\ Len(buffer) < BlockSize /\ Ahead = total
  /\ stream = "eof" => total = size
  /\ \A i \in 1..total : At(i) = FileByte(i)

\* Behind the mark there is nothing yet, or a block was filled up with fewer
\* zeros than the length has bytes.
MarkedOK ==
  /\ total = size /\ Ahead > size /\ Len(buffer) <= BlockSize
  /\ \/ Ahead = size + 1 /\ Len(buffer) > 0
     \/ Len(buffer) = 0 /\ Ahead - (size + 1) < LengthSize
  /\ \A i \in 1..Ahead : At(i) = Filler(size, i)

FullOK ==
  \E z \in 0..(BlockSize - 1) :
    /\ Len(buffer) = BlockSize /\ Ahead = size + 1 + z + LengthSize
    /\ \A i \in 1..Ahead : At(i) = Filled(size, z, i)

HashInv ==
  /\ HashTypeOK
  /\ phase \in {"reading", "marked", "full"} => BlocksOK /\ digest = NoDigest
  /\ phase = "reading" => ReadingOK
  /\ phase = "marked" => MarkedOK
  /\ phase = "full" => FullOK
  /\ phase = "returned" => DigestCoversFile

\* What was fed and what is buffered.
LEMMA AtFacts ==
  ASSUME HashTypeOK
  PROVE  /\ Len(fed) \in Nat /\ Len(buffer) \in Nat /\ Ahead \in Nat
         /\ fed \o buffer \in Seq(Symbol) /\ Len(fed \o buffer) = Ahead
         /\ \A i \in 1..Ahead : (fed \o buffer)[i] = At(i)
<1>1. /\ fed \in Seq(Symbol) /\ buffer \in Seq(Symbol)
  BY DEF HashTypeOK
<1>2. /\ fed \o buffer \in Seq(Symbol) /\ Len(fed \o buffer) = Len(fed) + Len(buffer)
      /\ Len(fed) \in Nat /\ Len(buffer) \in Nat
      /\ \A i \in 1..Len(fed) : (fed \o buffer)[i] = fed[i]
      /\ \A i \in 1..Len(buffer) : (fed \o buffer)[Len(fed) + i] = buffer[i]
  BY <1>1, Joined
<1> DEFINE whole == fed \o buffer
<1>3. whole = fed \o buffer
  OBVIOUS
<1> HIDE DEF whole
<1>4. ASSUME NEW i \in 1..Ahead PROVE whole[i] = At(i)
  <2>1. CASE i <= Len(fed)
    BY <1>2, <1>3, <2>1 DEF At, Ahead
  <2>2. CASE i > Len(fed)
    <3>1. i - Len(fed) \in 1..Len(buffer) /\ Len(fed) + (i - Len(fed)) = i
      BY <1>2, <2>2 DEF Ahead
    <3>2. whole[i] = buffer[i - Len(fed)]
      BY <1>2, <1>3, <3>1
    <3> QED
      BY <1>2, <2>2, <3>2 DEF At
  <2> QED
    BY <1>2, <2>1, <2>2
<1> QED
  BY <1>2, <1>3, <1>4 DEF Ahead

\* A sequence is put behind what is buffered.
LEMMA BufferGrows ==
  ASSUME HashTypeOK, NEW more \in Seq(Symbol), fed' = fed, buffer' = buffer \o more
  PROVE  /\ buffer' \in Seq(Symbol) /\ Len(buffer') = Len(buffer) + Len(more)
         /\ Ahead' = Ahead + Len(more)
         /\ \A i \in 1..Ahead : At(i)' = At(i)
         /\ \A k \in (Ahead + 1)..(Ahead + Len(more)) : At(k)' = more[k - Ahead]
<1>1. /\ buffer \in Seq(Symbol) /\ Len(fed) \in Nat /\ Len(buffer) \in Nat
  BY AtFacts DEF HashTypeOK
<1>2. /\ buffer' \in Seq(Symbol) /\ Len(buffer') = Len(buffer) + Len(more)
      /\ Len(more) \in Nat
      /\ \A i \in 1..Len(buffer) : buffer'[i] = buffer[i]
      /\ \A i \in 1..Len(more) : buffer'[Len(buffer) + i] = more[i]
  BY <1>1, Joined
<1>3. ASSUME NEW i \in 1..Ahead PROVE At(i)' = At(i)
  <2>1. CASE i <= Len(fed)
    BY <2>1 DEF At
  <2>2. CASE i > Len(fed)
    <3>1. i - Len(fed) \in 1..Len(buffer)
      BY <1>1, <2>2 DEF Ahead
    <3> QED
      BY <1>1, <1>2, <2>2, <3>1 DEF At
  <2> QED
    BY <1>1, <2>1, <2>2
<1>4. ASSUME NEW k \in (Ahead + 1)..(Ahead + Len(more)) PROVE At(k)' = more[k - Ahead]
  <2>1. /\ ~ k <= Len(fed) /\ k - Len(fed) = Len(buffer) + (k - Ahead)
        /\ k - Ahead \in 1..Len(more)
    BY <1>1, <1>2 DEF Ahead
  <2>2. At(k)' = buffer'[k - Len(fed)]
    BY <2>1 DEF At
  <2> QED
    BY <1>2, <2>1, <2>2
<1> QED
  BY <1>1, <1>2, <1>3, <1>4 DEF Ahead

\* A sequence is put behind what was transformed.
LEMMA FedGrows ==
  ASSUME fed \in Seq(Symbol), NEW filled \in Seq(Symbol), fed' = fed \o filled
  PROVE  /\ fed' \in Seq(Symbol) /\ Len(fed') = Len(fed) + Len(filled)
         /\ \A i \in 1..Len(fed) : fed'[i] = fed[i]
         /\ \A i \in 1..Len(filled) : fed'[Len(fed) + i] = filled[i]
BY Joined

\* The buffer is transformed: nothing moves.
LEMMA BufferFed ==
  ASSUME HashTypeOK, BlocksOK, NEW filled \in Seq(Symbol), Len(filled) = BlockSize,
         fed' = fed \o filled, buffer' = <<>>
  PROVE  /\ fed' \in Seq(Symbol) /\ buffer' \in Seq(Symbol) /\ BlocksOK' /\ Len(buffer') = 0
         /\ Ahead' = Len(fed) + Len(filled)
         /\ \A i \in 1..Len(fed) : At(i)' = fed[i]
         /\ \A i \in (Len(fed) + 1)..(Len(fed) + Len(filled)) : At(i)' = filled[i - Len(fed)]
<1>1. fed \in Seq(Symbol) /\ Len(fed) \in Nat /\ BlockSize \in Nat
  BY AtFacts, BlockFacts DEF HashTypeOK
<1>2. /\ fed' \in Seq(Symbol) /\ Len(fed') = Len(fed) + Len(filled)
      /\ \A i \in 1..Len(fed) : fed'[i] = fed[i]
      /\ \A i \in 1..Len(filled) : fed'[Len(fed) + i] = filled[i]
  <2>1. fed \in Seq(Symbol)
    BY <1>1
  <2> QED
    BY <2>1, FedGrows
<1>3. buffer' \in Seq(Symbol) /\ Len(buffer') = 0
  OBVIOUS
<1>4. BlocksOK'
  <2>1. PICK b \in Nat : Len(fed) = b * BlockSize
    BY DEF BlocksOK
  <2>2. b + 1 \in Nat /\ Len(fed') = (b + 1) * BlockSize
    BY <1>1, <1>2, <2>1
  <2> QED
    BY <2>2 DEF BlocksOK
<1>5. \A i \in 1..Len(fed) : At(i)' = fed[i]
  BY <1>1, <1>2 DEF At
<1>6. ASSUME NEW i \in (Len(fed) + 1)..(Len(fed) + Len(filled))
      PROVE  At(i)' = filled[i - Len(fed)]
  <2>1. i <= Len(fed') /\ i - Len(fed) \in 1..Len(filled) /\ Len(fed) + (i - Len(fed)) = i
    BY <1>1, <1>2
  <2> QED
    BY <1>2, <2>1 DEF At
<1> QED
  BY <1>1, <1>2, <1>3, <1>4, <1>5, <1>6 DEF Ahead

\* One byte is put behind what is buffered.
LEMMA ByteAppended ==
  ASSUME HashTypeOK, NEW x \in Symbol, NEW filled, filled = Append(buffer, x)
  PROVE  /\ filled \in Seq(Symbol) /\ Len(filled) = Len(buffer) + 1
         /\ \A i \in 1..Len(buffer) : filled[i] = buffer[i]
         /\ filled[Len(buffer) + 1] = x
BY DEF HashTypeOK

\* The next byte of the file.
LEMMA HashUpdate == ASSUME HashInv, Update PROVE HashInv'
<1> DEFINE x == FileByte(total + 1)
           filled == Append(buffer, x)
           W(i) == IF i <= Len(fed) THEN fed[i] ELSE filled[i - Len(fed)]
<1>1. /\ HashTypeOK /\ BlocksOK /\ digest = NoDigest /\ ReadingOK
      /\ phase = "reading" /\ stream = "good" /\ total < size
      /\ phase' = "reading" /\ stream' = "good" /\ total' = total + 1
      /\ size' = size /\ digest' = NoDigest
      /\ IF Len(filled) = BlockSize THEN fed' = fed \o filled /\ buffer' = <<>>
                                    ELSE buffer' = filled /\ fed' = fed
  BY DEF HashInv, Update
<1>2. /\ size \in Nat /\ total \in Nat /\ total + 1 \in Nat /\ total' \in 0..size
      /\ Len(fed) \in Nat /\ Len(buffer) \in Nat /\ fed \in Seq(Symbol)
      /\ Len(buffer) < BlockSize /\ Len(fed) + Len(buffer) = total
      /\ \A i \in 1..total : At(i) = FileByte(i)
  BY <1>1, AtFacts DEF HashTypeOK, ReadingOK, Ahead
<1>3. x \in Symbol
  BY <1>2 DEF Symbol
<1> HIDE DEF x
<1>4. /\ filled \in Seq(Symbol) /\ Len(filled) = Len(buffer) + 1
      /\ \A i \in 1..Len(buffer) : filled[i] = buffer[i]
      /\ filled[Len(buffer) + 1] = x
  BY <1>1, <1>3, ByteAppended
<1> HIDE DEF filled
<1>5. ASSUME NEW i \in 1..(total + 1) PROVE W(i) = FileByte(i)
  <2>1. CASE i <= Len(fed)
    <3>1. i \in 1..total /\ At(i) = fed[i]
      BY <1>2, <2>1 DEF At
    <3> QED
      BY <1>2, <2>1, <3>1
  <2>2. CASE i > Len(fed) /\ i <= total
    <3>1. i \in 1..total /\ At(i) = buffer[i - Len(fed)] /\ i - Len(fed) \in 1..Len(buffer)
      BY <1>2, <2>2 DEF At
    <3>2. W(i) = filled[i - Len(fed)]
      BY <1>2, <2>2
    <3> HIDE DEF W
    <3> QED
      BY <1>2, <1>4, <3>1, <3>2
  <2>3. CASE i = total + 1
    <3>1. i - Len(fed) = Len(buffer) + 1 /\ ~ i <= Len(fed)
      BY <1>2, <2>3
    <3>2. W(i) = filled[Len(buffer) + 1]
      BY <3>1
    <3> HIDE DEF W
    <3> QED
      BY <1>4, <2>3, <3>2 DEF x
  <2> QED
    BY <1>2, <2>1, <2>2, <2>3
<1>6. /\ fed' \in Seq(Symbol) /\ buffer' \in Seq(Symbol) /\ BlocksOK'
      /\ Len(buffer') < BlockSize /\ Ahead' = total + 1
      /\ \A i \in 1..(total + 1) : At(i)' = W(i)
  <2>1. CASE Len(filled) = BlockSize
    <3>1. /\ fed' \in Seq(Symbol) /\ buffer' \in Seq(Symbol) /\ BlocksOK' /\ Len(buffer') = 0
          /\ Ahead' = Len(fed) + Len(filled)
          /\ \A i \in 1..Len(fed) : At(i)' = fed[i]
          /\ \A i \in (Len(fed) + 1)..(Len(fed) + Len(filled)) : At(i)' = filled[i - Len(fed)]
      BY <1>1, <1>4, <2>1, BufferFed
    <3>2. ASSUME NEW i \in 1..(total + 1) PROVE At(i)' = W(i)
      <4>1. CASE i <= Len(fed)
        BY <1>2, <3>1, <4>1
      <4>2. CASE ~ i <= Len(fed)
        <5>1. i \in (Len(fed) + 1)..(Len(fed) + Len(filled))
          BY <1>2, <1>4, <4>2
        <5> QED
          BY <3>1, <4>2, <5>1
      <4> QED
        BY <4>1, <4>2
    <3>3. Len(buffer') < BlockSize /\ Ahead' = total + 1
      <4>1. 0 < BlockSize /\ Len(fed) + (Len(buffer) + 1) = total + 1
        BY <1>2, BlockFacts
      <4>2. Ahead' = Len(fed) + (Len(buffer) + 1)
        BY <1>4, <3>1
      <4> QED
        BY <3>1, <4>1, <4>2
    <3> HIDE DEF W
    <3> QED
      BY <3>1, <3>2, <3>3
  <2>2. CASE Len(filled) # BlockSize
    <3>1. buffer' = filled /\ fed' = fed
      BY <1>1, <2>2
    <3>2. BlocksOK'
      BY <1>1, <3>1 DEF BlocksOK
    <3>3. \A i \in 1..(total + 1) : At(i)' = W(i)
      BY <3>1 DEF At
    <3>4. Len(buffer') < BlockSize /\ Ahead' = total + 1
      BY <1>2, <1>4, <2>2, <3>1, BlockFacts DEF Ahead
    <3> HIDE DEF W
    <3> QED
      BY <1>2, <1>4, <3>1, <3>2, <3>3, <3>4
  <2> QED
    BY <2>1, <2>2
<1> HIDE DEF W
<1>7. HashTypeOK'
  BY <1>1, <1>2, <1>6 DEF HashTypeOK
<1>8. ReadingOK'
  BY <1>1, <1>5, <1>6 DEF ReadingOK
<1> QED
  BY <1>1, <1>6, <1>7, <1>8 DEF HashInv

\* The end of the file, or an error, is met.
LEMMA HashReading ==
  ASSUME HashInv, EndOfFile \/ ReadFails \/ Fail PROVE HashInv'
<1>1. /\ HashTypeOK /\ BlocksOK /\ digest = NoDigest /\ ReadingOK /\ phase = "reading"
      /\ UNCHANGED <<size, fed, buffer, total, digest>>
  BY DEF HashInv, EndOfFile, ReadFails, Fail
<1>2. HashTypeOK' /\ BlocksOK'
  BY <1>1 DEF HashTypeOK, BlocksOK, EndOfFile, ReadFails, Fail
<1>3. CASE EndOfFile \/ ReadFails
  <2>1. phase' = "reading" /\ (stream' = "eof" => total = size)
    BY <1>1, <1>3 DEF EndOfFile, ReadFails
  <2>2. ReadingOK'
    BY <1>1, <2>1 DEF ReadingOK, Ahead, At
  <2> QED
    BY <1>1, <1>2, <2>1, <2>2 DEF HashInv
<1>4. CASE Fail
  <2>1. phase' = "returned" /\ DigestCoversFile'
    BY <1>1, <1>4 DEF Fail, DigestCoversFile
  <2> QED
    BY <1>1, <1>2, <2>1 DEF HashInv
<1> QED
  BY <1>3, <1>4

\* The mark goes behind the file.
LEMMA HashMark == ASSUME HashInv, AppendMark PROVE HashInv'
<1>1. /\ HashTypeOK /\ BlocksOK /\ digest = NoDigest /\ ReadingOK /\ stream = "eof"
      /\ phase' = "marked" /\ buffer' = Append(buffer, EndMark)
      /\ UNCHANGED <<size, fed, total, digest>>
  BY DEF HashInv, AppendMark, ReadAll
<1>2. EndMark \in Symbol
  BY DEF Symbol
<1>3. /\ size \in Nat /\ total = size /\ Ahead = size /\ Len(fed) \in Nat
      /\ Len(buffer) \in Nat /\ Len(buffer) < BlockSize
      /\ Len(fed) + Len(buffer) = size
      /\ \A i \in 1..size : At(i) = FileByte(i)
  <2>1. Len(fed) \in Nat /\ Len(buffer) \in Nat
    BY <1>1, AtFacts
  <2>2. size \in Nat
    BY <1>1 DEF HashTypeOK
  <2> QED
    BY <1>1, <2>1, <2>2 DEF ReadingOK, Ahead
<1> HIDE DEF EndMark, FileByte, Zero
<1>4. /\ buffer' \in Seq(Symbol) /\ Len(buffer') = Len(buffer) + 1
      /\ \A i \in 1..Len(buffer) : buffer'[i] = buffer[i]
      /\ buffer'[Len(buffer) + 1] = EndMark
  <2>1. buffer \in Seq(Symbol) /\ buffer' = Append(buffer, EndMark)
    BY <1>1 DEF HashTypeOK
  <2> QED
    BY <1>2, <2>1
<1>5. Ahead' = size + 1 /\ Len(buffer') <= BlockSize /\ Len(buffer') > 0
  BY <1>1, <1>3, <1>4, BlockFacts DEF Ahead
<1>6. ASSUME NEW i \in 1..(size + 1) PROVE At(i)' = Filler(size, i)
  <2>1. CASE i <= size
    <3>1. At(i)' = At(i)
      <4>1. i > Len(fed) => i - Len(fed) \in 1..Len(buffer)
        BY <1>3, <2>1
      <4> QED
        BY <1>1, <1>3, <1>4, <4>1 DEF At
    <3>2. At(i) = FileByte(i)
      BY <1>3, <2>1
    <3> QED
      BY <2>1, <3>1, <3>2 DEF Filler
  <2>2. CASE i = size + 1
    <3>1. ~ i <= Len(fed) /\ i - Len(fed) = Len(buffer) + 1
      BY <1>3, <2>2
    <3>2. At(i)' = EndMark
      BY <1>1, <1>4, <3>1 DEF At
    <3>3. ~ i <= size
      BY <1>3, <2>2
    <3> QED
      BY <2>2, <3>2, <3>3 DEF Filler
  <2> QED
    BY <1>3, <2>1, <2>2
<1>7. MarkedOK'
  BY <1>1, <1>3, <1>5, <1>6 DEF MarkedOK
<1>8. HashTypeOK' /\ BlocksOK'
  BY <1>1, <1>4 DEF HashTypeOK, BlocksOK
<1> QED
  BY <1>1, <1>7, <1>8 DEF HashInv

\* Zeros fill a block in which the length has no room.
LEMMA HashFill == ASSUME HashInv, FillBlock PROVE HashInv'
<1> DEFINE n == BlockSize - Len(buffer)
           zeros == Zeros(n)
           filled == buffer \o zeros
<1>1. /\ HashTypeOK /\ BlocksOK /\ digest = NoDigest /\ MarkedOK
      /\ Len(buffer) > BlockSize - LengthSize
      /\ phase' = "marked" /\ fed' = (fed \o buffer) \o zeros /\ buffer' = <<>>
      /\ UNCHANGED <<size, total, digest>>
  BY DEF HashInv, FillBlock, NoRoom
<1>2. /\ size \in Nat /\ total = size /\ Ahead > size /\ Len(fed) \in Nat
      /\ Len(buffer) \in Nat /\ Len(buffer) <= BlockSize /\ Len(buffer) > 0
      /\ Ahead = Len(fed) + Len(buffer) /\ Ahead = size + 1
      /\ \A i \in 1..Ahead : At(i) = Filler(size, i)
      /\ fed \in Seq(Symbol) /\ buffer \in Seq(Symbol)
      /\ n \in Nat /\ n < LengthSize
  BY <1>1, AtFacts, BlockFacts DEF HashTypeOK, MarkedOK, Ahead
<1> HIDE DEF n
<1>3. zeros \in Seq(Symbol) /\ Len(zeros) = n /\ \A i \in 1..n : zeros[i] = Zero
  BY <1>2, ZerosFacts
<1> HIDE DEF zeros
<1>4. /\ filled \in Seq(Symbol) /\ Len(filled) = Len(buffer) + Len(zeros)
      /\ \A i \in 1..Len(buffer) : filled[i] = buffer[i]
      /\ \A i \in 1..Len(zeros) : filled[Len(buffer) + i] = zeros[i]
  <2>1. buffer \in Seq(Symbol) /\ zeros \in Seq(Symbol)
    BY <1>2, <1>3
  <2> QED
    BY <2>1, Joined
<1>5. (fed \o buffer) \o zeros = fed \o filled
  BY <1>2, <1>3
<1> HIDE DEF filled
<1>6. Len(filled) = BlockSize
  BY <1>2, <1>3, <1>4, BlockFacts DEF n
<1>7. /\ fed' \in Seq(Symbol) /\ buffer' \in Seq(Symbol) /\ BlocksOK' /\ Len(buffer') = 0
      /\ Ahead' = Len(fed) + Len(filled)
      /\ \A i \in 1..Len(fed) : At(i)' = fed[i]
      /\ \A i \in (Len(fed) + 1)..(Len(fed) + Len(filled)) : At(i)' = filled[i - Len(fed)]
  BY <1>1, <1>4, <1>5, <1>6, BufferFed
<1>8. Ahead' = Ahead + n
  BY <1>2, <1>3, <1>4, <1>7
<1>9. ASSUME NEW i \in 1..(Ahead + n) PROVE At(i)' = Filler(size, i)
  <2>1. CASE i <= Len(fed)
    <3>1. i \in 1..Ahead /\ At(i) = fed[i]
      BY <1>2, <2>1 DEF At
    <3> QED
      BY <1>2, <1>7, <2>1, <3>1
  <2>2. CASE i > Len(fed) /\ i <= Ahead
    <3>1. i \in 1..Ahead /\ At(i) = buffer[i - Len(fed)] /\ i - Len(fed) \in 1..Len(buffer)
      BY <1>2, <2>2 DEF At
    <3>2. i \in (Len(fed) + 1)..(Len(fed) + Len(filled))
      BY <1>2, <1>3, <1>4, <2>2
    <3> QED
      BY <1>2, <1>4, <1>7, <3>1, <3>2
  <2>3. CASE i > Ahead
    <3>1. /\ i \in (Len(fed) + 1)..(Len(fed) + Len(filled))
          /\ i - Len(fed) - Len(buffer) \in 1..Len(zeros)
          /\ Len(buffer) + (i - Len(fed) - Len(buffer)) = i - Len(fed)
      BY <1>2, <1>3, <1>4, <2>3
    <3>2. At(i)' = Zero
      BY <1>3, <1>4, <1>7, <3>1
    <3>3. ~ i <= size /\ i # size + 1
      BY <1>2, <2>3
    <3> QED
      BY <3>2, <3>3 DEF Filler
  <2> QED
    BY <1>2, <2>1, <2>2, <2>3
<1>10. MarkedOK'
  <2>1. /\ total' = size' /\ Ahead' > size' /\ Len(buffer') <= BlockSize
        /\ Len(buffer') = 0 /\ Ahead' - (size' + 1) < LengthSize
    BY <1>1, <1>2, <1>7, <1>8, BlockFacts
  <2>2. \A i \in 1..Ahead' : At(i)' = Filler(size', i)
    BY <1>1, <1>8, <1>9
  <2> QED
    BY <2>1, <2>2 DEF MarkedOK
<1>11. HashTypeOK'
  BY <1>1, <1>7 DEF HashTypeOK
<1> QED
  BY <1>1, <1>7, <1>10, <1>11 DEF HashInv

\* The length goes to the end of the block.
LEMMA HashLength == ASSUME HashInv, AppendLength PROVE HashInv'
<1> DEFINE m == BlockSize - LengthSize - Len(buffer)
           zeros == Zeros(m)
           length == [j \in 1..LengthSize |-> LengthByte(size, j)]
           more == zeros \o length
           z == (Ahead - (size + 1)) + m
<1>1. /\ HashTypeOK /\ BlocksOK /\ digest = NoDigest /\ MarkedOK /\ total = size
      /\ ~ Len(buffer) > BlockSize - LengthSize
      /\ phase' = "full" /\ buffer' = (buffer \o zeros) \o length
      /\ UNCHANGED <<size, fed, total, digest>>
  BY DEF HashInv, AppendLength, NoRoom, MarkedOK
<1>2. /\ size \in Nat /\ Ahead > size /\ Len(fed) \in Nat /\ Ahead \in Nat
      /\ Len(buffer) \in Nat /\ BlockSize \in Nat /\ LengthSize \in Nat
      /\ LengthSize < BlockSize
      /\ \/ Ahead = size + 1 /\ Len(buffer) > 0
         \/ Len(buffer) = 0 /\ Ahead - (size + 1) < LengthSize
      /\ \A i \in 1..Ahead : At(i) = Filler(size, i)
      /\ buffer \in Seq(Symbol)
  BY <1>1, AtFacts, BlockFacts DEF HashTypeOK, MarkedOK
<1>3. /\ m \in Nat /\ z \in 0..(BlockSize - 1)
      /\ Len(buffer) + m + LengthSize = BlockSize
      /\ Ahead + m = size + 1 + z
  <2>1. m \in Nat /\ m <= BlockSize - LengthSize
    BY <1>1, <1>2
  <2>2. Len(buffer) + m + LengthSize = BlockSize
    BY <1>2
  <2>3. Ahead - (size + 1) \in Nat
    BY <1>2
  <2>4. z \in 0..(BlockSize - 1)
    <3>1. CASE Ahead = size + 1 /\ Len(buffer) > 0
      <4>1. z = m /\ m <= BlockSize - 1
        BY <1>2, <2>1, <2>2, <3>1
      <4> HIDE DEF z, m
      <4> QED
        BY <1>2, <2>1, <4>1
    <3>2. CASE Len(buffer) = 0 /\ Ahead - (size + 1) < LengthSize
      <4> HIDE DEF m
      <4> QED
        BY <1>2, <2>1, <2>3, <3>2
    <3> QED
      BY <1>2, <3>1, <3>2
  <2>5. Ahead + m = size + 1 + z
    <3> HIDE DEF m
    <3> QED
      BY <1>2, <2>1
  <2> QED
    BY <2>1, <2>2, <2>4, <2>5
<1> HIDE DEF m, z
<1>4. zeros \in Seq(Symbol) /\ Len(zeros) = m /\ \A i \in 1..m : zeros[i] = Zero
  BY <1>3, ZerosFacts
<1>5. /\ length \in Seq(Symbol) /\ Len(length) = LengthSize
      /\ \A j \in 1..LengthSize : length[j] = LengthByte(size, j)
  BY <1>2, LengthFacts
<1> HIDE DEF zeros, length, LengthByte, Zero, EndMark, FileByte
<1>6. /\ more \in Seq(Symbol) /\ Len(more) = Len(zeros) + Len(length)
      /\ \A i \in 1..Len(zeros) : more[i] = zeros[i]
      /\ \A i \in 1..Len(length) : more[Len(zeros) + i] = length[i]
  <2>1. zeros \in Seq(Symbol) /\ length \in Seq(Symbol)
    BY <1>4, <1>5
  <2> QED
    BY <2>1, Joined
<1>7. buffer' = buffer \o more
  <2>1. buffer' = (buffer \o zeros) \o length
    BY <1>1
  <2>2. buffer \in Seq(Symbol) /\ zeros \in Seq(Symbol) /\ length \in Seq(Symbol)
    BY <1>2, <1>4, <1>5
  <2> QED
    BY <2>1, <2>2
<1> HIDE DEF more
<1>8. /\ buffer' \in Seq(Symbol) /\ Len(buffer') = Len(buffer) + Len(more)
      /\ Ahead' = Ahead + Len(more)
      /\ \A i \in 1..Ahead : At(i)' = At(i)
      /\ \A i \in (Ahead + 1)..(Ahead + Len(more)) : At(i)' = more[i - Ahead]
  BY <1>1, <1>6, <1>7, BufferGrows
<1>9. Len(buffer') = BlockSize /\ Ahead' = size + 1 + z + LengthSize /\ Len(more) = m + LengthSize
  BY <1>2, <1>3, <1>4, <1>5, <1>6, <1>8
<1>10. ASSUME NEW i \in 1..(size + 1 + z + LengthSize) PROVE At(i)' = Filled(size, z, i)
  <2>1. CASE i <= Ahead
    <3>1. i \in 1..Ahead /\ i <= size + 1 + z
      BY <1>2, <1>3, <2>1
    <3> QED
      BY <1>2, <1>8, <3>1 DEF Filled
  <2>2. CASE i > Ahead /\ i <= Ahead + m
    <3>1. /\ i \in (Ahead + 1)..(Ahead + Len(more)) /\ i - Ahead \in 1..m
          /\ i <= size + 1 + z /\ ~ i <= size /\ i # size + 1
      BY <1>2, <1>3, <1>9, <2>2
    <3>2. At(i)' = Zero
      BY <1>4, <1>6, <1>8, <3>1
    <3> QED
      BY <3>1, <3>2 DEF Filled, Filler
  <2>3. CASE i > Ahead + m
    <3>1. /\ i \in (Ahead + 1)..(Ahead + Len(more))
          /\ i - (size + 1 + z) \in 1..LengthSize /\ ~ i <= size + 1 + z
          /\ m + (i - (size + 1 + z)) = i - Ahead
      BY <1>2, <1>3, <1>9, <2>3
    <3>2. At(i)' = more[m + (i - (size + 1 + z))]
      BY <1>8, <3>1
    <3>3. more[m + (i - (size + 1 + z))] = LengthByte(size, i - (size + 1 + z))
      BY <1>4, <1>5, <1>6, <3>1
    <3> QED
      BY <3>1, <3>2, <3>3 DEF Filled
  <2> QED
    BY <1>2, <1>3, <2>1, <2>2, <2>3
<1>11. FullOK'
  BY <1>1, <1>3, <1>9, <1>10 DEF FullOK
<1>12. HashTypeOK' /\ BlocksOK'
  BY <1>1, <1>8 DEF HashTypeOK, BlocksOK
<1> QED
  BY <1>1, <1>11, <1>12 DEF HashInv

\* The last block is transformed, and what was fed is the padded file.
LEMMA HashFinish == ASSUME HashInv, Finish PROVE HashInv'
<1> DEFINE whole == fed \o buffer
<1>1. /\ HashTypeOK /\ BlocksOK /\ FullOK
      /\ phase' = "returned" /\ fed' = whole /\ digest' = whole
      /\ UNCHANGED <<size, buffer, total>>
  BY DEF HashInv, Finish
<1>2. PICK z \in 0..(BlockSize - 1) :
        /\ Len(buffer) = BlockSize /\ Ahead = size + 1 + z + LengthSize
        /\ \A i \in 1..Ahead : At(i) = Filled(size, z, i)
  BY <1>1 DEF FullOK
<1>3. size \in Nat /\ z \in Nat /\ BlockSize \in Nat
  BY <1>1, <1>2, BlockFacts DEF HashTypeOK
<1>4. /\ Len(fed) \in Nat /\ whole \in Seq(Symbol) /\ Len(whole) = Ahead
      /\ \A i \in 1..Ahead : whole[i] = At(i)
  BY <1>1, AtFacts
<1>5. /\ PaddedBy(size, z) \in Seq(Symbol)
      /\ Len(PaddedBy(size, z)) = size + 1 + z + LengthSize
      /\ \A i \in 1..(size + 1 + z + LengthSize) : PaddedBy(size, z)[i] = Filled(size, z, i)
  BY <1>3, PaddedByFacts
<1> DEFINE padded == PaddedBy(size, z)
<1> HIDE DEF whole, padded
<1>6. whole = padded
  <2>1. /\ padded \in Seq(Symbol) /\ Len(padded) = Len(whole)
        /\ \A i \in 1..Len(whole) : whole[i] = padded[i]
    BY <1>2, <1>4, <1>5 DEF padded
  <2> QED
    BY <1>4, <2>1
<1>7. \E b \in Nat : size + 1 + z + LengthSize = b * BlockSize
  <2>1. PICK b \in Nat : Len(fed) = b * BlockSize
    BY <1>1 DEF BlocksOK
  <2>2. Len(fed) + BlockSize = (b + 1) * BlockSize
    BY <1>3, <2>1
  <2>3. Len(fed) + BlockSize = size + 1 + z + LengthSize
    BY <1>2 DEF Ahead
  <2> QED
    BY <2>2, <2>3
<1>8. Padded(size) = padded
  BY <1>2, <1>3, <1>7, PaddingUnique DEF padded
<1>9. DigestCoversFile'
  BY <1>1, <1>6, <1>8 DEF DigestCoversFile, Padded, Zeros
<1>10. HashTypeOK'
  BY <1>1, <1>4 DEF HashTypeOK
<1> QED
  BY <1>1, <1>9, <1>10 DEF HashInv

\* Nothing is read, nothing is buffered.
LEMMA HashStarts == FileInit => HashInv
<1> SUFFICES ASSUME FileInit PROVE HashInv
  OBVIOUS
<1>1. /\ size \in Nat /\ fed = <<>> /\ buffer = <<>> /\ total = 0 /\ phase = "reading"
      /\ digest = NoDigest /\ (stream = "eof" => FALSE)
  BY Sha256Assumption DEF FileInit
<1>2. HashTypeOK
  BY <1>1 DEF HashTypeOK
<1>3. BlocksOK
  <2>1. 0 \in Nat /\ Len(fed) = 0 * BlockSize
    BY <1>1, BlockFacts
  <2> QED
    BY <2>1 DEF BlocksOK
<1>4. ReadingOK
  BY <1>1, BlockFacts DEF ReadingOK, Ahead
<1> QED
  BY <1>1, <1>2, <1>3, <1>4 DEF HashInv

\* Every step keeps the invariant.
LEMMA HashKept == HashInv /\ [FileNext]_file_vars => HashInv'
<1> SUFFICES ASSUME HashInv, [FileNext]_file_vars PROVE HashInv'
  OBVIOUS
<1>1. CASE UNCHANGED file_vars
  <2>1. UNCHANGED <<size, stream, fed, buffer, total, phase, digest>>
    BY <1>1 DEF file_vars
  <2> QED
    BY <2>1 DEF HashInv, HashTypeOK, BlocksOK, ReadingOK, MarkedOK, FullOK, Ahead, At,
       DigestCoversFile
<1> QED
  BY <1>1, HashUpdate, HashReading, HashMark, HashFill, HashLength, HashFinish DEF FileNext

\* A hash that is returned is that of the whole file, padded as the standard
\* says, for files of any size, blocks of any size and lengths that fit into a
\* block (Sha256 and sha256File in native_binary_identity.cpp).
THEOREM DigestsCoverFiles == FileInit /\ [][FileNext]_file_vars => []DigestCoversFile
<1>1. HashInv => DigestCoversFile
  BY DEF HashInv, HashTypeOK, DigestCoversFile
<1> QED
  BY <1>1, HashStarts, HashKept, PTL
=============================================================================
