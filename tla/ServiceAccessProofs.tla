------------------------- MODULE ServiceAccessProofs -------------------------
(***************************************************************************)
(* Whatever the characters, the ids and the names are: a plugin's prefix   *)
(* is closed by a separator that its normalised id cannot contain, so a    *)
(* name that begins with the prefixes of two plugins has one normalised    *)
(* id behind both; and normalising twice is normalising once.  A listing   *)
(* and a read ask the same question of a name.  What is asked of an        *)
(* adapter's capabilities is part of what completeControl asks.            *)
(*                                                                         *)
(* And of the strings that names, keys and values are, whatever the bytes  *)
(* and however long: what isValidUtf8 accepts is one encoded scalar value  *)
(* after another, because the stops of its loop are where a string can be  *)
(* cut; what escapeJson writes parseString reads back; and a surrogate is  *)
(* read only as half of a pair.  Both recursive functions are tamed by the *)
(* last position at which something could be wrong.                        *)
(***************************************************************************)
EXTENDS ServiceAccess, Utf8, TLAPS, SequenceTheorems, WellFoundedInduction

-----------------------------------------------------------------------------
(* Bounds of a set of positions.                                           *)

LEMMA LeastNumber ==
  ASSUME NEW S \in SUBSET Nat, S # {}
  PROVE  \E x \in S : \A y \in S : x <= y
<1> DEFINE R == {ss \in Nat \X Nat : ss[1] < ss[2]}
<1>1. IsWellFoundedOn(R, Nat)
  BY NatLessThanWellFounded DEF OpToRel
<1>2. \E x \in S : \A y \in S : ~ (<<y, x>> \in R)
  <2> HIDE DEF R
  <2> QED BY <1>1, WFMin
<1>3. \A x, y \in Nat : ~ (<<y, x>> \in R) => x <= y
  OBVIOUS
<1> QED BY <1>2, <1>3

LEMMA MinMax ==
  ASSUME NEW n \in Nat, NEW S \in SUBSET (1..n), S # {}
  PROVE  /\ Min(S) \in S /\ \A x \in S : Min(S) <= x
         /\ Max(S) \in S /\ \A x \in S : x <= Max(S)
<1>1. \E x \in S : \A y \in S : x <= y
  BY LeastNumber
<1>2. \E x \in S : \A y \in S : x >= y
  <2> DEFINE T == {n - x : x \in S}
  <2>1. T \in SUBSET Nat /\ T # {}
    <3>1. \A x \in S : n - x \in Nat
      OBVIOUS
    <3> QED BY <3>1
  <2>2. PICK t \in T : \A u \in T : t <= u
    <3> HIDE DEF T
    <3> QED BY <2>1, LeastNumber
  <2>3. PICK x \in S : t = n - x
    OBVIOUS
  <2>4. \A y \in S : n - x <= n - y
    BY <2>2, <2>3
  <2> QED BY <2>4
<1> QED BY <1>1, <1>2 DEF Min, Max

-----------------------------------------------------------------------------
(* normalize.                                                              *)

LEMMA MappedIsPlain ==
  ASSUME NEW c
  PROVE  Mapped(c) \in Plain /\ (c \in Plain => Mapped(c) = c)
BY PolicyAssumption DEF Mapped

\* What is left of a spelling is plain, and neither end of it is an underscore.
LEMMA NormalizeIsPlain ==
  ASSUME NEW spelling \in Seq(Char)
  PROVE  /\ Normalize(spelling) \in Seq(Plain)
         /\ Normalize(spelling) # <<>> =>
              /\ Normalize(spelling)[1] # "_"
              /\ Normalize(spelling)[Len(Normalize(spelling))] # "_"
<1> DEFINE mapped == [i \in DOMAIN spelling |-> Mapped(spelling[i])]
           kept == {i \in DOMAIN spelling : mapped[i] # "_"}
<1>1. DOMAIN spelling = 1..Len(spelling) /\ Len(spelling) \in Nat
  BY LenProperties
<1>2. \A i \in 1..Len(spelling) : mapped[i] \in Plain
  BY <1>1, MappedIsPlain
<1>3. CASE kept = {}
  <2>1. Normalize(spelling) = <<>>
    BY <1>3 DEF Normalize
  <2> QED BY <2>1, EmptySeq
<1>4. CASE kept # {}
  <2>1. kept \in SUBSET (1..Len(spelling))
    BY <1>1
  <2>2. /\ Min(kept) \in kept /\ Max(kept) \in kept /\ Min(kept) <= Max(kept)
        /\ Min(kept) \in 1..Len(spelling) /\ Max(kept) \in 1..Len(spelling)
    <3> HIDE DEF kept
    <3> QED BY <1>1, <1>4, <2>1, MinMax
  <2> DEFINE lo == Min(kept)
             hi == Max(kept)
  <2>3. Normalize(spelling) = SubSeq(mapped, lo, hi)
    BY <1>4 DEF Normalize
  <2>4. mapped[lo] # "_" /\ mapped[hi] # "_"
    BY <2>2
  <2> HIDE DEF mapped, kept
  <2>5. lo \in Int /\ hi \in Int /\ lo <= hi /\ \A i \in lo..hi : mapped[i] \in Plain
    BY <1>1, <1>2, <2>2
  <2> HIDE DEF lo, hi
  <2>6. /\ SubSeq(mapped, lo, hi) \in Seq(Plain)
        /\ Len(SubSeq(mapped, lo, hi)) = hi - lo + 1
        /\ \A i \in 1..(hi - lo + 1) : SubSeq(mapped, lo, hi)[i] = mapped[lo + i - 1]
    BY <2>5, SubSeqProperties
  <2>7. /\ 1 \in 1..(hi - lo + 1) /\ lo + 1 - 1 = lo
        /\ hi - lo + 1 \in 1..(hi - lo + 1) /\ lo + (hi - lo + 1) - 1 = hi
    BY <2>5
  <2> QED BY <2>3, <2>4, <2>6, <2>7
<1> QED BY <1>3, <1>4

\* Normalising what is normal changes nothing.
LEMMA NormalizeTwice ==
  ASSUME NEW spelling \in Seq(Char)
  PROVE  Normalize(Normalize(spelling)) = Normalize(spelling)
<1> DEFINE s == Normalize(spelling)
           mapped == [i \in DOMAIN s |-> Mapped(s[i])]
           kept == {i \in DOMAIN s : mapped[i] # "_"}
<1>1. s \in Seq(Plain) /\ (s # <<>> => s[1] # "_" /\ s[Len(s)] # "_")
  BY NormalizeIsPlain
<1> HIDE DEF s
<1>2. DOMAIN s = 1..Len(s) /\ Len(s) \in Nat /\ \A i \in 1..Len(s) : s[i] \in Plain
  BY <1>1, LenProperties, ElementOfSeq
<1>3. mapped = s
  <2>1. \A i \in 1..Len(s) : Mapped(s[i]) = s[i]
    BY <1>2, MappedIsPlain
  <2>2. s \in [1..Len(s) -> Plain]
    BY <1>1, LenProperties
  <2> QED BY <1>2, <2>1, <2>2
<1>4. ASSUME s = <<>> PROVE Normalize(s) = s
  <2>1. DOMAIN s = {}
    BY <1>4
  <2>2. kept = {}
    BY <2>1
  <2>3. Normalize(s) = <<>>
    BY <2>2 DEF Normalize
  <2> QED BY <1>4, <2>3
<1>5. ASSUME s # <<>> PROVE Normalize(s) = s
  <2>1. Len(s) >= 1
    <3>1. Len(s) \in Nat \ {0}
      BY <1>1, <1>5, EmptySeq, Zenon
    <3> QED BY <3>1
  <2>2. 1 \in kept /\ Len(s) \in kept /\ kept \in SUBSET (1..Len(s))
    <3>1. kept = {i \in 1..Len(s) : s[i] # "_"}
      BY <1>2, <1>3, Zenon
    <3>2. 1 \in 1..Len(s) /\ Len(s) \in 1..Len(s)
      BY <1>2, <2>1
    <3> HIDE DEF kept
    <3> QED BY <1>1, <1>5, <3>1, <3>2
  <2>3. Min(kept) = 1 /\ Max(kept) = Len(s)
    <3> HIDE DEF kept
    <3>1. /\ Min(kept) \in 1..Len(s) /\ Min(kept) <= 1
          /\ Max(kept) \in 1..Len(s) /\ Len(s) <= Max(kept)
      BY <1>2, <2>2, MinMax
    <3> QED BY <1>2, <3>1
  <2>4. kept # {}
    BY <2>2
  <2>5. Normalize(s) = SubSeq(mapped, Min(kept), Max(kept))
    BY <2>4 DEF Normalize
  <2>6. Normalize(s) = SubSeq(s, 1, Len(s))
    <3> HIDE DEF mapped, kept
    <3> QED BY <1>3, <2>3, <2>5
  <2> QED BY <1>1, <2>6, SubSeqFull
<1>6. Normalize(s) = s
  BY <1>4, <1>5
<1> QED BY <1>6 DEF s

-----------------------------------------------------------------------------
(* pluginPrefix.                                                           *)

LEMMA OneCharacter ==
  ASSUME NEW c \in Char
  PROVE  <<c>> \in Seq(Char) /\ Len(<<c>>) = 1 /\ <<c>>[1] = c
OBVIOUS

LEMMA PolicyPrefixText == PolicyPrefix \in Seq(Char)
<1>1. Normalize(Prefix) \in Seq(Plain)
  BY PolicyAssumption, NormalizeIsPlain
<1>2. Normalize(Prefix) \in Seq(Char)
  BY <1>1, PolicyAssumption, SeqMonotonic
<1>3. <<"endstone-plugin">> \in Seq(Char)
  BY PolicyAssumption, OneCharacter
<1> QED BY <1>2, <1>3 DEF PolicyPrefix

\* The prefix of a normalised id: where the id stands in it, what closes it.
LEMMA PrefixText ==
  ASSUME NEW id \in Seq(Plain)
  PROVE  LET whole == PolicyPrefix \o <<":">> \o id \o <<":">> IN
         /\ whole \in Seq(Char)
         /\ Len(whole) = Len(PolicyPrefix) + Len(id) + 2
         /\ \A i \in 1..Len(id) : whole[Len(PolicyPrefix) + 1 + i] = id[i]
         /\ whole[Len(PolicyPrefix) + Len(id) + 2] = ":"
<1> DEFINE p == PolicyPrefix
           colon == <<":">>
<1>1. /\ p \in Seq(Char) /\ id \in Seq(Char) /\ colon \in Seq(Char)
      /\ Len(colon) = 1 /\ colon[1] = ":" /\ Len(p) \in Nat /\ Len(id) \in Nat
  <2>1. p \in Seq(Char) /\ Len(p) \in Nat
    BY PolicyPrefixText, LenProperties
  <2>2. id \in Seq(Char) /\ Len(id) \in Nat
    BY PolicyAssumption, SeqMonotonic, LenProperties
  <2>3. colon \in Seq(Char) /\ Len(colon) = 1 /\ colon[1] = ":"
    BY PolicyAssumption, OneCharacter
  <2> QED BY <2>1, <2>2, <2>3
<1> HIDE DEF p, colon
<1>2. p \o colon \in Seq(Char) /\ Len(p \o colon) = Len(p) + 1
  <2>1. p \o colon \in Seq(Char) /\ Len(p \o colon) = Len(p) + Len(colon)
    BY <1>1, ConcatProperties, Zenon
  <2> QED BY <1>1, <2>1
<1> DEFINE head == p \o colon
<1> HIDE DEF head
<1>3. /\ head \o id \in Seq(Char) /\ Len(head \o id) = Len(p) + 1 + Len(id)
      /\ \A i \in 1..Len(id) : (head \o id)[Len(p) + 1 + i] = id[i]
  <2>1. head \in Seq(Char) /\ Len(head) = Len(p) + 1
    BY <1>2 DEF head
  <2>2. /\ head \o id \in Seq(Char) /\ Len(head \o id) = Len(head) + Len(id)
        /\ \A i \in 1..(Len(head) + Len(id)) :
             (head \o id)[i] = IF i <= Len(head) THEN head[i] ELSE id[i - Len(head)]
    BY <1>1, <2>1, ConcatProperties, ZenonT(60)
  <2>3. ASSUME NEW i \in 1..Len(id) PROVE (head \o id)[Len(p) + 1 + i] = id[i]
    <3>1. /\ Len(p) + 1 + i \in 1..(Len(head) + Len(id))
          /\ ~ (Len(p) + 1 + i <= Len(head)) /\ Len(p) + 1 + i - Len(head) = i
      BY <1>1, <2>1
    <3> QED BY <2>2, <3>1
  <2> QED BY <1>1, <2>1, <2>2, <2>3
<1> DEFINE body == head \o id
<1> HIDE DEF body
<1>4. /\ body \in Seq(Char) /\ Len(body) = Len(p) + 1 + Len(id)
      /\ \A i \in 1..Len(id) : body[Len(p) + 1 + i] = id[i]
  BY <1>3 DEF body
<1>5. /\ body \o colon \in Seq(Char) /\ Len(body \o colon) = Len(body) + Len(colon)
      /\ \A i \in 1..(Len(body) + Len(colon)) :
           (body \o colon)[i] = IF i <= Len(body) THEN body[i] ELSE colon[i - Len(body)]
  <2>1. body \in Seq(Char) /\ colon \in Seq(Char)
    BY <1>1, <1>4
  <2> QED BY <2>1, ConcatProperties, Zenon
<1>6. ASSUME NEW i \in 1..Len(id) PROVE (body \o colon)[Len(p) + 1 + i] = id[i]
  <2>1. Len(p) + 1 + i \in 1..(Len(body) + Len(colon)) /\ Len(p) + 1 + i <= Len(body)
    BY <1>1, <1>4
  <2> QED BY <1>4, <1>5, <2>1
<1>7. (body \o colon)[Len(p) + Len(id) + 2] = ":"
  <2>1. /\ Len(p) + Len(id) + 2 \in 1..(Len(body) + Len(colon)) /\ ~ (Len(p) + Len(id) + 2 <= Len(body))
        /\ Len(p) + Len(id) + 2 - Len(body) = 1
    BY <1>1, <1>4
  <2> QED BY <1>1, <1>5, <2>1
<1>8. Len(body \o colon) = Len(p) + Len(id) + 2
  BY <1>1, <1>4, <1>5
<1>9. body \o colon = p \o colon \o id \o colon
  BY DEF body, head
<1> QED BY <1>5, <1>6, <1>7, <1>8, <1>9 DEF p, colon

\* A text that begins a name agrees with it at every position it has.
LEMMA PrefixAgrees ==
  ASSUME NEW s \in Seq(Char), NEW t \in Seq(Char), IsPrefix(s, t),
         NEW i \in 1..Len(s)
  PROVE  t[i] = s[i]
<1>1. Len(s) \in Nat /\ Len(t) \in Nat /\ Len(s) <= Len(t)
      /\ SubSeq(s, 1, Len(s)) = SubSeq(t, 1, Len(s))
  BY LenProperties DEF IsPrefix
<1>2. \A j \in 1..Len(s) : s[j] \in Char /\ t[j] \in Char
  BY <1>1, ElementOfSeq
<1>3. /\ SubSeq(s, 1, Len(s))[i] = s[1 + i - 1]
      /\ SubSeq(t, 1, Len(s))[i] = t[1 + i - 1]
  BY <1>1, <1>2, SubSeqProperties
<1> QED BY <1>1, <1>3

\* Two plain ids whose prefixes begin one name: the first is not the shorter.
LEMMA NotShorter ==
  ASSUME NEW a \in Seq(Plain), NEW b \in Seq(Plain), NEW name \in Seq(Char),
         IsPrefix(PolicyPrefix \o <<":">> \o a \o <<":">>, name),
         IsPrefix(PolicyPrefix \o <<":">> \o b \o <<":">>, name)
  PROVE  Len(b) <= Len(a)
<1> DEFINE A == PolicyPrefix \o <<":">> \o a \o <<":">>
           B == PolicyPrefix \o <<":">> \o b \o <<":">>
           at == Len(PolicyPrefix) + Len(a) + 2
<1> SUFFICES ASSUME ~ (Len(b) <= Len(a)) PROVE FALSE
  OBVIOUS
<1>1. Len(PolicyPrefix) \in Nat /\ Len(a) \in Nat /\ Len(b) \in Nat /\ Len(a) + 1 \in 1..Len(b)
  BY PolicyPrefixText, LenProperties
<1>2. /\ A \in Seq(Char) /\ Len(A) = at /\ A[at] = ":"
      /\ B \in Seq(Char) /\ Len(B) = Len(PolicyPrefix) + Len(b) + 2
      /\ B[Len(PolicyPrefix) + 1 + (Len(a) + 1)] = b[Len(a) + 1]
  BY <1>1, PrefixText
<1>3. IsPrefix(A, name) /\ IsPrefix(B, name)
  OBVIOUS
<1>4. at \in 1..Len(A) /\ at \in 1..Len(B) /\ at = Len(PolicyPrefix) + 1 + (Len(a) + 1)
  BY <1>1, <1>2
<1> HIDE DEF A, B, at
<1>5. name[at] = ":" /\ name[at] = b[Len(a) + 1]
  <2>1. name[at] = A[at]
    BY <1>2, <1>3, <1>4, PrefixAgrees
  <2>2. name[at] = B[at]
    BY <1>2, <1>3, <1>4, PrefixAgrees
  <2>3. B[at] = b[Len(a) + 1]
    BY <1>2, <1>4
  <2> QED BY <1>2, <2>1, <2>2, <2>3
<1>6. b[Len(a) + 1] \in Plain
  BY <1>1, ElementOfSeq
<1> QED BY <1>5, <1>6, PolicyAssumption

LEMMA OneIdPerName ==
  ASSUME NEW a \in Seq(Plain), NEW b \in Seq(Plain), NEW name \in Seq(Char),
         IsPrefix(PolicyPrefix \o <<":">> \o a \o <<":">>, name),
         IsPrefix(PolicyPrefix \o <<":">> \o b \o <<":">>, name)
  PROVE  a = b
<1> DEFINE A == PolicyPrefix \o <<":">> \o a \o <<":">>
           B == PolicyPrefix \o <<":">> \o b \o <<":">>
<1>1. Len(a) = Len(b) /\ Len(a) \in Nat /\ Len(PolicyPrefix) \in Nat
  <2>1. Len(b) <= Len(a) /\ Len(a) <= Len(b)
    BY NotShorter
  <2>2. Len(a) \in Nat /\ Len(b) \in Nat /\ Len(PolicyPrefix) \in Nat
    BY PolicyPrefixText, LenProperties
  <2> QED BY <2>1, <2>2
<1>2. ASSUME NEW i \in 1..Len(a) PROVE a[i] = b[i]
  <2> DEFINE at == Len(PolicyPrefix) + 1 + i
  <2>1. /\ A \in Seq(Char) /\ Len(A) = Len(PolicyPrefix) + Len(a) + 2 /\ A[at] = a[i]
        /\ B \in Seq(Char) /\ Len(B) = Len(PolicyPrefix) + Len(a) + 2 /\ B[at] = b[i]
    BY <1>1, PrefixText
  <2>2. IsPrefix(A, name) /\ IsPrefix(B, name)
    OBVIOUS
  <2>3. at \in 1..Len(A) /\ at \in 1..Len(B)
    BY <1>1, <2>1
  <2> HIDE DEF A, B, at
  <2>4. name[at] = A[at] /\ name[at] = B[at]
    BY <2>1, <2>2, <2>3, PrefixAgrees
  <2> QED BY <2>1, <2>4
<1> QED BY <1>1, <1>2, SeqEqual

-----------------------------------------------------------------------------
(* The theorems.                                                           *)

LEMMA OwnsMeans ==
  ASSUME NEW plugin \in Seq(Char), NEW name, Owns(plugin, name)
  PROVE  /\ Normalize(plugin) # <<>>
         /\ IsPrefix(PolicyPrefix \o <<":">> \o Normalize(plugin) \o <<":">>, name)
BY DEF Owns, PluginPrefix

\* What is stored is one of the collections clients address.
THEOREM AccessStored == Spec => [](store \subseteq Refs)
<1>1. Init => store \subseteq Refs
  BY DEF Init
<1>2. store \subseteq Refs /\ [Next]_vars => (store \subseteq Refs)'
  <2> SUFFICES ASSUME store \subseteq Refs, [Next]_vars PROVE store' \subseteq Refs
    OBVIOUS
  <2>1. CASE UNCHANGED vars
    BY <2>1 DEF vars
  <2>2. ASSUME NEW context \in Contexts, NEW target \in ClientTargets, Ask(context, target)
        PROVE  store' \subseteq Refs
    BY <2>2 DEF Ask, Read, ListCollections, Flush, Transact, BeforeExternalMutation
  <2>3. ASSUME NEW context \in Contexts, NEW from \in Refs, NEW to \in Refs,
               Apply(context, from, to)
        PROVE  store' \subseteq Refs
    BY <2>3 DEF Apply, Stored
  <2>4. ASSUME NEW target \in Outages, SetTargetAvailable(target)
        PROVE  store' \subseteq Refs
    BY <2>4 DEF SetTargetAvailable
  <2> QED BY <2>1, <2>2, <2>3, <2>4 DEF Next
<1> QED BY <1>1, <1>2, PTL DEF Spec

\* Two plugins that may touch one stored collection have one normalised id,
\* whatever ids, names and prefix are in use.
THEOREM AccessNamespacesApart == Spec => []NamespacesApart
<1>1. store \subseteq Refs => NamespacesApart
  <2> SUFFICES ASSUME store \subseteq Refs, NEW ref \in store,
                      NEW a \in Contexts, NEW b \in Contexts,
                      ~ a.raw_admin, RefStatus(a, ref) = "Captured",
                      ~ b.raw_admin, RefStatus(b, ref) = "Captured"
               PROVE  /\ Normalize(a.plugin_id) = Normalize(b.plugin_id)
                      /\ Normalize(a.plugin_id) # <<>>
    BY DEF NamespacesApart
  <2>1. /\ a.plugin_id \in Seq(Char) /\ b.plugin_id \in Seq(Char)
        /\ ref.collection \in Seq(Char)
    BY AccessAssumption
  <2>2. Owns(a.plugin_id, ref.collection) /\ Owns(b.plugin_id, ref.collection)
    <3>1. ASSUME NEW c \in Contexts, RefStatus(c, ref) = "Captured", ~ c.raw_admin
          PROVE  Owns(c.plugin_id, ref.collection)
      BY <3>1 DEF RefStatus, TargetStatus, CanAccess
    <3> QED BY <3>1
  <2>3. Normalize(a.plugin_id) \in Seq(Plain) /\ Normalize(b.plugin_id) \in Seq(Plain)
    BY <2>1, NormalizeIsPlain
  <2> QED BY <2>1, <2>2, <2>3, OwnsMeans, OneIdPerName
<1> QED BY <1>1, AccessStored, PTL

\* A plugin owns the same stored collections under its raw and under its
\* normalised id.
THEOREM AccessOneOwnerPerSpelling == Spec => []OneOwnerPerSpelling
<1>1. OneOwnerPerSpelling
  <2> SUFFICES ASSUME NEW ref \in store, NEW context \in Contexts
               PROVE  Owns(context.plugin_id, ref.collection)
                        <=> Owns(Normalize(context.plugin_id), ref.collection)
    BY DEF OneOwnerPerSpelling
  <2>1. Normalize(Normalize(context.plugin_id)) = Normalize(context.plugin_id)
    BY AccessAssumption, NormalizeTwice
  <2>2. PluginPrefix(Normalize(context.plugin_id)) = PluginPrefix(context.plugin_id)
    BY <2>1 DEF PluginPrefix
  <2> QED BY <2>2 DEF Owns
<1> QED BY <1>1, PTL

-----------------------------------------------------------------------------
(* Capabilities.                                                           *)

\* What a live adapter of the plugin has itself.
AdapterComplete == Capability \ {"audit", "watches"} \subseteq capabilities

LEMMA CompleteMeans == CompleteControl(ServiceCapabilities) => AdapterComplete
BY DEF CompleteControl, ServiceCapabilities, AdapterComplete

\* No target and no collection is refused for a missing capability.
LEMMA TargetSupported ==
  ASSUME AdapterComplete, NEW target, target.kind \in TargetKind
  PROVE  TargetStatus(target) # "Unsupported"
<1>1. TargetCapability(target.kind) \subseteq Capability \ {"audit", "watches"}
  BY DEF TargetKind, TargetCapability, Capability
<1> QED BY <1>1 DEF AdapterComplete, TargetStatus

LEMMA RefSupported ==
  ASSUME AdapterComplete, NEW context, NEW ref \in Refs
  PROVE  RefStatus(context, ref) # "Unsupported" /\ ref.target.kind \in TargetKind
<1>1. ref.target.kind \in TargetKind
  BY AccessAssumption
<1> QED BY <1>1, TargetSupported DEF RefStatus

\* Every flag that some call asks for is one that completeControl demands.
LEMMA CallsSupported ==
  ASSUME AdapterComplete
  PROVE  /\ {"read", "export_import", "list_collections", "persistence_flush",
             "atomic_transactions", "external_change_observation",
             "external_change_cancellation"} \subseteq capabilities
         /\ \A kind \in DOMAIN RequiredCapability : RequiredCapability[kind] \in capabilities
<1>1. {"read", "export_import", "list_collections", "persistence_flush",
       "atomic_transactions", "external_change_observation",
       "external_change_cancellation", "write", "bulk_set", "remove", "clear",
       "collection_rename", "property_copy_move", "collection_copy_move"}
        \subseteq Capability \ {"audit", "watches"}
  BY DEF Capability
<1>2. \A kind \in DOMAIN RequiredCapability :
        RequiredCapability[kind] \in
          {"write", "bulk_set", "remove", "clear", "collection_rename",
           "property_copy_move", "collection_copy_move", "export_import"}
  BY DEF RequiredCapability
<1> QED BY <1>1, <1>2 DEF AdapterComplete

LEMMA KindsKnown ==
  ASSUME NEW from, NEW to
  PROVE  Kinds(from, to) \subseteq DOMAIN RequiredCapability
BY DEF Kinds, Creating, RequiredCapability

\* The statuses of the calls, once every capability is there.
LEMMA ReadSupported ==
  ASSUME AdapterComplete, NEW context, NEW ref \in Refs, NEW call,
         NEW status \in ReadAnswers(call, context, ref)
  PROVE  status # "Unsupported"
BY CallsSupported, RefSupported
   DEF ReadAnswers, ReadStatus, CaptureStatus, Availability

LEMMA OperationSupported ==
  ASSUME AdapterComplete, NEW context, NEW from \in Refs, NEW to \in Refs,
         NEW kind \in Kinds(from, to)
  PROVE  OperationStatus(kind, context, from, to) # "Unsupported"
<1>1. RequiredCapability[kind] \in capabilities
  BY KindsKnown, CallsSupported
<1> QED BY <1>1, RefSupported DEF OperationStatus

\* types.cpp:91-101: completeControl demands every flag that any call asks
\* for, so with an adapter the plugin registers the service's own flag checks
\* refuse no call, by any caller on any target, as unsupported.
THEOREM AccessCompleteControlSuffices == Spec => []CompleteControlSuffices
<1>1. Init => CompleteControlSuffices
  BY DEF Init, Answer, CompleteControlSuffices
<1>2. CompleteControlSuffices /\ [Next]_vars => CompleteControlSuffices'
  <2> SUFFICES ASSUME CompleteControlSuffices, [Next]_vars,
                      capabilities' = capabilities => CompleteControl(ServiceCapabilities)
               PROVE  capabilities' = capabilities /\ answer'.status # "Unsupported"
    BY DEF CompleteControlSuffices, CompleteControl, ServiceCapabilities
  <2>1. CASE UNCHANGED vars
    BY <2>1 DEF vars, CompleteControlSuffices
  <2>2. ASSUME NEW context \in Contexts, NEW target \in ClientTargets, Ask(context, target)
        PROVE  capabilities' = capabilities /\ answer'.status # "Unsupported"
    <3>1. capabilities' = capabilities
      BY <2>2 DEF Ask, Read, ListCollections, Flush, Transact, BeforeExternalMutation
    <3>2. AdapterComplete /\ TargetStatus(target) # "Unsupported"
      BY <3>1, CompleteMeans, TargetSupported, AccessAssumption
    <3>3. ASSUME NEW ref \in Refs, Read(context, ref) PROVE answer'.status # "Unsupported"
      BY <3>2, <3>3, ReadSupported DEF Read, Answer
    <3>4. CASE ListCollections(context, target)
      BY <3>2, <3>4, CallsSupported DEF ListCollections, Listing, ListStatus, Availability
    <3>5. CASE Flush(context, target)
      BY <3>2, <3>5, CallsSupported DEF Flush, Answer, FlushStatus, Availability
    <3>6. CASE Transact(target)
      BY <3>2, <3>6, CallsSupported DEF Transact, Answer
    <3>7. CASE BeforeExternalMutation(target)
      BY <3>2, <3>7, CallsSupported DEF BeforeExternalMutation, Answer
    <3> QED BY <2>2, <3>1, <3>3, <3>4, <3>5, <3>6, <3>7 DEF Ask
  <2>3. ASSUME NEW context \in Contexts, NEW from \in Refs, NEW to \in Refs,
               Apply(context, from, to)
        PROVE  capabilities' = capabilities /\ answer'.status # "Unsupported"
    <3>1. capabilities' = capabilities
      BY <2>3 DEF Apply
    <3>2. AdapterComplete
      BY <3>1, CompleteMeans
    <3>3. \A kind \in Kinds(from, to) : OperationStatus(kind, context, from, to) # "Unsupported"
      BY <3>2, OperationSupported
    <3> QED BY <2>3, <3>1, <3>3 DEF Apply, Answer
  <2>4. ASSUME NEW target \in Outages, SetTargetAvailable(target)
        PROVE  capabilities' = capabilities /\ answer'.status # "Unsupported"
    BY <2>4 DEF SetTargetAvailable, CompleteControlSuffices
  <2> QED BY <2>1, <2>2, <2>3, <2>4 DEF Next
<1> QED BY <1>1, <1>2, PTL DEF Spec

-----------------------------------------------------------------------------
(* Listings.                                                               *)

\* What is stored has a name that the service accepts.
NamesValid == \A ref \in store : ValidName(ref.collection)

LEMMA NamesStayValid ==
  /\ Init => NamesValid
  /\ NamesValid /\ [Next]_vars => NamesValid'
<1>1. Init => NamesValid
  BY DEF Init, NamesValid
<1>2. ASSUME NamesValid, [Next]_vars PROVE NamesValid'
  <2>1. ASSUME NEW context \in Contexts, NEW from \in Refs, NEW to \in Refs,
               Apply(context, from, to)
        PROVE  NamesValid'
    <3>1. ASSUME NEW kind, OperationStatus(kind, context, from, to) = "Captured"
          PROVE  ValidName(to.collection)
      BY <3>1 DEF OperationStatus, RefStatus
    <3>2. \A kind : Stored(kind, from, to) \subseteq store \cup {to}
      BY DEF Stored
    <3> QED BY <1>2, <2>1, <3>1, <3>2 DEF Apply, NamesValid, ValidName
  <2>2. ASSUME NEW context \in Contexts, NEW target \in ClientTargets, Ask(context, target)
        PROVE  NamesValid'
    BY <1>2, <2>2 DEF Ask, Read, ListCollections, Flush, Transact, BeforeExternalMutation,
                      NamesValid, ValidName
  <2>3. ASSUME NEW target \in Outages, SetTargetAvailable(target) PROVE NamesValid'
    BY <1>2, <2>3 DEF SetTargetAvailable, NamesValid, ValidName
  <2>4. CASE UNCHANGED vars
    BY <1>2, <2>4 DEF vars, NamesValid, ValidName
  <2> QED BY <1>2, <2>1, <2>2, <2>3, <2>4 DEF Next
<1> QED BY <1>1, <1>2

\* What a caller may read of a target that it was allowed to list.
Readable(context, target) ==
  {ref.collection : ref \in {r \in store :
     r.target = target /\ CaptureStatus(context, r) \in {"Captured", "Unsupported"}}}

LEMMA ListingAgrees ==
  ASSUME NamesValid, NEW context, NEW target, ListStatus(context, target) = "Captured"
  PROVE  Visible(context, AdapterNames(target)) = Readable(context, target)
<1>1. /\ TargetStatus(target) = "Captured" /\ Availability(target) = "Captured"
      /\ context.raw_admin \/ PluginPrefix(context.plugin_id) # <<>>
  BY DEF ListStatus, CanListRawCollections
<1>2. ASSUME NEW r \in store, r.target = target
      PROVE  CaptureStatus(context, r) \in {"Captured", "Unsupported"}
               <=> context.raw_admin \/ Owns(context.plugin_id, r.collection)
  BY <1>1, <1>2 DEF CaptureStatus, RefStatus, CanAccess, NamesValid
<1>3. ASSUME ~ context.raw_admin
      PROVE  \A name : Owns(context.plugin_id, name)
                         <=> IsPrefix(PluginPrefix(context.plugin_id), name)
  BY <1>1, <1>3 DEF Owns
<1>4. CASE context.raw_admin
  BY <1>2, <1>4 DEF Visible, AdapterNames, Readable, CanListRawCollections
<1>5. CASE ~ context.raw_admin
  BY <1>2, <1>3, <1>5 DEF Visible, AdapterNames, Readable, CanListRawCollections
<1> QED BY <1>4, <1>5

\* service.cpp:84-97, 115-129: a listing that succeeds names exactly the
\* collections on that target that the same caller may read, however ids,
\* names and targets are spelled.
THEOREM AccessListedIsReadable == Spec => ListedIsReadable
<1>1. NamesValid /\ [Next]_vars =>
        [answer' # answer /\ answer'.call = "list" /\ answer'.status = "Captured"
         => answer'.names = Readable(answer'.context, answer'.target)]_vars
  <2> SUFFICES ASSUME NamesValid, Next, answer' # answer, answer'.call = "list",
                      answer'.status = "Captured"
               PROVE  answer'.names = Readable(answer'.context, answer'.target)
    OBVIOUS
  <2>1. PICK context \in Contexts, target \in ClientTargets : ListCollections(context, target)
    <3>1. ASSUME NEW context \in Contexts, NEW from \in Refs, NEW to \in Refs,
                 Apply(context, from, to)
          PROVE  FALSE
      BY <3>1 DEF Apply, Answer
    <3>2. ASSUME NEW target \in Outages, SetTargetAvailable(target) PROVE FALSE
      BY <3>2 DEF SetTargetAvailable
    <3>3. ASSUME NEW context \in Contexts, NEW target \in ClientTargets, Ask(context, target)
          PROVE  ListCollections(context, target)
      BY <3>3 DEF Ask, Read, Flush, Transact, BeforeExternalMutation, Answer
    <3> QED BY <3>1, <3>2, <3>3 DEF Next
  <2>2. /\ answer'.context = context /\ answer'.target = target
        /\ answer'.status = ListStatus(context, target)
        /\ answer'.names = IF ListStatus(context, target) = "Captured"
                           THEN Visible(context, AdapterNames(target)) ELSE {}
    BY <2>1 DEF ListCollections, Listing
  <2> QED BY <2>2, ListingAgrees
<1>2. [answer' # answer /\ answer'.call = "list" /\ answer'.status = "Captured"
       => answer'.names = Readable(answer'.context, answer'.target)]_vars
        => [answer' # answer /\ answer'.call = "list" /\ answer'.status = "Captured"
            => answer'.names =
                 {ref.collection : ref \in {r \in store :
                    /\ r.target = answer'.target
                    /\ CaptureStatus(answer'.context, r) \in {"Captured", "Unsupported"}}}]_vars
  BY DEF Readable
<1> QED BY <1>1, <1>2, NamesStayValid, PTL DEF Spec, ListedIsReadable

-----------------------------------------------------------------------------
(* Strings of bytes: the validator.                                        *)

\* The largest of a set of positions.
LEMMA LastPosition ==
  ASSUME NEW n \in Nat, NEW S \in SUBSET (1..n), S # {}
  PROVE  \E x \in S : \A y \in S : y <= x
BY MinMax

Octets == 0..255

\* What the loop takes stays inside the string.
LEMMA ConsumedFacts ==
  ASSUME NEW v \in Seq(Octets), NEW i \in 1..Len(v)
  PROVE  /\ Consumed(v, i) \in 0..4 /\ i + Consumed(v, i) \in 1..(Len(v) + 1)
<1>1. v[i] \in Octets /\ Len(v) \in Nat
  OBVIOUS
<1>2. Announced(v[i]) \in 0..4
  BY <1>1 DEF Announced, Octets
<1> DEFINE size == Announced(v[i])
<1>3. \/ Consumed(v, i) = 0
      \/ Consumed(v, i) = size /\ Len(v) - i + 1 >= size
  BY DEF Consumed
<1> HIDE DEF size
<1> QED
  BY <1>1, <1>2, <1>3 DEF size

\* Positions from which the loop gets to the next one, up to the end.
Runs(v, P) ==
  /\ P \subseteq 1..(Len(v) + 1)
  /\ \A i \in P \ {Len(v) + 1} : Consumed(v, i) # 0 /\ i + Consumed(v, i) \in P

\* What a function says of a position; what the loop makes of it; and a function
\* that says just that.
Reads(f, i) == f[i]

GoesOn(f, v, i) ==
  \/ i = Len(v) + 1
  \/ Consumed(v, i) # 0 /\ Reads(f, i + Consumed(v, i))

IsReader(f, v) == f = [i \in 1..(Len(v) + 1) |-> GoesOn(f, v, i)]

\* There is such a function.
LEMMA ReaderExists ==
  ASSUME NEW v \in Seq(Octets)
  PROVE  \E f : IsReader(f, v)
<1> DEFINE n == Len(v)
           D == {i \in 1..(n + 1) : \E P : Runs(v, P) /\ i \in P}
           f == [i \in 1..(n + 1) |-> i \in D]
           Goes(i) == GoesOn(f, v, i)
<1>0. n \in Nat
  OBVIOUS
<1>1. \A i \in 1..(n + 1) : Reads(f, i) <=> i \in D
  <2> HIDE DEF D
  <2> QED
    BY Zenon DEF Reads
<1>2. f = [i \in 1..(n + 1) |-> i \in D]
  OBVIOUS
<1> HIDE DEF f
<1>3. ASSUME NEW i \in D PROVE Goes(i)
  <2>1. PICK P : Runs(v, P) /\ i \in P
    OBVIOUS
  <2>2. CASE i = n + 1
    BY <2>2 DEF GoesOn
  <2>3. CASE i # n + 1
    <3>1. Consumed(v, i) # 0 /\ i + Consumed(v, i) \in P
      BY <2>1, <2>3 DEF Runs
    <3>2. i + Consumed(v, i) \in 1..(n + 1)
      BY <2>1, <3>1 DEF Runs
    <3>3. i + Consumed(v, i) \in D
      BY <2>1, <3>1, <3>2
    <3>4. Reads(f, i + Consumed(v, i))
      BY <1>1, <3>2, <3>3
    <3> QED
      BY <3>1, <3>4 DEF GoesOn
  <2> QED
    BY <2>2, <2>3
<1>4. ASSUME NEW i \in 1..(n + 1), Goes(i) PROVE i \in D
  <2>1. CASE i = n + 1
    <3>1. Runs(v, {n + 1})
      BY <1>0 DEF Runs
    <3> QED
      BY <2>1, <3>1
  <2>2. CASE i # n + 1
    <3> DEFINE next == i + Consumed(v, i)
    <3>1. Consumed(v, i) # 0 /\ Reads(f, next) /\ i \in 1..n
      BY <1>0, <1>4, <2>2 DEF GoesOn
    <3>2. next \in 1..(n + 1)
      BY <3>1, ConsumedFacts
    <3>3. next \in D
      BY <1>1, <3>1, <3>2
    <3>4. PICK P : Runs(v, P) /\ next \in P
      BY <3>3
    <3>5. Runs(v, P \cup {i})
      BY <3>1, <3>4 DEF Runs
    <3> QED
      BY <3>5
  <2> QED
    BY <2>1, <2>2
<1> HIDE DEF Goes, D
<1>5. \A i \in 1..(n + 1) : i \in D <=> Goes(i)
  BY <1>3, <1>4
<1>6. ASSUME NEW i \in 1..(n + 1) PROVE (i \in D) = Goes(i)
  <2>1. CASE i \in D
    <3>1. (i \in D) = TRUE
      BY <2>1
    <3>2. Goes(i) = TRUE
      BY <1>5, <2>1 DEF Goes, GoesOn
    <3> QED
      BY <3>1, <3>2
  <2>2. CASE i \notin D
    <3>1. (i \in D) = FALSE
      BY <2>2
    <3>2. Goes(i) = FALSE
      BY <1>5, <2>2 DEF Goes, GoesOn
    <3> QED
      BY <3>1, <3>2
  <2> QED
    BY <2>1, <2>2
<1>7. f = [i \in 1..(n + 1) |-> Goes(i)]
  BY <1>2, <1>6
<1> QED
  BY <1>7, Zenon DEF IsReader, Goes

\* And it finds out whether there is a way to the end.
LEMMA ReaderFinds ==
  ASSUME NEW v \in Seq(Octets), NEW f, IsReader(f, v)
  PROVE  Reads(f, 1) <=> \E P : Runs(v, P) /\ 1 \in P
<1> DEFINE n == Len(v)
           Q == {i \in 1..(n + 1) : Reads(f, i)}
<1>0. n \in Nat
  OBVIOUS
<1>1. \A i \in 1..(n + 1) : Reads(f, i) <=> GoesOn(f, v, i)
  BY Zenon DEF IsReader, Reads
<1>2. ASSUME Reads(f, 1) PROVE \E P : Runs(v, P) /\ 1 \in P
  <2>1. ASSUME NEW i \in Q, i # n + 1
        PROVE  Consumed(v, i) # 0 /\ i + Consumed(v, i) \in Q
    <3>1. GoesOn(f, v, i)
      BY <1>1
    <3>2. Consumed(v, i) # 0 /\ Reads(f, i + Consumed(v, i)) /\ i \in 1..n
      BY <1>0, <2>1, <3>1 DEF GoesOn
    <3>3. i + Consumed(v, i) \in 1..(n + 1)
      BY <3>2, ConsumedFacts
    <3> QED
      BY <3>2, <3>3
  <2>2. 1 \in Q /\ Q \subseteq 1..(n + 1)
    BY <1>0, <1>2
  <2> HIDE DEF Q
  <2>3. Runs(v, Q)
    BY <2>1, <2>2 DEF Runs
  <2> QED
    BY <2>2, <2>3
<1>3. ASSUME NEW P, Runs(v, P), 1 \in P PROVE Reads(f, 1)
  <2> DEFINE S == {i \in P : ~ Reads(f, i)}
  <2>1. S = {}
    <3> SUFFICES ASSUME S # {} PROVE FALSE
      OBVIOUS
    <3>1. n + 1 \in Nat /\ S \in SUBSET (1..(n + 1))
      <4>1. P \subseteq 1..(n + 1)
        BY <1>3 DEF Runs
      <4>2. S \subseteq P
        BY Zenon
      <4> HIDE DEF S
      <4> QED
        BY <1>0, <4>1, <4>2
    <3>2. PICK i \in S : \A j \in S : j <= i
      <4> HIDE DEF S, n
      <4> QED
        BY <3>1, LastPosition
    <3>3. i \in P /\ ~ Reads(f, i) /\ i \in 1..(n + 1)
      BY <3>1
    <3>4. ~ GoesOn(f, v, i)
      BY <1>1, <3>3
    <3>5. i # n + 1
      BY <3>4 DEF GoesOn
    <3>6. Consumed(v, i) # 0 /\ i + Consumed(v, i) \in P
      BY <1>3, <3>3, <3>5 DEF Runs
    <3>7. ~ Reads(f, i + Consumed(v, i))
      BY <3>4, <3>6 DEF GoesOn
    <3>8. i + Consumed(v, i) \in S
      BY <3>6, <3>7
    <3>9. i \in Nat /\ Consumed(v, i) \in Nat
      <4>1. i \in 1..n
        BY <1>0, <3>3, <3>5
      <4> QED
        BY <4>1, ConsumedFacts
    <3> HIDE DEF S
    <3> QED
      BY <3>2, <3>6, <3>8, <3>9
  <2> QED
    BY <1>3, <2>1
<1> QED
  BY <1>2, <1>3

\* The loop returns true if it gets to the end.
LEMMA ValidRuns ==
  ASSUME NEW v \in Seq(Octets)
  PROVE  IsValidUtf8(v) <=> \E P : Runs(v, P) /\ 1 \in P
<1> DEFINE valid == CHOOSE f : IsReader(f, v)
<1>1. IsReader(valid, v)
  BY ReaderExists
<1>2. IsValidUtf8(v) <=> Reads(valid, 1)
  BY Zenon DEF IsValidUtf8, IsReader, GoesOn, Reads
<1> HIDE DEF valid
<1> QED
  BY <1>1, <1>2, ReaderFinds

-----------------------------------------------------------------------------
(* One unit: what the loop takes at once is one encoded scalar value.      *)

\* What appendUtf8 appends, and for which code points.
LEMMA AppendFacts ==
  ASSUME NEW c \in Nat
  PROVE  /\ c <= 127 => AppendUtf8(c) = <<c>>
         /\ c > 127 /\ c <= 2047 => AppendUtf8(c) = <<192 + (c \div 64), 128 + (c % 64)>>
         /\ c > 2047 /\ c <= 65535 =>
              AppendUtf8(c) = <<224 + (c \div 4096), 128 + ((c \div 64) % 64), 128 + (c % 64)>>
         /\ c > 65535 =>
              AppendUtf8(c) = <<240 + (c \div 262144), 128 + ((c \div 4096) % 64),
                                128 + ((c \div 64) % 64), 128 + (c % 64)>>
BY SMT DEF AppendUtf8

\* No surrogate, and no more than U+10FFFF.
LEMMA ScalarFacts ==
  ASSUME NEW c \in Nat
  PROVE  IsScalar(c) <=> c <= 1114111 /\ (c < 55296 \/ c > 57343)
<1>1. c \in High <=> c >= 55296 /\ c <= 56319
  BY SMT DEF High
<1>2. c \in Low <=> c >= 56320 /\ c <= 57343
  BY SMT DEF Low
<1> QED
  BY <1>1, <1>2, SMT DEF IsScalar

\* First bytes.
LEMMA AnnouncedIs ==
  ASSUME NEW a \in Octets
  PROVE  /\ Announced(a) = 1 <=> a <= 127
         /\ Announced(a) = 2 <=> a >= 194 /\ a <= 223
         /\ Announced(a) = 3 <=> a >= 224 /\ a <= 239
         /\ Announced(a) = 4 <=> a >= 240 /\ a <= 244
<1>1. a \in Nat /\ a <= 255
  BY SMT DEF Octets
<1>2. \/ a <= 127 /\ Announced(a) = 1
      \/ 127 < a /\ a < 194 /\ Announced(a) = 0
      \/ 193 < a /\ a < 224 /\ Announced(a) = 2
      \/ 223 < a /\ a < 240 /\ Announced(a) = 3
      \/ 239 < a /\ a < 245 /\ Announced(a) = 4
      \/ 244 < a /\ Announced(a) = 0
  BY <1>1, SMT DEF Announced
<1> DEFINE size == Announced(a)
<1> HIDE DEF size
<1>3. /\ size = 1 <=> a <= 127
      /\ size = 2 <=> a >= 194 /\ a <= 223
      /\ size = 3 <=> a >= 224 /\ a <= 239
      /\ size = 4 <=> a >= 240 /\ a <= 244
  <2>1. \/ a <= 127 /\ size = 1
        \/ 127 < a /\ a < 194 /\ size = 0
        \/ 193 < a /\ a < 224 /\ size = 2
        \/ 223 < a /\ a < 240 /\ size = 3
        \/ 239 < a /\ a < 245 /\ size = 4
        \/ 244 < a /\ size = 0
    BY <1>2, Zenon DEF size
  <2> QED
    BY <1>1, <2>1, SMT
<1> QED
  BY <1>3, Zenon DEF size

LEMMA OneByte ==
  ASSUME NEW a \in Octets
  PROVE  IsEncoded(<<a>>) <=> Announced(a) = 1
<1>1. CodePoint(<<a>>) = a
  BY SMT DEF CodePoint
<1>2. a \in Nat /\ a <= 255
  BY SMT DEF Octets
<1>3. IsScalar(a)
  BY <1>2, ScalarFacts, SMT
<1>4. ASSUME a <= 127 PROVE IsEncoded(<<a>>)
  <2>1. AppendUtf8(a) = <<a>>
    BY <1>2, <1>4, AppendFacts, SMT
  <2> QED
    BY <1>1, <1>3, <1>4, <2>1, SMT DEF IsEncoded
<1>5. ASSUME a > 127 PROVE ~ IsEncoded(<<a>>)
  <2>1. AppendUtf8(a) = <<192 + (a \div 64), 128 + (a % 64)>>
    BY <1>2, <1>5, AppendFacts, SMT
  <2>2. AppendUtf8(a) # <<a>>
    BY <2>1, SMT
  <2> QED
    BY <1>1, <1>2, <1>5, <2>2, SMT DEF IsEncoded
<1>6. IsEncoded(<<a>>) <=> a <= 127
  BY <1>2, <1>4, <1>5, SMT
<1> QED
  BY <1>2, <1>6, AnnouncedIs, SMT

LEMMA TwoBytes ==
  ASSUME NEW a \in Octets, NEW b \in Octets
  PROVE  IsEncoded(<<a, b>>) <=> Announced(a) = 2 /\ b \in SecondByte(a)
<1> DEFINE x == a % 32
           z == b % 64
           c == x * 64 + z
           Lead == a = 192 + x /\ b = 128 + z
<1>1. CodePoint(<<a, b>>) = c
  BY SMT DEF CodePoint
<1>2. x \in 0..31 /\ z \in 0..63
  BY SMT DEF Octets
<1>3. Lead <=> a \in 192..223 /\ b \in 128..191
  BY SMT DEF Octets
<1>4. Lead => (x >= 2 <=> a >= 194)
  BY SMT DEF Octets
<1> HIDE DEF x, z
<1>5. c \in Nat /\ c <= 2047 /\ (c >= 128 <=> x >= 2)
  BY <1>2, SMT
<1>10. c = x * 64 + z
  BY SMT
<1> HIDE DEF c
<1>6. c % 64 = z /\ c \div 64 = x
  BY <1>2, <1>5, <1>10, SMT
<1>7. IsScalar(c)
  BY <1>5, ScalarFacts, SMT
<1> HIDE DEF Lead
<1>8. IsEncoded(<<a, b>>) <=> a \in 194..223 /\ b \in 128..191
  <2>1. CASE c <= 127
    <3>1. AppendUtf8(c) = <<c>>
      BY <1>5, <2>1, AppendFacts, SMT
    <3>2. AppendUtf8(c) # <<a, b>>
      BY <3>1, SMT
    <3>3. ~ IsEncoded(<<a, b>>)
      BY <1>1, <3>2, SMT DEF IsEncoded
    <3> QED
      BY <1>2, <1>3, <1>4, <1>5, <2>1, <3>3, SMT DEF Octets
  <2>2. CASE c > 127
    <3>1. AppendUtf8(c) = <<192 + x, 128 + z>>
      BY <1>5, <1>6, <2>2, AppendFacts, SMT
    <3>2. AppendUtf8(c) = <<a, b>> <=> Lead
      BY <3>1, SMT DEF Lead
    <3>3. IsEncoded(<<a, b>>) <=> Lead
      BY <1>1, <1>7, <3>2, SMT DEF IsEncoded
    <3> QED
      BY <1>2, <1>3, <1>4, <1>5, <2>2, <3>3, SMT DEF Octets
  <2> QED
    BY <1>5, <2>1, <2>2, SMT
<1>9. Announced(a) = 2 <=> a \in 194..223
  <2>1. a \in Nat
    BY SMT DEF Octets
  <2> QED
    BY <2>1, AnnouncedIs, SMT
<1>11. ASSUME a \in 194..223 PROVE b \in SecondByte(a) <=> b \in 128..191
  BY <1>11, SMT DEF SecondByte
<1> QED
  BY <1>8, <1>9, <1>11, Zenon

\* Three digits of six bits, of which the first is as large as it likes.
Composed(x, y, z) == x * 4096 + y * 64 + z

HasDigits(c, x, y, z) ==
  c \in Nat /\ c % 64 = z /\ (c \div 64) % 64 = y /\ c \div 4096 = x

LEMMA Digits ==
  ASSUME NEW x \in Nat, NEW y \in 0..63, NEW z \in 0..63
  PROVE  HasDigits(Composed(x, y, z), x, y, z)
<1> DEFINE t == x * 64 + y
           c == x * 4096 + y * 64 + z
<1>1. t \in Nat /\ t = x * 64 + y /\ c = t * 64 + z /\ c \in Nat
  BY SMT
<1>2. c \div 4096 = x
  BY SMT
<1> HIDE DEF t, c
<1>3. t % 64 = y
  BY <1>1, SMT
<1>4. c % 64 = z /\ c \div 64 = t
  BY <1>1, SMT
<1>5. Composed(x, y, z) = c
  BY SMT DEF Composed, c
<1> QED
  BY <1>1, <1>2, <1>3, <1>4, <1>5, SMT DEF HasDigits

LEMMA ThreeBytes ==
  ASSUME NEW a \in Octets, NEW b \in Octets, NEW d \in Octets
  PROVE  IsEncoded(<<a, b, d>>) <=>
           Announced(a) = 3 /\ b \in SecondByte(a) /\ IsContinuationByte(d)
<1> DEFINE x == a % 16
           y == b % 64
           z == d % 64
           c == x * 4096 + y * 64 + z
           Lead == a = 224 + x /\ b = 128 + y /\ d = 128 + z
<1>1. CodePoint(<<a, b, d>>) = c
  BY SMT DEF CodePoint
<1>2. x \in 0..15 /\ y \in 0..63 /\ z \in 0..63
  BY SMT DEF Octets
<1>3. Lead <=> a \in 224..239 /\ b \in 128..191 /\ d \in 128..191
  BY SMT DEF Octets
<1> HIDE DEF x, y, z
<1>4. c \in Nat /\ c <= 65535
  BY <1>2, SMT
<1>5. c >= 2048 <=> x > 0 \/ y >= 32
  BY <1>2, SMT
<1>6. (c < 55296 \/ c > 57343) <=> ~ (x = 13 /\ y >= 32)
  BY <1>2, SMT
<1>7. Lead => (b \in SecondByte(a) <=> (x > 0 \/ y >= 32) /\ ~ (x = 13 /\ y >= 32))
  BY <1>2, SMT DEF SecondByte
<1>12. c = Composed(x, y, z)
  BY SMT DEF Composed
<1> HIDE DEF c
<1>8. c % 64 = z /\ (c \div 64) % 64 = y /\ c \div 4096 = x
  <2>1. x \in Nat
    BY <1>2, SMT
  <2>2. HasDigits(c, x, y, z)
    BY <1>2, <1>12, <2>1, Digits, Zenon
  <2> QED
    BY <2>2, SMT DEF HasDigits
<1>9. IsScalar(c) <=> c < 55296 \/ c > 57343
  BY <1>4, ScalarFacts, SMT
<1>10. b \in SecondByte(a) => b \in 128..191
  BY SMT DEF SecondByte
<1> HIDE DEF Lead
<1>11. IsEncoded(<<a, b, d>>) <=> Lead /\ c >= 2048 /\ IsScalar(c)
  <2>1. CASE c > 2047
    <3>1. AppendUtf8(c) = <<224 + x, 128 + y, 128 + z>>
      BY <1>4, <1>8, <2>1, AppendFacts, SMT
    <3>2. AppendUtf8(c) = <<a, b, d>> <=> Lead
      BY <3>1, SMT DEF Lead
    <3> QED
      BY <1>1, <1>4, <2>1, <3>2, SMT DEF IsEncoded
  <2>2. CASE c <= 2047
    <3>1. \/ AppendUtf8(c) = <<c>>
          \/ AppendUtf8(c) = <<192 + (c \div 64), 128 + (c % 64)>>
      BY <1>4, <2>2, AppendFacts, SMT
    <3>2. AppendUtf8(c) # <<a, b, d>>
      BY <3>1, SMT
    <3> QED
      BY <1>1, <1>4, <2>2, <3>2, SMT DEF IsEncoded
  <2> QED
    BY <1>4, <2>1, <2>2, SMT
<1>13. IsEncoded(<<a, b, d>>) <=>
         a \in 224..239 /\ b \in SecondByte(a) /\ IsContinuationByte(d)
  BY <1>3, <1>5, <1>6, <1>7, <1>9, <1>10, <1>11, SMT DEF IsContinuationByte
<1>14. Announced(a) = 3 <=> a \in 224..239
  <2>1. a \in Nat
    BY SMT DEF Octets
  <2> QED
    BY <2>1, AnnouncedIs, SMT
<1> QED
  BY <1>13, <1>14, Zenon

LEMMA FourBytes ==
  ASSUME NEW a \in Octets, NEW b \in Octets, NEW d \in Octets, NEW e \in Octets
  PROVE  IsEncoded(<<a, b, d, e>>) <=>
           /\ Announced(a) = 4 /\ b \in SecondByte(a)
           /\ IsContinuationByte(d) /\ IsContinuationByte(e)
<1> DEFINE w == a % 8
           x == b % 64
           y == d % 64
           z == e % 64
           t == w * 64 + x
           c == w * 262144 + x * 4096 + y * 64 + z
           Lead == a = 240 + w /\ b = 128 + x /\ d = 128 + y /\ e = 128 + z
<1>1. CodePoint(<<a, b, d, e>>) = c
  BY SMT DEF CodePoint
<1>2. w \in 0..7 /\ x \in 0..63 /\ y \in 0..63 /\ z \in 0..63
  BY SMT DEF Octets
<1>3. Lead <=> a \in 240..247 /\ b \in 128..191 /\ d \in 128..191 /\ e \in 128..191
  BY SMT DEF Octets
<1> HIDE DEF w, x, y, z
<1>4. c \in Nat /\ t \in Nat /\ c = Composed(t, y, z) /\ t = w * 64 + x
  BY <1>2, SMT DEF Composed
<1>5. c > 65535 <=> w > 0 \/ x >= 16
  BY <1>2, SMT
<1>6. c <= 1114111 <=> w < 4 \/ (w = 4 /\ x < 16)
  BY <1>2, SMT
<1>7. Lead => (a <= 244 /\ b \in SecondByte(a) <=>
                 (w > 0 \/ x >= 16) /\ (w < 4 \/ (w = 4 /\ x < 16)))
  BY <1>2, SMT DEF SecondByte
<1>8. c \div 262144 = w
  BY <1>2, SMT
<1> HIDE DEF c, t
<1>9. t % 64 = x /\ t \div 64 = w
  BY <1>2, <1>4, SMT
<1>10. c % 64 = z /\ (c \div 64) % 64 = y /\ c \div 4096 = t
  <2>1. HasDigits(c, t, y, z)
    BY <1>2, <1>4, Digits, Zenon
  <2> QED
    BY <2>1, SMT DEF HasDigits
<1>11. c > 65535 => (IsScalar(c) <=> c <= 1114111)
  BY <1>4, ScalarFacts, SMT
<1>12. b \in SecondByte(a) => b \in 128..191
  BY SMT DEF SecondByte
<1> HIDE DEF Lead
<1>13. IsEncoded(<<a, b, d, e>>) <=> Lead /\ c > 65535 /\ IsScalar(c)
  <2>1. CASE c > 65535
    <3>1. AppendUtf8(c) = <<240 + w, 128 + x, 128 + y, 128 + z>>
      <4>1. (c \div 4096) % 64 = x
        BY <1>9, <1>10, SMT
      <4>2. AppendUtf8(c) = <<240 + (c \div 262144), 128 + ((c \div 4096) % 64),
                              128 + ((c \div 64) % 64), 128 + (c % 64)>>
        BY <1>4, <2>1, SMT DEF AppendUtf8
      <4>3. (c \div 64) % 64 = y /\ c % 64 = z
        BY <1>10, SMT
      <4> QED
        BY <1>8, <4>1, <4>2, <4>3, SMT
    <3>2. AppendUtf8(c) = <<a, b, d, e>> <=> Lead
      BY <3>1, SMT DEF Lead
    <3> QED
      BY <1>1, <2>1, <3>2, SMT DEF IsEncoded
  <2>2. CASE c <= 65535
    <3>1. \/ AppendUtf8(c) = <<c>>
          \/ AppendUtf8(c) = <<192 + (c \div 64), 128 + (c % 64)>>
          \/ AppendUtf8(c) = <<224 + (c \div 4096), 128 + ((c \div 64) % 64), 128 + (c % 64)>>
      BY <1>4, <2>2, AppendFacts, SMT
    <3>2. AppendUtf8(c) # <<a, b, d, e>>
      BY <3>1, SMT
    <3> QED
      BY <1>1, <1>4, <2>2, <3>2, SMT DEF IsEncoded
  <2> QED
    BY <1>4, <2>1, <2>2, SMT
<1>14. IsEncoded(<<a, b, d, e>>) <=>
         /\ a \in 240..244 /\ b \in SecondByte(a)
         /\ IsContinuationByte(d) /\ IsContinuationByte(e)
  BY <1>3, <1>5, <1>6, <1>7, <1>11, <1>12, <1>13, SMT DEF IsContinuationByte
<1>15. Announced(a) = 4 <=> a \in 240..244
  <2>1. a \in Nat
    BY SMT DEF Octets
  <2> QED
    BY <2>1, AnnouncedIs, SMT
<1> QED
  BY <1>14, <1>15, Zenon

\* The slice of a string that begins at a position.
LEMMA SliceOf ==
  ASSUME NEW v \in Seq(Octets), NEW i \in 1..Len(v), NEW size \in 1..4,
         i + size <= Len(v) + 1
  PROVE  /\ SubSeq(v, i, i + size - 1) \in Seq(Octets)
         /\ Len(SubSeq(v, i, i + size - 1)) = size
         /\ \A k \in 1..size : SubSeq(v, i, i + size - 1)[k] = v[i + k - 1]
OBVIOUS

\* What the loop takes, condition by condition.
LEMMA ConsumedIs ==
  ASSUME NEW v \in Seq(Octets), NEW i \in 1..Len(v), NEW size \in 1..4
  PROVE  Consumed(v, i) = size <=>
           /\ Announced(v[i]) = size /\ i + size <= Len(v) + 1
           /\ size >= 2 => v[i + 1] \in SecondByte(v[i])
           /\ \A k \in 2..(size - 1) : IsContinuationByte(v[i + k])
<1> DEFINE Takes(s) == /\ s # 0 /\ Len(v) - i + 1 >= s
                       /\ s >= 2 => v[i + 1] \in SecondByte(v[i])
                       /\ \A k \in 2..(s - 1) : IsContinuationByte(v[i + k])
           announced == Announced(v[i])
<1>1. Len(v) \in Nat /\ (Len(v) - i + 1 >= size <=> i + size <= Len(v) + 1)
  BY SMT
<1>2. Consumed(v, i) = IF Takes(announced) THEN announced ELSE 0
  BY Zenon DEF Consumed
<1>3. Takes(size) <=> /\ i + size <= Len(v) + 1
                      /\ size >= 2 => v[i + 1] \in SecondByte(v[i])
                      /\ \A k \in 2..(size - 1) : IsContinuationByte(v[i + k])
  BY <1>1, SMT
<1>4. size # 0
  BY SMT
<1> HIDE DEF Takes, announced
<1>5. Consumed(v, i) = size <=> announced = size /\ Takes(size)
  BY <1>2, <1>4, Zenon
<1> QED
  BY <1>3, <1>5, Zenon DEF announced

\* What the loop takes at a position is what encodes one scalar value.
LEMMA UnitAt ==
  ASSUME NEW v \in Seq(Octets), NEW i \in 1..Len(v), NEW size \in 1..4,
         i + size <= Len(v) + 1
  PROVE  IsEncoded(SubSeq(v, i, i + size - 1)) <=> Consumed(v, i) = size
<1> DEFINE unit == SubSeq(v, i, i + size - 1)
           second == size >= 2 => v[i + 1] \in SecondByte(v[i])
           others == \A k \in 2..(size - 1) : IsContinuationByte(v[i + k])
<1>1. /\ unit \in Seq(Octets) /\ Len(unit) = size
      /\ \A k \in 1..size : unit[k] = v[i + k - 1]
  BY SliceOf
<1>2. Consumed(v, i) = size <=> Announced(v[i]) = size /\ second /\ others
  BY ConsumedIs
<1>3. v[i] \in Octets /\ i \in Nat
  BY SMT
<1>4. size \in 1..4
  OBVIOUS
<1> HIDE DEF unit, second, others
<1>5. CASE size = 1
  <2>1. unit = <<v[i]>>
    BY <1>1, <1>3, <1>5, SMT
  <2>2. second /\ others
    BY <1>5, SMT DEF second, others
  <2>3. IsEncoded(unit) <=> Announced(v[i]) = 1
    BY <1>3, <2>1, OneByte
  <2> QED
    BY <1>2, <1>5, <2>2, <2>3 DEF unit
<1>6. CASE size = 2
  <2>1. unit = <<v[i], v[i + 1]>> /\ v[i + 1] \in Octets
    <3>1. unit[1] = v[i] /\ unit[2] = v[i + 1] /\ unit[2] \in Octets
      BY <1>1, <1>3, <1>6, SMT
    <3> QED
      BY <1>1, <1>6, <3>1, SMT
  <2>2. others /\ (second <=> v[i + 1] \in SecondByte(v[i]))
    BY <1>6, SMT DEF second, others
  <2>3. IsEncoded(unit) <=> Announced(v[i]) = 2 /\ v[i + 1] \in SecondByte(v[i])
    BY <1>3, <2>1, TwoBytes
  <2> QED
    BY <1>2, <1>6, <2>2, <2>3 DEF unit
<1>7. CASE size = 3
  <2>1. /\ unit = <<v[i], v[i + 1], v[i + 2]>>
        /\ v[i + 1] \in Octets /\ v[i + 2] \in Octets
    <3>1. /\ unit[1] = v[i] /\ unit[2] = v[i + 1] /\ unit[3] = v[i + 2]
          /\ unit[2] \in Octets /\ unit[3] \in Octets
      BY <1>1, <1>3, <1>7, SMT
    <3> QED
      BY <1>1, <1>7, <3>1, SMT
  <2>2. /\ second <=> v[i + 1] \in SecondByte(v[i])
        /\ others <=> IsContinuationByte(v[i + 2])
    BY <1>7, SMT DEF second, others
  <2>3. IsEncoded(unit) <=>
          Announced(v[i]) = 3 /\ v[i + 1] \in SecondByte(v[i]) /\ IsContinuationByte(v[i + 2])
    BY <1>3, <2>1, ThreeBytes
  <2> QED
    BY <1>2, <1>7, <2>2, <2>3 DEF unit
<1>8. CASE size = 4
  <2>1. /\ unit = <<v[i], v[i + 1], v[i + 2], v[i + 3]>>
        /\ v[i + 1] \in Octets /\ v[i + 2] \in Octets /\ v[i + 3] \in Octets
    <3>1. /\ unit[1] = v[i] /\ unit[2] = v[i + 1] /\ unit[3] = v[i + 2] /\ unit[4] = v[i + 3]
          /\ unit[2] \in Octets /\ unit[3] \in Octets /\ unit[4] \in Octets
      BY <1>1, <1>3, <1>8, SMT
    <3> QED
      BY <1>1, <1>8, <3>1, SMT
  <2>2. /\ second <=> v[i + 1] \in SecondByte(v[i])
        /\ others <=> IsContinuationByte(v[i + 2]) /\ IsContinuationByte(v[i + 3])
    BY <1>8, SMT DEF second, others
  <2>3. IsEncoded(unit) <=>
          /\ Announced(v[i]) = 4 /\ v[i + 1] \in SecondByte(v[i])
          /\ IsContinuationByte(v[i + 2]) /\ IsContinuationByte(v[i + 3])
    BY <1>3, <2>1, FourBytes
  <2> QED
    BY <1>2, <1>8, <2>2, <2>3 DEF unit
<1> QED
  BY <1>4, <1>5, <1>6, <1>7, <1>8, SMT

\* A string that the loop runs through is one that can be cut, and cuts are a
\* way through.
LEMMA CutsAreRuns ==
  ASSUME NEW v \in Seq(Octets)
  PROVE  IsUtf8(v) <=> \E P : Runs(v, P) /\ 1 \in P
<1> DEFINE n == Len(v)
           Cut(starts) ==
             \A i \in starts \ {n + 1} :
               \E size \in 1..4 : i + size \in starts /\ IsEncoded(SubSeq(v, i, i + size - 1))
<1>1. n \in Nat
  OBVIOUS
<1>2. IsUtf8(v) <=> \E cuts \in SUBSET (2..n) : Cut(cuts \cup {1, n + 1})
  BY Zenon DEF IsUtf8
<1>3. ASSUME NEW P \in SUBSET (1..(n + 1)) PROVE Runs(v, P) <=> Cut(P)
  <2>1. ASSUME NEW i \in P \ {n + 1}
        PROVE  Consumed(v, i) # 0 /\ i + Consumed(v, i) \in P <=>
                 \E size \in 1..4 : i + size \in P /\ IsEncoded(SubSeq(v, i, i + size - 1))
    <3>1. i \in 1..n
      BY <1>1
    <3>2. Consumed(v, i) \in 0..4
      BY <3>1, ConsumedFacts
    <3>3. ASSUME NEW size \in 1..4, i + size \in P
          PROVE  IsEncoded(SubSeq(v, i, i + size - 1)) <=> Consumed(v, i) = size
      <4>1. i + size <= Len(v) + 1
        BY <1>1, <3>3
      <4> QED
        BY <3>1, <4>1, UnitAt
    <3> HIDE DEF n
    <3> QED
      BY <3>2, <3>3
  <2> QED
    BY <2>1 DEF Runs
<1> HIDE DEF Cut
<1>4. ASSUME NEW cuts \in SUBSET (2..n), Cut(cuts \cup {1, n + 1})
      PROVE  \E P : Runs(v, P) /\ 1 \in P
  <2>1. cuts \cup {1, n + 1} \in SUBSET (1..(n + 1))
    <3> HIDE DEF n
    <3>1. \A i \in cuts : i \in 2..n
      OBVIOUS
    <3>2. \A i \in 2..n : i \in 1..(n + 1)
      BY <1>1
    <3> QED
      BY <1>1, <3>1, <3>2
  <2> QED
    BY <1>3, <1>4, <2>1
<1>5. ASSUME NEW P, Runs(v, P), 1 \in P
      PROVE  \E cuts \in SUBSET (2..n) : Cut(cuts \cup {1, n + 1})
  <2> DEFINE Q == P \cup {n + 1}
             cuts == Q \ {1, n + 1}
  <2>1. P \subseteq 1..(n + 1)
    BY <1>5 DEF Runs
  <2>2. Q \in SUBSET (1..(n + 1)) /\ cuts \in SUBSET (2..n)
    <3> HIDE DEF n
    <3>1. \A i \in Q : i \in 1..(n + 1)
      BY <1>1, <2>1
    <3>2. \A i \in 1..(n + 1) : i = 1 \/ i = n + 1 \/ i \in 2..n
      BY <1>1
    <3>3. \A i \in cuts : i \in 2..n
      BY <3>1, <3>2
    <3> QED
      BY <3>1, <3>3
  <2>3. Runs(v, Q)
    BY <1>1, <1>5, <2>2 DEF Runs
  <2>4. cuts \cup {1, n + 1} = Q
    BY <1>5
  <2>5. Cut(Q)
    BY <1>3, <2>2, <2>3
  <2> HIDE DEF cuts, Q
  <2> QED
    BY <2>2, <2>4, <2>5
<1> QED
  BY <1>2, <1>4, <1>5

\* The validator and the definition agree on every string.
LEMMA ValidatorAgrees ==
  ASSUME NEW v \in Seq(Octets)
  PROVE  IsValidUtf8(v) <=> IsUtf8(v)
BY ValidRuns, CutsAreRuns

\* The strings of the model are strings of bytes.
StringInv == value \in Seq(Bytes) /\ text \in Seq(Elements)

LEMMA StringMoves ==
  ASSUME StringInv, [StringNext]_string_vars
  PROVE  StringInv'
<1>1. CASE AddByte
  <2>1. PICK b \in Bytes : value' = Append(value, b)
    BY <1>1 DEF AddByte
  <2>2. value' \in Seq(Bytes) /\ text' = text
    BY <1>1, <2>1 DEF StringInv, AddByte
  <2> QED
    BY <2>2 DEF StringInv
<1>2. CASE AddElement
  <2>1. PICK e \in Elements : text' = Append(text, e)
    BY <1>2 DEF AddElement
  <2>2. text \in Seq(Elements)
    BY DEF StringInv
  <2> HIDE DEF Elements
  <2>3. text' \in Seq(Elements) /\ value' = value
    BY <1>2, <2>1, <2>2 DEF AddElement
  <2> QED
    BY <2>3 DEF StringInv
<1>3. CASE UNCHANGED string_vars
  BY <1>3 DEF StringInv, string_vars
<1> QED
  BY <1>1, <1>2, <1>3 DEF StringNext

LEMMA StringInvHolds == StringInit /\ [][StringNext]_string_vars => []StringInv
<1>1. StringInit => StringInv
  BY DEF StringInit, StringInv
<1>2. StringInv /\ [StringNext]_string_vars => StringInv'
  BY StringMoves
<1> QED
  BY <1>1, <1>2, PTL

\* The bytes of a string are octets.
LEMMA ValueOctets ==
  ASSUME StringInv
  PROVE  value \in Seq(Octets)
<1>1. Bytes \subseteq Octets
  <2> SUFFICES ASSUME NEW b \in Bytes PROVE b \in Octets
    OBVIOUS
  <2>1. b \in 0..255
    BY BytesAssumption
  <2> QED
    BY <2>1, Zenon DEF Octets
<1>2. value \in Seq(Bytes)
  BY DEF StringInv
<1>3. Len(value) \in Nat /\ \A i \in 1..Len(value) : value[i] \in Octets
  BY <1>1, <1>2
<1>4. value = [i \in 1..Len(value) |-> value[i]]
  BY <1>2
<1> HIDE DEF Octets
<1>5. value \in [1..Len(value) -> Octets]
  BY <1>3, <1>4, Zenon
<1> QED
  BY <1>3, <1>5

\* isValidUtf8 accepts a string exactly if it is one encoded scalar value after
\* another, for every alphabet of bytes and every bound on the length.
THEOREM ValidatorIsExact ==
  StringInit /\ [][StringNext]_string_vars => []ValidatorExact
<1>1. StringInv => ValidatorExact
  BY ValueOctets, ValidatorAgrees DEF ValidatorExact
<1> QED
  BY <1>1, StringInvHolds, PTL

-----------------------------------------------------------------------------
(* The parser of JSON strings.                                             *)

\* The texts the parser reads: elements of the three kinds.
Texts == Seq([kind : {"byte", "escape", "unicode"}, code : Nat])

\* A step of the parser stays inside the text, or fails.
LEMMA StepFacts ==
  ASSUME NEW t \in Texts, NEW i \in 1..Len(t)
  PROVE  Step(t, i).taken \in Nat /\ i + Step(t, i).taken \in 1..(Len(t) + 1)
<1> DEFINE code == t[i].code
           paired == i < Len(t) /\ t[i + 1].kind = "unicode" /\ t[i + 1].code \in Low
<1>1. /\ t[i].kind \in {"byte", "escape", "unicode"}
      /\ Len(t) \in Nat /\ i \in Nat /\ i >= 1 /\ i <= Len(t)
  <2> DEFINE E == [kind : {"byte", "escape", "unicode"}, code : Nat]
  <2>1. t \in Seq(E)
    BY DEF Texts
  <2>2. t[i] \in E
    <3> HIDE DEF E
    <3> QED
      BY <2>1
  <2> QED
    BY <2>1, <2>2
<1>2. CASE t[i].kind = "byte"
  <2>1. Step(t, i).taken = IF code < 32 THEN 0 ELSE 1
    BY <1>2 DEF Step
  <2> QED
    BY <1>1, <2>1
<1>3. CASE t[i].kind = "escape"
  <2>1. Step(t, i).taken = 1
    BY <1>3 DEF Step
  <2> QED
    BY <1>1, <2>1
<1>4. CASE t[i].kind = "unicode"
  <2>1. Step(t, i).taken = IF code \in High THEN (IF paired THEN 2 ELSE 0)
                           ELSE (IF code \in Low THEN 0 ELSE 1)
    BY <1>4 DEF Step
  <2>2. paired => i + 2 <= Len(t) + 1
    BY <1>1
  <2> HIDE DEF code, paired
  <2> QED
    BY <1>1, <2>1, <2>2
<1> QED
  BY <1>1, <1>2, <1>3, <1>4

\* What the parser appends from a position on, given what it does further on;
\* and a function that says it for every position.
Appended(f, t, i) ==
  IF i = Len(t) + 1 THEN <<>>
  ELSE IF Step(t, i).taken = 0 THEN Rejected
  ELSE IF f[i + Step(t, i).taken] = Rejected THEN Rejected
  ELSE Step(t, i).bytes \o f[i + Step(t, i).taken]

IsParser(f, t) == f = [i \in 1..(Len(t) + 1) |-> Appended(f, t, i)]

\* There is only one such function: two do not differ at a last position.
LEMMA ParserUnique ==
  ASSUME NEW t \in Texts, NEW f, NEW g, IsParser(f, t), IsParser(g, t)
  PROVE  f[1] = g[1]
<1> DEFINE n == Len(t)
           S == {i \in 1..(n + 1) : f[i] # g[i]}
<1>0. n \in Nat
  BY DEF Texts
<1>1. \A i \in 1..(n + 1) : f[i] = Appended(f, t, i) /\ g[i] = Appended(g, t, i)
  BY Zenon DEF IsParser
<1>2. S = {}
  <2> SUFFICES ASSUME S # {} PROVE FALSE
    OBVIOUS
  <2>1. n + 1 \in Nat /\ S \in SUBSET (1..(n + 1))
    BY <1>0
  <2>2. PICK i \in S : \A j \in S : j <= i
    <3> HIDE DEF S, n
    <3> QED
      BY <2>1, LastPosition
  <2>3. i \in 1..(n + 1) /\ f[i] # g[i]
    OBVIOUS
  <2> DEFINE next == i + Step(t, i).taken
  <2>4. i # n + 1
    BY <1>1, <2>3, Zenon DEF Appended
  <2>5. i \in 1..n
    BY <1>0, <2>3, <2>4
  <2>6. Step(t, i).taken \in Nat /\ next \in 1..(n + 1)
    BY <2>5, StepFacts
  <2>7. Step(t, i).taken # 0
    BY <1>1, <2>3, <2>4, Zenon DEF Appended
  <2>8. f[next] # g[next]
    BY <1>1, <2>3, <2>4, <2>7, Zenon DEF Appended
  <2>9. next \in S
    BY <2>6, <2>8
  <2> HIDE DEF S
  <2>10. next <= i
    BY <2>2, <2>9
  <2> QED
    BY <2>3, <2>6, <2>7, <2>10
<1>3. 1 \in 1..(n + 1)
  BY <1>0
<1> QED
  BY <1>2, <1>3

\* So any such function says what parseString returns.
LEMMA ParsedBy ==
  ASSUME NEW t \in Texts, NEW f, IsParser(f, t)
  PROVE  ParseString(t) = IF f[1] = Rejected THEN Rejected ELSE Closed(f[1])
<1> DEFINE out == CHOOSE g : IsParser(g, t)
<1>1. IsParser(out, t)
  BY Zenon
<1>2. ParseString(t) = IF out[1] = Rejected THEN Rejected ELSE Closed(out[1])
  BY Zenon DEF ParseString, IsParser, Appended
<1> HIDE DEF out
<1>3. out[1] = f[1]
  BY <1>1, ParserUnique
<1> QED
  BY <1>2, <1>3, Zenon

\* A string of octets is never what stands for a rejected one.
LEMMA NotRejected ==
  ASSUME NEW v \in Seq(Octets)
  PROVE  v # Rejected
<1> SUFFICES ASSUME v = Rejected PROVE FALSE
  OBVIOUS
<1>1. Len(v) = 1 /\ v[1] = 256
  BY DEF Rejected
<1>2. v[1] \in Octets
  BY <1>1
<1> QED
  BY <1>1, <1>2 DEF Octets

LEMMA OctetsNat == \A b \in Octets : b \in Nat
BY DEF Octets

\* An exported byte is an element of one of the three kinds.
LEMMA EscapeElement ==
  ASSUME NEW b \in Nat
  PROVE  EscapeByte(b) \in [kind : {"byte", "escape", "unicode"}, code : Nat]
<1>1. EscapeByte(b) \in {Escaped(b), Unicode(b), Byte(b)}
  BY Zenon DEF EscapeByte
<1> QED
  BY <1>1 DEF Escaped, Unicode, Byte

\* An exported byte is read back as it was.
LEMMA EscapeStep ==
  ASSUME NEW v \in Seq(Octets), NEW i \in 1..Len(v)
  PROVE  Step(EscapeJson(v), i) = [taken |-> 1, bytes |-> <<v[i]>>]
<1> DEFINE t == EscapeJson(v)
           b == v[i]
<1>1. t[i] = EscapeByte(b) /\ b \in Nat
  <2>1. i \in DOMAIN v /\ b \in Octets
    OBVIOUS
  <2>2. t[i] = EscapeByte(b)
    BY <2>1, Zenon DEF EscapeJson
  <2> QED
    BY <2>1, <2>2, OctetsNat, Zenon
<1> HIDE DEF t, b
<1>2. CASE b \in Escapable
  <2>1. t[i] = Escaped(b)
    BY <1>1, <1>2, Zenon DEF EscapeByte
  <2> QED
    BY <2>1 DEF Step, Escaped, t, b
<1>3. CASE b \notin Escapable /\ b < 32
  <2>1. t[i] = Unicode(b)
    BY <1>1, <1>3 DEF EscapeByte
  <2>2. b \notin High /\ b \notin Low /\ AppendUtf8(b) = <<b>>
    <3>1. b \notin High /\ b \notin Low
      BY <1>1, <1>3, SMTT(30) DEF High, Low
    <3>2. AppendUtf8(b) = <<b>>
      BY <1>1, <1>3, AppendFacts, SMT
    <3> QED
      BY <3>1, <3>2
  <2> QED
    BY <2>1, <2>2 DEF Step, Unicode, t, b
<1>4. CASE b \notin Escapable /\ b >= 32
  <2>1. t[i] = Byte(b)
    BY <1>1, <1>4 DEF EscapeByte
  <2> QED
    BY <1>1, <1>4, <2>1 DEF Step, Byte, t, b
<1> QED
  BY <1>1, <1>2, <1>3, <1>4

\* Exported and parsed again, a string is what it was.
LEMMA EscapedAndParsed ==
  ASSUME NEW v \in Seq(Octets)
  PROVE  ParseString(EscapeJson(v)) = Closed(v)
<1> DEFINE n == Len(v)
           t == EscapeJson(v)
           f == [i \in 1..(n + 1) |-> SubSeq(v, i, n)]
<1>0. n \in Nat
  OBVIOUS
<1>1. t \in Texts /\ Len(t) = n
  <2>1. DOMAIN v = 1..n
    OBVIOUS
  <2>2. ASSUME NEW i \in 1..n
        PROVE  EscapeByte(v[i]) \in [kind : {"byte", "escape", "unicode"}, code : Nat]
    <3>1. v[i] \in Nat
      BY OctetsNat
    <3> QED
      BY <3>1, EscapeElement
  <2>3. t = [i \in 1..n |-> EscapeByte(v[i])]
    BY <2>1, Zenon DEF EscapeJson
  <2> HIDE DEF t, n
  <2> QED
    BY <1>0, <2>2, <2>3 DEF Texts
<1>2. ASSUME NEW i \in 1..(n + 1) PROVE SubSeq(v, i, n) = Appended(f, t, i)
  <2>1. CASE i = n + 1
    <3>1. Appended(f, t, i) = <<>>
      BY <1>1, <2>1, Zenon DEF Appended
    <3> QED
      BY <1>0, <2>1, <3>1
  <2>2. CASE i # n + 1
    <3>1. i \in 1..n /\ i + 1 \in 1..(n + 1)
      BY <1>0, <2>2
    <3>2. Step(t, i) = [taken |-> 1, bytes |-> <<v[i]>>]
      BY <3>1, EscapeStep
    <3>3. f[i + 1] = SubSeq(v, i + 1, n) /\ SubSeq(v, i + 1, n) \in Seq(Octets)
      BY <3>1
    <3>4. f[i + 1] # Rejected
      BY <3>3, NotRejected
    <3> HIDE DEF f, t
    <3>5. Appended(f, t, i) = <<v[i]>> \o f[i + 1]
      BY <1>1, <2>2, <3>2, <3>4 DEF Appended
    <3>6. SubSeq(v, i, n) = <<v[i]>> \o SubSeq(v, i + 1, n)
      BY <3>1
    <3> QED
      BY <3>3, <3>5, <3>6
  <2> QED
    BY <2>1, <2>2
<1>3. IsParser(f, t)
  <2>1. f = [i \in 1..(n + 1) |-> SubSeq(v, i, n)]
    OBVIOUS
  <2> HIDE DEF f, t
  <2> QED
    BY <1>1, <1>2, <2>1, Zenon DEF IsParser
<1>4. f[1] = v
  BY <1>0
<1> HIDE DEF f, t
<1>5. ParseString(t) = IF f[1] = Rejected THEN Rejected ELSE Closed(f[1])
  BY <1>1, <1>3, ParsedBy
<1> QED
  BY <1>4, <1>5, NotRejected DEF t

\* What is exported is read back as it was, and an invalid string is refused,
\* whatever the bytes and however many.
THEOREM EscapesAreReversible ==
  StringInit /\ [][StringNext]_string_vars => []EscapesReversible
<1>1. StringInv => EscapesReversible
  BY ValueOctets, EscapedAndParsed, ValidatorAgrees, Zenon DEF EscapesReversible, Closed
<1> QED
  BY <1>1, StringInvHolds, PTL

-----------------------------------------------------------------------------
(* Surrogate pairs.                                                        *)

\* The bytes of a scalar value carry it.
LEMMA EncodedScalar ==
  ASSUME NEW c \in Nat, IsScalar(c)
  PROVE  /\ AppendUtf8(c) \in Seq(Octets) /\ Len(AppendUtf8(c)) \in 1..4
         /\ CodePoint(AppendUtf8(c)) = c
<1> DEFINE z == c % 64
           y == (c \div 64) % 64
           x == (c \div 4096) % 64
           bytes == AppendUtf8(c)
<1>1. x \in 0..63 /\ y \in 0..63 /\ z \in 0..63
  BY SMT
<1>6. c <= 1114111
  BY ScalarFacts, SMT
<1>2. CASE c <= 127
  <2>1. bytes = <<c>>
    BY <1>2, AppendFacts, SMT
  <2> QED
    BY <1>2, <2>1, SMT DEF CodePoint, Octets
<1>3. CASE c > 127 /\ c <= 2047
  <2> DEFINE h == c \div 64
  <2>1. bytes = <<192 + h, 128 + z>>
    BY <1>3, AppendFacts, SMT
  <2>2. h \in 0..31 /\ h * 64 + z = c
    BY <1>3, SMT
  <2> HIDE DEF h, z, bytes
  <2>3. (192 + h) % 32 = h /\ (128 + z) % 64 = z
    BY <1>1, <2>2, SMT
  <2>4. bytes \in Seq(Octets) /\ Len(bytes) = 2
    BY <1>1, <2>1, <2>2, SMT DEF Octets
  <2>5. CodePoint(bytes) = c
    BY <2>1, <2>2, <2>3, SMT DEF CodePoint
  <2> QED
    BY <2>4, <2>5, SMT DEF bytes
<1>4. CASE c > 2047 /\ c <= 65535
  <2> DEFINE h == c \div 4096
  <2>1. bytes = <<224 + h, 128 + y, 128 + z>>
    BY <1>4, AppendFacts, SMT
  <2>2. h \in 0..15 /\ h * 4096 + y * 64 + z = c
    BY <1>4, SMT
  <2> HIDE DEF h, y, z, bytes
  <2>3. (224 + h) % 16 = h /\ (128 + y) % 64 = y /\ (128 + z) % 64 = z
    BY <1>1, <2>2, SMT
  <2>4. bytes \in Seq(Octets) /\ Len(bytes) = 3
    BY <1>1, <2>1, <2>2, SMT DEF Octets
  <2>5. CodePoint(bytes) = c
    BY <2>1, <2>2, <2>3, SMT DEF CodePoint
  <2> QED
    BY <2>4, <2>5, SMT DEF bytes
<1>5. CASE c > 65535
  <2> DEFINE h == c \div 262144
  <2>1. bytes = <<240 + h, 128 + x, 128 + y, 128 + z>>
    BY <1>5, AppendFacts, SMT
  <2>2. h \in 0..7 /\ h * 262144 + x * 4096 + y * 64 + z = c
    BY <1>5, <1>6, SMT
  <2> HIDE DEF h, x, y, z, bytes
  <2>3. (240 + h) % 8 = h /\ (128 + x) % 64 = x /\ (128 + y) % 64 = y /\ (128 + z) % 64 = z
    BY <1>1, <2>2, SMT
  <2>4. bytes \in Seq(Octets) /\ Len(bytes) = 4
    BY <1>1, <2>1, <2>2, SMT DEF Octets
  <2>5. CodePoint(bytes) = c
    BY <2>1, <2>2, <2>3, SMT DEF CodePoint
  <2> QED
    BY <2>4, <2>5, SMT DEF bytes
<1> QED
  BY <1>2, <1>3, <1>4, <1>5, SMT

\* So they are valid if it is one, and are not taken for a rejected string.
LEMMA ScalarIsValid ==
  ASSUME NEW c \in Nat, IsScalar(c)
  PROVE  /\ AppendUtf8(c) # Rejected /\ Closed(AppendUtf8(c)) = AppendUtf8(c)
         /\ CodePoint(AppendUtf8(c)) = c /\ AppendUtf8(c) \in Seq(Octets)
<1> DEFINE bytes == AppendUtf8(c)
           n == Len(bytes)
           starts == {} \cup {1, n + 1}
<1>2. bytes \in Seq(Octets) /\ n \in 1..4 /\ CodePoint(bytes) = c
  BY EncodedScalar, Zenon
<1>3. IsEncoded(bytes)
  BY <1>2, Zenon DEF IsEncoded
<1> HIDE DEF bytes
<1>4. SubSeq(bytes, 1, 1 + n - 1) = bytes
  BY <1>2
<1>5. IsUtf8(bytes)
  <2>1. \A i \in starts \ {n + 1} :
          \E size \in 1..4 : i + size \in starts /\ IsEncoded(SubSeq(bytes, i, i + size - 1))
    <3>1. 1 + n \in starts
      BY <1>2
    <3>2. IsEncoded(SubSeq(bytes, 1, 1 + n - 1))
      BY <1>3, <1>4, Zenon
    <3>3. \A i \in starts \ {n + 1} : i = 1
      OBVIOUS
    <3> HIDE DEF starts, n
    <3> QED
      BY <1>2, <3>1, <3>2, <3>3, Zenon
  <2>2. {} \in SUBSET (2..n)
    OBVIOUS
  <2> QED
    BY <2>1, <2>2, Zenon DEF IsUtf8
<1>6. Closed(bytes) = bytes
  BY <1>2, <1>5, ValidatorAgrees, Zenon DEF Closed
<1> QED
  BY <1>2, <1>6, NotRejected, Zenon DEF bytes

\* The code of a \u escape has 16 bits.
IsUnit(code) == code \in Nat /\ code <= 65535

\* What a text is made of.
LEMMA TextFacts ==
  ASSUME StringInv
  PROVE  /\ text \in Texts
         /\ \A i \in 1..Len(text) :
              text[i].kind = "unicode" => IsUnit(text[i].code)
<1> DEFINE E == [kind : {"byte", "escape", "unicode"}, code : Nat]
           Small(e) == e.kind = "unicode" => IsUnit(e.code)
<1>1. ASSUME NEW e \in Elements PROVE e \in E /\ Small(e)
  <2>1. CASE \E b \in Bytes \ {34, 92} : e = Byte(b)
    <3>1. PICK b \in Bytes \ {34, 92} : e = Byte(b)
      BY <2>1
    <3>2. b \in Nat
      BY BytesAssumption
    <3> QED
      BY <3>1, <3>2 DEF Byte
  <2>2. CASE \E unit \in Units : e = Unicode(unit)
    <3>1. PICK unit \in Units : e = Unicode(unit)
      BY <2>2
    <3>2. unit \in Nat /\ IsUnit(unit)
      BY UnitsAssumption, SMT DEF IsUnit
    <3> QED
      BY <3>1, <3>2 DEF Unicode
  <2>3. CASE \E b \in Escapable \cup {47} : e = Escaped(b)
    <3>1. PICK b \in Escapable \cup {47} : e = Escaped(b)
      BY <2>3
    <3>2. b \in Nat
      BY DEF Escapable
    <3> QED
      BY <3>1, <3>2 DEF Escaped
  <2> QED
    BY <2>1, <2>2, <2>3, Zenon DEF Elements
<1> HIDE DEF E, Small
<1>2. text \in Seq(Elements)
  BY DEF StringInv
<1> HIDE DEF Elements
<1>3. \A i \in 1..Len(text) : text[i] \in Elements
  BY <1>2
<1>4. \A i \in 1..Len(text) : text[i] \in E /\ Small(text[i])
  BY <1>1, <1>3, Zenon
<1>5. text = [i \in 1..Len(text) |-> text[i]] /\ Len(text) \in Nat
  BY <1>2
<1>6. text \in [1..Len(text) -> E]
  BY <1>4, <1>5, Zenon
<1>7. text \in Seq(E)
  BY <1>5, <1>6
<1> QED
  BY <1>4, <1>7, Zenon DEF Texts, E, Small

\* One \u escape.
LEMMA OneUnit ==
  ASSUME NEW t \in Texts, Len(t) = 1, t[1].kind = "unicode",
         IsUnit(t[1].code)
  PROVE  ParseString(t) = Rejected <=> t[1].code \in High \cup Low
<1> DEFINE code == t[1].code
           first == IF Step(t, 1).taken = 0 THEN Rejected ELSE Step(t, 1).bytes \o <<>>
           f == [i \in 1..2 |-> IF i = 1 THEN first ELSE <<>>]
<1>1. Step(t, 1).taken = 0 <=> code \in High \cup Low
  BY DEF Step
<1>2. code \notin High \cup Low =>
        Step(t, 1).taken = 1 /\ Step(t, 1).bytes = AppendUtf8(code)
  BY DEF Step
<1>3. <<>> # Rejected
  BY DEF Rejected
<1>4. f[1] = first /\ f[2] = <<>>
  OBVIOUS
<1>5. f = [i \in 1..2 |-> IF i = 1 THEN first ELSE <<>>]
  OBVIOUS
<1> HIDE DEF f
<1>12. Len(t) + 1 = 2 /\ 1 # 2
  OBVIOUS
<1>6. Appended(f, t, 1) = first
  <2>1. CASE Step(t, 1).taken = 0
    BY <1>12, <2>1, Zenon DEF Appended
  <2>2. CASE Step(t, 1).taken # 0
    <3>1. Step(t, 1).taken = 1
      BY <1>1, <1>2, <2>2
    <3>2. f[1 + Step(t, 1).taken] = <<>>
      BY <1>4, <3>1
    <3> QED
      BY <1>3, <1>12, <2>2, <3>2, Zenon DEF Appended
  <2> QED
    BY <2>1, <2>2
<1>7. Appended(f, t, 2) = <<>>
  BY <1>12, Zenon DEF Appended
<1> HIDE DEF first
<1>8. IsParser(f, t)
  <2>1. \A i \in 1..2 : (IF i = 1 THEN first ELSE <<>>) = Appended(f, t, i)
    BY <1>6, <1>7
  <2> QED
    BY <1>5, <1>12, <2>1, Zenon DEF IsParser
<1>9. ParseString(t) = IF first = Rejected THEN Rejected ELSE Closed(first)
  BY <1>4, <1>8, ParsedBy
<1>10. CASE code \in High \cup Low
  BY <1>1, <1>9, <1>10 DEF first
<1>11. CASE code \notin High \cup Low
  <2>1. IsScalar(code) /\ code \in Nat
    BY <1>11, SMT DEF IsScalar, IsUnit
  <2>2. /\ AppendUtf8(code) # Rejected /\ Closed(AppendUtf8(code)) = AppendUtf8(code)
        /\ AppendUtf8(code) \in Seq(Octets)
    BY <2>1, ScalarIsValid
  <2>3. first = AppendUtf8(code)
    BY <1>1, <1>2, <1>11, <2>2 DEF first
  <2> QED
    BY <1>9, <1>11, <2>2, <2>3
<1> QED
  BY <1>10, <1>11

\* An escape of a high surrogate and another element.
LEMMA TwoUnits ==
  ASSUME NEW t \in Texts, Len(t) = 2, t[1].kind = "unicode", t[1].code \in High
  PROVE  LET paired == t[2].kind = "unicode" /\ t[2].code \in Low
             whole == AppendUtf8(Combined(t[1].code, t[2].code)) \o <<>> IN
         ParseString(t) = IF ~ paired \/ whole = Rejected THEN Rejected ELSE Closed(whole)
<1> DEFINE paired == t[2].kind = "unicode" /\ t[2].code \in Low
           pair == AppendUtf8(Combined(t[1].code, t[2].code))
           second == IF Step(t, 2).taken = 0 THEN Rejected ELSE Step(t, 2).bytes \o <<>>
           whole == pair \o <<>>
           f == [i \in 1..3 |-> IF i = 1 THEN IF paired THEN whole ELSE Rejected
                                ELSE IF i = 2 THEN second ELSE <<>>]
<1>1. /\ paired => Step(t, 1).taken = 2 /\ Step(t, 1).bytes = pair
      /\ ~ paired => Step(t, 1).taken = 0
  BY DEF Step
<1>2. Step(t, 2).taken \in {0, 1}
  <2>1. 2 \in 1..Len(t) /\ 2 <= Len(t)
    OBVIOUS
  <2> DEFINE taken == Step(t, 2).taken
  <2>2. taken \in Nat /\ 2 + taken \in 1..(Len(t) + 1)
    BY <2>1, StepFacts, Zenon
  <2> HIDE DEF taken
  <2>3. taken \in {0, 1}
    BY <2>2
  <2> QED
    BY <2>3 DEF taken
<1>3. <<>> # Rejected
  BY DEF Rejected
<1>4. f[1] = (IF paired THEN whole ELSE Rejected) /\ f[2] = second /\ f[3] = <<>>
  OBVIOUS
<1>5. f = [i \in 1..3 |-> IF i = 1 THEN IF paired THEN whole ELSE Rejected
                          ELSE IF i = 2 THEN second ELSE <<>>]
  OBVIOUS
<1> HIDE DEF f, pair, paired
<1>12. Len(t) + 1 = 3 /\ 1 # 3 /\ 2 # 3
  OBVIOUS
<1>6. Appended(f, t, 1) = IF paired THEN whole ELSE Rejected
  <2>1. CASE ~ paired
    BY <1>1, <1>12, <2>1, Zenon DEF Appended
  <2>2. CASE paired
    <3>1. f[1 + Step(t, 1).taken] = <<>> /\ Step(t, 1).taken # 0
      BY <1>1, <1>4, <2>2
    <3> QED
      BY <1>1, <1>3, <1>12, <2>2, <3>1, Zenon DEF Appended
  <2> QED
    BY <2>1, <2>2
<1>7. Appended(f, t, 2) = second
  <2>1. CASE Step(t, 2).taken = 0
    BY <1>12, <2>1, Zenon DEF Appended
  <2>2. CASE Step(t, 2).taken # 0
    <3>1. f[2 + Step(t, 2).taken] = <<>>
      BY <1>2, <1>4, <2>2
    <3> QED
      BY <1>3, <1>12, <2>2, <3>1, Zenon DEF Appended
  <2> QED
    BY <2>1, <2>2
<1>8. Appended(f, t, 3) = <<>>
  BY <1>12, Zenon DEF Appended
<1> HIDE DEF second, whole
<1>9. IsParser(f, t)
  <2>1. \A i \in 1..3 : (IF i = 1 THEN IF paired THEN whole ELSE Rejected
                         ELSE IF i = 2 THEN second ELSE <<>>) = Appended(f, t, i)
    BY <1>6, <1>7, <1>8
  <2> QED
    BY <1>5, <1>12, <2>1, Zenon DEF IsParser
<1>10. ParseString(t) = IF f[1] = Rejected THEN Rejected ELSE Closed(f[1])
  BY <1>9, ParsedBy
<1>11. ParseString(t) = IF ~ paired \/ whole = Rejected THEN Rejected ELSE Closed(whole)
  BY <1>4, <1>10
<1> QED
  BY <1>11 DEF paired, whole, pair

\* The arithmetic of a pair.
LEMMA PairFacts ==
  ASSUME NEW high \in High, NEW low \in Low
  PROVE  /\ Combined(high, low) \in Nat /\ IsScalar(Combined(high, low))
         /\ IsPair(high, low, Combined(high, low))
<1>1. high \in Nat /\ high >= 55296 /\ high <= 56319
  BY SMT DEF High
<1>2. low \in Nat /\ low >= 56320 /\ low <= 57343
  BY SMT DEF Low
<1> DEFINE x == high - 55296
           y == low - 56320
<1>3. x \in 0..1023 /\ y \in 0..1023 /\ high = 54 * 1024 + x /\ low = 55 * 1024 + y
  BY <1>1, <1>2, SMT
<1>4. Combined(high, low) = 65536 + x * 1024 + y
  BY SMT DEF Combined
<1> HIDE DEF x, y
<1>5. high % 1024 = x /\ low % 1024 = y
  BY <1>3, SMT
<1> DEFINE c == Combined(high, low)
<1>6. c = 65536 + x * 1024 + y
  BY <1>4, SMT
<1> HIDE DEF c
<1>7. c \in Nat /\ c >= 65536 /\ c <= 1114111
  BY <1>3, <1>6, SMT
<1>8. (c - 65536) \div 1024 = x /\ c % 1024 = y
  BY <1>3, <1>6, SMT
<1>9. IsScalar(c)
  BY <1>7, ScalarFacts, SMT
<1>10. IsPair(high, low, c)
  <2> DEFINE h == high % 1024
             l == low % 1024
  <2>1. h = x /\ l = y
    BY <1>5, SMT
  <2> HIDE DEF h, l
  <2>2. /\ 65536 <= c /\ c <= 1114111
        /\ (c - 65536) \div 1024 = h /\ c % 1024 = l
    BY <1>7, <1>8, <2>1, SMT
  <2> QED
    BY <2>2, SMT DEF IsPair, h, l
<1> QED
  BY <1>7, <1>9, <1>10, SMT DEF c

\* An escaped surrogate that is alone is refused; after a high one exactly a low
\* one is accepted, and the two are read as the code point they stand for
\* (strings of one and of two elements, for every set of code units).
THEOREM SurrogatesArePaired ==
  StringInit /\ [][StringNext]_string_vars => []SurrogatesPair
<1>1. ASSUME StringInv PROVE SurrogatesPair
  <2>1. /\ text \in Texts
        /\ \A i \in 1..Len(text) : text[i].kind = "unicode" => IsUnit(text[i].code)
    BY <1>1, TextFacts
  <2>2. ASSUME Len(text) = 1, text[1].kind = "unicode"
        PROVE  ParseString(text) = Rejected <=> text[1].code \in High \cup Low
    <3>1. 1 \in 1..Len(text)
      BY <2>2
    <3>2. IsUnit(text[1].code)
      BY <2>1, <2>2, <3>1, Zenon
    <3> QED
      BY <2>1, <2>2, <3>2, OneUnit
  <2>3. ASSUME Len(text) = 2, text[1].kind = "unicode", text[1].code \in High,
               ~ (text[2].kind = "unicode" /\ text[2].code \in Low)
        PROVE  ParseString(text) = Rejected
    BY <2>1, <2>3, TwoUnits
  <2>4. ASSUME Len(text) = 2, text[1].kind = "unicode", text[1].code \in High,
               text[2].kind = "unicode", text[2].code \in Low
        PROVE  /\ ParseString(text) # Rejected
               /\ IsPair(text[1].code, text[2].code, CodePoint(ParseString(text)))
    <3> DEFINE c == Combined(text[1].code, text[2].code)
    <3>1. c \in Nat /\ IsScalar(c) /\ IsPair(text[1].code, text[2].code, c)
      BY <2>4, PairFacts, Zenon
    <3>2. ParseString(text) = IF AppendUtf8(c) \o <<>> = Rejected THEN Rejected
                              ELSE Closed(AppendUtf8(c) \o <<>>)
      BY <2>1, <2>4, TwoUnits
    <3> HIDE DEF c
    <3>3. /\ Closed(AppendUtf8(c)) = AppendUtf8(c) /\ CodePoint(AppendUtf8(c)) = c
          /\ AppendUtf8(c) \in Seq(Octets) /\ AppendUtf8(c) # Rejected
      BY <3>1, ScalarIsValid
    <3>4. AppendUtf8(c) \o <<>> = AppendUtf8(c)
      BY <3>3
    <3>5. ParseString(text) = AppendUtf8(c)
      BY <3>2, <3>3, <3>4, Zenon
    <3> QED
      BY <3>1, <3>3, <3>5, Zenon
  <2> QED
    BY <2>2, <2>3, <2>4, Zenon DEF SurrogatesPair
<1> QED
  BY <1>1, StringInvHolds, PTL
=============================================================================
