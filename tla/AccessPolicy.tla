---------------------------- MODULE AccessPolicy ----------------------------
(***************************************************************************)
(* DynamicPropertyAccessPolicy: which collections a plugin may touch.  A   *)
(* plugin owns the names that start with                                   *)
(*    <policy prefix> ":" <its normalised id> ":"                          *)
(* and an administrator owns them all.  A text is a sequence of characters. *)
(***************************************************************************)
EXTENDS Integers, Sequences, SequencesExt

CONSTANTS
  Char,    \* the characters of ids and names; the default prefix is one
  Plain,   \* the characters normalize keeps: a-z 0-9 - _ .
  Lower,   \* the lower case of each upper-case letter, a function
  Prefix   \* the prefix the policy is constructed with

ASSUME PolicyAssumption ==
  /\ Plain \subseteq Char /\ {":", "endstone-plugin"} \subseteq Char
  /\ "_" \in Plain /\ ":" \notin Plain
  /\ Lower \in [DOMAIN Lower -> Plain]
  /\ Prefix \in Seq(Char)

\* Every other character becomes an underscore.
Mapped(c) == IF c \in Plain THEN c ELSE IF c \in DOMAIN Lower THEN Lower[c] ELSE "_"

\* Mutation: the ends are cut before the characters are mapped.
TrimmedFirst(text) ==
  LET kept == {i \in DOMAIN text : text[i] # "_"}
      Cut == IF kept = {} THEN <<>> ELSE SubSeq(text, Min(kept), Max(kept)) IN
  [i \in DOMAIN Cut |-> Mapped(Cut[i])]

\* normalize: map each character, then cut the underscores off both ends.
Normalize(text) ==
  LET mapped == [i \in DOMAIN text |-> Mapped(text[i])]
      kept == {i \in DOMAIN text : mapped[i] # "_"} IN
  IF kept = {} THEN <<>> ELSE SubSeq(mapped, Min(kept), Max(kept))

PolicyPrefix ==
  IF Normalize(Prefix) = <<>> THEN <<"endstone-plugin">> ELSE Normalize(Prefix)

\* Mutation: the id is not closed by a separator.
OpenPrefix(plugin) ==
  IF Normalize(plugin) = <<>> THEN <<>>
  ELSE PolicyPrefix \o <<":">> \o Normalize(plugin)

PluginPrefix(plugin) ==
  IF Normalize(plugin) = <<>> THEN <<>>
  ELSE PolicyPrefix \o <<":">> \o Normalize(plugin) \o <<":">>

\* The name of a plugin's own collection, or nothing.
PluginCollection(plugin, logical) ==
  IF PluginPrefix(plugin) = <<>> \/ Normalize(logical) = <<>> THEN <<>>
  ELSE PluginPrefix(plugin) \o Normalize(logical)

\* The plugin whose names these are: pluginPrefix is there and begins the name.
Owns(plugin, name) == PluginPrefix(plugin) # <<>> /\ IsPrefix(PluginPrefix(plugin), name)

CanAccess(context, ref) == context.raw_admin \/ Owns(context.plugin_id, ref.collection)

CanListRawCollections(context) == context.raw_admin
=============================================================================
