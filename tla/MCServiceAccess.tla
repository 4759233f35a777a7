--------------------------- MODULE MCServiceAccess ---------------------------
(* Plugins whose ids are spelled alike, and every target a factory makes.  *)
EXTENDS ServiceAccess

MCChar == {"a", "b", "e", "_", "A", "E", " ", ":", "endstone-plugin"}

MCLower == [c \in {"A", "E"} |-> IF c = "A" THEN "a" ELSE "e"]

MCPrefix == <<"E">>

Plugin(id) == [plugin_id |-> id, raw_admin |-> FALSE]

Administrator == [plugin_id |-> <<>>, raw_admin |-> TRUE]

MCSlots == {-1, 0, 1}

-----------------------------------------------------------------------------
(* A few clients that make any number of calls: the collection "b" of two  *)
(* plugins on the world, on a player and on a player without an XUID.      *)

FewContexts ==
  {Plugin(<<"A", " ">>), Plugin(<<"a", "b">>), Administrator}

FewTargets == {World("w"), OnlinePlayer("i", "w"), OnlinePlayer("", "w")}

MCOutages == {World("w")}

FewRefs ==
  [target : {World("w")},
   collection : {<<"e", ":", "a", ":", "b">>, <<"e", ":", "a", "b", ":", "b">>}]
    \cup [target : FewTargets, collection : {<<"e", ":", "a", ":", "b">>}]

-----------------------------------------------------------------------------
(* Many targets that are called once, with capabilities missing in turn.   *)

MCContexts == FewContexts \cup {Plugin(<<"a">>), Plugin(<<"_">>)}

\* One field of a target set by hand: the kind does not always use it.
Stray ==
  {[t EXCEPT !.slot = 0] : t \in {World("w"), PlayerItem("i", "main", -1, "w")}}
    \cup {[t EXCEPT !.section = s] : t \in {PlayerItem("i", "armor", 0, "w")}, s \in Section}
    \cup {[BlockEntity("b", "w") EXCEPT !.block = NoBlock]}

MCClientTargets == MadeTargets \cup Stray

MCRefs ==
  FewRefs \cup [target : MCClientTargets, collection : {<<>>, <<"a">>}]
    \cup [target : {World("w")}, collection : {<<"e", ":", "a", "_", ":", "b">>}]

MCAdapters == {Capability \ lost : lost \in {{}} \cup {{c} : c \in Capability}}

-----------------------------------------------------------------------------
\* One call on a fresh adapter: enough for what does not depend on the store.
FirstCall ==
  /\ answer.call = "none"
  /\ \E context \in Contexts, target \in ClientTargets :
       \/ Ask(context, target)
       \/ \E from, to \in {ref \in Refs : ref.target = target} : Apply(context, from, to)

Few == INSTANCE ServiceAccess WITH
  Contexts <- FewContexts, ClientTargets <- FewTargets, Refs <- FewRefs, Adapters <- {Capability}

AmongFew == capabilities = Capability /\ answer.target \in FewTargets /\ store \subseteq FewRefs

MCNext == FirstCall \/ (AmongFew /\ Few!Next)

MCSpec == Init /\ [][MCNext]_vars
=============================================================================
