------------------------------ MODULE MCService ------------------------------
(***************************************************************************)
(* Small instances of DynamicPropertyService: one world with collections   *)
(* of two plugins, two keys, and pools of requests that race for them.     *)
(***************************************************************************)
EXTENDS DynamicPropertyService, TLC

CONSTANTS world, v1, v2

\* Collections "a" and "b" belong to plugin "p", "z" belongs to plugin "q".
ref(name) == [target |-> world, collection |-> name]

Map(k1, k2) == [k \in {"k1", "k2"} |-> IF k = "k1" THEN k1 ELSE k2]

MCNamespace == [plugin \in {"p", "q"} |-> IF plugin = "p" THEN {"a", "b"} ELSE {"z"}]

MCCapabilities ==
  {"write", "bulk_set", "remove", "clear", "collection_rename", "property_copy_move",
   "collection_copy_move", "export_import", "atomic_transactions"}

Holding(map) == [exists |-> TRUE, properties |-> map]

\* "a" holds one property, the other collections do not exist.
OneProperty ==
  [r \in CollectionRef |->
     IF r.collection = "a" THEN Holding(Map(v1, NoValue)) ELSE Missing]

AsPlugin(plugin) == [plugin_id |-> plugin, raw_admin |-> FALSE]

Administrator == [plugin_id |-> "p", raw_admin |-> TRUE]

ApplyAs(context, service, op) ==
  [form |-> "apply", service |-> service, context |-> context, operations |-> <<op>>,
   force |-> FALSE, rollback_on_failure |-> TRUE, require_atomic |-> TRUE]

Apply(service, op) == ApplyAs(AsPlugin("p"), service, op)

Transact(service, ops) ==
  [form |-> "transact", service |-> service, context |-> AsPlugin("p"),
   operations |-> ops, force |-> FALSE, rollback_on_failure |-> TRUE,
   require_atomic |-> TRUE]

Set(name, key, value, expected) ==
  [kind |-> "set_property", ref |-> ref(name), key |-> key, value |-> value,
   expected_revision |-> expected]

Remove(name, key) ==
  [kind |-> "remove_property", ref |-> ref(name), key |-> key,
   expected_revision |-> NoRevision, require_existing |-> TRUE]

Migrate(source, destination, expected) ==
  [kind |-> "transfer_collection", source |-> ref(source), destination |-> ref(destination),
   expected_source_revision |-> expected, expected_destination_revision |-> NoRevision,
   destination_policy |-> "Merge", remove_source |-> TRUE]

Initial(name) == OneProperty[ref(name)]

MCLimit == [s \in {"narrow", "wide"} |-> IF s = "narrow" THEN 1 ELSE 2]

Import(name, map, policy) ==
  [kind |-> "import_collection", destination |-> ref(name), properties |-> map,
   expected_destination_revision |-> NoRevision, policy |-> policy]

MoveProperty(source, source_key, destination, destination_key) ==
  [kind |-> "transfer_property", source |-> ref(source), source_key |-> source_key,
   destination |-> ref(destination), destination_key |-> destination_key,
   expected_source_revision |-> NoRevision, expected_destination_revision |-> NoRevision,
   remove_source |-> TRUE, overwrite |-> FALSE]

\* Two updates computed from the same content of "a", a second key that the
\* service with limit 1 must not add to "b", a migration of "a" into "b", and a
\* transaction that reaches for "z" with its second operation.
RaceBody ==
  [c \in {"cas1", "cas2", "grow", "migrate", "foreign"} |->
     CASE c = "cas1" -> Apply("narrow", Set("a", "k1", v2, Initial("a")))
       [] c = "cas2" -> Apply("wide", Set("a", "k2", v2, Initial("a")))
       [] c = "grow" -> Apply("narrow", Set("b", "k2", v2, NoRevision))
       [] c = "migrate" -> Apply("narrow", Migrate("a", "b", NoRevision))
       [] c = "foreign" -> Transact("wide", <<Import("b", Map(v1, v1), "Replace"),
                                              MoveProperty("b", "k1", "z", "k1")>>)]

\* The second operation fails if "a" has changed.
Pair == Transact("wide", <<Set("b", "k1", v2, NoRevision), Set("a", "k2", v2, Initial("a"))>>)

\* That transaction, a migration an administrator forces although what it
\* expects was never there, and a call that has nothing to do.
CallsBody ==
  [c \in {"migrate", "pair", "empty"} |->
     CASE c = "migrate" ->
            [ApplyAs(Administrator, "wide", Migrate("a", "b", Missing)) EXCEPT !.force = TRUE]
       [] c = "pair" -> Pair
       [] c = "empty" -> Transact("wide", <<>>)]

\* That transaction, and a migration that the limit refuses after it.
ReferenceBody ==
  [c \in {"migrate", "pair"} |-> IF c = "pair" THEN Pair ELSE RaceBody[c]]

\* Two transactions, the second operation of "break" fails if "swap" was
\* faster, and then it asked for no rollback; and an update of "b".
SwapBody ==
  [c \in {"swap", "break", "grow"} |->
     CASE c = "swap" -> Transact("narrow", <<MoveProperty("a", "k1", "b", "k2"),
                                             Set("a", "k2", v2, NoRevision)>>)
       [] c = "break" -> [Transact("wide", <<Set("b", "k1", v2, NoRevision), Remove("a", "k1")>>)
                            EXCEPT !.rollback_on_failure = FALSE]
       [] c = "grow" -> RaceBody[c]]
=============================================================================
