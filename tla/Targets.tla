------------------------------- MODULE Targets -------------------------------
(***************************************************************************)
(* What a dynamic property can be attached to: the target record of        *)
(* types.h, the factories that make one, what validateTarget asks of each  *)
(* kind, and the capability an adapter must have for it.                   *)
(*                                                                         *)
(* An identifier is an atom; NoId is the empty string.                     *)
(***************************************************************************)
EXTENDS Integers, Sequences

CONSTANTS
  Worlds,  \* world ids a client uses
  Ids,     \* XUIDs and entity identifiers
  Blocks,  \* block locations
  Slots,   \* slot numbers, valid and not
  NoId,    \* an empty string
  NoBlock  \* an absent block location

ASSUME TargetsAssumption == NoId \notin Worlds \cup Ids /\ NoBlock \notin Blocks

\* The kinds of types.h, each of which a client can name.
TargetKind ==
  {"world", "online_player", "offline_player", "loaded_entity", "stored_entity",
   "player_inventory_slot", "player_armor_slot", "player_offhand_slot",
   "player_ender_chest_slot", "block_container_slot", "dropped_item", "block_entity"}

Section == {"none", "main", "armor", "offhand", "ender_chest", "block_container"}

\* The player sections and the kind of the slots they hold.
SlotKind ==
  [main |-> "player_inventory_slot", armor |-> "player_armor_slot",
   offhand |-> "player_offhand_slot", ender_chest |-> "player_ender_chest_slot"]

PlayerSlots == {SlotKind[section] : section \in DOMAIN SlotKind}

\* A default-constructed target: every field that the kind does not use.
Blank(kind, w) ==
  [kind |-> kind, world |-> w, xuid |-> NoId, entity |-> NoId, item |-> NoId,
   block |-> NoBlock, section |-> "none", slot |-> -1]

World(w) == Blank("world", w)

OnlinePlayer(x, w) == [Blank("online_player", w) EXCEPT !.xuid = x]

OfflinePlayer(x, w) == [OnlinePlayer(x, w) EXCEPT !.kind = "offline_player"]

LoadedEntity(e, w) == [Blank("loaded_entity", w) EXCEPT !.entity = e]

StoredEntity(e, w) == [LoadedEntity(e, w) EXCEPT !.kind = "stored_entity"]

\* A section that is no player section falls back to the inventory kind.
PlayerKind(section) ==
  IF section \in DOMAIN SlotKind THEN SlotKind[section] ELSE "player_inventory_slot"

PlayerItem(x, section, slot, w) ==
  [Blank(PlayerKind(section), w) EXCEPT !.xuid = x, !.section = section, !.slot = slot]

BlockContainerItem(b, slot, w) ==
  [Blank("block_container_slot", w) EXCEPT
     !.block = b, !.section = "block_container", !.slot = slot]

DroppedItem(e, w) == [Blank("dropped_item", w) EXCEPT !.item = e]

BlockEntity(b, w) == [Blank("block_entity", w) EXCEPT !.block = b]

\* Every target the factories make of the client's worlds, ids and slots.
MadeTargets ==
  LET ws == Worlds \cup {NoId}
      xs == Ids \cup {NoId} IN
  {World(w) : w \in ws}
    \cup {OnlinePlayer(x, w) : x \in xs, w \in ws}
    \cup {OfflinePlayer(x, w) : x \in xs, w \in ws}
    \cup {LoadedEntity(x, w) : x \in xs, w \in ws}
    \cup {StoredEntity(x, w) : x \in xs, w \in ws}
    \cup {PlayerItem(x, s, n, w) : x \in xs, s \in Section, n \in Slots, w \in ws}
    \cup {BlockContainerItem(b, n, w) : b \in Blocks, n \in Slots, w \in ws}
    \cup {DroppedItem(x, w) : x \in xs, w \in ws}
    \cup {BlockEntity(b, w) : b \in Blocks, w \in ws}

-----------------------------------------------------------------------------
(* validateTarget: the fields each kind requires.  Fields a kind does not   *)
(* use are not looked at.                                                  *)

InSlot(target, section) == target.section = section /\ target.slot >= 0

HasFields(t) ==
  CASE t.kind = "world" -> TRUE
    [] t.kind \in {"online_player", "offline_player"} -> t.xuid # NoId
    [] t.kind \in {"loaded_entity", "stored_entity"} -> t.entity # NoId
    [] t.kind \in PlayerSlots ->
         t.xuid # NoId /\ \E section \in DOMAIN SlotKind :
                            SlotKind[section] = t.kind /\ InSlot(t, section)
    [] t.kind = "block_container_slot" ->
         t.block # NoBlock /\ InSlot(t, "block_container")
    [] t.kind = "dropped_item" -> t.item # NoId
    [] t.kind = "block_entity" -> t.block # NoBlock

ValidTarget(t) == t.world # NoId /\ HasFields(t)

-----------------------------------------------------------------------------
(* targetCapability and completeControl.                                   *)

TargetCapability(kind) ==
  CASE kind = "world" -> {"world"}
    [] kind = "online_player" -> {"online_players"}
    [] kind = "offline_player" -> {"offline_players"}
    [] kind = "loaded_entity" -> {"loaded_entities"}
    [] kind = "stored_entity" -> {"stored_entities"}
    [] kind = "player_inventory_slot" -> {"player_inventory_items"}
    [] kind = "player_armor_slot" -> {"player_armor_items"}
    [] kind = "player_offhand_slot" -> {"player_offhand_items"}
    [] kind = "player_ender_chest_slot" -> {"player_ender_chest_items"}
    [] kind = "block_container_slot" -> {"block_container_items"}
    [] kind = "dropped_item" -> {"dropped_items"}
    [] kind = "block_entity" -> {"block_entities", "block_dynamic_properties"}

\* The flags of DynamicPropertyCapabilities that completeControl demands: all.
Capability ==
  {"world", "online_players", "offline_players", "loaded_entities", "stored_entities",
   "player_inventory_items", "player_armor_items", "player_offhand_items",
   "player_ender_chest_items", "block_container_items", "dropped_items",
   "block_entities", "block_dynamic_properties",
   "read", "write", "remove", "clear", "list_ids", "list_collections", "byte_count",
   "bulk_set", "collection_rename", "property_copy_move", "collection_copy_move",
   "collection_migration", "export_import", "atomic_transactions", "rollback",
   "audit", "watches", "external_change_observation", "external_change_cancellation",
   "persistence_flush", "exact_build_match", "exact_binary_hash_match",
   "symbols_validated", "stage_probe_passed"}

\* Mutation: the flags of single blocks are thought to imply one another.
CompleteButOneBlockFlag(capabilities) ==
  Capability \ {"block_dynamic_properties"} \subseteq capabilities

CompleteControl(capabilities) == Capability \subseteq capabilities

=============================================================================
