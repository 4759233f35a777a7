SPECIFICATION MCSpec
CONSTANTS
  Worlds = {"w"}
  Ids = {"i", "j"}
  Blocks = {"b"}
  Slots <- MCSlots
  NoId = ""
  NoBlock = ""
  Char <- MCChar
  Plain = {"a", "b", "e", "_"}
  Lower <- MCLower
  Prefix <- MCPrefix
  Contexts <- MCContexts
  ClientTargets <- MCClientTargets
  Outages <- MCOutages
  Refs <- MCRefs
  MaxNameLength = 6
  Adapters <- MCAdapters
INVARIANTS
  NamespacesApart
  OneOwnerPerSpelling
  CompleteControlSuffices
PROPERTY
  ListedIsReadable
CHECK_DEADLOCK FALSE
