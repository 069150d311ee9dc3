\* One tab, three messages and a window of two, one rename, one fault.
SPECIFICATION ConversationFairSpec
CONSTANTS
  Tabs <- MCTabs
  Texts <- MCTexts
  Typed <- MCTyped
  Parted <- MCParted
  Nameless <- MCNameless
  Names <- MCNames
  Window = 2
  MaxMessages = 3
  MaxParts = 1
  MaxRenames = 1
  MaxLogins = 1
  MaxFailures = 1
INVARIANTS
  ShownOnce
PROPERTIES
  EchoesRetire
  ManualStays
CHECK_DEADLOCK FALSE
