\* One stem fetched once, a fault of any kind: the drop is still answered.
SPECIFICATION FairSpec
CONSTANTS
  v1 = v1
  v2 = v2
  Stems = {s1}
  Docs <- MCDocs
  Imperative <- MCImperative
  None = None
  Partial = Partial
  MaxAttempts = 2
  SettleGuard = TRUE
  FlaggedMount = TRUE
  Faults = {"crash", "unsaved", "corrupt", "io"}
  MaxFaults = 1
  MaxFetches = 1
  MaxDays = 1
PROPERTIES
  EventuallyAnswered
CHECK_DEADLOCK FALSE
