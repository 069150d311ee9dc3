\* One stem, fetched up to twice, no faults: every safety property of the pass.
SPECIFICATION Spec
CONSTANTS
  v1 = v1
  v2 = v2
  Stems = {s1}
  Docs <- MCDocs
  Imperative <- MCImperative
  None = None
  Partial = Partial
  MaxAttempts = 2
  SettleGuard = TRUE
  FlaggedMount = TRUE
  Faults = {}
  MaxFaults = 0
  MaxFetches = 2
  MaxDays = 2
INVARIANTS
  EvidenceBound
  Diversion
  EvidenceKept
  NoTruncation
  NewestKept
  FreshDropListed
  ManifestIsWork
PROPERTIES
  ReapEarned
CHECK_DEADLOCK FALSE
