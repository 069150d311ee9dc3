\* One topic approved once, two faults of any kind.
SPECIFICATION FairSpec
CONSTANTS
  t1 = t1
  Topics <- MCTopics
  None = None
  MaxApprovals = 1
  Faults = {"crash", "refused", "lost", "mover", "disk"}
  MaxFaults = 2
INVARIANTS
  NoNeedlessResend
  SavedBetweenSweeps
PROPERTIES
  Announced
  Swept
CHECK_DEADLOCK FALSE
