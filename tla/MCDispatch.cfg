\* Two requests, two approvals of either or of both, on a topic
\* that both may share; one fault of any kind.
SPECIFICATION FairSpec
CONSTANTS
  Ids <- MCIds
  Topics <- MCNamed
  SafeTopics <- MCIds
  None = None
  MaxApprovals = 2
  Faults = {"crash", "unsaved", "corrupt", "io"}
  MaxFaults = 1
INVARIANTS
  OneInFlight
  DispatchedIsVisible
  ClosedWasOut
  DispatchBound
PROPERTIES
  Served
CHECK_DEADLOCK FALSE
