\* Two calls, four dials, a gateway that may answer anything or nothing.
SPECIFICATION FairSpec
CONSTANTS
  Calls = {c1, c2}
  MaxSockets = 4
  Answers = {"ok", "unpaired", "error", "no-scopes", "no-nonce"}
  None = None
INVARIANTS
  PendingOnLiveSocket
  ReadyIsBacked
  NeverStranded
PROPERTIES
  QuietAfterClose
  CallsSettle
CHECK_DEADLOCK FALSE
