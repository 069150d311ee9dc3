\* One row kept or none, four audit events, no fault: the chain after a rotation.
SPECIFICATION Spec
CONSTANTS
  Keeps <- MCKeeps
  MaxEvents = 4
  MaxFaults = 0
  MaxVersions = 3
  MaxEdits = 0
  MaxIds = 0
INVARIANTS
  IntactVerifies
CHECK_DEADLOCK FALSE
