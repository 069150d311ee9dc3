\* Three versions kept of up to six, one edit, four audit events, one fault.
SPECIFICATION Spec
CONSTANTS
  Keeps <- MCKeeps
  MaxEvents = 4
  MaxFaults = 1
  MaxVersions = 3
  MaxEdits = 1
  MaxIds = 6
INVARIANTS
  NothingErased
  Linked
  Recoverable
PROPERTIES
  RollbackUndoes
CHECK_DEADLOCK FALSE
