SPECIFICATION Spec
CONSTANTS
  SessionPeriod = 2
  PruningThreshold = 1
  Validated = {0, 1}
  Peers = {p1}
  LastSession = 2
  MaxUnits = 1
  MaxCrashes = 2
  MaxBackupErrors = 1
INVARIANTS
  
  TaskConnected
  ReservedMatch
  SessionsClosed
PROPERTIES
  MovesOn
CHECK_DEADLOCK FALSE
