SPECIFICATION Spec
CONSTANTS
  MaxWorkers = 4
  MaxCommands = 3
  MaxFailures = 2
INVARIANTS
  HaveWithinWanted
  NeverAbandoned
PROPERTIES
  EventuallyConnected
CHECK_DEADLOCK FALSE
