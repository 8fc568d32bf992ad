SPECIFICATION SimFairSpec
CONSTANTS
  smp_vcpus = 2
  Process = {p1}
  ConcurrentCommands = FALSE
  Commanders = {0}
INVARIANTS
  SimTypeOK
  SyncKeepsWriter
PROPERTIES
  DetailedStopEnds
  SyncReturns
CHECK_DEADLOCK FALSE
