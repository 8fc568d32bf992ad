SPECIFICATION SimSpec
CONSTANTS
  smp_vcpus = 3
  Process = {p1}
  ConcurrentCommands = FALSE
  Commanders = {0}
INVARIANT NoStopStall
CHECK_DEADLOCK FALSE
