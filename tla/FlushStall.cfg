SPECIFICATION SimSpec
CONSTANTS
  smp_vcpus = 2
  Process = {p1}
  ConcurrentCommands = FALSE
  Commanders = {0}
INVARIANT NoFlushStall
