SPECIFICATION Spec
CONSTANTS
  smp_vcpus = 2
  Process <- OneProcess
  ConcurrentCommands = FALSE
INVARIANTS
  WritersOpenForDetailed
