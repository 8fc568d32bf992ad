SPECIFICATION FairSpec
CONSTANTS
  smp_vcpus = 2
  Process <- OneProcess
  ConcurrentCommands = FALSE
INVARIANTS
  TypeOK
  InstrumentationMatchesMode
  NoDetailedLeftover
  CallbacksNeverNull
  BackendsAgree
  SessionResources
PROPERTIES
  SessionStartsClean
  StopCompletes
  ImplementsSession
  SessionAnswers
