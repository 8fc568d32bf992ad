SPECIFICATION FairSpec
CONSTANTS
  ncores = 2
  TotalMem = 3
  MemBins = {1, 2}
  AccBins = {1, 2}
  MaxAcc = 2
  ConcurrentCommands = FALSE
  RestartWhileRunning = FALSE
  None = None
INVARIANTS
  TypeOK
  NoCountLost
  EveryAccessCounted
  FlushCadence
  NoUseAfterClose
  IndexInBounds
PROPERTIES
  StopCloses
  ImplementsHistogram
