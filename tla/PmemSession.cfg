SPECIFICATION FairSpec
CONSTANTS
  Core = {c0, c1, c2}
  Commander = c0
  Intervals = {0, 2}
  Filters <- SomeFilters
  CountMod = 3
  MaxAcc = 4
  None = None
INVARIANTS
  TypeOK
  SampleGap
  NoStrayLine
  FailsOnlyInStop
PROPERTIES
  StopEnds
