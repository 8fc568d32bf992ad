SPECIFICATION Spec
CONSTANTS
  Code <- Program
  Entry = 1
  Handler = 3
  FlowControlFF = 2
  FlowControl = 2
  Interrupts = TRUE
  Modes <- CacheOnly
  MaxInsn = 4
  MaxSwitch = 1
INVARIANTS
  BranchTargetIsReal
