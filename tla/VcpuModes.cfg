SPECIFICATION Spec
CONSTANTS
  Code <- Program
  Entry = 1
  Handler = 3
  FlowControlFF = 1
  FlowControl = 1
  Interrupts = TRUE
  Modes <- AllModes
  MaxInsn = 4
  MaxSwitch = 2
INVARIANTS
  TypeOK
  BranchRecordComplete
  ReportErrorBounded
  UnsyncedBound
