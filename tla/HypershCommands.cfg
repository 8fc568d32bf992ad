SPECIFICATION Spec
CONSTANTS
  VCPU = {v0, v1}
  Meaning <- Text
  Flags <- Dashed
  Loaded = {"trace", "mcount", "pmem", "slomo"}
SYMMETRY
  Vcpus
INVARIANTS
  TypeOK
  RunsWhatWasSent
  ActsAsAlone
  ActsAsWritten
  FailsOnlyDisturbed
