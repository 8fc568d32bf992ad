SPECIFICATION Spec
CONSTANTS
  Core = {c0, c1, c2}
  Commander = c0
  Lengths = {1, 3}
  Rates = {1, 10}
  MaxIcount = 6
INVARIANTS
  TypeOK
  LossBounded
  PrintedOnce
