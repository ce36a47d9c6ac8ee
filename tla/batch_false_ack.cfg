SPECIFICATION Spec
CONSTANTS
  Caller = {c1, c2, c3}
  Key = {k1}
  Faults = {"flush"}
  MaxWrites = 3
SYMMETRY Symmetry
INVARIANT AckedIsStored
CHECK_DEADLOCK FALSE
