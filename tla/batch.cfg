SPECIFICATION FairSpec
CONSTANTS
  Caller = {c1, c2}
  Key = {k1, k2}
  Faults = {"flush", "close"}
  MaxWrites = 4
INVARIANT TypeOK
INVARIANT AckedUnlessRejected
INVARIANT NothingForgotten
INVARIANT CloseFlushes
PROPERTY NeverBackwards
PROPERTY SavesFinish
CHECK_DEADLOCK FALSE
