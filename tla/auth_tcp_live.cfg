SPECIFICATION FairSpec
CONSTANTS
  Instance = {i1, i2}
  Key = {k1}
  Reader = {}
  Writer = {w1, w2}
  NoWriter = NoWriter
  Mode = "tcp"
  Faults = {"l2", "lock", "crash"}
  AtomicBatch = TRUE
  CountsVersions = FALSE
  MaxWrites = 2
  MaxClock = 0
  MaxCrashes = 1
PROPERTY CallsFinish
CHECK_DEADLOCK FALSE
