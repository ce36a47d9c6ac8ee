SPECIFICATION Spec
CONSTANTS
  Instance = {i1, i2}
  Key = {k1}
  Reader = {r1}
  Writer = {w1, w2}
  NoWriter = NoWriter
  Mode = "tcp"
  Faults = {"publish", "lock", "db", "crash"}
  AtomicBatch = TRUE
  CountsVersions = FALSE
  MaxWrites = 2
  MaxClock = 0
  MaxCrashes = 1
SYMMETRY Symmetry
INVARIANT TypeOK
INVARIANT SoleHolder
INVARIANT CacheNeverAheadOfDatabase
INVARIANT L1Coherent
INVARIANT L2Coherent
