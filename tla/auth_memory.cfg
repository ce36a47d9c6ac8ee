SPECIFICATION FairSpec
CONSTANTS
  Instance = {i1}
  Key = {k1, k2}
  Reader = {r1}
  Writer = {w1, w2}
  NoWriter = NoWriter
  Mode = "none"
  Faults = {"db", "crash"}
  AtomicBatch = FALSE
  CountsVersions = TRUE
  MaxWrites = 2
  MaxClock = 0
  MaxCrashes = 1
INVARIANT L1Coherent
PROPERTY LastSetCallWins
PROPERTY CallsFinish
PROPERTY CachesConverge
