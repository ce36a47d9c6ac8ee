SPECIFICATION FairSpec
CONSTANTS
  Instance = {i1}
  Key = {k1}
  Reader = {r1}
  Writer = {w1}
  NoWriter = NoWriter
  Mode = "tcp"
  Faults = {}
  AtomicBatch = TRUE
  CountsVersions = TRUE
  MaxWrites = 2
  MaxClock = 0
  MaxCrashes = 0
PROPERTY CachesConverge
