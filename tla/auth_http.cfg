SPECIFICATION Spec
CONSTANTS
  Instance = {i1}
  Key = {k1, k2}
  Reader = {r1}
  Writer = {w1, w2}
  NoWriter = NoWriter
  Mode = "http"
  Faults = {"l2", "evict"}
  AtomicBatch = TRUE
  CountsVersions = TRUE
  MaxWrites = 2
  MaxClock = 1
  MaxCrashes = 0
SYMMETRY Symmetry
INVARIANT L1Coherent
INVARIANT L2Coherent
