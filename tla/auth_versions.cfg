SPECIFICATION Spec
CONSTANTS
  Instance = {i1, i2}
  Key = {k1}
  Reader = {r1}
  Writer = {w1}
  NoWriter = NoWriter
  Mode = "http"
  Faults = {"evict"}
  AtomicBatch = TRUE
  CountsVersions = FALSE
  MaxWrites = 2
  MaxClock = 0
  MaxCrashes = 0
INVARIANT VersionsIdentifyValues
