SPECIFICATION Spec
CONSTANTS
  Client = {c1, c2, c3}
  Nobody = Nobody
  TTL = 2
  MaxWait = 2
  MaxDelay = 1
  MaxSection = 3
  Faults = {"redis", "crash"}
  MaxNow = 5
SYMMETRY Symmetry
INVARIANT TypeOK
INVARIANT LeaseExcludes
PROPERTY NeverReleasesAnother
PROPERTY OnlyRecentLockTimesOut
PROPERTY ImplementsSessionLock
