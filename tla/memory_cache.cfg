SPECIFICATION FairSpec
CONSTANTS
  k1 = k1
  k2 = k2
  k3 = k3
  small = small
  big = big
  huge = huge
  Nothing = Nothing
  Key <- Keys
  Session <- Sessions
  Value <- Values
  Size <- Sizes
  Ttl = 2
  MaxEntries = 2
  MaxBytes = 3
  MaxTime = 3
  MaxUses = 4
INVARIANT TypeOK
INVARIANT CountersExact
INVARIANT WithinLimits
PROPERTY EvictsLeastRecentlyUsed
PROPERTY ExpiredEntriesLeave
PROPERTY ImplementsLossyCache
