SPECIFICATION FairSpec
CONSTANTS
  Caller = {c1, c2}
  Retries = 1
  Faults = {"start", "sql", "death"}
  MaxCalls = 4
INVARIANT TypeOK
INVARIANT NobodyWaitsInVain
PROPERTY CallsRunInOrder
PROPERTY ImplementsRetriedCalls
PROPERTY CallsSettle
CHECK_DEADLOCK FALSE
