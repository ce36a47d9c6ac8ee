SPECIFICATION Spec
CONSTANTS
  i1 = i1
  i2 = i2
  creds = creds
  sk = sk
  skm = skm
  senderKey = senderKey
  senderKeyMemory = senderKeyMemory
  Instance = {i1, i2}
  Writer = {i1}
  Key <- Keys
  Creds = creds
  Dotted = {sk}
  Category <- Categories
  Home <- Homes
  Shorter <- Prefixes
  MaxAge <- Ages
  Batch <- Batches
  Cached = {sk}
  Backends = {"sql", "firestore", "firebase"}
  DbFails = TRUE
  MaxWrites = 2
  MaxTasks = 1
  MaxTime = 1
INVARIANT TypeOK
INVARIANT DeleteIsComplete
INVARIANT L1Honest
INVARIANT ExportFaithful
PROPERTY PruneIsSafe
PROPERTY VersionGrows
CHECK_DEADLOCK FALSE
