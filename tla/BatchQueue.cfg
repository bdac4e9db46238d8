SPECIFICATION FairSpec
CONSTANTS
  m1 = m1
  m2 = m2
  b1 = b1
  Messages = {m1, m2}
  Batches = {b1}
  BatchOf <- OneBatch
  Limits = {1, 2}
  BatchClaim = 2
  MaxDepth = 2
  MaxAttempts = 2
  Dispatchers = {d1, d2}
  Consumers = {c1, c2}
  d1 = d1
  d2 = d2
  c1 = c1
  c2 = c2
  None = None
  MaxCrashes = 1
INVARIANTS
  TypeOK
  NoItemLost
  NoSlotLeak
  
PROPERTIES
  
  BatchCompletes
CHECK_DEADLOCK FALSE
