SPECIFICATION FairSpec
CONSTANTS
  t1 = t1
  b1 = b1
  i1 = i1
  Tokens = {t1}
  Children = {}
  Batches = {b1}
  Items = {i1}
  BatchOf <- OneBatch
  None = None
  MaxWaits = 2
  MaxAttempts = 1
  MaxNacks = 1
  Faults = {"lateBlock"}
PROPERTIES
  CanceledFinishes
CHECK_DEADLOCK FALSE
