SPECIFICATION FairSpec
CONSTANTS
  t1 = t1
  b1 = b1
  i1 = i1
  Tokens = {t1}
  Children = {}
  Batches = {b1}
  Items = {i1}
  BatchOf <- OneBatch
  None = None
  MaxWaits = 2
  MaxAttempts = 1
  MaxNacks = 0
  Faults = {"handlerCrash", "runnerCrash", "suspendFails", "blockCrash", "startSlow"}
PROPERTIES
  WaitEnds
  CanceledFinishes
  BatchReleasesParent
CHECK_DEADLOCK FALSE
