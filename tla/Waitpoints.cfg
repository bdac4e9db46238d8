SPECIFICATION Spec
CONSTANTS
  t1 = t1
  b1 = b1
  i1 = i1
  Tokens = {t1}
  Children = {}
  Batches = {b1}
  Items = {i1}
  BatchOf <- OneBatch
  None = None
  MaxWaits = 2
  MaxAttempts = 2
  MaxNacks = 1
  Faults = {"handlerCrash", "completerCrash", "runnerCrash", "suspendFails", "startSlow", "blockCrash", "streamFails"}
INVARIANTS
  TypeOK
  AwaitedTracked
  NoPartialResume
  SuspendedHasCheckpoint
PROPERTIES
  CanceledNeverStarts
  ImplementsRunLife
CHECK_DEADLOCK FALSE
