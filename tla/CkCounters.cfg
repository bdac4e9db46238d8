SPECIFICATION Spec
CONSTANTS
  r1 = r1
  r2 = r2
  r3 = r3
  vA = vA
  vB = vB
  Runs = {r1, r2, r3}
  Variants = {vA, vB}
  VariantOf <- MCVariantOf
  Absent = Absent
  BatchSize = 2
  ScanFactor = 1
  TtlBatchSize = 2
  MaxAttempts = 2
  EnvLimit = 2
  QueueLimit = 1
  BurstNum = 1
  BurstDen = 1
  RetryDelays = {1}
  TtlDelays = {1}
  MaxAge = 1
  FastPath = {TRUE, FALSE}
  MaxEntries = 2
  MaxCounter = 3
SYMMETRY Symmetry
INVARIANTS
  TypeOK
  IndexIsExact
  MasterCoversIndex
  LengthCounterExact
  RunningNotOvercounted
  

  
