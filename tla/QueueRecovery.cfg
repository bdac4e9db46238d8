SPECIFICATION FairSpec
CONSTANTS
  r1 = r1
  r2 = r2
  r3 = r3
  qA = qA
  qB = qB
  Runs = {r1}
  Queues = {qA}
  Consumers = {c1}
  Workers = {w1}
  MaxTime = 0
  BatchSize = 2
  TtlBatchSize = 2
  MaxAttempts = 2
  EnvLimits = {1}
  QueueLimits = {}
  BurstNum = 1
  BurstDen = 1
  DefaultQueueLimit = 10
  MaxEntries = 2
  RetryDelays = {0}
  TtlDelays = {}
  FastPath = {TRUE, FALSE}
  Faults = {"consumerCrash", "workerCrash", "directNack", "repair", "workerMismatch"}
  CrashPoints <- AllCalls
  Absent = Absent
  QueueOf <- MCQueueOf
PROPERTIES
  FinishedReleasesSlot
INVARIANTS
  IInv
