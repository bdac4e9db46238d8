SPECIFICATION Spec
CONSTANTS
  r1 = r1
  r2 = r2
  r3 = r3
  qA = qA
  qB = qB
  Runs = {r1, r2}
  Queues = {qA}
  Consumers = {c1}
  Workers = {w1}
  MaxTime = 1
  BatchSize = 2
  TtlBatchSize = 2
  MaxAttempts = 2
  EnvLimits = {2}
  QueueLimits = {1}
  BurstNum = 3
  BurstDen = 2
  DefaultQueueLimit = 10
  MaxEntries = 1
  RetryDelays = {0}
  TtlDelays = {1}
  FastPath = {TRUE, FALSE}
  Faults = {"consumerCrash", "workerCrash", "ttlCrash", "redrive"}
  CrashPoints = {"nack", "ack", "release"}
  Absent = Absent
  QueueOf <- MCQueueOf
SYMMETRY Symmetry
INVARIANTS
  IInv
  
  
  
  ClaimedNotExpirable
PROPERTIES
  NoOvertaking
  
  
