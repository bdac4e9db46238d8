SPECIFICATION FairSpec
CONSTANTS
  h1 = h1
  h2 = h2
  h3 = h3
  p1 = p1
  p2 = p2
  Absent = Absent
  Ids = {i1, i2}
  Handlers = {h1, h3}
  Processes = {p1, p2}
  ProcessOf <- MCProcessOf
  Keys = {1, 2, 3, 4, 5, 6, 7}
  DequeueCount = 1
  VisibilityTimeout = 2
  MaxAttempts = 2
  RetryDelays = {1}
  Delays = {0}
  MaxJobs = 2
  MaxAge = 2
  Events = {"throw", "crash", "redrive", "lostDelivery", "redisError"}
INVARIANTS
  TypeOK
  OneDelivery
  DeadLettersExhausted
PROPERTIES
  JobSettles
