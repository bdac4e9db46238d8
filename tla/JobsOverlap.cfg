SPECIFICATION Spec
CONSTANTS
  h1 = h1
  h2 = h2
  h3 = h3
  p1 = p1
  p2 = p2
  Absent = Absent
  Ids = {i1, i2}
  Handlers = {h1, h2, h3}
  Processes = {p1, p2}
  ProcessOf <- MCProcessOf
  Keys = {1, 2, 3, 4, 5, 6, 7, 8}
  DequeueCount = 2
  VisibilityTimeout = 1
  MaxAttempts = 2
  RetryDelays = {0}
  Delays = {0, 1}
  MaxJobs = 3
  MaxAge = 1
  Events = {"overlap", "enqueueOnce", "reschedule", "remove", "crash", "slow", "lostDelivery"}
SYMMETRY Symmetry
INVARIANTS
  QueueMatchesItems
  LatestJobSurvives
