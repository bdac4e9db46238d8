SPECIFICATION Spec
CONSTANTS
  h1 = h1
  h2 = h2
  h3 = h3
  p1 = p1
  p2 = p2
  Absent = Absent
  Ids = {i1}
  Handlers = {h1}
  Processes = {p1}
  ProcessOf <- MCProcessOf
  Keys = {1, 2, 3, 4}
  DequeueCount = 1
  VisibilityTimeout = 1
  MaxAttempts = 2
  RetryDelays = {1}
  Delays = {0}
  MaxJobs = 2
  MaxAge = 1
  Events = {"overlap", "throw"}
INVARIANTS
  LatestJobSurvives
