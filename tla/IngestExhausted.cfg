SPECIFICATION Spec
INVARIANT RetryLimitDeadLetters
CHECK_DEADLOCK FALSE
CONSTANTS
  NoDocument = NoDocument
  NoWorker = NoWorker
  ApiEmbeds = TRUE
  WorkerEmbeds = TRUE
  Documents = {d1}
  MaxJobs = 1
  MaxAttempts = 2
  MaxStalled = 1
  HonoursUnrecoverable = TRUE
  Workers = {w1}
  Callers = {c1}
  FaultKinds = {"worker_crash"}
  MaxFaults = 1
