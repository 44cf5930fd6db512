SPECIFICATION FairSpec
PROPERTY JobsSettle
CHECK_DEADLOCK FALSE
CONSTANTS
  NoDocument = NoDocument
  NoWorker = NoWorker
  ApiEmbeds = TRUE
  WorkerEmbeds = TRUE
  Documents = {d1, d2}
  MaxJobs = 2
  MaxAttempts = 2
  MaxStalled = 1
  HonoursUnrecoverable = TRUE
  Workers = {w1}
  Callers = {c1, c2}
  FaultKinds = {"add_rejected", "worker_crash"}
  MaxFaults = 2
