SPECIFICATION Spec
INVARIANTS OneLiveJob CountsWhatIsSearched
PROPERTY FollowsLifecycle
SYMMETRY Symmetry
CHECK_DEADLOCK FALSE
CONSTANTS
  NoDocument = NoDocument
  NoWorker = NoWorker
  ApiEmbeds = TRUE
  WorkerEmbeds = FALSE
  Documents = {d1}
  MaxJobs = 2
  MaxAttempts = 3
  MaxStalled = 1
  HonoursUnrecoverable = FALSE
  Workers = {w1, w2}
  Callers = {c1}
  FaultKinds <- OwnershipKeepingFaults
  MaxFaults = 3
