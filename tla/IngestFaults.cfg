SPECIFICATION Spec
INVARIANTS StatusExplained IndexedIsSearchable 
 
SYMMETRY Symmetry
CHECK_DEADLOCK FALSE
CONSTANTS
  NoDocument = NoDocument
  NoWorker = NoWorker
  ApiEmbeds = TRUE
  WorkerEmbeds = TRUE
  Documents = {d1}
  MaxJobs = 2
  MaxAttempts = 2
  MaxStalled = 1
  HonoursUnrecoverable = TRUE
  Workers = {w1, w2}
  Callers = {c1, c2}
  FaultKinds <- AllFaultKinds
  MaxFaults = 2
