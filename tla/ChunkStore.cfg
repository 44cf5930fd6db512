SPECIFICATION StoreSpec
PROPERTY ReplacesAtomically
CHECK_DEADLOCK FALSE
CONSTANTS
  None = None
  Writers = {w1, w2}
  MaxRuns = 2
  MaxChunks = 3
