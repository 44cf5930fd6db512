CONSTANTS
    Target = 40
    Overlap = 12
    Files <- MCFiles
    Keys = {"footer", "repeat"}
    BatchSize = 2
    BatchTokenLimit = 60
    MaxRetries = 1
    None = None
SPECIFICATION Spec
INVARIANTS
    NothingLost
    ChunksFit
    CitedWhereItStands
    
