CONSTANTS
    a = a
    b = b
    KBs <- MCKBs
    EffectRuns = {1, 2}
    None = None
    MaxRequests = 2
    MaxUploads = 1
    Conversations = {c1, c2, c3}
SPECIFICATION Spec
INVARIANTS
    ChoiceStands
    ListIsOfSelection
    
PROPERTY PendingIsFollowed
