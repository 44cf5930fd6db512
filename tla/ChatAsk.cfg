SPECIFICATION AskSpec
INVARIANTS CitedWasReadable CitationsStand PassageOnce PromptFollowsConversation RepliesAreStored ActivityLagsOnlyOnRace
SYMMETRY Symmetry
CHECK_DEADLOCK FALSE
CONSTANTS
  Documents = {d1}
  Texts = {t1, t2}
  Passages = 1
  MaxGenerations = 2
  CandidateLimit = 1
  RerankLimit = 2
  GroundingLimit = 2
  CitationLimit = 1
  Asks = {a1, a2}
  Conversations = {k1, k2}
  NoConversation = NoConversation
  HistoryLimit = 2
  LocalLimit = 3
  MaxTime = 2
  MaxFaults = 1
