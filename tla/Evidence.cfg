SPECIFICATION EvidenceSpec
INVARIANTS GroundingIsBest CitationsAccounted LocalAnswerIsCited SnippetShowsTheMatch GradeIsEarned
CHECK_DEADLOCK FALSE
CONSTANTS
  Stop = Stop
  NoDocument = NoDocument
  RerankLimit = 3
  GroundingLimit = 3
  SnippetLimit = 24
  CitationLimit = 2
  LocalLimit = 3
  EvidenceLimit = 6
  UnknownId = 0
  Corpora <- SmallCorpora
  Questions <- SmallQuestions
  Distances = {20, 190}
  Ranks = {11, 80}
  Answers <- SmallAnswers
  EvalCases <- SmallCases
