SPECIFICATION EvalSpec
INVARIANTS CompletedIsWhole FlagsMatchBaseline BaselineMissesOnlyOverlaps AnswersAgree
SYMMETRY Symmetry
CHECK_DEADLOCK FALSE
CONSTANTS
  Runs = {r1, r2, r3}
  Cases = {c1, c2}
  Cards <- FullCard
  NoRun = NoRun
  NoCard = NoCard
  MaxTime = 2
  MaxFaults = 2
