---------------------------- MODULE EvalScoring ----------------------------
(***************************************************************************)
(* The arithmetic of evaluations: the score of a case, what counts as a     *)
(* regression of a case, rates and the threshold for reporting a change.    *)
(*                                                                         *)
(* Scores are multiples of 1/40 and kept in fortieths, rates in             *)
(* ten-thousandths, as toFixed(4) leaves them.  How the texts earn their    *)
(* points is left out.                                                      *)
(***************************************************************************)
EXTENDS Integers, FiniteSets

\* Points per dimension; rules: the demands of the category on citations.
Scorecard ==
    [ outcome   : {"grounded_answer", "refusal"},
      hit       : 0..1,
      relevance : 0..2,
      grounded  : 0..2,
      useful    : 0..2,
      refusal   : 0..2,
      cite      : 0..2,
      rules     : BOOLEAN ]

\* The card of a case whose execution raised.
FailedCard ==
    [ outcome |-> "grounded_answer", hit |-> 0, relevance |-> 0, grounded |-> 0,
      useful |-> 0, refusal |-> 0, cite |-> 0, rules |-> FALSE ]

\* Weights .25, .15, .25, .25, .1 for a grounded answer, .7, .3 for a refusal.
Score(card) ==
    IF card.outcome = "refusal"
    THEN 14 * card.refusal + 6 * card.cite
    ELSE 10 * card.hit + 3 * card.relevance + 5 * card.grounded
            + 5 * card.useful + 2 * card.cite

PassThreshold == 28   \* 0.7

FailureReasons(card) ==
    { reason \in {"source", "rules", "relevance", "grounded", "useful", "cite"} :
        CASE reason = "source" -> card.hit = 0
          [] reason = "rules" -> ~ card.rules
          [] reason = "relevance" -> card.relevance < 1
          [] reason = "grounded" -> card.grounded < 2
          [] reason = "useful" -> card.useful < 1
          [] reason = "cite" -> card.cite < 2 }

Passed(card) ==
    IF card.outcome = "refusal"
    THEN card.refusal = 2 /\ card.cite = 2
    ELSE FailureReasons(card) = {} /\ Score(card) >= PassThreshold

CriticalDimensions == {"hit", "grounded", "refusal", "cite"}

Applicable(card, dimension) ==
    CASE dimension = "grounded" -> card.outcome = "grounded_answer"
      [] dimension = "refusal" -> card.outcome = "refusal"
      [] OTHER -> TRUE

\* The critical dimensions pass with full points only.
DimensionPassed(card, dimension) ==
    /\ Applicable(card, dimension)
    /\ card[dimension] = IF dimension = "hit" THEN 1 ELSE 2

-----------------------------------------------------------------------------
(* Doubles.  A score k/40 is stored as the double next to it, off by        *)
(* RoundingError(k) units of 2^-60 / 40.                                    *)

\* The weight of the last bit of a double in the binade of k/40 is 2^-LastBit(k).
LastBit(k) ==
    CASE k >= 20 -> 53
      [] k \in 10..19 -> 54
      [] k \in 5..9 -> 55
      [] k \in 3..4 -> 56
      [] k = 2 -> 57
      [] OTHER -> 58

\* 2^m % 40 for m >= 3: the powers of two go round 8, 16, 32, 24.
PowerModulo40(m) ==
    CASE m % 4 = 3 -> 8 [] m % 4 = 0 -> 16 [] m % 4 = 1 -> 32 [] OTHER -> 24

RoundingError(k) ==
    LET rest == (k * PowerModulo40(LastBit(k))) % 40
    IN  IF k = 40 \/ rest = 0 THEN 0
        ELSE (IF rest < 20 THEN - rest ELSE 40 - rest) * 2 ^ (60 - LastBit(k))

\* previous - current >= 0.2 in doubles.  A difference of exactly 8/40 passes
\* when it is rounded to the double of 0.2 or above: that double is 512 units
\* above 0.2, the next one below it 1280 units less, and the midpoint rounds up.
DropsByFifth(previous, current) ==
    \/ previous - current > 8
    \/ /\ previous - current = 8
       /\ RoundingError(previous) - RoundingError(current) >= 512 - 640

\* shouldFlagRegression, given the item of the previous run.
ShouldFlagRegression(previous, current) ==
    \/ Passed(previous) /\ ~ Passed(current)
    \/ DropsByFifth(Score(previous), Score(current))
    \/ \E dimension \in CriticalDimensions :
            /\ DimensionPassed(previous, dimension)
            /\ Applicable(current, dimension)
            /\ ~ DimensionPassed(current, dimension)

-----------------------------------------------------------------------------
\* passed / total to four digits; below 32 cases no ratio is a tie.
Rate(passed, total) ==
    IF total = 0 THEN 0 ELSE (20000 * passed + total) \div (2 * total)

\* max(0.05, 1 / max(cases of either run, 1)) to four digits
RateThreshold(current, previous) ==
    LET cases == IF current >= previous THEN current ELSE previous
        share == Rate(1, IF cases = 0 THEN 1 ELSE cases)
    IN  IF share > 500 THEN share ELSE 500

\* pushRateChange with the direction "regressed"
RateRegressed(current, previous, threshold) == previous - current >= threshold

=============================================================================
