---------------------------- MODULE EvalGrading ----------------------------
(***************************************************************************)
(* EvalScoringService: the points that an execution of a case earns, as the *)
(* score card that EvalScoring adds up.                                     *)
(*                                                                         *)
(* An execution has its status, the terms of its answer, whether the answer *)
(* reads as a refusal of at most 320 characters, its citations and sources  *)
(* and the top score.  A case expects a document, a hint, an answer, or     *)
(* none of these; a hint and an answer are sets of terms.  Coverages are    *)
(* compared in percent.  The stop words are those of retrieval.             *)
(***************************************************************************)
EXTENDS EvalScoring, Citing

CONSTANTS
    NoDocument,       \* no expected source document
    EvidenceLimit     \* the words of toEvidenceSnippet

Groundable == Weighted(20, One)     \* GROUNDABLE_EVIDENCE_SCORE_THRESHOLD

DocumentsOf(sources) == {source.doc : source \in ToSet(sources)}

TermsIn(source, text) == UNION {TermsOf(source.title), TermsOf(source.section), TermsOf(text)}

\* buildEvidenceText and buildCitationText
EvidenceTerms(execution) ==
    UNION {TermsIn(s, FirstOf(s.text, EvidenceLimit)) : s \in ToSet(execution.sources)}

CitedTerms(execution) ==
    UNION {TermsIn(c.chunk, Within(c.chunk.text, c.snippet)) : c \in ToSet(execution.citations)}

CitedDocuments(execution) == {c.chunk.doc : c \in ToSet(execution.citations)}

\* termCoverage(actual, expected) >= percent / 100
Covers(actual, expected, percent) ==
    expected # {} /\ 100 * Cardinality(actual \cap expected) >= percent * Cardinality(expected)

\* lexicalF1(actual, expected) >= percent / 100
F1Reaches(actual, expected, percent) ==
    LET common == Cardinality(actual \cap expected) IN
    common > 0 /\ 200 * common >= percent * (Cardinality(actual) + Cardinality(expected))

-----------------------------------------------------------------------------
\* computeSourceHit
SourceHit(case, execution) ==
    IF case.doc # NoDocument THEN case.doc \in DocumentsOf(execution.sources)
    ELSE IF case.hint # {} THEN Covers(EvidenceTerms(execution), case.hint, 60)
    ELSE execution.sources # <<>>

ExpectedSourceCited(case, execution) == case.doc \in CitedDocuments(execution)

MustCiteAndDoesNot(case, execution) ==
    case.mustCite /\ case.doc # NoDocument /\ ~ ExpectedSourceCited(case, execution)

TooFewDocuments(case, execution) ==
    Cardinality(CitedDocuments(execution)) < case.minDocuments

\* computeEvidenceRelevance
EvidenceRelevance(case, execution) ==
    LET target == IF case.answer # {} THEN case.answer ELSE case.hint
        CitedCovers(percent) == Covers(CitedTerms(execution), target, percent)
        Covered(percent) == Covers(EvidenceTerms(execution), target, percent)
        hit == SourceHit(case, execution)
        points ==
            IF target = {} THEN IF hit THEN 1 ELSE 0
            ELSE IF CitedCovers(55) \/ (hit /\ Covered(55)) THEN 2
            ELSE IF CitedCovers(25) \/ Covered(25) \/ hit THEN 1 ELSE 0
        capped ==
            \/ execution.citations # <<>> /\ TooFewDocuments(case, execution)
            \/ MustCiteAndDoesNot(case, execution)
    IN  IF execution.sources = <<>> THEN 0
        ELSE IF capped /\ points = 2 THEN 1 ELSE points

\* Mutant: an answer with as many citations as there may be loses a point.
CitationPoints_LimitReached(case, execution) ==
    LET cited == {c.chunk : c \in ToSet(execution.citations)} IN
    IF case.outcome = "refusal" THEN IF execution.citations = <<>> THEN 2 ELSE 0
    ELSE IF execution.citations = <<>> \/ ~ cited \subseteq ToSet(execution.sources) THEN 0
    ELSE IF \/ Cardinality(cited) < Len(execution.citations)
            \/ Len(execution.citations) >= CitationLimit
    THEN 1 ELSE 2

\* computeCitationIntegrity
CitationPoints(case, execution) ==
    LET cited == {c.chunk : c \in ToSet(execution.citations)} IN
    IF case.outcome = "refusal" THEN IF execution.citations = <<>> THEN 2 ELSE 0
    ELSE IF execution.citations = <<>> \/ ~ cited \subseteq ToSet(execution.sources) THEN 0
    ELSE IF \/ Cardinality(cited) < Len(execution.citations)
            \/ Len(execution.citations) > CitationLimit
    THEN 1 ELSE 2

\* computeGroundedness
Groundedness(case, execution) ==
    IF execution.status # "grounded" \/ execution.citations = <<>> THEN 0
    ELSE IF /\ CitationPoints(case, execution) = 2
            /\ SourceHit(case, execution) \/ execution.top >= Groundable
    THEN 2 ELSE 1

\* computeAnswerUsefulness; no answer is empty.
Usefulness(case, execution) ==
    LET Reaches(percent) ==
            \/ F1Reaches(execution.answer, case.answer, percent)
            \/ Covers(execution.answer, case.hint, percent)
    IN  IF case.answer = {} /\ case.hint = {}
        THEN IF execution.status = "grounded" THEN 1 ELSE 0
        ELSE IF Reaches(65) THEN 2 ELSE IF Reaches(35) THEN 1 ELSE 0

\* computeRefusalQuality
RefusalQuality(case, execution) ==
    IF execution.status = "grounded" \/ execution.citations # <<>> THEN 0
    ELSE IF execution.status \in case.statuses /\ execution.refusalLike THEN 2 ELSE 1

\* scoreCase: a dimension that does not apply has no points.
CardOf(case, execution) ==
    LET graded == case.outcome = "grounded_answer"
        Points(applies, points) == IF applies THEN points ELSE 0
    IN  [ outcome   |-> case.outcome,
          hit       |-> IF SourceHit(case, execution) THEN 1 ELSE 0,
          relevance |-> Points(graded, EvidenceRelevance(case, execution)),
          grounded  |-> Points(graded, Groundedness(case, execution)),
          useful    |-> Points(graded, Usefulness(case, execution)),
          refusal   |-> Points(~ graded, RefusalQuality(case, execution)),
          cite      |-> CitationPoints(case, execution),
          rules     |-> ~ MustCiteAndDoesNot(case, execution)
                            /\ ~ TooFewDocuments(case, execution) ]

=============================================================================
