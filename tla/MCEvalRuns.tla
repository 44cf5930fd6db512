----------------------------- MODULE MCEvalRuns -----------------------------
(* Evaluation runs on small instances.                                     *)
EXTENDS EvalRuns, TLC

\* Full points; the other result a case may have is FailedCard.
FullCard ==
    { [ outcome |-> "grounded_answer", hit |-> 1, relevance |-> 2, grounded |-> 2,
        useful |-> 2, refusal |-> 0, cite |-> 2, rules |-> TRUE ] }

\* Requests and cases are interchangeable; used for safety properties only.
Symmetry == Permutations(Runs) \cup Permutations(Cases)
RunSymmetry == Permutations(Runs)

=============================================================================
