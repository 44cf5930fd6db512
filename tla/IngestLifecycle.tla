-------------------------- MODULE IngestLifecycle --------------------------
(***************************************************************************)
(* What ingestion promises about one document, as the state machine of the  *)
(* architecture notes has it: rounds of an upload and its reindexes, each   *)
(* with a bounded number of tries and exactly one outcome, and no new round *)
(* before the outcome of the last.                                          *)
(***************************************************************************)
EXTENDS Naturals

CONSTANTS Documents, MaxAttempts

VARIABLES phase, round, tries

vars == <<phase, round, tries>>

Settled == {"indexed", "failed", "dead"}

Init ==
    /\ phase = [d \in Documents |-> "absent"]
    /\ round = [d \in Documents |-> 0]
    /\ tries = [d \in Documents |-> 0]

Move(d, p) ==
    /\ phase' = [phase EXCEPT ![d] = p]
    /\ UNCHANGED <<round, tries>>

Submit(d) ==
    /\ phase[d] \in Settled \cup {"absent"}
    /\ phase' = [phase EXCEPT ![d] = "queued"]
    /\ round' = [round EXCEPT ![d] = @ + 1]
    /\ tries' = [tries EXCEPT ![d] = 0]

\* The queue did not take the job.
Reject(d) == phase[d] = "queued" /\ Move(d, "failed")

\* A try starts; one that was cut off by a crash starts over.
Start(d) ==
    /\ phase[d] \in {"queued", "retrying", "running"}
    /\ tries[d] < MaxAttempts
    /\ phase' = [phase EXCEPT ![d] = "running"]
    /\ tries' = [tries EXCEPT ![d] = @ + 1]
    /\ UNCHANGED round

Retry(d) == phase[d] = "running" /\ tries[d] < MaxAttempts /\ Move(d, "retrying")
GiveUp(d) == phase[d] = "running" /\ tries[d] = MaxAttempts /\ Move(d, "dead")
Index(d) == phase[d] = "running" /\ Move(d, "indexed")
Fail(d) == phase[d] = "running" /\ Move(d, "failed")

Next ==
    \E d \in Documents :
        \/ Submit(d) \/ Reject(d) \/ Start(d)
        \/ Retry(d) \/ GiveUp(d) \/ Index(d) \/ Fail(d)

Spec == Init /\ [][Next]_vars

=============================================================================
