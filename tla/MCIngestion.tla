---------------------------- MODULE MCIngestion ----------------------------
(* Ingestion on small instances: the sets are given in the cfg files.      *)
EXTENDS Ingestion, TLC

\* Slots and handlers are interchangeable; used for safety properties only.
Symmetry == Permutations(Workers) \cup Permutations(Callers)

\* Faults under which a job still has one owner at a time: the queue's lock is
\* never lost by a live worker, and nothing commits while its caller sees an error.
OwnershipKeepingFaults ==
    {"add_rejected", "mark_lost", "api_crash", "worker_crash", "db_write"}

=============================================================================
