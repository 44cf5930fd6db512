---------------------------- MODULE IngestQueue ----------------------------
(***************************************************************************)
(* The BullMQ queue "ingest" as the two sides use it: the API adds a job    *)
(* under the id of its IngestJob row with attempts = maxAttempts and a      *)
(* backoff, the worker's Worker object takes it under a lock, runs          *)
(* _process_job and reports what the coroutine returned or raised.          *)
(*                                                                         *)
(* BullMQ is a library outside the repository: its rules are written from   *)
(* the options and the exceptions the code gives it.                        *)
(***************************************************************************)
EXTENDS IngestDb

CONSTANTS
    Workers,               \* slots of the worker (WORKER_CONCURRENCY)
    NoWorker,              \* nobody holds the lock
    MaxStalled,            \* BullMQ's maxStalledCount
    HonoursUnrecoverable   \* whether the installed bullmq has UnrecoverableError

ASSUME QueueAssumption ==
    /\ NoWorker \notin Workers
    /\ MaxStalled \in Nat
    /\ HonoursUnrecoverable \in BOOLEAN

VARIABLE queue   \* per job: state, failed attempts, stalls, lock holder

QueueStates == {"absent", "wait", "active", "delayed", "completed", "failed"}

QueueEntry ==
    [ state  : QueueStates,
      made   : 0..MaxAttempts,
      stalls : 0..(MaxStalled + 1),
      holder : Workers \cup {NoWorker} ]

QueueInit ==
    queue = [j \in JobIds |->
                [state |-> "absent", made |-> 0, stalls |-> 0, holder |-> NoWorker]]

\* The job ids are fresh, so an add never meets an existing job.
QueueAdd(j) == queue' = [queue EXCEPT ![j].state = "wait"]

QueueClaim(j, w) ==
    /\ queue[j].state = "wait"
    /\ queue' = [queue EXCEPT ![j] =
                    [ state |-> "active", made |-> @.made, stalls |-> @.stalls, holder |-> w ]]

Holds(w, j) == queue[j].state = "active" /\ queue[j].holder = w

Closed(j, state) ==
    [ state  |-> state,
      made   |-> queue[j].made,
      stalls |-> queue[j].stalls,
      holder |-> NoWorker ]

\* A report of a worker whose lock is gone changes nothing.
Finish(w, j, entry) ==
    queue' = IF Holds(w, j) THEN [queue EXCEPT ![j] = entry] ELSE queue

QueueComplete(w, j) == Finish(w, j, Closed(j, "completed"))

\* Mutant: the options leave the attempts at BullMQ's default.
QueueAttempts_Default == 1

\* The attempts option the API adds every job with.
QueueAttempts == MaxAttempts

\* The coroutine raised: one attempt is used up, and the job waits out its
\* backoff unless none is left.
QueueFailAttempt(w, j) ==
    Finish(w, j,
        [ state  |-> IF queue[j].made + 1 < QueueAttempts THEN "delayed" ELSE "failed",
          made   |-> queue[j].made + 1,
          stalls |-> queue[j].stalls,
          holder |-> NoWorker ])

\* UnrecoverableError fails the job whatever is left.  A bullmq without it
\* sees the consumer's stand-in class, an exception like any other.
QueueFailForGood(w, j) ==
    IF HonoursUnrecoverable
    THEN Finish(w, j, Closed(j, "failed"))
    ELSE QueueFailAttempt(w, j)

\* The backoff of a delayed job is over.
QueuePromote(j) ==
    /\ queue[j].state = "delayed"
    /\ queue' = [queue EXCEPT ![j].state = "wait"]

\* The stalled-job check finds an active job whose lock ran out.
QueueStall(j) ==
    /\ queue[j].state = "active"
    /\ queue' = [queue EXCEPT ![j] =
                    [ state  |-> IF @.stalls < MaxStalled THEN "wait" ELSE "failed",
                      made   |-> @.made,
                      stalls |-> @.stalls + 1,
                      holder |-> NoWorker ]]

\* The queue has given the job up.
Exhausted(j) == queue[j].state = "failed"

=============================================================================
