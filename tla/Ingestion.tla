----------------------------- MODULE Ingestion -----------------------------
(***************************************************************************)
(* Ingestion as a whole: API handlers, the queue and worker slots over one  *)
(* database.  The properties follow.                                        *)
(***************************************************************************)
EXTENDS IngestApi, IngestWorker

vars == <<dbVars, queue, call, work>>

Init == DbInit /\ QueueInit /\ CallInit /\ WorkInit

Next ==
    \/ \E c \in Callers : ApiNext(c) /\ UNCHANGED work
    \/ \E w \in Workers : WorkerNext(w) /\ UNCHANGED call
    \/ \E j \in JobIds : (BackoffOver(j) \/ StallDead(j) \/ StallLive(j)) /\ UNCHANGED call

Spec == Init /\ [][Next]_vars

\* Rows, queue, handlers and slots keep their types; job rows exist in the
\* order of their numbers, and each has its document.
TypeOK ==
    /\ document \in [Documents -> DocumentStatuses]
    /\ version \in [Documents -> VersionRow]
    /\ job \in [JobIds -> JobRow]
    /\ jobCount \in 0..MaxJobs
    /\ chunks \in [Documents -> Generation]
    /\ faults \in 0..MaxFaults
    /\ queue \in [JobIds -> QueueEntry]
    /\ call \in [Callers -> Call]
    /\ work \in [Workers -> Slot]
    /\ \A j \in JobIds : Exists(j) <=> j <= jobCount
    /\ \A j \in JobIds : Exists(j) => job[j].doc \in Documents

-----------------------------------------------------------------------------
(* Under every fault and any number of handlers                            *)

\* What the status of a job says about its document.
Explains(j, d) ==
    /\ job[j].doc = d
    /\ \/ job[j].status = "WAITING" /\ job[j].attempts = 0 /\ document[d] = "QUEUED"
       \/ job[j].status = "WAITING" /\ job[j].attempts > 0 /\ document[d] = "PROCESSING"
       \/ job[j].status = "ACTIVE" /\ document[d] = "PROCESSING"
       \/ job[j].status = "COMPLETED" /\ document[d] = "INDEXED"
       \/ job[j].status \in {"FAILED", "DEAD_LETTER"} /\ document[d] = "FAILED"

\* The status of a document is always the image of the status of one of its
\* jobs, and its version says the same: no order of transactions, crash or
\* lost answer leaves the three rows telling stories that no run could tell.
StatusExplained ==
    \A d \in Documents :
        /\ version[d].status = document[d]
        /\ document[d] # "NONE" => \E j \in JobIds : Explains(j, d)

\* Retrieval selects documents and versions by the status INDEXED and chunks
\* by supersededAt IS NULL: a document that says INDEXED has chunks to find,
\* and its vectorization is over, as the worker's settings have it.
IndexedIsSearchable ==
    \A d \in Documents :
        document[d] = "INDEXED" =>
            /\ chunks[d] # NoGeneration
            /\ version[d].vectorization =
                    IF WorkerEmbeds THEN "COMPLETED" ELSE "DISABLED"

\* Redelivery may put one job on two slots at a time; the FOR UPDATE in
\* mark_job_active gives them different attempt numbers, none of them beyond
\* what the row has counted, so chunks and errors can be told apart.
AttemptNumbersUnique ==
    \A w \in Workers :
        work[w].attempt > 0 =>
            /\ work[w].attempt <= job[work[w].job].attempts
            /\ \A v \in Workers \ {w} :
                    work[v].job = work[w].job => work[v].attempt # work[w].attempt

\* What operators read off a finished job is true: DEAD_LETTER means that all
\* attempts were used on an error worth retrying, FAILED and retryable that
\* the queue never took the job, FAILED and not retryable a permanent error.
TerminalReasons ==
    \A j \in JobIds :
        /\ job[j].status = "DEAD_LETTER" =>
                job[j].attempts = MaxAttempts /\ job[j].errorCode = "TRANSIENT"
        /\ job[j].status = "FAILED" =>
                IF job[j].retryable THEN job[j].errorCode = "QUEUE_ENQUEUE_FAILED"
                                    ELSE job[j].errorCode = "PERMANENT"

\* A job that is finished is not started again, whoever delivers it and
\* however often: mark_job_active skips it.
FinishedNeverRestarts ==
    [][\A j \in JobIds :
        Terminal(j) => job'[j].status # "ACTIVE" /\ job'[j].attempts = job[j].attempts]_vars

-----------------------------------------------------------------------------
(* With one handler at a time, and without lost locks or lost answers      *)

\* "Document version already has an active ingest job",
\* "An ingest job is already queued or running for this version"
OneLiveJob ==
    \A d \in Documents : Cardinality({j \in JobsOf(d) : Live(j)}) <= 1

\* chunkCount is the number of the chunks that retrieval finds.
CountsWhatIsSearched ==
    \A d \in Documents : document[d] = "INDEXED" => version[d].counted = chunks[d]

LatestJob(d) == CHOOSE j \in JobsOf(d) : IsLatest(j)

\* The phase of a document as its own row and its latest job row tell it.
PhaseOf(d) ==
    LET row == job[LatestJob(d)] IN
    CASE document[d] = "NONE" -> "absent"
      [] document[d] = "QUEUED" /\ row.status = "WAITING" -> "queued"
      [] document[d] = "PROCESSING" /\ row.status = "ACTIVE" -> "running"
      [] document[d] = "PROCESSING" /\ row.status = "WAITING" -> "retrying"
      [] document[d] = "INDEXED" /\ row.status = "COMPLETED" -> "indexed"
      [] document[d] = "FAILED" /\ row.status = "FAILED" -> "failed"
      [] document[d] = "FAILED" /\ row.status = "DEAD_LETTER" -> "dead"
      [] OTHER -> "torn"

TriesOf(d) == IF document[d] = "NONE" THEN 0 ELSE job[LatestJob(d)].attempts

Lifecycle == INSTANCE IngestLifecycle WITH
    phase <- [d \in Documents |-> PhaseOf(d)],
    round <- [d \in Documents |-> Cardinality(JobsOf(d))],
    tries <- [d \in Documents |-> TriesOf(d)]

\* Every document follows the state machine of the architecture notes.
FollowsLifecycle == Lifecycle!Spec

-----------------------------------------------------------------------------
(* Progress                                                                *)

\* The queue dropped the job with the attempts, or its stalls, used up.
GivenUp(j) ==
    /\ Exhausted(j)
    /\ job[j].attempts = MaxAttempts \/ queue[j].stalls > MaxStalled

\* Every job is finished in the end, or given up by the queue.
JobsSettle == \A j \in JobIds : Live(j) ~> Terminal(j) \/ GivenUp(j)

\* Handlers and slots that have started go on, idle slots take what waits,
\* backoffs end and the stalled check runs.  Nobody has to send a request, and
\* no fault has to happen.
Fairness ==
    /\ \A c \in Callers : WF_vars(CallStep(c) /\ UNCHANGED work)
    /\ \A w \in Workers : WF_vars(WorkStep(w) /\ UNCHANGED call)
    /\ WF_vars(\E w \in Workers, j \in JobIds : Claim(w, j) /\ UNCHANGED call)
    /\ \A j \in JobIds : WF_vars((BackoffOver(j) \/ StallDead(j)) /\ UNCHANGED call)

FairSpec == Spec /\ Fairness

\* "Retry limit exceeded: IngestJob.status = DEAD_LETTER"
RetryLimitDeadLetters ==
    \A j \in JobIds :
        Exhausted(j) /\ queue[j].made = QueueAttempts => job[j].status = "DEAD_LETTER"

=============================================================================
