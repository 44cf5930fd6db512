------------------------------ MODULE IngestDb ------------------------------
(***************************************************************************)
(* The PostgreSQL rows that describe the ingestion of documents, and the   *)
(* transactions the API and the worker run on them.                        *)
(*                                                                         *)
(* Every transaction that changes the status of a document writes the rows *)
(* Document, DocumentVersion and IngestJob together, and all of them lock  *)
(* the version row and the document row, so two of them on one document    *)
(* never overlap: a transaction is one step here.                          *)
(*                                                                         *)
(* Abstractions.  A document has exactly one version (uploadDocument       *)
(* creates versionNumber 1, and nothing creates another).  Jobs are        *)
(* numbered in the order of their creation, which is what                  *)
(* orderBy createdAt sorts by.  maxAttempts is the same for every job: it  *)
(* comes from INGEST_MAX_ATTEMPTS, and a retry copies the old job's.       *)
(* A chunk generation is named by the job and the attempt that wrote it.   *)
(***************************************************************************)
EXTENDS Naturals, FiniteSets

CONSTANTS
    Documents,      \* the documents clients may upload
    NoDocument,     \* the document of a job that does not exist yet
    MaxJobs,        \* bound: IngestJob rows created in a behaviour
    MaxAttempts,    \* INGEST_MAX_ATTEMPTS
    ApiEmbeds,      \* whether the API finds embeddings available
    WorkerEmbeds,   \* whether the worker's embedder is enabled
    FaultKinds,     \* the kinds of fault that may happen in a behaviour
    MaxFaults       \* bound: faults in a behaviour

AllFaultKinds ==
    { "add_rejected",    \* queue.add raises and nothing was queued
      "add_ambiguous",   \* queue.add raises although the job was queued
      "api_crash",       \* the API process dies inside a request
      "mark_lost",       \* the transaction after a failed queue.add fails
      "worker_crash",    \* the worker process dies inside a job
      "lock_lost",       \* a live worker loses its queue lock (blocked loop)
      "db_write",        \* a worker's transaction fails and rolls back
      "db_ack" }         \* a worker's transaction commits, its answer is lost

ASSUME DbAssumption ==
    /\ NoDocument \notin Documents
    /\ MaxJobs \in Nat
    /\ MaxAttempts \in Nat \ {0}
    /\ ApiEmbeds \in BOOLEAN
    /\ WorkerEmbeds \in BOOLEAN
    /\ FaultKinds \subseteq AllFaultKinds
    /\ MaxFaults \in Nat

VARIABLES
    document,   \* Document.status, "NONE" before the upload
    version,    \* DocumentVersion: status, vectorizationStatus, chunkCount
    job,        \* the IngestJob rows
    jobCount,   \* how many of them exist
    chunks,     \* the generation whose chunks have supersededAt IS NULL
    faults      \* faults so far

dbVars == <<document, version, job, jobCount, chunks, faults>>

-----------------------------------------------------------------------------
JobIds == 1..MaxJobs
LiveStatuses == {"WAITING", "ACTIVE"}
TerminalStatuses == {"COMPLETED", "FAILED", "DEAD_LETTER"}
ErrorCodes == {"NONE", "QUEUE_ENQUEUE_FAILED", "TRANSIENT", "PERMANENT"}

JobRow ==
    [ doc       : Documents \cup {NoDocument},
      status    : {"NONE"} \cup LiveStatuses \cup TerminalStatuses,
      attempts  : 0..MaxAttempts,
      retryable : BOOLEAN,
      errorCode : ErrorCodes ]

DocumentStatuses == {"NONE", "QUEUED", "PROCESSING", "INDEXED", "FAILED"}

Generation == [job : 0..MaxJobs, attempt : 0..MaxAttempts]
NoGeneration == [job |-> 0, attempt |-> 0]

\* chunkCount is represented by the generation whose chunks were counted.
VersionRow ==
    [ status        : DocumentStatuses,
      vectorization : {"PENDING", "COMPLETED", "DISABLED", "FAILED"},
      counted       : Generation ]

Exists(j) == job[j].status # "NONE"
Live(j) == job[j].status \in LiveStatuses
Terminal(j) == job[j].status \in TerminalStatuses
JobsOf(d) == {j \in JobIds : Exists(j) /\ job[j].doc = d}

\* orderBy createdAt desc, take 1
IsLatest(j) == \A i \in JobsOf(job[j].doc) : i <= j

DbInit ==
    /\ document = [d \in Documents |-> "NONE"]
    /\ version = [d \in Documents |->
                    [ status        |-> "NONE",
                      vectorization |-> "DISABLED",
                      counted       |-> NoGeneration ]]
    /\ job = [j \in JobIds |->
                [ doc       |-> NoDocument,
                  status    |-> "NONE",
                  attempts  |-> 0,
                  retryable |-> TRUE,
                  errorCode |-> "NONE" ]]
    /\ jobCount = 0
    /\ chunks = [d \in Documents |-> NoGeneration]
    /\ faults = 0

\* The environment spends one of the faults of the behaviour.
Fault(kind) ==
    /\ kind \in FaultKinds
    /\ faults < MaxFaults
    /\ faults' = faults + 1

NoFault == UNCHANGED faults

-----------------------------------------------------------------------------
(* Transactions of the API                                                 *)

InitialVectorization == IF ApiEmbeds THEN "PENDING" ELSE "DISABLED"

SetStatus(d, status, vectorization) ==
    /\ document' = [document EXCEPT ![d] = status]
    /\ version' = [version EXCEPT ![d].status = status,
                                  ![d].vectorization = vectorization]

InsertJob(d) ==
    /\ jobCount < MaxJobs
    /\ jobCount' = jobCount + 1
    /\ job' = [job EXCEPT ![jobCount + 1] =
                [ doc       |-> d,
                  status    |-> "WAITING",
                  attempts  |-> 0,
                  retryable |-> TRUE,
                  errorCode |-> "NONE" ]]

\* Document, version 1 and its first job appear together.
TxCreateDocument(d) ==
    /\ document[d] = "NONE"
    /\ SetStatus(d, "QUEUED", InitialVectorization)
    /\ InsertJob(d)
    /\ UNCHANGED chunks

\* The transaction of a reindex and of an operator's retry.  Its ingestVersion
\* increment counts the jobs of the document, which jobCount does here.
TxRequeue(d) ==
    /\ SetStatus(d, "QUEUED", InitialVectorization)
    /\ InsertJob(d)
    /\ UNCHANGED chunks

\* Mutant: only the job row is marked.
TxEnqueueFailed_JobOnly(j) ==
    /\ job' = [job EXCEPT ![j].status = "FAILED",
                          ![j].errorCode = "QUEUE_ENQUEUE_FAILED",
                          ![j].retryable = TRUE]
    /\ UNCHANGED <<document, version, jobCount, chunks>>

\* markQueueEnqueueFailure: no look at what the rows say by now.
TxEnqueueFailed(j) ==
    LET d == job[j].doc IN
    /\ job' = [job EXCEPT ![j].status = "FAILED",
                          ![j].errorCode = "QUEUE_ENQUEUE_FAILED",
                          ![j].retryable = TRUE]
    /\ SetStatus(d, "FAILED", version[d].vectorization)
    /\ UNCHANGED <<jobCount, chunks>>

-----------------------------------------------------------------------------
(* Transactions of the worker                                              *)

\* The IngestJob CHECK constraint attempts <= maxAttempts lets the row through.
AttemptsLeft(j) == job[j].attempts < MaxAttempts

\* Mutants: a job that failed, or one that completed, is taken up again.
SkippedStatuses_NotFailed == {"COMPLETED", "DEAD_LETTER"}
\* The statuses mark_job_active answers with attempt_no = 0: "skipped".
SkippedStatuses == {"COMPLETED", "FAILED", "DEAD_LETTER"}

TxActivate(j) ==
    LET d == job[j].doc IN
    /\ job[j].status \notin SkippedStatuses
    /\ AttemptsLeft(j)
    /\ job' = [job EXCEPT ![j].status = "ACTIVE",
                          ![j].attempts = @ + 1,
                          ![j].retryable = TRUE,
                          ![j].errorCode = "NONE"]
    /\ SetStatus(d, "PROCESSING", IF WorkerEmbeds THEN "PENDING" ELSE "DISABLED")
    /\ UNCHANGED <<jobCount, chunks>>

\* persist_chunks: supersede the active chunks, insert the new generation.
TxPersistChunks(j, attempt) ==
    /\ chunks' = [chunks EXCEPT ![job[j].doc] = [job |-> j, attempt |-> attempt]]
    /\ UNCHANGED <<document, version, job, jobCount>>

\* Mutant: chunkCount keeps the value of an earlier run.
TxMarkSuccess_StaleCount(j, attempt) ==
    LET d == job[j].doc IN
    /\ job' = [job EXCEPT ![j].status = "COMPLETED",
                          ![j].errorCode = "NONE",
                          ![j].retryable = TRUE]
    /\ SetStatus(d, "INDEXED", IF WorkerEmbeds THEN "COMPLETED" ELSE "DISABLED")
    /\ UNCHANGED <<jobCount, chunks>>

TxMarkSuccess(j, attempt) ==
    LET d == job[j].doc IN
    /\ job' = [job EXCEPT ![j].status = "COMPLETED",
                          ![j].errorCode = "NONE",
                          ![j].retryable = TRUE]
    /\ document' = [document EXCEPT ![d] = "INDEXED"]
    /\ version' = [version EXCEPT
                    ![d] = [ status        |-> "INDEXED",
                             vectorization |-> IF WorkerEmbeds THEN "COMPLETED"
                                                               ELSE "DISABLED",
                             counted       |-> [job |-> j, attempt |-> attempt] ]]
    /\ UNCHANGED <<jobCount, chunks>>

TxMarkRetryWaiting(j) ==
    LET d == job[j].doc IN
    /\ job' = [job EXCEPT ![j].status = "WAITING",
                          ![j].errorCode = "TRANSIENT",
                          ![j].retryable = TRUE]
    /\ SetStatus(d, "PROCESSING", version[d].vectorization)
    /\ UNCHANGED <<jobCount, chunks>>

TxMarkFailure(j, status, code) ==
    LET d == job[j].doc IN
    /\ job' = [job EXCEPT ![j].status = status,
                          ![j].errorCode = code,
                          ![j].retryable = (code = "TRANSIENT")]
    /\ SetStatus(d, "FAILED", IF WorkerEmbeds THEN "FAILED" ELSE "DISABLED")
    /\ UNCHANGED <<jobCount, chunks>>

=============================================================================
