-------------------------- MODULE IngestionProofs --------------------------
(***************************************************************************)
(* Safety of ingestion for any number of documents, jobs, attempts,         *)
(* handlers, slots and faults: the inductive invariant IInv and what        *)
(* follows from it.                                                         *)
(*                                                                         *)
(* The argument has two layers.  A transaction keeps the database           *)
(* consistent (DbOK) and only ever adds to it (DbGrows), given that its job *)
(* exists and its attempt was counted.  The steps of handlers and slots     *)
(* keep exactly these premises: what a slot remembers of its job (SlotOK)   *)
(* survives every transaction of everybody else, because the database only  *)
(* grows.                                                                   *)
(*                                                                         *)
(* The second part supposes one owner of a job at a time and proves the     *)
(* life cycle.  The third goes into the one transaction that the first two  *)
(* take as a step, the replacement of a version's chunks.                   *)
(***************************************************************************)
EXTENDS Ingestion, ChunkStore, FiniteSetTheorems, TLAPS

Born == 1..jobCount

DbType ==
    /\ document \in [Documents -> DocumentStatuses]
    /\ version \in [Documents -> VersionRow]
    /\ job \in [JobIds -> JobRow]
    /\ jobCount \in 0..MaxJobs
    /\ chunks \in [Documents -> Generation]
    /\ \A j \in JobIds : Exists(j) <=> j <= jobCount
    /\ \A j \in JobIds : Exists(j) => job[j].doc \in Documents

DbOK == DbType /\ StatusExplained /\ IndexedIsSearchable /\ TerminalReasons

\* Jobs and documents stay, attempts are never uncounted, and a document that
\* has had chunks keeps having some.
DbGrows ==
    /\ jobCount' >= jobCount
    /\ \A j \in Born : job'[j].doc = job[j].doc /\ job'[j].attempts >= job[j].attempts
    /\ \A d \in Documents : chunks[d] # NoGeneration => chunks'[d] # NoGeneration
    /\ \A d \in Documents : document[d] # "NONE" => document'[d] # "NONE"

EntryOK(j) ==
    /\ queue[j] \in QueueEntry
    /\ queue[j].state # "absent" => j \in Born
    /\ queue[j].state \notin {"completed", "failed"} =>
            queue[j].made < MaxAttempts /\ queue[j].stalls <= MaxStalled

CallOK(c) ==
    /\ call[c] \in Call
    /\ call[c].pc \in {"reindex_checked", "retry_found", "retry_latest", "retry_checked"} =>
            call[c].doc \in Documents
    /\ call[c].pc \in {"committed", "add_failed"} => call[c].job \in Born
    /\ call[c].pc = "committed" => queue[call[c].job].state = "absent"

\* Two handlers never hold the same new job.
NewJobsDistinct ==
    \A b, c \in Callers :
        /\ b # c
        /\ call[b].pc \in {"committed", "add_failed"}
        /\ call[c].pc \in {"committed", "add_failed"}
        => call[b].job # call[c].job

SlotOK(w) ==
    /\ work[w] \in Slot
    /\ work[w].pc # "idle" => work[w].job \in Born
    /\ work[w].attempt > 0 =>
            work[w].job \in Born /\ work[w].attempt <= job[work[w].job].attempts
    /\ work[w].pc \in {"running", "persisted", "retryable", "permanent"} => work[w].attempt > 0
    /\ work[w].pc \in {"idle", "claimed"} => work[w].attempt = 0
    /\ work[w].pc = "persisted" => chunks[job[work[w].job].doc] # NoGeneration

QueueOK ==
    /\ queue \in [JobIds -> QueueEntry]
    /\ \A j \in JobIds : EntryOK(j)

CallsOK ==
    /\ call \in [Callers -> Call]
    /\ \A c \in Callers : CallOK(c)
    /\ NewJobsDistinct

WorkOK ==
    /\ work \in [Workers -> Slot]
    /\ \A w \in Workers : SlotOK(w)
    /\ AttemptNumbersUnique

IInv ==
    /\ DbOK
    /\ faults \in 0..MaxFaults
    /\ QueueOK
    /\ CallsOK
    /\ WorkOK

-----------------------------------------------------------------------------
(* The transactions                                                        *)

\* Inserting a document or a job (upload, reindex, retry) keeps the database
\* consistent and takes the next free job number.
LEMMA CreateDb ==
    ASSUME DbOK, NEW d \in Documents, InsertJob(d),
           SetStatus(d, "QUEUED", InitialVectorization), UNCHANGED chunks
    PROVE  DbOK' /\ DbGrows /\ jobCount' = jobCount + 1 /\ jobCount + 1 \in JobIds
<1> USE DbAssumption DEF DbOK, DbType, SetStatus, InsertJob, JobIds, Born
<1>1. jobCount + 1 \in JobIds /\ jobCount' = jobCount + 1
  OBVIOUS
<1>2. DbType'
  <2>1. document' \in [Documents -> DocumentStatuses]
    BY DEF DocumentStatuses
  <2>2. version' \in [Documents -> VersionRow]
    BY ZenonT(30) DEF DocumentStatuses, VersionRow, InitialVectorization
  <2>3. job' \in [JobIds -> JobRow]
    BY <1>1 DEF JobRow, LiveStatuses, ErrorCodes
  <2>4. \A j \in JobIds : Exists(j)' <=> j <= jobCount'
    BY <1>1 DEF Exists, JobRow
  <2>5. \A j \in JobIds : Exists(j)' => job'[j].doc \in Documents
    BY <1>1 DEF Exists, JobRow
  <2> QED BY <1>1, <2>1, <2>2, <2>3, <2>4, <2>5
<1>3. StatusExplained'
  <2> SUFFICES ASSUME NEW e \in Documents
               PROVE  /\ version'[e].status = document'[e]
                      /\ document'[e] # "NONE" => \E j \in JobIds : Explains(j, e)'
    BY DEF StatusExplained
  <2>1. version'[e].status = document'[e]
    BY DEF StatusExplained, VersionRow
  <2>2. CASE e = d
    BY <1>1, <2>1, <2>2 DEF Explains
  <2>3. CASE e # d
    <3>1. document'[e] = document[e]
      BY <2>3
    <3>2. \A j \in JobIds : Explains(j, e) => j # jobCount + 1
      BY <1>1 DEF Explains, Exists
    <3>3. \A j \in JobIds : Explains(j, e) => Explains(j, e)'
      BY <3>1, <3>2 DEF Explains
    <3> QED BY <2>1, <3>1, <3>3 DEF StatusExplained
  <2> QED BY <2>2, <2>3
<1>4. IndexedIsSearchable'
  BY DEF IndexedIsSearchable, VersionRow
<1>5. TerminalReasons'
  BY <1>1 DEF TerminalReasons, JobRow
<1>6. DbGrows
  BY <1>1 DEF DbGrows, JobRow, Exists
<1> QED BY <1>1, <1>2, <1>3, <1>4, <1>5, <1>6

\* What a transaction on the job j of a worker or a handler does to the rows:
\* it writes the row of j, and the rows of its document, so that one explains
\* the other.
JobTx(j) ==
    /\ job' = [job EXCEPT ![j] = job'[j]]
    /\ job'[j] \in JobRow
    /\ job'[j].doc = job[j].doc
    /\ job'[j].status # "NONE"
    /\ job'[j].attempts >= job[j].attempts
    /\ document' = [document EXCEPT ![job[j].doc] = document'[job[j].doc]]
    /\ version' = [version EXCEPT ![job[j].doc] = version'[job[j].doc]]
    /\ version'[job[j].doc] \in VersionRow
    /\ document'[job[j].doc] = version'[job[j].doc].status
    /\ Explains(j, job[j].doc)'
    /\ jobCount' = jobCount
    /\ chunks' = chunks

\* The common part of every transaction on one job: when the rows it writes
\* agree with each other, the database stays consistent and only grows.
LEMMA JobTxDb ==
    ASSUME DbOK, NEW j \in Born, JobTx(j),
           \* the conjuncts of the invariants about the rows that were written
           document'[job[j].doc] = "INDEXED" =>
               /\ chunks[job[j].doc] # NoGeneration
               /\ version'[job[j].doc].vectorization =
                    IF WorkerEmbeds THEN "COMPLETED" ELSE "DISABLED",
           job'[j].status = "DEAD_LETTER" =>
               job'[j].attempts = MaxAttempts /\ job'[j].errorCode = "TRANSIENT",
           job'[j].status = "FAILED" =>
               IF job'[j].retryable THEN job'[j].errorCode = "QUEUE_ENQUEUE_FAILED"
                                    ELSE job'[j].errorCode = "PERMANENT"
    PROVE  DbOK' /\ DbGrows
<1> DEFINE d == job[j].doc
<1> USE DbAssumption DEF DbOK, DbType, JobIds, Born
<1>1. j \in JobIds /\ d \in Documents
  BY DEF Exists
<1>2. /\ \A i \in JobIds : i # j => job'[i] = job[i]
      /\ \A e \in Documents : e # d => document'[e] = document[e] /\ version'[e] = version[e]
  BY <1>1 DEF JobTx
<1>3. DbType'
  <2>1. document'[d] \in DocumentStatuses
    BY DEF JobTx, VersionRow
  <2>2. document' \in [Documents -> DocumentStatuses] /\ version' \in [Documents -> VersionRow]
    BY <1>1, <2>1 DEF JobTx
  <2>3. job' \in [JobIds -> JobRow]
    BY <1>1 DEF JobTx
  <2>4. \A i \in JobIds : Exists(i)' <=> i <= jobCount'
    BY <1>1, <1>2 DEF Exists, JobTx
  <2>5. \A i \in JobIds : Exists(i)' => job'[i].doc \in Documents
    BY <1>1, <1>2 DEF Exists, JobTx
  <2> QED BY <2>2, <2>3, <2>4, <2>5 DEF JobTx
<1>4. StatusExplained'
  <2> SUFFICES ASSUME NEW e \in Documents
               PROVE  /\ version'[e].status = document'[e]
                      /\ document'[e] # "NONE" => \E i \in JobIds : Explains(i, e)'
    BY DEF StatusExplained
  <2>1. CASE e = d
    BY <1>1, <2>1 DEF JobTx
  <2>2. CASE e # d
    <3>1. \A i \in JobIds : Explains(i, e) => Explains(i, e)'
      BY <1>2, <2>2 DEF Explains
    <3> QED BY <1>2, <2>2, <3>1 DEF StatusExplained
  <2> QED BY <2>1, <2>2
<1>5. IndexedIsSearchable'
  BY <1>1, <1>2 DEF IndexedIsSearchable, JobTx
<1>6. TerminalReasons'
  BY <1>1, <1>2 DEF TerminalReasons, JobTx
<1>7. DbGrows
  <2>1. \A i \in Born : job'[i].doc = job[i].doc /\ job'[i].attempts >= job[i].attempts
    BY <1>1, <1>2 DEF JobTx, JobRow
  <2>2. \A e \in Documents : document[e] # "NONE" => document'[e] # "NONE"
    BY <1>1, <1>2 DEF JobTx, Explains
  <2> QED BY <2>1, <2>2 DEF DbGrows, JobTx
<1> QED BY <1>3, <1>4, <1>5, <1>6, <1>7

\* mark_job_active keeps the database consistent and counts one attempt.
LEMMA ActivateDb ==
    ASSUME DbOK, NEW j \in Born, TxActivate(j)
    PROVE  /\ DbOK' /\ DbGrows
           /\ JobTx(j) /\ job'[j].status = "ACTIVE" /\ job'[j].attempts = job[j].attempts + 1
<1> DEFINE d == job[j].doc
<1> USE DbAssumption DEF DbOK, DbType, JobIds, Born
<1>1. /\ j \in JobIds /\ job[j] \in JobRow
      /\ d \in Documents /\ version[d] \in VersionRow
  BY DEF Exists
<1>2. /\ job' = [job EXCEPT ![j] = job'[j]]
      /\ job'[j] = [doc |-> d, status |-> "ACTIVE", attempts |-> job[j].attempts + 1,
                    retryable |-> TRUE, errorCode |-> "NONE"]
  BY <1>1 DEF TxActivate, JobRow
<1>3. /\ version' = [version EXCEPT ![d] = version'[d]]
      /\ version'[d] = [status |-> "PROCESSING", counted |-> version[d].counted,
                        vectorization |-> IF WorkerEmbeds THEN "PENDING" ELSE "DISABLED"]
  BY <1>1 DEF TxActivate, SetStatus, VersionRow
<1>4. job'[j] \in JobRow
  BY <1>1, <1>2 DEF TxActivate, AttemptsLeft, JobRow, LiveStatuses, TerminalStatuses, ErrorCodes
<1>5. version'[d] \in VersionRow
  BY <1>1, <1>3 DEF VersionRow, DocumentStatuses
<1>6. document' = [document EXCEPT ![d] = "PROCESSING"] /\ UNCHANGED <<jobCount, chunks>>
  BY DEF TxActivate, SetStatus
<1>7. JobTx(j)
  BY <1>1, <1>2, <1>3, <1>4, <1>5, <1>6 DEF JobTx, Explains, JobRow
<1>8. /\ document'[d] = "INDEXED" =>
            /\ chunks[d] # NoGeneration
            /\ version'[d].vectorization = IF WorkerEmbeds THEN "COMPLETED" ELSE "DISABLED"
      /\ job'[j].status = "DEAD_LETTER" =>
            job'[j].attempts = MaxAttempts /\ job'[j].errorCode = "TRANSIENT"
      /\ job'[j].status = "FAILED" =>
            IF job'[j].retryable THEN job'[j].errorCode = "QUEUE_ENQUEUE_FAILED"
                                 ELSE job'[j].errorCode = "PERMANENT"
  BY <1>1, <1>2, <1>3, <1>6
<1>9. DbOK' /\ DbGrows
  BY <1>7, <1>8, JobTxDb
<1> QED BY <1>2, <1>7, <1>9

\* mark_job_success keeps the database consistent when its job was activated
\* and its chunks were written before.
LEMMA MarkSuccessDb ==
    ASSUME DbOK, NEW j \in Born, NEW a \in 0..MaxAttempts, TxMarkSuccess(j, a),
           job[j].attempts > 0, chunks[job[j].doc] # NoGeneration
    PROVE  /\ DbOK' /\ DbGrows
           /\ JobTx(j) /\ job'[j].status = "COMPLETED" /\ job'[j].attempts = job[j].attempts
           /\ version'[job[j].doc].counted = [job |-> j, attempt |-> a]
<1> DEFINE d == job[j].doc
<1> USE DbAssumption DEF DbOK, DbType, JobIds, Born
<1>1. /\ j \in JobIds /\ job[j] \in JobRow
      /\ d \in Documents /\ version[d] \in VersionRow
  BY DEF Exists
<1>2. /\ job' = [job EXCEPT ![j] = job'[j]]
      /\ job'[j] = [doc |-> d, status |-> "COMPLETED", attempts |-> job[j].attempts,
                    retryable |-> TRUE, errorCode |-> "NONE"]
  BY <1>1 DEF TxMarkSuccess, JobRow
<1>3. /\ version' = [version EXCEPT ![d] = version'[d]]
      /\ version'[d] = [status |-> "INDEXED", counted |-> [job |-> j, attempt |-> a],
                        vectorization |-> IF WorkerEmbeds THEN "COMPLETED" ELSE "DISABLED"]
  BY <1>1 DEF TxMarkSuccess, SetStatus, VersionRow
<1>4. job'[j] \in JobRow
  BY <1>1, <1>2 DEF TxMarkSuccess, AttemptsLeft, JobRow, LiveStatuses, TerminalStatuses, ErrorCodes
<1>5. version'[d] \in VersionRow
  BY <1>1, <1>3 DEF VersionRow, DocumentStatuses, Generation
<1>6. document' = [document EXCEPT ![d] = "INDEXED"] /\ UNCHANGED <<jobCount, chunks>>
  BY DEF TxMarkSuccess, SetStatus
<1>7. JobTx(j)
  BY <1>1, <1>2, <1>3, <1>4, <1>5, <1>6 DEF JobTx, Explains, JobRow
<1>8. /\ document'[d] = "INDEXED" =>
            /\ chunks[d] # NoGeneration
            /\ version'[d].vectorization = IF WorkerEmbeds THEN "COMPLETED" ELSE "DISABLED"
      /\ job'[j].status = "DEAD_LETTER" =>
            job'[j].attempts = MaxAttempts /\ job'[j].errorCode = "TRANSIENT"
      /\ job'[j].status = "FAILED" =>
            IF job'[j].retryable THEN job'[j].errorCode = "QUEUE_ENQUEUE_FAILED"
                                 ELSE job'[j].errorCode = "PERMANENT"
  BY <1>1, <1>2, <1>3, <1>6
<1>9. DbOK' /\ DbGrows
  BY <1>7, <1>8, JobTxDb
<1> QED BY <1>2, <1>3, <1>7, <1>9

\* mark_job_retry_waiting keeps the database consistent for an activated job.
LEMMA MarkRetryWaitingDb ==
    ASSUME DbOK, NEW j \in Born, TxMarkRetryWaiting(j), job[j].attempts > 0
    PROVE  /\ DbOK' /\ DbGrows
           /\ JobTx(j) /\ job'[j].status = "WAITING" /\ job'[j].attempts = job[j].attempts
<1> DEFINE d == job[j].doc
<1> USE DbAssumption DEF DbOK, DbType, JobIds, Born
<1>1. /\ j \in JobIds /\ job[j] \in JobRow
      /\ d \in Documents /\ version[d] \in VersionRow
  BY DEF Exists
<1>2. /\ job' = [job EXCEPT ![j] = job'[j]]
      /\ job'[j] = [doc |-> d, status |-> "WAITING", attempts |-> job[j].attempts,
                    retryable |-> TRUE, errorCode |-> "TRANSIENT"]
  BY <1>1 DEF TxMarkRetryWaiting, JobRow
<1>3. /\ version' = [version EXCEPT ![d] = version'[d]]
      /\ version'[d] = [status |-> "PROCESSING", counted |-> version[d].counted,
                        vectorization |-> version[d].vectorization]
  BY <1>1 DEF TxMarkRetryWaiting, SetStatus, VersionRow
<1>4. job'[j] \in JobRow
  BY <1>1, <1>2 DEF TxMarkRetryWaiting, AttemptsLeft, JobRow, LiveStatuses, TerminalStatuses, ErrorCodes
<1>5. version'[d] \in VersionRow
  BY <1>1, <1>3 DEF VersionRow, DocumentStatuses
<1>6. document' = [document EXCEPT ![d] = "PROCESSING"] /\ UNCHANGED <<jobCount, chunks>>
  BY DEF TxMarkRetryWaiting, SetStatus
<1>7. JobTx(j)
  BY <1>1, <1>2, <1>3, <1>4, <1>5, <1>6 DEF JobTx, Explains, JobRow
<1>8. /\ document'[d] = "INDEXED" =>
            /\ chunks[d] # NoGeneration
            /\ version'[d].vectorization = IF WorkerEmbeds THEN "COMPLETED" ELSE "DISABLED"
      /\ job'[j].status = "DEAD_LETTER" =>
            job'[j].attempts = MaxAttempts /\ job'[j].errorCode = "TRANSIENT"
      /\ job'[j].status = "FAILED" =>
            IF job'[j].retryable THEN job'[j].errorCode = "QUEUE_ENQUEUE_FAILED"
                                 ELSE job'[j].errorCode = "PERMANENT"
  BY <1>1, <1>2, <1>3, <1>6
<1>9. DbOK' /\ DbGrows
  BY <1>7, <1>8, JobTxDb
<1> QED BY <1>2, <1>7, <1>9

\* mark_job_failure with a permanent error keeps the database consistent.
LEMMA MarkFailureDb ==
    ASSUME DbOK, NEW j \in Born, TxMarkFailure(j, "FAILED", "PERMANENT")
    PROVE  /\ DbOK' /\ DbGrows
           /\ JobTx(j) /\ job'[j].status = "FAILED" /\ job'[j].attempts = job[j].attempts
<1> DEFINE d == job[j].doc
<1> USE DbAssumption DEF DbOK, DbType, JobIds, Born
<1>1. /\ j \in JobIds /\ job[j] \in JobRow
      /\ d \in Documents /\ version[d] \in VersionRow
  BY DEF Exists
<1>2. /\ job' = [job EXCEPT ![j] = job'[j]]
      /\ job'[j] = [doc |-> d, status |-> "FAILED", attempts |-> job[j].attempts,
                    retryable |-> FALSE, errorCode |-> "PERMANENT"]
  BY <1>1 DEF TxMarkFailure, JobRow
<1>3. /\ version' = [version EXCEPT ![d] = version'[d]]
      /\ version'[d] = [status |-> "FAILED", counted |-> version[d].counted,
                        vectorization |-> IF WorkerEmbeds THEN "FAILED" ELSE "DISABLED"]
  BY <1>1 DEF TxMarkFailure, SetStatus, VersionRow
<1>4. job'[j] \in JobRow
  BY <1>1, <1>2 DEF TxMarkFailure, AttemptsLeft, JobRow, LiveStatuses, TerminalStatuses, ErrorCodes
<1>5. version'[d] \in VersionRow
  BY <1>1, <1>3 DEF VersionRow, DocumentStatuses
<1>6. document' = [document EXCEPT ![d] = "FAILED"] /\ UNCHANGED <<jobCount, chunks>>
  BY DEF TxMarkFailure, SetStatus
<1>7. JobTx(j)
  BY <1>1, <1>2, <1>3, <1>4, <1>5, <1>6 DEF JobTx, Explains, JobRow
<1>8. /\ document'[d] = "INDEXED" =>
            /\ chunks[d] # NoGeneration
            /\ version'[d].vectorization = IF WorkerEmbeds THEN "COMPLETED" ELSE "DISABLED"
      /\ job'[j].status = "DEAD_LETTER" =>
            job'[j].attempts = MaxAttempts /\ job'[j].errorCode = "TRANSIENT"
      /\ job'[j].status = "FAILED" =>
            IF job'[j].retryable THEN job'[j].errorCode = "QUEUE_ENQUEUE_FAILED"
                                 ELSE job'[j].errorCode = "PERMANENT"
  BY <1>1, <1>2, <1>3, <1>6
<1>9. DbOK' /\ DbGrows
  BY <1>7, <1>8, JobTxDb
<1> QED BY <1>2, <1>7, <1>9

\* mark_job_failure into the dead letter status keeps the database consistent
\* when all attempts are used.
LEMMA DeadLetterDb ==
    ASSUME DbOK, NEW j \in Born, TxMarkFailure(j, "DEAD_LETTER", "TRANSIENT"),
           job[j].attempts = MaxAttempts
    PROVE  /\ DbOK' /\ DbGrows
           /\ JobTx(j) /\ job'[j].status = "DEAD_LETTER" /\ job'[j].attempts = job[j].attempts
<1> DEFINE d == job[j].doc
<1> USE DbAssumption DEF DbOK, DbType, JobIds, Born
<1>1. /\ j \in JobIds /\ job[j] \in JobRow
      /\ d \in Documents /\ version[d] \in VersionRow
  BY DEF Exists
<1>2. /\ job' = [job EXCEPT ![j] = job'[j]]
      /\ job'[j] = [doc |-> d, status |-> "DEAD_LETTER", attempts |-> job[j].attempts,
                    retryable |-> TRUE, errorCode |-> "TRANSIENT"]
  BY <1>1 DEF TxMarkFailure, JobRow
<1>3. /\ version' = [version EXCEPT ![d] = version'[d]]
      /\ version'[d] = [status |-> "FAILED", counted |-> version[d].counted,
                        vectorization |-> IF WorkerEmbeds THEN "FAILED" ELSE "DISABLED"]
  BY <1>1 DEF TxMarkFailure, SetStatus, VersionRow
<1>4. job'[j] \in JobRow
  BY <1>1, <1>2 DEF TxMarkFailure, AttemptsLeft, JobRow, LiveStatuses, TerminalStatuses, ErrorCodes
<1>5. version'[d] \in VersionRow
  BY <1>1, <1>3 DEF VersionRow, DocumentStatuses
<1>6. document' = [document EXCEPT ![d] = "FAILED"] /\ UNCHANGED <<jobCount, chunks>>
  BY DEF TxMarkFailure, SetStatus
<1>7. JobTx(j)
  BY <1>1, <1>2, <1>3, <1>4, <1>5, <1>6 DEF JobTx, Explains, JobRow
<1>8. /\ document'[d] = "INDEXED" =>
            /\ chunks[d] # NoGeneration
            /\ version'[d].vectorization = IF WorkerEmbeds THEN "COMPLETED" ELSE "DISABLED"
      /\ job'[j].status = "DEAD_LETTER" =>
            job'[j].attempts = MaxAttempts /\ job'[j].errorCode = "TRANSIENT"
      /\ job'[j].status = "FAILED" =>
            IF job'[j].retryable THEN job'[j].errorCode = "QUEUE_ENQUEUE_FAILED"
                                 ELSE job'[j].errorCode = "PERMANENT"
  BY <1>1, <1>2, <1>3, <1>6
<1>9. DbOK' /\ DbGrows
  BY <1>7, <1>8, JobTxDb
<1> QED BY <1>2, <1>7, <1>9

\* The transaction of a handler whose queue.add failed keeps the database
\* consistent, also when a worker has meanwhile run the job.
LEMMA EnqueueFailedDb ==
    ASSUME DbOK, NEW j \in Born, TxEnqueueFailed(j)
    PROVE  /\ DbOK' /\ DbGrows
           /\ JobTx(j) /\ job'[j].status = "FAILED" /\ job'[j].attempts = job[j].attempts
<1> DEFINE d == job[j].doc
<1> USE DbAssumption DEF DbOK, DbType, JobIds, Born
<1>1. /\ j \in JobIds /\ job[j] \in JobRow
      /\ d \in Documents /\ version[d] \in VersionRow
  BY DEF Exists
<1>2. /\ job' = [job EXCEPT ![j] = job'[j]]
      /\ job'[j] = [doc |-> d, status |-> "FAILED", attempts |-> job[j].attempts,
                    retryable |-> TRUE, errorCode |-> "QUEUE_ENQUEUE_FAILED"]
  BY <1>1 DEF TxEnqueueFailed, JobRow
<1>3. /\ version' = [version EXCEPT ![d] = version'[d]]
      /\ version'[d] = [status |-> "FAILED", counted |-> version[d].counted,
                        vectorization |-> version[d].vectorization]
  BY <1>1 DEF TxEnqueueFailed, SetStatus, VersionRow
<1>4. job'[j] \in JobRow
  BY <1>1, <1>2 DEF TxEnqueueFailed, AttemptsLeft, JobRow, LiveStatuses, TerminalStatuses, ErrorCodes
<1>5. version'[d] \in VersionRow
  BY <1>1, <1>3 DEF VersionRow, DocumentStatuses
<1>6. document' = [document EXCEPT ![d] = "FAILED"] /\ UNCHANGED <<jobCount, chunks>>
  BY DEF TxEnqueueFailed, SetStatus
<1>7. JobTx(j)
  BY <1>1, <1>2, <1>3, <1>4, <1>5, <1>6 DEF JobTx, Explains, JobRow
<1>8. /\ document'[d] = "INDEXED" =>
            /\ chunks[d] # NoGeneration
            /\ version'[d].vectorization = IF WorkerEmbeds THEN "COMPLETED" ELSE "DISABLED"
      /\ job'[j].status = "DEAD_LETTER" =>
            job'[j].attempts = MaxAttempts /\ job'[j].errorCode = "TRANSIENT"
      /\ job'[j].status = "FAILED" =>
            IF job'[j].retryable THEN job'[j].errorCode = "QUEUE_ENQUEUE_FAILED"
                                 ELSE job'[j].errorCode = "PERMANENT"
  BY <1>1, <1>2, <1>3, <1>6
<1>9. DbOK' /\ DbGrows
  BY <1>7, <1>8, JobTxDb
<1> QED BY <1>2, <1>7, <1>9

\* persist_chunks keeps the database consistent and leaves the version with
\* chunks.
LEMMA PersistChunksDb ==
    ASSUME DbOK, NEW j \in Born, NEW a \in 0..MaxAttempts, TxPersistChunks(j, a)
    PROVE  DbOK' /\ DbGrows /\ chunks'[job'[j].doc] # NoGeneration
<1> USE DbAssumption DEF DbOK, DbType, JobIds, Born, TxPersistChunks
<1>1. j \in JobIds /\ job[j].doc \in Documents
  BY DEF Exists
<1>2. [job |-> j, attempt |-> a] # NoGeneration
  BY <1>1 DEF NoGeneration
<1>3. chunks' \in [Documents -> Generation]
  BY <1>1 DEF Generation
<1>4. DbType'
  BY <1>3 DEF Exists
<1>5. StatusExplained' /\ TerminalReasons'
  BY DEF StatusExplained, TerminalReasons, Explains
<1>6. IndexedIsSearchable'
  BY <1>1, <1>2 DEF IndexedIsSearchable
<1>7. DbGrows
  BY <1>1, <1>2, <1>4 DEF DbGrows, JobRow
<1> QED BY <1>1, <1>2, <1>4, <1>5, <1>6, <1>7

\* A step that writes no row keeps the database consistent.
LEMMA RowsKeptDb ==
    ASSUME DbOK, RowsKept
    PROVE  DbOK' /\ DbGrows
<1> USE DEF DbOK, DbType, RowsKept
<1>1. DbType'
  BY DEF Exists
<1>2. StatusExplained' /\ TerminalReasons' /\ IndexedIsSearchable'
  BY DEF StatusExplained, TerminalReasons, IndexedIsSearchable, Explains
<1>3. DbGrows
  BY DbAssumption DEF DbGrows, Born, JobRow, JobIds
<1> QED BY <1>1, <1>2, <1>3

-----------------------------------------------------------------------------
(* What everybody else's steps leave as it was                             *)

\* A job that is not in the queue stays out of it.
AbsentKept == \A j \in JobIds : queue[j].state = "absent" => queue'[j] = queue[j]

\* Every step leaves the number of faults within its bound.
LEMMA FaultsBounded ==
    ASSUME faults \in 0..MaxFaults, NoFault \/ \E kind \in AllFaultKinds : Fault(kind)
    PROVE  faults' \in 0..MaxFaults
BY DbAssumption DEF NoFault, Fault

\* A job that exists goes on existing.
LEMMA BornGrows ==
    ASSUME DbOK, DbOK', DbGrows
    PROVE  \A j \in Born : j \in Born' /\ j \in JobIds
<1>1. jobCount \in Nat /\ jobCount' \in Nat /\ jobCount <= MaxJobs
  BY DbAssumption DEF DbOK, DbType
<1> QED BY <1>1, DbAssumption DEF DbGrows, Born, JobIds

\* What a slot remembers of its job survives every transaction of the others.
LEMMA SlotKept ==
    ASSUME DbOK, DbOK', DbGrows, NEW w \in Workers, SlotOK(w), work'[w] = work[w]
    PROVE  SlotOK(w)'
<1>1. work[w].job \in Born => work[w].job \in Born'
  BY DEF DbOK, DbType, DbGrows, Born
<1>2. work[w].job \in Born =>
        /\ work[w].job \in JobIds
        /\ job'[work[w].job].doc = job[work[w].job].doc
        /\ job[work[w].job].doc \in Documents
        /\ job[work[w].job].attempts \in Nat /\ work[w].attempt \in Nat
        /\ job'[work[w].job].attempts >= job[work[w].job].attempts
  BY SMTT(30), DbAssumption DEF DbOK, DbType, DbGrows, Born, JobIds, Exists, JobRow, SlotOK, Slot
<1>3. work[w].job \in Born /\ chunks[job[work[w].job].doc] # NoGeneration =>
        chunks'[job'[work[w].job].doc] # NoGeneration
  BY <1>2 DEF DbGrows
<1>4. work[w].attempt > 0 =>
        work[w].job \in Born' /\ work[w].attempt <= job'[work[w].job].attempts
  <2> SUFFICES ASSUME work[w].attempt > 0
               PROVE  /\ work[w].job \in Born'
                      /\ work[w].attempt <= job'[work[w].job].attempts
    OBVIOUS
  <2>1. work[w].job \in Born /\ work[w].attempt <= job[work[w].job].attempts
    BY DEF SlotOK
  <2>2. job'[work[w].job].attempts \in Nat
    <3>1. job'[work[w].job] \in JobRow
      BY <1>2, <2>1 DEF DbOK, DbType
    <3> QED BY <3>1, DbAssumption DEF JobRow
  <2> QED BY <1>1, <1>2, <2>1, <2>2
<1> QED BY <1>1, <1>3, <1>4 DEF SlotOK

\* Queue entries that are not written stay well formed when the database grows.
LEMMA QueueKept ==
    ASSUME DbOK, DbOK', DbGrows, QueueOK, UNCHANGED queue
    PROVE  QueueOK' /\ AbsentKept
<1>1. \A j \in Born : j \in Born'
  BY BornGrows
<1>2. \A j \in JobIds : EntryOK(j)'
  BY <1>1 DEF QueueOK, EntryOK
<1> QED BY <1>2 DEF QueueOK, AbsentKept

\* Writing one well-formed entry of an existing job keeps the queue well formed.
LEMMA QueueEntryWritten ==
    ASSUME DbOK, DbOK', DbGrows, QueueOK, NEW j \in Born,
           NEW entry \in QueueEntry, entry.state # "absent",
           entry.state \notin {"completed", "failed"} =>
                entry.made < MaxAttempts /\ entry.stalls <= MaxStalled,
           queue' = [queue EXCEPT ![j] = entry]
    PROVE  QueueOK'
<1>1. j \in Born' /\ \A i \in Born : i \in Born' /\ i \in JobIds
  BY BornGrows
<1>2. queue' \in [JobIds -> QueueEntry]
  BY <1>1 DEF QueueOK
<1>3. ASSUME NEW i \in JobIds
      PROVE  EntryOK(i)'
  <2>1. CASE i = j
    BY <1>1, <1>2, <2>1 DEF EntryOK, QueueOK
  <2>2. CASE i # j
    BY <1>1, <1>2, <2>2 DEF EntryOK, QueueOK
  <2> QED BY <2>1, <2>2
<1> QED BY <1>2, <1>3 DEF QueueOK

\* What handlers remember survives every step that leaves them where they are.
LEMMA CallsKept ==
    ASSUME DbOK, DbOK', DbGrows, \A c \in Callers : CallOK(c), AbsentKept, UNCHANGED call
    PROVE  \A c \in Callers : CallOK(c)'
<1>1. \A j \in Born : j \in Born' /\ j \in JobIds
  BY BornGrows
<1>2. ASSUME NEW c \in Callers, call[c].pc = "committed"
      PROVE  queue'[call[c].job] = queue[call[c].job]
  BY <1>1, <1>2 DEF CallOK, AbsentKept
<1> QED BY <1>1, <1>2 DEF CallOK

\* Slots keep their attempts, or give them up: the numbers stay apart.
LEMMA AttemptsKept ==
    ASSUME AttemptNumbersUnique, \A w \in Workers : SlotOK(w)',
           \A w \in Workers : \/ work'[w].attempt = 0
                             \/ /\ work'[w].job = work[w].job
                                /\ work'[w].attempt = work[w].attempt,
           \A w \in Workers : work[w] \in Slot
    PROVE  AttemptNumbersUnique'
<1> SUFFICES ASSUME NEW w \in Workers, work'[w].attempt > 0
             PROVE  /\ work'[w].attempt <= job'[work'[w].job].attempts
                    /\ \A v \in Workers \ {w} :
                        work'[v].job = work'[w].job => work'[v].attempt # work'[w].attempt
  BY DEF AttemptNumbersUnique
<1>1. work'[w].attempt <= job'[work'[w].job].attempts
  BY DEF SlotOK
<1>2. work'[w].job = work[w].job /\ work'[w].attempt = work[w].attempt
  OBVIOUS
<1>3. ASSUME NEW v \in Workers \ {w}, work'[v].job = work'[w].job
      PROVE  work'[v].attempt # work'[w].attempt
  <2>1. CASE work'[v].attempt = 0
    BY <2>1
  <2>2. CASE work'[v].job = work[v].job /\ work'[v].attempt = work[v].attempt
    BY <1>2, <1>3, <2>2 DEF AttemptNumbersUnique
  <2> QED BY <2>1, <2>2
<1> QED BY <1>1, <1>3

\* One handler moves to a well-formed state without taking another's new job.
LEMMA HandlerMoves ==
    ASSUME DbOK, DbOK', DbGrows, CallsOK, NEW c \in Callers, NEW e \in Call,
           call' = [call EXCEPT ![c] = e],
           e.pc \in {"reindex_checked", "retry_found", "retry_latest", "retry_checked"} =>
                e.doc \in Documents,
           e.pc \in {"committed", "add_failed"} =>
                /\ e.job \in Born'
                /\ \A b \in Callers \ {c} :
                    call[b].pc \in {"committed", "add_failed"} => call[b].job # e.job,
           e.pc = "committed" => queue'[e.job].state = "absent",
           \A b \in Callers \ {c} :
                call[b].pc = "committed" => queue'[call[b].job] = queue[call[b].job]
    PROVE  CallsOK'
<1>1. \A j \in Born : j \in Born'
  BY BornGrows
<1>2. call' \in [Callers -> Call] /\ call'[c] = e
  BY DEF CallsOK
<1>3. \A b \in Callers : b # c => call'[b] = call[b]
  BY DEF CallsOK
<1>4. ASSUME NEW b \in Callers
      PROVE  CallOK(b)'
  <2>1. CASE b = c
    BY <1>2, <2>1 DEF CallOK
  <2>2. CASE b # c
    <3>1. CallOK(b) /\ call'[b] = call[b]
      BY <1>3, <2>2 DEF CallsOK
    <3>2. call[b].pc = "committed" => queue'[call[b].job] = queue[call[b].job]
      BY <2>2
    <3> QED BY <1>1, <3>1, <3>2 DEF CallOK
  <2> QED BY <2>1, <2>2
<1>5. NewJobsDistinct'
  BY <1>2, <1>3 DEF CallsOK, NewJobsDistinct
<1> QED BY <1>2, <1>4, <1>5 DEF CallsOK

\* One slot moves to a well-formed state without an attempt that another has.
LEMMA SlotMoves ==
    ASSUME DbOK, DbOK', DbGrows, WorkOK, NEW w \in Workers, NEW e \in Slot,
           work' = [work EXCEPT ![w] = e],
           SlotOK(w)',
           e.attempt = 0 \/ (e.job = work[w].job /\ e.attempt = work[w].attempt)
    PROVE  WorkOK'
<1>1. work' \in [Workers -> Slot] /\ work'[w] = e
  BY DEF WorkOK
<1>2. \A v \in Workers : v # w => work'[v] = work[v]
  BY DEF WorkOK
<1>3. \A v \in Workers : SlotOK(v)'
  BY <1>2, SlotKept DEF WorkOK
<1>4. \A v \in Workers : \/ work'[v].attempt = 0
                         \/ /\ work'[v].job = work[v].job
                            /\ work'[v].attempt = work[v].attempt
  BY <1>1, <1>2
<1>5. AttemptNumbersUnique'
  BY <1>3, <1>4, AttemptsKept DEF WorkOK
<1> QED BY <1>1, <1>3, <1>5 DEF WorkOK

\* The slots stay well formed when none of them moves.
LEMMA WorkKept ==
    ASSUME DbOK, DbOK', DbGrows, WorkOK, UNCHANGED work
    PROVE  WorkOK'
<1>1. \A v \in Workers : SlotOK(v)'
  BY SlotKept DEF WorkOK
<1>2. AttemptNumbersUnique'
  BY <1>1, AttemptsKept DEF WorkOK
<1> QED BY <1>1, <1>2 DEF WorkOK

\* The handlers stay well formed when none of them moves.
LEMMA AllCallsKept ==
    ASSUME DbOK, DbOK', DbGrows, CallsOK, AbsentKept, UNCHANGED call
    PROVE  CallsOK'
<1>1. \A c \in Callers : CallOK(c)'
  BY CallsKept DEF CallsOK
<1> QED BY <1>1 DEF CallsOK, NewJobsDistinct

-----------------------------------------------------------------------------
(* The records that the steps write, field by field                        *)

\* The record that a handler's change of place writes.
LEMMA GotoEntry ==
    ASSUME NEW c, NEW pc, call[c] \in Call, Goto(c, pc)
    PROVE  call' = [call EXCEPT ![c] =
                    [pc |-> pc, doc |-> call[c].doc, job |-> call[c].job]]
<1>1. [call[c] EXCEPT !.pc = pc] = [pc |-> pc, doc |-> call[c].doc, job |-> call[c].job]
  BY DEF Call
<1>2. call' = [call EXCEPT ![c] = [call[c] EXCEPT !.pc = pc]]
  BY Zenon DEF Goto
<1> QED BY <1>1, <1>2, Zenon

\* The record that a slot's change of place writes.
LEMMA AdvanceEntry ==
    ASSUME NEW w, NEW pc, work[w] \in Slot, Advance(w, pc)
    PROVE  work' = [work EXCEPT ![w] =
                    [pc |-> pc, job |-> work[w].job, attempt |-> work[w].attempt]]
<1>1. [work[w] EXCEPT !.pc = pc] = [pc |-> pc, job |-> work[w].job, attempt |-> work[w].attempt]
  BY DEF Slot
<1>2. work' = [work EXCEPT ![w] = [work[w] EXCEPT !.pc = pc]]
  BY Zenon DEF Advance
<1> QED BY <1>1, <1>2, Zenon

\* The queue entry that queue.add writes.
LEMMA AddEntry ==
    ASSUME NEW j, queue[j] \in QueueEntry, QueueAdd(j)
    PROVE  queue' = [queue EXCEPT ![j] =
                    [state |-> "wait", made |-> queue[j].made,
                     stalls |-> queue[j].stalls, holder |-> queue[j].holder]]
<1>1. [queue[j] EXCEPT !.state = "wait"] =
        [state |-> "wait", made |-> queue[j].made,
         stalls |-> queue[j].stalls, holder |-> queue[j].holder]
  BY DEF QueueEntry
<1>2. queue' = [queue EXCEPT ![j] = [queue[j] EXCEPT !.state = "wait"]]
  BY Zenon DEF QueueAdd
<1> QED BY <1>1, <1>2, Zenon

\* The queue entry that the end of a backoff writes.
LEMMA PromoteEntry ==
    ASSUME NEW j, queue[j] \in QueueEntry, QueuePromote(j)
    PROVE  queue' = [queue EXCEPT ![j] =
                    [state |-> "wait", made |-> queue[j].made,
                     stalls |-> queue[j].stalls, holder |-> queue[j].holder]]
<1>1. [queue[j] EXCEPT !.state = "wait"] =
        [state |-> "wait", made |-> queue[j].made,
         stalls |-> queue[j].stalls, holder |-> queue[j].holder]
  BY DEF QueueEntry
<1>2. queue' = [queue EXCEPT ![j] = [queue[j] EXCEPT !.state = "wait"]]
  BY Zenon DEF QueuePromote
<1> QED BY <1>1, <1>2, Zenon

-----------------------------------------------------------------------------
(* The steps of the handlers                                               *)

\* Upload, and the transaction of a reindex or a retry.
LEMMA CommitStep ==
    ASSUME IInv, NEW c \in Callers, NEW d \in Documents,
           SetStatus(d, "QUEUED", InitialVectorization), InsertJob(d), UNCHANGED chunks,
           Committed(c, d), NoFault, UNCHANGED queue, UNCHANGED work
    PROVE  IInv'
<1>1. DbOK' /\ DbGrows /\ jobCount' = jobCount + 1 /\ jobCount + 1 \in JobIds
  BY CreateDb DEF IInv
<1>2. QueueOK' /\ AbsentKept
  BY <1>1, QueueKept DEF IInv
<1>3. WorkOK'
  BY <1>1, WorkKept DEF IInv
<1>4. CallsOK'
  <2> DEFINE e == [pc |-> "committed", doc |-> d, job |-> jobCount + 1]
  <2>1. e \in Call
    BY <1>1, DbAssumption DEF Call, CallPcs, JobIds
  <2>2. call' = [call EXCEPT ![c] = e]
    BY DEF Committed
  <2>3. jobCount \in Nat /\ jobCount + 1 \in Born' /\ jobCount + 1 \notin Born
    BY <1>1 DEF IInv, DbOK, DbType, Born
  <2>4. \A b \in Callers \ {c} :
            call[b].pc \in {"committed", "add_failed"} => call[b].job # jobCount + 1
    BY <2>3 DEF IInv, CallsOK, CallOK
  <2>5. queue'[jobCount + 1].state = "absent"
    BY <1>1, <2>3 DEF IInv, QueueOK, EntryOK
  <2> QED BY <1>1, <2>1, <2>2, <2>3, <2>4, <2>5, HandlerMoves DEF IInv
<1> QED BY <1>1, <1>2, <1>3, <1>4 DEF IInv, NoFault

\* A step that moves the handler c and leaves rows and queue as they are.
LEMMA QuietHandler ==
    ASSUME IInv, NEW c \in Callers, NEW e \in Call,
           call' = [call EXCEPT ![c] = e],
           e.pc \notin {"committed", "add_failed"} \/ (e.pc = "add_failed" /\ At(c, "committed") /\ e.job = call[c].job),
           e.pc \in {"reindex_checked", "retry_found", "retry_latest", "retry_checked"} =>
                e.doc \in Documents,
           RowsKept, faults' \in 0..MaxFaults, UNCHANGED queue, UNCHANGED work
    PROVE  IInv'
<1>1. DbOK' /\ DbGrows
  BY RowsKeptDb DEF IInv
<1>2. QueueOK' /\ AbsentKept
  BY <1>1, QueueKept DEF IInv
<1>3. WorkOK'
  BY <1>1, WorkKept DEF IInv
<1>4. e.pc = "add_failed" =>
            /\ e.job \in Born'
            /\ \A b \in Callers \ {c} :
                call[b].pc \in {"committed", "add_failed"} => call[b].job # e.job
  <2> SUFFICES ASSUME e.pc = "add_failed"
               PROVE  /\ e.job \in Born'
                      /\ \A b \in Callers \ {c} :
                            call[b].pc \in {"committed", "add_failed"} => call[b].job # e.job
    OBVIOUS
  <2>1. At(c, "committed") /\ e.job = call[c].job
    OBVIOUS
  <2>2. call[c].job \in Born'
    BY <1>1, <2>1, BornGrows DEF IInv, CallsOK, CallOK, At
  <2> QED BY <2>1, <2>2 DEF IInv, CallsOK, NewJobsDistinct, At
<1>5. CallsOK'
  BY <1>1, <1>4, HandlerMoves DEF IInv
<1> QED BY <1>1, <1>2, <1>3, <1>5 DEF IInv

\* A handler without a request is well formed.
LEMMA IdleIsCall ==
    IdleCall \in Call /\ IdleCall.pc = "idle"
BY DbAssumption DEF IdleCall, Call, CallPcs

\* A handler that answers its request keeps the invariant.
LEMMA ReturnKeeps ==
    ASSUME IInv, NEW c \in Callers, Return(c), RowsKept, faults' \in 0..MaxFaults,
           UNCHANGED queue, UNCHANGED work
    PROVE  IInv'
<1>1. call' = [call EXCEPT ![c] = IdleCall]
  BY DEF Return
<1> QED BY <1>1, IdleIsCall, QuietHandler

\* A handler that goes on to its next query, with the same document, keeps the
\* invariant.
LEMMA GotoKeeps ==
    ASSUME IInv, NEW c \in Callers, NEW pc, Goto(c, pc),
           \/ At(c, "retry_found") /\ pc = "retry_latest"
           \/ At(c, "retry_latest") /\ pc = "retry_checked"
           \/ At(c, "committed") /\ pc = "add_failed",
           RowsKept, faults' \in 0..MaxFaults, UNCHANGED queue, UNCHANGED work
    PROVE  IInv'
<1> DEFINE e == [pc |-> pc, doc |-> call[c].doc, job |-> call[c].job]
<1>1. call[c] \in Call
  BY DEF IInv, CallsOK
<1>2. e \in Call
  BY <1>1 DEF Call, CallPcs
<1>3. call' = [call EXCEPT ![c] = e]
  BY <1>1, GotoEntry
<1>4. e.pc \in {"retry_latest", "retry_checked"} => e.doc \in Documents
  BY DEF IInv, CallsOK, CallOK, At
<1>5. e.pc \in {"reindex_checked", "retry_found", "retry_latest", "retry_checked"} =>
        e.doc \in Documents
  BY <1>4
<1>6. e.pc \notin {"committed", "add_failed"} \/ (e.pc = "add_failed" /\ At(c, "committed") /\ e.job = call[c].job)
  BY DEF At
<1> QED BY <1>2, <1>3, <1>5, <1>6, QuietHandler

\* The checks that open a reindex or a retry keep the invariant.
LEMMA CheckSteps ==
    ASSUME IInv, NEW c \in Callers, UNCHANGED work,
           \/ \E d \in Documents : ReindexCheck(c, d)
           \/ \E j \in JobIds : RetryFind(c, j)
           \/ RetryCheckLatest(c)
           \/ RetryCheckSiblings(c)
    PROVE  IInv'
<1>1. RowsKept /\ faults' \in 0..MaxFaults /\ UNCHANGED queue
  BY DEF ReindexCheck, RetryFind, RetryCheckLatest, RetryCheckSiblings, RowsKept, dbVars, IInv
<1>2. ASSUME NEW d \in Documents, ReindexCheck(c, d)
      PROVE  IInv'
  <2> DEFINE e == [pc |-> "reindex_checked", doc |-> d, job |-> 0]
  <2>1. e \in Call
    BY DbAssumption DEF Call, CallPcs
  <2>2. call' = [call EXCEPT ![c] = e]
    BY <1>2 DEF ReindexCheck
  <2> QED BY <1>1, <2>1, <2>2, QuietHandler
<1>3. ASSUME NEW j \in JobIds, RetryFind(c, j)
      PROVE  IInv'
  <2> DEFINE e == [pc |-> "retry_found", doc |-> job[j].doc, job |-> j]
  <2>1. job[j].doc \in Documents
    BY <1>3 DEF RetryFind, IInv, DbOK, DbType, Exists
  <2>2. e \in Call
    BY <2>1, DbAssumption DEF Call, CallPcs, JobIds
  <2>3. call' = [call EXCEPT ![c] = e]
    BY <1>3 DEF RetryFind
  <2> QED BY <1>1, <2>1, <2>2, <2>3, QuietHandler
<1>4. CASE RetryCheckLatest(c)
  <2>1. CASE IsLatest(call[c].job)
    BY <1>1, <1>4, <2>1, GotoKeeps DEF RetryCheckLatest
  <2>2. CASE ~ IsLatest(call[c].job)
    BY <1>1, <1>4, <2>2, ReturnKeeps DEF RetryCheckLatest
  <2> QED BY <2>1, <2>2
<1>5. CASE RetryCheckSiblings(c)
  <2>1. CASE HasLiveJob(call[c].doc)
    BY <1>1, <1>5, <2>1, ReturnKeeps DEF RetryCheckSiblings
  <2>2. CASE ~ HasLiveJob(call[c].doc)
    BY <1>1, <1>5, <2>2, GotoKeeps DEF RetryCheckSiblings
  <2> QED BY <2>1, <2>2
<1> QED BY <1>2, <1>3, <1>4, <1>5

\* The transaction of a reindex or a retry, done or refused, keeps the invariant.
LEMMA RequeueSteps ==
    ASSUME IInv, NEW c \in Callers, UNCHANGED work, RequeueCommit(c) \/ RequeueAbort(c)
    PROVE  IInv'
<1>1. CASE RequeueCommit(c)
  <2>1. call[c].doc \in Documents
    BY <1>1 DEF RequeueCommit, IInv, CallsOK, CallOK
  <2> QED BY <1>1, <2>1, CommitStep DEF RequeueCommit, TxRequeue
<1>2. CASE RequeueAbort(c)
  BY <1>2, ReturnKeeps DEF RequeueAbort, RowsKept, dbVars, IInv
<1> QED BY <1>1, <1>2

\* queue.add took the job, and the handler moves on to e.
LEMMA AddStep ==
    ASSUME IInv, NEW c \in Callers, At(c, "committed"), QueueAdd(call[c].job),
           NEW e \in Call, call' = [call EXCEPT ![c] = e],
           e = IdleCall \/ (e.pc = "add_failed" /\ e.job = call[c].job),
           RowsKept, faults' \in 0..MaxFaults, UNCHANGED work
    PROVE  IInv'
<1> DEFINE j == call[c].job
<1> DEFINE entry == [state |-> "wait", made |-> queue[j].made,
                     stalls |-> queue[j].stalls, holder |-> queue[j].holder]
<1>1. DbOK' /\ DbGrows
  BY RowsKeptDb DEF IInv
<1>2. j \in Born /\ j \in Born' /\ j \in JobIds /\ queue[j] \in QueueEntry
  BY <1>1, BornGrows DEF IInv, CallsOK, CallOK, At, QueueOK
<1>3. queue[j].state = "absent" /\ EntryOK(j)
  BY <1>2 DEF IInv, CallsOK, CallOK, At, QueueOK
<1>4. entry \in QueueEntry
  BY <1>2 DEF QueueEntry, QueueStates
<1>5. queue' = [queue EXCEPT ![j] = entry]
  BY <1>2, AddEntry
<1>6. entry.made < MaxAttempts /\ entry.stalls <= MaxStalled
  BY <1>3 DEF EntryOK
<1>7. QueueOK'
  BY <1>1, <1>2, <1>4, <1>5, <1>6, QueueEntryWritten DEF IInv
<1>8. WorkOK'
  BY <1>1, WorkKept DEF IInv
<1>9. \A b \in Callers \ {c} : call[b].pc \in {"committed", "add_failed"} => call[b].job # j
  BY DEF IInv, CallsOK, NewJobsDistinct, At
<1>10. \A b \in Callers \ {c} :
            call[b].pc = "committed" => queue'[call[b].job] = queue[call[b].job]
  BY <1>5, <1>9 DEF IInv, QueueOK
<1>11. e.pc # "committed" /\ (e.pc = "add_failed" => e.job = j) /\ e.pc \in {"idle", "add_failed"}
  BY DEF IdleCall
<1>12. CallsOK'
  BY <1>1, <1>2, <1>9, <1>10, <1>11, HandlerMoves DEF IInv
<1> QED BY <1>1, <1>7, <1>8, <1>12 DEF IInv

\* Adding to the queue, in its three outcomes, keeps the invariant.
LEMMA EnqueueSteps ==
    ASSUME IInv, NEW c \in Callers, UNCHANGED work,
           Enqueue(c) \/ EnqueueRejected(c) \/ EnqueueAmbiguous(c)
    PROVE  IInv'
<1>1. RowsKept
  BY DEF Enqueue, EnqueueRejected, EnqueueAmbiguous, RowsKept, dbVars
<1>2. faults' \in 0..MaxFaults
  BY FaultsBounded DEF Enqueue, EnqueueRejected, EnqueueAmbiguous, dbVars, IInv,
        AllFaultKinds, NoFault
<1>3. CASE Enqueue(c)
  BY <1>1, <1>2, <1>3, IdleIsCall, AddStep DEF Enqueue, Return
<1>4. CASE EnqueueRejected(c)
  BY <1>1, <1>2, <1>4, GotoKeeps DEF EnqueueRejected
<1>5. CASE EnqueueAmbiguous(c)
  <2> DEFINE e == [pc |-> "add_failed", doc |-> call[c].doc, job |-> call[c].job]
  <2>1. call[c] \in Call
    BY DEF IInv, CallsOK
  <2>2. e \in Call
    BY <2>1 DEF Call, CallPcs
  <2>3. call' = [call EXCEPT ![c] = e]
    BY <1>5, <2>1, GotoEntry DEF EnqueueAmbiguous
  <2> QED BY <1>1, <1>2, <1>5, <2>2, <2>3, AddStep DEF EnqueueAmbiguous
<1> QED BY <1>3, <1>4, <1>5

\* What follows a failed add, and the crash of a handler, keep the invariant.
LEMMA AfterFailedAdd ==
    ASSUME IInv, NEW c \in Callers, UNCHANGED work,
           MarkEnqueueFailure(c) \/ MarkEnqueueFailureLost(c) \/ ApiCrash(c)
    PROVE  IInv'
<1>1. CASE MarkEnqueueFailure(c)
  <2>1. call[c].job \in Born
    BY <1>1 DEF MarkEnqueueFailure, IInv, CallsOK, CallOK, At
  <2>2. DbOK' /\ DbGrows
    BY <1>1, <2>1, EnqueueFailedDb DEF MarkEnqueueFailure, IInv
  <2>3. QueueOK' /\ AbsentKept
    BY <1>1, <2>2, QueueKept DEF MarkEnqueueFailure, IInv
  <2>4. WorkOK'
    BY <2>2, WorkKept DEF IInv
  <2>5. call' = [call EXCEPT ![c] = IdleCall] /\ UNCHANGED queue
    BY <1>1 DEF MarkEnqueueFailure, Return
  <2>6. CallsOK'
    BY <2>2, <2>5, IdleIsCall, HandlerMoves DEF IInv
  <2> QED BY <1>1, <2>2, <2>3, <2>4, <2>6 DEF IInv, MarkEnqueueFailure, NoFault
<1>2. CASE MarkEnqueueFailureLost(c) \/ ApiCrash(c)
  <2>1. faults' \in 0..MaxFaults
    BY <1>2, FaultsBounded DEF MarkEnqueueFailureLost, ApiCrash, AllFaultKinds, IInv
  <2>2. RowsKept /\ Return(c) /\ UNCHANGED queue
    BY <1>2 DEF MarkEnqueueFailureLost, ApiCrash, RowsKept
  <2> QED BY <2>1, <2>2, ReturnKeeps
<1> QED BY <1>1, <1>2

\* Every step of a handler keeps the invariant.
LEMMA ApiKeepsIInv ==
    ASSUME IInv, NEW c \in Callers, ApiNext(c), UNCHANGED work
    PROVE  IInv'
<1>1. ASSUME NEW d \in Documents, Upload(c, d)
      PROVE  IInv'
  BY <1>1, CommitStep DEF Upload, TxCreateDocument
<1> QED BY <1>1, CheckSteps, RequeueSteps, EnqueueSteps, AfterFailedAdd
        DEF ApiNext, CallStep, CallFault

-----------------------------------------------------------------------------
(* The steps of the worker                                                 *)

\* A busy slot is well formed and works on an existing job.
LEMMA BusySlot ==
    ASSUME IInv, NEW w \in Workers, work[w].pc # "idle"
    PROVE  work[w] \in Slot /\ work[w].job \in Born /\ work[w].job \in JobIds
<1>1. work[w] \in Slot /\ SlotOK(w)
  BY DEF IInv, WorkOK
<1>2. jobCount \in Nat /\ jobCount <= MaxJobs
  BY DbAssumption DEF IInv, DbOK, DbType
<1> QED BY <1>1, <1>2, DbAssumption DEF SlotOK, Born, JobIds

\* A slot goes on, its transaction having kept the database in order.
LEMMA AdvanceKeeps ==
    ASSUME IInv, NEW w \in Workers, NEW pc \in WorkPcs \ {"idle", "claimed"},
           work[w].pc # "idle", Advance(w, pc),
           pc \in {"running", "persisted", "retryable", "permanent"} => work[w].attempt > 0,
           pc = "persisted" => chunks'[job'[work[w].job].doc] # NoGeneration,
           DbOK', DbGrows, faults' \in 0..MaxFaults, UNCHANGED queue, UNCHANGED call
    PROVE  IInv'
<1> DEFINE e == [pc |-> pc, job |-> work[w].job, attempt |-> work[w].attempt]
<1>1. work[w] \in Slot /\ work[w].job \in Born /\ work[w].job \in JobIds
  BY BusySlot
<1>2. DbOK /\ WorkOK /\ SlotOK(w)
  BY DEF IInv, WorkOK
<1>3. e \in Slot
  BY <1>1 DEF Slot
<1>4. work' = [work EXCEPT ![w] = e]
  BY <1>1, AdvanceEntry
<1>5. work'[w] = e
  BY <1>2, <1>4 DEF WorkOK
<1>6. work[w].job \in Born'
  BY <1>1, <1>2, BornGrows
<1>7. work[w].attempt > 0 => work[w].attempt <= job'[work[w].job].attempts
  <2>1. job[work[w].job] \in JobRow /\ job'[work[w].job] \in JobRow
    BY <1>1, <1>2 DEF DbOK, DbType
  <2>2. /\ job[work[w].job].attempts \in Nat
        /\ job'[work[w].job].attempts \in Nat
        /\ work[w].attempt \in Nat
    BY <1>1, <2>1, DbAssumption DEF JobRow, Slot
  <2>3. job'[work[w].job].attempts >= job[work[w].job].attempts
    BY <1>1 DEF DbGrows
  <2> QED BY <1>2, <2>2, <2>3 DEF SlotOK
<1>8. SlotOK(w)'
  BY <1>3, <1>5, <1>6, <1>7 DEF SlotOK
<1>9. WorkOK'
  BY <1>2, <1>3, <1>4, <1>8, SlotMoves
<1>10. QueueOK' /\ AbsentKept
  BY <1>2, QueueKept DEF IInv
<1>11. CallsOK'
  BY <1>2, <1>10, AllCallsKept DEF IInv
<1> QED BY <1>9, <1>10, <1>11 DEF IInv

\* mark_job_active keeps the invariant: the row lock makes the attempt number
\* larger than that of every slot that has the same job.
LEMMA ActivateStep ==
    ASSUME IInv, NEW w \in Workers, Activate(w), UNCHANGED call
    PROVE  IInv'
<1> DEFINE j == work[w].job
           e == [pc |-> "running", job |-> j, attempt |-> job[j].attempts + 1]
<1>1. work[w] \in Slot /\ j \in Born /\ j \in JobIds
  BY BusySlot DEF Activate, InStep
<1>2. DbOK /\ WorkOK
  BY DEF IInv
<1>3. DbOK' /\ DbGrows /\ job'[j].attempts = job[j].attempts + 1
  BY <1>1, <1>2, ActivateDb DEF Activate
<1>4. job[j].attempts \in Nat /\ job[j].attempts + 1 \in 0..MaxAttempts
  <2>1. job[j] \in JobRow /\ job'[j] \in JobRow
    BY <1>1, <1>2, <1>3 DEF DbOK, DbType
  <2> QED BY <1>3, <2>1, DbAssumption DEF JobRow
<1>5. e \in Slot
  BY <1>1, <1>4 DEF Slot, WorkPcs
<1>6. work' = [work EXCEPT ![w] = e]
  BY DEF Activate
<1>7. work' \in [Workers -> Slot] /\ work'[w] = e
  BY <1>2, <1>5, <1>6 DEF WorkOK
<1>8. \A v \in Workers : v # w => work'[v] = work[v]
  BY <1>2, <1>6 DEF WorkOK
<1>9. j \in Born'
  BY <1>1, <1>2, <1>3, BornGrows
<1>10. SlotOK(w)'
  BY <1>3, <1>4, <1>5, <1>7, <1>9 DEF SlotOK
<1>11. ASSUME NEW v \in Workers
       PROVE  SlotOK(v)'
  BY <1>2, <1>3, <1>8, <1>10, SlotKept DEF WorkOK
<1>12. \A v \in Workers \ {w} :
            work'[v].job = j => work'[v].attempt # job[j].attempts + 1
  <2> SUFFICES ASSUME NEW v \in Workers \ {w}, work'[v].job = j,
                      work'[v].attempt = job[j].attempts + 1
               PROVE  FALSE
    OBVIOUS
  <2>1. work[v].job = j /\ work[v].attempt = job[j].attempts + 1
    BY <1>8
  <2>2. work[v].attempt <= job[j].attempts
    BY <1>2, <1>4, <2>1 DEF WorkOK, SlotOK
  <2> QED BY <1>4, <2>1, <2>2
<1>13. AttemptNumbersUnique'
  <2> SUFFICES ASSUME NEW u \in Workers, work'[u].attempt > 0
               PROVE  /\ work'[u].attempt <= job'[work'[u].job].attempts
                      /\ \A v \in Workers \ {u} :
                          work'[v].job = work'[u].job => work'[v].attempt # work'[u].attempt
    BY DEF AttemptNumbersUnique
  <2>1. work'[u].attempt <= job'[work'[u].job].attempts
    BY <1>11 DEF SlotOK
  <2>2. ASSUME NEW v \in Workers \ {u}, work'[v].job = work'[u].job
        PROVE  work'[v].attempt # work'[u].attempt
    <3>1. CASE u = w
      BY <1>7, <1>12, <2>2, <3>1
    <3>2. CASE v = w
      BY <1>7, <1>12, <2>2, <3>2
    <3>3. CASE u # w /\ v # w
      BY <1>2, <1>8, <2>2, <3>3 DEF WorkOK, AttemptNumbersUnique
    <3> QED BY <3>1, <3>2, <3>3
  <2> QED BY <2>1, <2>2
<1>14. WorkOK'
  BY <1>7, <1>11, <1>13 DEF WorkOK
<1>15. QueueOK' /\ AbsentKept
  BY <1>2, <1>3, QueueKept DEF IInv, Activate
<1>16. CallsOK'
  BY <1>2, <1>3, <1>15, AllCallsKept DEF IInv
<1> QED BY <1>3, <1>14, <1>15, <1>16 DEF IInv, Activate, NoFault

\* An activation that is skipped, refused or fails keeps the invariant.
LEMMA ActivationOtherwise ==
    ASSUME IInv, NEW w \in Workers, UNCHANGED call,
           SkipTerminal(w) \/ ActivationRefused(w) \/ ActivationFails(w)
    PROVE  IInv'
<1>1. DbOK' /\ DbGrows
  <2>1. CASE RowsKept
    BY <2>1, RowsKeptDb DEF IInv
  <2>2. CASE TxActivate(work[w].job)
    <3>1. work[w].job \in Born
      BY BusySlot DEF SkipTerminal, ActivationRefused, ActivationFails, InStep
    <3> QED BY <2>2, <3>1, ActivateDb DEF IInv
  <2> QED BY <2>1, <2>2 DEF SkipTerminal, ActivationRefused, ActivationFails, RowsKept, dbVars
<1>2. faults' \in 0..MaxFaults
  BY FaultsBounded DEF SkipTerminal, ActivationRefused, ActivationFails, dbVars, IInv,
        AllFaultKinds, NoFault
<1>3. /\ work[w].pc # "idle" /\ UNCHANGED queue
      /\ Advance(w, "returned") \/ Advance(w, "raised")
  BY DEF SkipTerminal, ActivationRefused, ActivationFails, InStep
<1>4. {"returned", "raised"} \subseteq WorkPcs \ {"idle", "claimed"}
  BY DEF WorkPcs
<1> QED BY <1>1, <1>2, <1>3, <1>4, AdvanceKeeps

\* The stages of the pipeline and the writing of the chunks keep the invariant.
LEMMA StageSteps ==
    ASSUME IInv, NEW w \in Workers, UNCHANGED call,
           StageRaises(w) \/ PersistChunks(w) \/ PersistAnswerLost(w)
    PROVE  IInv'
<1>1. work[w].pc = "running"
  BY DEF StageRaises, PersistChunks, PersistAnswerLost, InStep
<1>2. work[w] \in Slot /\ work[w].job \in Born /\ work[w].attempt \in 0..MaxAttempts
  BY <1>1, BusySlot DEF Slot
<1>3. work[w].attempt > 0
  BY <1>1 DEF IInv, WorkOK, SlotOK
<1>4. faults' \in 0..MaxFaults
  BY FaultsBounded DEF StageRaises, PersistChunks, PersistAnswerLost, dbVars, IInv,
        AllFaultKinds, NoFault
<1>5. {"persisted", "retryable", "permanent"} \subseteq WorkPcs \ {"idle", "claimed"}
  BY DEF WorkPcs
<1>6. CASE StageRaises(w)
  <2>1. DbOK' /\ DbGrows
    BY <1>6, RowsKeptDb DEF StageRaises, IInv, RowsKept, dbVars
  <2> QED BY <1>1, <1>3, <1>4, <1>5, <1>6, <2>1, AdvanceKeeps DEF StageRaises
<1>7. CASE PersistChunks(w) \/ PersistAnswerLost(w)
  <2>1. DbOK' /\ DbGrows /\ chunks'[job'[work[w].job].doc] # NoGeneration
    BY <1>2, <1>7, PersistChunksDb DEF PersistChunks, PersistAnswerLost, IInv
  <2>2. UNCHANGED queue /\ (Advance(w, "persisted") \/ Advance(w, "retryable"))
    BY <1>7 DEF PersistChunks, PersistAnswerLost
  <2> QED BY <1>1, <1>3, <1>4, <1>5, <2>1, <2>2, AdvanceKeeps
<1> QED BY <1>6, <1>7

\* The success transaction, done or failed, keeps the invariant.
LEMMA SuccessSteps ==
    ASSUME IInv, NEW w \in Workers, UNCHANGED call, MarkSuccess(w) \/ MarkSuccessFails(w)
    PROVE  IInv'
<1>1. work[w].pc = "persisted"
  BY DEF MarkSuccess, MarkSuccessFails, InStep
<1>2. /\ work[w] \in Slot /\ work[w].job \in Born /\ work[w].job \in JobIds
      /\ work[w].attempt \in 0..MaxAttempts
  BY <1>1, BusySlot DEF Slot
<1>3. /\ work[w].attempt > 0
      /\ work[w].attempt <= job[work[w].job].attempts
      /\ chunks[job[work[w].job].doc] # NoGeneration
  BY <1>1 DEF IInv, WorkOK, SlotOK
<1>4. job[work[w].job].attempts > 0
  <2>1. job[work[w].job] \in JobRow
    BY <1>2 DEF IInv, DbOK, DbType
  <2> QED BY <1>2, <1>3, <2>1, DbAssumption DEF JobRow
<1>5. DbOK' /\ DbGrows
  <2>1. CASE RowsKept
    BY <2>1, RowsKeptDb DEF IInv
  <2>2. CASE TxMarkSuccess(work[w].job, work[w].attempt)
    BY <1>2, <1>3, <1>4, <2>2, MarkSuccessDb DEF IInv
  <2> QED BY <2>1, <2>2 DEF MarkSuccess, MarkSuccessFails
<1>6. faults' \in 0..MaxFaults
  BY FaultsBounded DEF MarkSuccess, MarkSuccessFails, IInv, AllFaultKinds, NoFault
<1>7. UNCHANGED queue /\ (Advance(w, "returned") \/ Advance(w, "retryable"))
  BY DEF MarkSuccess, MarkSuccessFails
<1>8. {"returned", "retryable"} \subseteq WorkPcs \ {"idle", "claimed"}
  BY DEF WorkPcs
<1> QED BY <1>1, <1>3, <1>5, <1>6, <1>7, <1>8, AdvanceKeeps

\* The transaction that handles a failure keeps the database consistent,
\* whichever of its three outcomes it decides on.
LEMMA FailureDb ==
    ASSUME IInv, NEW w \in Workers, work[w].pc \in {"retryable", "permanent"},
           TxHandleFailure(w)
    PROVE  DbOK' /\ DbGrows
<1> DEFINE j == work[w].job
<1>1. work[w] \in Slot /\ j \in Born /\ j \in JobIds
  BY BusySlot
<1>2. work[w].attempt > 0 /\ work[w].attempt <= job[j].attempts
  BY DEF IInv, WorkOK, SlotOK
<1>3. job[j] \in JobRow
  BY <1>1 DEF IInv, DbOK, DbType
<1>4. /\ work[w].attempt \in Nat /\ job[j].attempts \in Nat
      /\ job[j].attempts <= MaxAttempts /\ job[j].attempts > 0
  BY <1>1, <1>2, <1>3, DbAssumption DEF Slot, JobRow
<1>5. CASE InStep(w, "permanent")
  <2>1. TxMarkFailure(j, "FAILED", "PERMANENT")
    BY <1>5 DEF TxHandleFailure, InStep
  <2> QED BY <1>1, <2>1, MarkFailureDb DEF IInv
<1>6. CASE InStep(w, "retryable") /\ OutOfAttempts(w)
  <2>1. TxMarkFailure(j, "DEAD_LETTER", "TRANSIENT")
    BY <1>6 DEF TxHandleFailure, InStep
  <2>2. job[j].attempts = MaxAttempts
    BY <1>2, <1>4, <1>6, DbAssumption DEF OutOfAttempts
  <2> QED BY <1>1, <2>1, <2>2, DeadLetterDb DEF IInv
<1>7. CASE InStep(w, "retryable") /\ ~ OutOfAttempts(w)
  <2>1. TxMarkRetryWaiting(j)
    BY <1>7 DEF TxHandleFailure, InStep
  <2> QED BY <1>1, <1>4, <2>1, MarkRetryWaitingDb DEF IInv
<1> QED BY <1>5, <1>6, <1>7 DEF InStep

\* The handling of a failure, done or failed itself, keeps the invariant.
LEMMA FailureSteps ==
    ASSUME IInv, NEW w \in Workers, UNCHANGED call, HandleFailure(w) \/ HandleFailureFails(w)
    PROVE  IInv'
<1>1. work[w].pc \in {"retryable", "permanent"} /\ UNCHANGED queue
  BY DEF HandleFailure, HandleFailureFails
<1>2. DbOK' /\ DbGrows
  <2>1. CASE RowsKept
    BY <2>1, RowsKeptDb DEF IInv
  <2>2. CASE TxHandleFailure(w)
    BY <1>1, <2>2, FailureDb
  <2> QED BY <2>1, <2>2 DEF HandleFailure, HandleFailureFails
<1>3. faults' \in 0..MaxFaults
  BY FaultsBounded DEF HandleFailure, HandleFailureFails, IInv, AllFaultKinds, NoFault
<1>4. Advance(w, "unrecoverable") \/ Advance(w, "raised")
  BY DEF HandleFailure, HandleFailureFails
<1>5. {"unrecoverable", "raised"} \subseteq WorkPcs \ {"idle", "claimed"}
  BY DEF WorkPcs
<1> QED BY <1>1, <1>2, <1>3, <1>4, <1>5, AdvanceKeeps

\* A slot without a job is well formed.
LEMMA IdleIsSlot ==
    IdleSlot \in Slot /\ IdleSlot.pc = "idle" /\ IdleSlot.attempt = 0
BY DbAssumption DEF IdleSlot, Slot, WorkPcs

\* A slot is emptied, whatever became of its job in the queue.
LEMMA ReleaseKeeps ==
    ASSUME IInv, NEW w \in Workers, Release(w), RowsKept, faults' \in 0..MaxFaults,
           QueueOK', AbsentKept, UNCHANGED call
    PROVE  IInv'
<1>1. DbOK /\ DbOK' /\ DbGrows /\ WorkOK
  BY RowsKeptDb DEF IInv
<1>2. work' = [work EXCEPT ![w] = IdleSlot] /\ work'[w] = IdleSlot
  BY <1>1 DEF Release, WorkOK
<1>3. SlotOK(w)'
  BY <1>2, IdleIsSlot DEF SlotOK
<1>4. WorkOK'
  BY <1>1, <1>2, <1>3, IdleIsSlot, SlotMoves
<1>5. CallsOK'
  BY <1>1, AllCallsKept DEF IInv
<1> QED BY <1>1, <1>4, <1>5 DEF IInv

\* The queue is told how the job of a slot ended.
LEMMA FinishQueue ==
    ASSUME IInv, NEW w \in Workers, work[w].pc # "idle", RowsKept, NEW entry,
           Finish(w, work[w].job, entry),
           Holds(w, work[w].job) =>
                /\ entry \in QueueEntry
                /\ entry.state # "absent"
                /\ entry.state \notin {"completed", "failed"} =>
                        entry.made < MaxAttempts /\ entry.stalls <= MaxStalled
    PROVE  QueueOK' /\ AbsentKept
<1> DEFINE j == work[w].job
<1>1. DbOK /\ DbOK' /\ DbGrows /\ QueueOK
  BY RowsKeptDb DEF IInv
<1>2. j \in Born /\ j \in JobIds
  BY BusySlot
<1>3. CASE Holds(w, j)
  <2>1. queue' = [queue EXCEPT ![j] = entry]
    BY <1>3 DEF Finish
  <2>2. QueueOK'
    BY <1>1, <1>2, <1>3, <2>1, QueueEntryWritten
  <2>3. AbsentKept
    BY <1>1, <1>3, <2>1 DEF AbsentKept, Holds, QueueOK
  <2> QED BY <2>2, <2>3
<1>4. CASE ~ Holds(w, j)
  BY <1>1, <1>4, QueueKept DEF Finish
<1> QED BY <1>3, <1>4

\* What a slot tells the queue at the end of process() keeps the invariant.
LEMMA ReportSteps ==
    ASSUME IInv, NEW w \in Workers, UNCHANGED call,
           ReportReturn(w) \/ ReportRaise(w) \/ ReportUnrecoverable(w)
    PROVE  IInv'
<1> DEFINE j == work[w].job
           failed == [ state  |-> IF queue[j].made + 1 < QueueAttempts THEN "delayed" ELSE "failed",
                       made   |-> queue[j].made + 1,
                       stalls |-> queue[j].stalls,
                       holder |-> NoWorker ]
<1>1. /\ work[w].pc # "idle" /\ Release(w) /\ RowsKept
      /\ faults' \in 0..MaxFaults
  BY DEF ReportReturn, ReportRaise, ReportUnrecoverable, InStep, dbVars, RowsKept, IInv
<1>2. j \in JobIds
  BY <1>1, BusySlot
<1>3. queue[j] \in QueueEntry /\ EntryOK(j)
  BY <1>2 DEF IInv, QueueOK
<1>4. Holds(w, j) => /\ Closed(j, "completed") \in QueueEntry
                     /\ Closed(j, "failed") \in QueueEntry
  BY <1>3 DEF Closed, QueueEntry, QueueStates
<1>5. Holds(w, j) =>
        /\ failed \in QueueEntry
        /\ failed.state # "absent"
        /\ failed.state \notin {"completed", "failed"} =>
                failed.made < MaxAttempts /\ failed.stalls <= MaxStalled
  <2> SUFFICES ASSUME Holds(w, j)
               PROVE  /\ failed \in QueueEntry
                      /\ failed.state # "absent"
                      /\ failed.state \notin {"completed", "failed"} =>
                            failed.made < MaxAttempts /\ failed.stalls <= MaxStalled
    OBVIOUS
  <2>1. queue[j].made < MaxAttempts /\ queue[j].stalls <= MaxStalled
    BY <1>3 DEF EntryOK, Holds
  <2>2. queue[j].made + 1 \in 0..MaxAttempts
    BY <1>3, <2>1, DbAssumption DEF QueueEntry
  <2> QED BY <1>3, <2>1, <2>2 DEF QueueEntry, QueueStates, QueueAttempts
<1>6. \/ Finish(w, j, Closed(j, "completed"))
      \/ Finish(w, j, Closed(j, "failed"))
      \/ Finish(w, j, failed)
  BY DEF ReportReturn, ReportRaise, ReportUnrecoverable, QueueComplete, QueueFailForGood,
         QueueFailAttempt
<1>7. /\ Closed(j, "completed").state = "completed"
      /\ Closed(j, "failed").state = "failed"
  BY DEF Closed
<1>8. QueueOK' /\ AbsentKept
  <2>1. CASE Finish(w, j, Closed(j, "completed"))
    BY <1>1, <1>4, <1>7, <2>1, FinishQueue
  <2>2. CASE Finish(w, j, Closed(j, "failed"))
    BY <1>1, <1>4, <1>7, <2>2, FinishQueue
  <2>3. CASE Finish(w, j, failed)
    BY <1>1, <1>5, <2>3, FinishQueue
  <2> QED BY <1>6, <2>1, <2>2, <2>3
<1> QED BY <1>1, <1>8, ReleaseKeeps

\* The crash of a worker keeps the invariant.
LEMMA CrashStep ==
    ASSUME IInv, NEW w \in Workers, WorkerCrash(w), UNCHANGED call
    PROVE  IInv'
<1>1. faults' \in 0..MaxFaults
  BY FaultsBounded DEF WorkerCrash, IInv, AllFaultKinds
<1>2. QueueOK' /\ AbsentKept
  BY RowsKeptDb, QueueKept DEF WorkerCrash, IInv
<1> QED BY <1>1, <1>2, ReleaseKeeps DEF WorkerCrash

\* A step of the queue on a job that is in it.
LEMMA EntryStep ==
    ASSUME IInv, NEW j \in JobIds, queue[j].state # "absent", RowsKept,
           NEW entry \in QueueEntry, entry.state # "absent",
           entry.state \notin {"completed", "failed"} =>
                entry.made < MaxAttempts /\ entry.stalls <= MaxStalled,
           queue' = [queue EXCEPT ![j] = entry]
    PROVE  DbOK' /\ DbGrows /\ j \in Born /\ QueueOK' /\ AbsentKept
<1>1. DbOK /\ DbOK' /\ DbGrows /\ QueueOK
  BY RowsKeptDb DEF IInv
<1>2. j \in Born
  BY <1>1 DEF QueueOK, EntryOK
<1>3. QueueOK'
  BY <1>1, <1>2, QueueEntryWritten
<1>4. AbsentKept
  BY <1>1 DEF AbsentKept, QueueOK
<1> QED BY <1>1, <1>2, <1>3, <1>4

\* Taking a job from the queue keeps the invariant.
LEMMA ClaimStep ==
    ASSUME IInv, NEW w \in Workers, NEW j \in JobIds, Claim(w, j), UNCHANGED call
    PROVE  IInv'
<1> DEFINE entry == [ state |-> "active", made |-> queue[j].made,
                      stalls |-> queue[j].stalls, holder |-> w ]
           e == [pc |-> "claimed", job |-> j, attempt |-> 0]
<1>1. queue[j] \in QueueEntry /\ EntryOK(j) /\ queue[j].state = "wait"
  BY DEF IInv, QueueOK, Claim, QueueClaim
<1>2. entry \in QueueEntry /\ entry.made < MaxAttempts /\ entry.stalls <= MaxStalled
  BY <1>1 DEF QueueEntry, QueueStates, EntryOK
<1>3. queue' = [queue EXCEPT ![j] = entry] /\ RowsKept /\ UNCHANGED faults
  BY DEF Claim, QueueClaim, RowsKept, dbVars
<1>4. DbOK' /\ DbGrows /\ j \in Born /\ QueueOK' /\ AbsentKept
  BY <1>1, <1>2, <1>3, EntryStep
<1>5. e \in Slot
  BY DbAssumption DEF Slot, WorkPcs, JobIds
<1>6. DbOK /\ WorkOK /\ work' = [work EXCEPT ![w] = e] /\ work'[w] = e
  BY DEF IInv, WorkOK, Claim
<1>7. j \in Born'
  BY <1>4, <1>6, BornGrows
<1>8. SlotOK(w)'
  BY <1>5, <1>6, <1>7 DEF SlotOK
<1>9. WorkOK'
  BY <1>4, <1>5, <1>6, <1>8, SlotMoves
<1>10. CallsOK'
  BY <1>4, <1>6, AllCallsKept DEF IInv
<1> QED BY <1>3, <1>4, <1>9, <1>10 DEF IInv

\* The queue's own steps (end of a backoff, stalled check) keep the invariant.
LEMMA QueueSteps ==
    ASSUME IInv, NEW j \in JobIds, BackoffOver(j) \/ StallDead(j) \/ StallLive(j), UNCHANGED call
    PROVE  IInv'
<1>1. queue[j] \in QueueEntry /\ EntryOK(j) /\ queue[j].state \in {"delayed", "active"}
  BY DEF IInv, QueueOK, BackoffOver, StallDead, StallLive, QueuePromote, QueueStall
<1>2. RowsKept /\ UNCHANGED work /\ faults' \in 0..MaxFaults
  BY FaultsBounded DEF BackoffOver, StallDead, StallLive, RowsKept, dbVars, IInv, AllFaultKinds,
        NoFault
<1>3. queue[j].made < MaxAttempts /\ queue[j].stalls <= MaxStalled
  BY <1>1 DEF EntryOK
<1>4. QueueOK' /\ AbsentKept /\ DbOK' /\ DbGrows
  <2>1. CASE QueuePromote(j)
    <3> DEFINE entry == [ state |-> "wait", made |-> queue[j].made,
                          stalls |-> queue[j].stalls, holder |-> queue[j].holder ]
    <3>1. entry \in QueueEntry
      BY <1>1 DEF QueueEntry, QueueStates
    <3>2. queue' = [queue EXCEPT ![j] = entry]
      BY <1>1, <2>1, PromoteEntry
    <3> QED BY <1>1, <1>2, <1>3, <3>1, <3>2, EntryStep
  <2>2. CASE QueueStall(j)
    <3> DEFINE entry == [ state  |-> IF queue[j].stalls < MaxStalled THEN "wait" ELSE "failed",
                          made   |-> queue[j].made,
                          stalls |-> queue[j].stalls + 1,
                          holder |-> NoWorker ]
    <3>1. entry \in QueueEntry
      BY <1>1, <1>3, QueueAssumption DEF QueueEntry, QueueStates
    <3>2. queue' = [queue EXCEPT ![j] = entry]
      BY <2>2 DEF QueueStall
    <3>3. entry.state # "absent" /\
          (entry.state \notin {"completed", "failed"} =>
                entry.made < MaxAttempts /\ entry.stalls <= MaxStalled)
      BY <1>1, <1>3, QueueAssumption DEF QueueEntry
    <3> QED BY <1>1, <1>2, <3>1, <3>2, <3>3, EntryStep
  <2> QED BY <2>1, <2>2 DEF BackoffOver, StallDead, StallLive
<1>5. WorkOK'
  BY <1>2, <1>4, WorkKept DEF IInv
<1>6. CallsOK'
  BY <1>4, AllCallsKept DEF IInv
<1> QED BY <1>2, <1>4, <1>5, <1>6 DEF IInv

\* Every step of a worker keeps the invariant.
LEMMA WorkerKeepsIInv ==
    ASSUME IInv, NEW w \in Workers, WorkerNext(w), UNCHANGED call
    PROVE  IInv'
BY ClaimStep, ActivateStep, ActivationOtherwise, StageSteps, SuccessSteps, FailureSteps,
   ReportSteps, CrashStep
   DEF WorkerNext, WorkStep, WorkFault

-----------------------------------------------------------------------------
(* The theorems                                                            *)

\* The empty system satisfies the invariant.
LEMMA InitIInv ==
    Init => IInv
<1> SUFFICES ASSUME Init
             PROVE  IInv
  OBVIOUS
<1> USE DbAssumption, QueueAssumption DEF Init
<1>1. DbType
  BY DEF DbInit, DbType, DocumentStatuses, VersionRow, Generation, NoGeneration, JobRow,
         ErrorCodes, Exists, JobIds
<1>2. StatusExplained /\ IndexedIsSearchable /\ TerminalReasons
  BY DEF DbInit, StatusExplained, IndexedIsSearchable, TerminalReasons
<1>3. faults \in 0..MaxFaults
  BY DEF DbInit
<1>4. QueueOK
  BY DEF QueueInit, QueueOK, QueueEntry, QueueStates, EntryOK
<1>5. CallsOK
  BY IdleIsCall DEF CallInit, CallsOK, CallOK, NewJobsDistinct
<1>6. WorkOK
  BY IdleIsSlot DEF WorkInit, WorkOK, SlotOK, AttemptNumbersUnique
<1> QED BY <1>1, <1>2, <1>3, <1>4, <1>5, <1>6 DEF IInv, DbOK

\* Steps that change nothing keep the invariant.
LEMMA StutterKeepsIInv ==
    ASSUME IInv, UNCHANGED vars
    PROVE  IInv'
<1> USE DEF vars
<1>1. DbOK' /\ DbGrows
  BY RowsKeptDb DEF IInv, dbVars, RowsKept
<1>2. QueueOK' /\ AbsentKept
  BY <1>1, QueueKept DEF IInv
<1>3. CallsOK'
  BY <1>1, <1>2, AllCallsKept DEF IInv
<1>4. WorkOK'
  BY <1>1, WorkKept DEF IInv
<1> QED BY <1>1, <1>2, <1>3, <1>4 DEF IInv, dbVars

\* Every step of the system keeps the invariant.
LEMMA NextKeepsIInv ==
    IInv /\ [Next]_vars => IInv'
BY ApiKeepsIInv, WorkerKeepsIInv, QueueSteps, StutterKeepsIInv DEF Next

\* The inductive invariant: IInv holds in every state that ingestion reaches, for
\* all values of the constants that the assumptions admit.
THEOREM Inductive == Spec => []IInv
BY InitIInv, NextKeepsIInv, PTL DEF Spec

\* Every row, queue entry, handler and slot keeps its type, job rows exist in
\* the order of their numbers and belong to documents: Upload, the reindex and
\* retry handlers, the worker and the queue, with any faults.
THEOREM TypeCorrect == Spec => []TypeOK
<1>1. IInv => TypeOK
  BY DEF IInv, DbOK, DbType, QueueOK, CallsOK, WorkOK, TypeOK
<1> QED BY <1>1, Inductive, PTL

\* The status of a document is the image of the status of one of its jobs, and
\* of its version, after any transactions of handlers and workers.
THEOREM StatusesAgree == Spec => []StatusExplained
<1>1. IInv => StatusExplained
  BY DEF IInv, DbOK
<1> QED BY <1>1, Inductive, PTL

\* A document that retrieval selects as INDEXED has chunks that it finds: no
\* slot marks success before its own chunks, or later ones, are committed.
THEOREM IndexedHasChunks == Spec => []IndexedIsSearchable
<1>1. IInv => IndexedIsSearchable
  BY DEF IInv, DbOK
<1> QED BY <1>1, Inductive, PTL

\* Slots that work on the same job, the queue having lost track of one of
\* them, never run under the same attempt number.
THEOREM AttemptsDiffer == Spec => []AttemptNumbersUnique
<1>1. IInv => AttemptNumbersUnique
  BY DEF IInv, WorkOK
<1> QED BY <1>1, Inductive, PTL

\* DEAD_LETTER and FAILED rows state the reason for which they were written.
THEOREM ReasonsAreTrue == Spec => []TerminalReasons
<1>1. IInv => TerminalReasons
  BY DEF IInv, DbOK
<1> QED BY <1>1, Inductive, PTL

-----------------------------------------------------------------------------
\* A finished job is not restarted.
NotRestarted(j) ==
    Terminal(j) => job'[j].status # "ACTIVE" /\ job'[j].attempts = job[j].attempts

\* A new job row takes a number of its own: no finished job is touched.
LEMMA InsertRestartsNothing ==
    ASSUME IInv, NEW d, InsertJob(d)
    PROVE  \A j \in JobIds : NotRestarted(j)
<1>1. \A j \in JobIds : Terminal(j) => j # jobCount + 1
  BY DEF IInv, DbOK, DbType, Exists, Terminal, TerminalStatuses
<1> QED BY <1>1 DEF InsertJob, NotRestarted, Terminal, TerminalStatuses, IInv, DbOK, DbType

\* No transaction on a job starts a finished job or counts an attempt of one.
LEMMA TxRestartsNothing ==
    ASSUME IInv, NEW i \in JobIds,
           \/ TxActivate(i)
           \/ TxEnqueueFailed(i)
           \/ TxMarkRetryWaiting(i)
           \/ \E a \in 0..MaxAttempts : TxMarkSuccess(i, a)
           \/ TxMarkFailure(i, "FAILED", "PERMANENT")
           \/ TxMarkFailure(i, "DEAD_LETTER", "TRANSIENT")
    PROVE  \A j \in JobIds : NotRestarted(j)
<1>1. job \in [JobIds -> JobRow]
  BY DEF IInv, DbOK, DbType
<1>2. CASE TxActivate(i)
  <2>1. ~ Terminal(i)
    BY <1>2 DEF TxActivate, SkippedStatuses, Terminal, TerminalStatuses
  <2>2. \A j \in JobIds : j # i => job'[j] = job[j]
    BY <1>1, <1>2 DEF TxActivate
  <2> QED BY <2>1, <2>2 DEF NotRestarted, Terminal, TerminalStatuses
<1>3. CASE TxEnqueueFailed(i)
  BY <1>1, <1>3 DEF TxEnqueueFailed, NotRestarted, Terminal, TerminalStatuses
<1>4. CASE TxMarkRetryWaiting(i)
  BY <1>1, <1>4 DEF TxMarkRetryWaiting, NotRestarted, Terminal, TerminalStatuses
<1>5. ASSUME NEW a \in 0..MaxAttempts, TxMarkSuccess(i, a)
      PROVE  \A j \in JobIds : NotRestarted(j)
  BY <1>1, <1>5 DEF TxMarkSuccess, NotRestarted, Terminal, TerminalStatuses
<1>6. CASE TxMarkFailure(i, "FAILED", "PERMANENT")
  BY <1>1, <1>6 DEF TxMarkFailure, NotRestarted, Terminal, TerminalStatuses
<1>7. CASE TxMarkFailure(i, "DEAD_LETTER", "TRANSIENT")
  BY <1>1, <1>7 DEF TxMarkFailure, NotRestarted, Terminal, TerminalStatuses
<1> QED BY <1>2, <1>3, <1>4, <1>5, <1>6, <1>7

\* A step that writes no job row restarts nothing.
LEMMA KeptRestartsNothing ==
    ASSUME UNCHANGED job
    PROVE  \A j \in JobIds : NotRestarted(j)
BY DEF NotRestarted, Terminal, TerminalStatuses

\* No step of a handler starts a finished job.
LEMMA ApiRestartsNothing ==
    ASSUME IInv, NEW c \in Callers, ApiNext(c)
    PROVE  \A j \in JobIds : NotRestarted(j)
<1>1. \/ UNCHANGED job
      \/ \E d : InsertJob(d)
      \/ MarkEnqueueFailure(c)
  BY DEF ApiNext, CallStep, CallFault, Upload, TxCreateDocument, ReindexCheck, RetryFind,
         RetryCheckLatest, RetryCheckSiblings, RequeueCommit, TxRequeue, RequeueAbort, Enqueue,
         EnqueueRejected, EnqueueAmbiguous, MarkEnqueueFailureLost, ApiCrash, dbVars
<1>2. CASE MarkEnqueueFailure(c)
  <2>1. call[c].job \in Born
    BY <1>2 DEF MarkEnqueueFailure, IInv, CallsOK, CallOK, At
  <2>2. call[c].job \in JobIds
    BY <2>1, DbAssumption DEF Born, JobIds, IInv, DbOK, DbType
  <2> QED BY <1>2, <2>2, TxRestartsNothing DEF MarkEnqueueFailure
<1> QED BY <1>1, <1>2, KeptRestartsNothing, InsertRestartsNothing

\* No step of a worker starts a finished job.
LEMMA WorkerRestartsNothing ==
    ASSUME IInv, NEW w \in Workers, WorkerNext(w)
    PROVE  \A j \in JobIds : NotRestarted(j)
<1> DEFINE i == work[w].job
<1>1. \/ UNCHANGED job
      \/ /\ work[w].pc # "idle"
         /\ \/ TxActivate(i)
            \/ TxMarkSuccess(i, work[w].attempt)
            \/ TxHandleFailure(w)
  BY DEF WorkerNext, WorkStep, WorkFault, Claim, Activate, SkipTerminal, ActivationRefused,
         ActivationFails, StageRaises, PersistChunks, PersistAnswerLost, TxPersistChunks,
         MarkSuccess, MarkSuccessFails, HandleFailure, HandleFailureFails, ReportReturn,
         ReportRaise, ReportUnrecoverable, WorkerCrash, RowsKept, dbVars, InStep
<1>2. ASSUME work[w].pc # "idle"
      PROVE  i \in JobIds /\ work[w].attempt \in 0..MaxAttempts
  BY <1>2, BusySlot DEF Slot
<1>3. TxHandleFailure(w) =>
        \/ TxMarkRetryWaiting(i)
        \/ TxMarkFailure(i, "FAILED", "PERMANENT")
        \/ TxMarkFailure(i, "DEAD_LETTER", "TRANSIENT")
  BY DEF TxHandleFailure, InStep
<1> QED BY <1>1, <1>2, <1>3, KeptRestartsNothing, TxRestartsNothing

\* Whoever delivers a finished job again, mark_job_active does not start it,
\* and its attempts stay what they were when it finished.
THEOREM FinishedStaysDown == Spec => FinishedNeverRestarts
<1>1. IInv /\ [Next]_vars => [\A j \in JobIds : NotRestarted(j)]_vars
  <2> SUFFICES ASSUME IInv, Next
               PROVE  \A j \in JobIds : NotRestarted(j)
    OBVIOUS
  <2>1. (\E j \in JobIds : BackoffOver(j) \/ StallDead(j) \/ StallLive(j)) => UNCHANGED job
    BY DEF BackoffOver, StallDead, StallLive, RowsKept, dbVars
  <2> QED BY <2>1, ApiRestartsNothing, WorkerRestartsNothing, KeptRestartsNothing DEF Next
<1>2. (\A j \in JobIds : NotRestarted(j)) <=>
        (\A j \in JobIds :
            Terminal(j) => job'[j].status # "ACTIVE" /\ job'[j].attempts = job[j].attempts)
  BY DEF NotRestarted
<1> QED BY <1>1, <1>2, Inductive, PTL DEF Spec, FinishedNeverRestarts

-----------------------------------------------------------------------------
(***************************************************************************)
(* What ingestion promises when a job has one owner at a time: one live job  *)
(* per document, a count that is the count of what is searched, and the life *)
(* cycle of the architecture notes.  For any number of documents, jobs,      *)
(* attempts, slots and faults, under two hypotheses that name what they      *)
(* exclude: no second handler beside the first, and no fault by which a job  *)
(* gets a second owner or a caller is told less than happened.               *)
(*                                                                         *)
(* The argument.  The queue's lock gives every busy slot a job that no other *)
(* slot works on.  So the job that a transaction writes is live before it,   *)
(* and a live job is the latest of its document, because a handler has       *)
(* looked for live ones and nothing but itself could add one since.  Then    *)
(* what the latest job says explains the document at any time.               *)
(***************************************************************************)

\* One handler runs at a time.
OneHandler == \A b, c \in Callers : b = c

\* A live worker keeps its lock, and nothing commits or is queued while its
\* caller sees an error.
OwnershipKept == FaultKinds \cap {"lock_lost", "db_ack", "add_ambiguous"} = {}

LiveIsLatest == \A j \in JobIds : Live(j) => IsLatest(j)

\* A document that exists has a latest job, and that one explains it.
LatestExplains ==
    \A d \in Documents :
        document[d] # "NONE" => \E j \in JobIds : Exists(j) /\ IsLatest(j) /\ Explains(j, d)

JobsHaveDocuments == \A j \in JobIds : Exists(j) => document[job[j].doc] # "NONE"

RowsOK == LiveIsLatest /\ LatestExplains /\ JobsHaveDocuments /\ CountsWhatIsSearched

InProcess(w) == work[w].pc \in {"running", "persisted", "retryable", "permanent"}

\* A busy slot has the lock of its job; from activation on, the job is in the
\* state in which this slot has put it, and so are its chunks.
OwnerOK(w) ==
    /\ work[w].pc # "idle" => Holds(w, work[w].job)
    /\ InProcess(w) => job[work[w].job].status = "ACTIVE"
                       /\ work[w].attempt = job[work[w].job].attempts
    /\ work[w].pc = "persisted" =>
            chunks[job[work[w].job].doc] = [job |-> work[w].job, attempt |-> work[w].attempt]

\* A handler past its checks knows that its document has no live job; one that
\* has inserted a job has it to itself.
RequestOK(c) ==
    /\ call[c].pc \in {"reindex_checked", "retry_checked"} =>
            \A j \in JobIds : job[j].doc = call[c].doc => ~Live(j)
    /\ call[c].pc \in {"committed", "add_failed"} =>
            /\ job[call[c].job].status = "WAITING" /\ job[call[c].job].attempts = 0
            /\ queue[call[c].job].state = "absent"

Serial ==
    /\ RowsOK
    /\ \A w \in Workers : OwnerOK(w)
    /\ \A c \in Callers : RequestOK(c)

-----------------------------------------------------------------------------
(* The rows                                                                *)

\* A step that writes no row keeps what the rows say.
LEMMA RowsStay ==
    ASSUME RowsOK, RowsKept
    PROVE  RowsOK'
<1> USE DEF RowsOK, RowsKept
<1>1. LiveIsLatest' /\ JobsHaveDocuments' /\ CountsWhatIsSearched'
  BY DEF LiveIsLatest, JobsHaveDocuments, CountsWhatIsSearched, Live, Exists, IsLatest, JobsOf
<1>2. LatestExplains'
  BY DEF LatestExplains, Exists, IsLatest, JobsOf, Explains
<1> QED BY <1>1, <1>2

\* A transaction of the live job j writes the outcome of the latest job.
LEMMA RowsOfJobTx ==
    ASSUME DbOK, RowsOK, NEW j \in Born, Live(j), JobTx(j),
           document'[job[j].doc] = "INDEXED" =>
                version'[job[j].doc].counted = chunks[job[j].doc]
    PROVE  RowsOK'
<1> DEFINE d == job[j].doc
<1> USE DEF RowsOK
<1>1. j \in JobIds /\ d \in Documents /\ Exists(j)
  BY DbAssumption DEF DbOK, DbType, Born, JobIds, Exists
<1>2. /\ \A i \in JobIds : i # j => job'[i] = job[i]
      /\ job'[j].doc = d /\ job'[j].status # "NONE"
      /\ \A e \in Documents : e # d => document'[e] = document[e] /\ version'[e] = version[e]
      /\ chunks' = chunks /\ Explains(j, d)'
  BY <1>1 DEF JobTx, DbOK, DbType
<1>3. \A i \in JobIds : (Exists(i)' <=> Exists(i)) /\ job'[i].doc = job[i].doc
  BY <1>1, <1>2 DEF Exists
<1>4. \A i \in JobIds : IsLatest(i) => IsLatest(i)'
  BY <1>3 DEF IsLatest, JobsOf
<1>5. IsLatest(j) /\ IsLatest(j)'
  BY <1>1, <1>4 DEF LiveIsLatest
<1>6. LiveIsLatest'
  BY <1>2, <1>4, <1>5 DEF LiveIsLatest, Live
<1>7. LatestExplains'
  <2> SUFFICES ASSUME NEW e \in Documents, document'[e] # "NONE"
               PROVE  \E i \in JobIds : Exists(i)' /\ IsLatest(i)' /\ Explains(i, e)'
    BY DEF LatestExplains
  <2>1. CASE e = d
    BY <1>1, <1>2, <1>3, <1>5, <2>1
  <2>2. CASE e # d
    <3>1. PICK i \in JobIds : Exists(i) /\ IsLatest(i) /\ Explains(i, e)
      BY <1>2, <2>2 DEF LatestExplains
    <3>2. i # j
      BY <2>2, <3>1 DEF Explains
    <3> QED BY <1>2, <1>3, <1>4, <2>2, <3>1, <3>2 DEF Explains
  <2> QED BY <2>1, <2>2
<1>8. JobsHaveDocuments'
  <2>1. document'[d] # "NONE"
    BY <1>2 DEF Explains
  <2> QED BY <1>2, <1>3, <2>1 DEF JobsHaveDocuments, DbOK, DbType
<1>9. CountsWhatIsSearched'
  BY <1>1, <1>2 DEF CountsWhatIsSearched
<1> QED BY <1>6, <1>7, <1>8, <1>9

\* A new job of a document without a live one becomes its latest.
LEMMA RowsOfInsert ==
    ASSUME DbOK, DbOK', RowsOK, NEW d \in Documents, InsertJob(d),
           SetStatus(d, "QUEUED", InitialVectorization), UNCHANGED chunks,
           \A i \in JobIds : job[i].doc = d => ~ Live(i)
    PROVE  RowsOK'
<1> USE DEF RowsOK
<1>0. PICK j \in JobIds : j = jobCount + 1
  BY DbAssumption DEF DbOK, DbType, InsertJob, JobIds
<1>1. j \in JobIds /\ ~ Exists(j) /\ jobCount \in Nat
  BY <1>0, DbAssumption DEF DbOK, DbType, InsertJob, JobIds
<1>2. /\ \A i \in JobIds : i # j => job'[i] = job[i]
      /\ job'[j].doc = d /\ job'[j].status = "WAITING" /\ job'[j].attempts = 0
      /\ \A e \in Documents : e # d => document'[e] = document[e] /\ version'[e] = version[e]
      /\ document'[d] = "QUEUED" /\ chunks' = chunks
  BY <1>0, <1>1 DEF InsertJob, SetStatus, DbOK, DbType
<1>3. \A i \in JobIds : Exists(i)' => i <= j
  BY <1>0 DEF DbOK, DbType, InsertJob
<1>4. Exists(j)' /\ IsLatest(j)' /\ Explains(j, d)'
  BY <1>1, <1>2, <1>3 DEF Exists, IsLatest, JobsOf, Explains
<1>5. ASSUME NEW i \in JobIds, i # j, job[i].doc # d, IsLatest(i)
      PROVE  IsLatest(i)'
  BY <1>2, <1>5 DEF IsLatest, JobsOf, Exists
<1>6. LiveIsLatest'
  <2> SUFFICES ASSUME NEW i \in JobIds, Live(i)', i # j
               PROVE  IsLatest(i)'
    BY <1>4 DEF LiveIsLatest
  <2>1. Live(i) /\ IsLatest(i)
    BY <1>2 DEF Live, LiveIsLatest
  <2> QED BY <1>5, <2>1
<1>7. LatestExplains'
  <2> SUFFICES ASSUME NEW e \in Documents, document'[e] # "NONE"
               PROVE  \E i \in JobIds : Exists(i)' /\ IsLatest(i)' /\ Explains(i, e)'
    BY DEF LatestExplains
  <2>1. CASE e = d
    BY <1>1, <1>4, <2>1
  <2>2. CASE e # d
    <3>1. PICK i \in JobIds : Exists(i) /\ IsLatest(i) /\ Explains(i, e)
      BY <1>2, <2>2 DEF LatestExplains
    <3>2. i # j /\ job[i].doc # d
      BY <1>1, <2>2, <3>1 DEF Explains
    <3>3. Exists(i)' /\ Explains(i, e)'
      BY <1>2, <2>2, <3>1, <3>2 DEF Explains, Exists
    <3> QED BY <1>5, <3>1, <3>2, <3>3
  <2> QED BY <2>1, <2>2
<1>8. JobsHaveDocuments'
  BY <1>2 DEF JobsHaveDocuments, Exists, DbOK, DbType
<1>9. CountsWhatIsSearched'
  BY <1>2 DEF CountsWhatIsSearched
<1> QED BY <1>6, <1>7, <1>8, <1>9

\* Writing chunks tells the rows nothing while the document is not INDEXED.
LEMMA RowsOfPersist ==
    ASSUME DbOK, RowsOK, NEW j \in Born, NEW a, TxPersistChunks(j, a),
           document[job[j].doc] # "INDEXED"
    PROVE  RowsOK'
<1> USE DEF RowsOK, TxPersistChunks
<1>1. LiveIsLatest' /\ JobsHaveDocuments'
  BY DEF LiveIsLatest, JobsHaveDocuments, Live, Exists, IsLatest, JobsOf
<1>2. LatestExplains'
  BY DEF LatestExplains, Exists, IsLatest, JobsOf, Explains
<1>3. CountsWhatIsSearched'
  BY DEF CountsWhatIsSearched, DbOK, DbType
<1> QED BY <1>1, <1>2, <1>3

-----------------------------------------------------------------------------
(* What a step on one job leaves to everybody else                         *)

\* The step writes the row and the queue entry of the job j at most.
OthersKept(j) ==
    \A i \in JobIds : i # j => queue'[i] = queue[i] /\ job'[i] = job[i]

\* A slot that works on another job keeps what it knows.
LEMMA OwnerKept ==
    ASSUME IInv, NEW v \in Workers, OwnerOK(v), work'[v] = work[v], NEW j, OthersKept(j),
           work[v].pc # "idle" => work[v].job # j,
           work[v].pc = "persisted" =>
                chunks'[job[work[v].job].doc] = chunks[job[work[v].job].doc]
    PROVE  OwnerOK(v)'
<1>1. CASE work[v].pc = "idle"
  BY <1>1 DEF OwnerOK, InProcess
<1>2. CASE work[v].pc # "idle"
  <2>1. work[v].job \in JobIds /\ work[v].job # j
    BY <1>2, BusySlot
  <2>2. queue'[work[v].job] = queue[work[v].job] /\ job'[work[v].job] = job[work[v].job]
    BY <2>1 DEF OthersKept
  <2> QED BY <1>2, <2>2 DEF OwnerOK, InProcess, Holds
<1> QED BY <1>1, <1>2

\* A handler keeps what it knows when the job is not its own, and not newly live.
LEMMA RequestKept ==
    ASSUME IInv, NEW c \in Callers, RequestOK(c), call'[c] = call[c], NEW j \in JobIds,
           OthersKept(j),
           call[c].pc \in {"committed", "add_failed"} => call[c].job # j,
           Live(j)' => Live(j) /\ job'[j].doc = job[j].doc
    PROVE  RequestOK(c)'
<1>1. call[c].pc \in {"committed", "add_failed"} =>
        queue'[call[c].job] = queue[call[c].job] /\ job'[call[c].job] = job[call[c].job]
  <2> SUFFICES ASSUME call[c].pc \in {"committed", "add_failed"}
               PROVE  queue'[call[c].job] = queue[call[c].job] /\ job'[call[c].job] = job[call[c].job]
    OBVIOUS
  <2>1. call[c].job \in JobIds
    BY DbAssumption DEF IInv, DbOK, DbType, CallsOK, CallOK, Born, JobIds
  <2> QED BY <2>1 DEF OthersKept
<1>2. \A i \in JobIds : Live(i)' => Live(i) /\ job'[i].doc = job[i].doc
  BY DEF OthersKept, Live
<1> QED BY <1>1, <1>2 DEF RequestOK

\* A slot that holds its job has it to itself, and no handler adds that job.
LEMMA OneOwner ==
    ASSUME IInv, Serial, NEW w \in Workers, work[w].pc # "idle"
    PROVE  /\ \A v \in Workers : v # w /\ work[v].pc # "idle" => work[v].job # work[w].job
           /\ \A c \in Callers : call[c].pc \in {"committed", "add_failed"} =>
                call[c].job # work[w].job
<1>1. Holds(w, work[w].job)
  BY DEF Serial, OwnerOK
<1>2. ASSUME NEW v \in Workers, v # w, work[v].pc # "idle"
      PROVE  work[v].job # work[w].job
  BY <1>1, <1>2 DEF Serial, OwnerOK, Holds
<1>3. ASSUME NEW c \in Callers, call[c].pc \in {"committed", "add_failed"}
      PROVE  call[c].job # work[w].job
  <2>1. queue[call[c].job].state = "absent"
    BY <1>3 DEF Serial, RequestOK
  <2> QED BY <1>1, <2>1 DEF Holds
<1> QED BY <1>2, <1>3

-----------------------------------------------------------------------------
(* The steps of the handler                                                *)

\* The handler moves, and nothing else does.
LEMMA HandlerOnly ==
    ASSUME OneHandler, Serial, NEW c \in Callers, RowsKept, UNCHANGED queue, UNCHANGED work,
           RequestOK(c)'
    PROVE  Serial'
<1>1. RowsOK'
  BY RowsStay DEF Serial
<1>2. \A w \in Workers : OwnerOK(w)'
  BY DEF Serial, RowsKept, OwnerOK, InProcess, Holds
<1>3. \A b \in Callers : RequestOK(b)'
  BY DEF OneHandler
<1> QED BY <1>1, <1>2, <1>3 DEF Serial

\* A handler without a request knows nothing.
LEMMA IdleKnows ==
    ASSUME IInv, NEW c \in Callers, Return(c)
    PROVE  RequestOK(c)'
<1>1. call'[c] = IdleCall
  BY DEF Return, IInv, CallsOK
<1> QED BY <1>1 DEF RequestOK, IdleCall

\* The checks that open a reindex or a retry, and the answer that refuses one,
\* keep one owner per job.
LEMMA ChecksSerial ==
    ASSUME OneHandler, IInv, Serial, NEW c \in Callers, UNCHANGED work,
           \/ \E d \in Documents : ReindexCheck(c, d)
           \/ \E j \in JobIds : RetryFind(c, j)
           \/ RetryCheckLatest(c)
           \/ RetryCheckSiblings(c)
           \/ RequeueAbort(c)
    PROVE  Serial'
<1>1. RowsKept /\ UNCHANGED queue
  BY DEF ReindexCheck, RetryFind, RetryCheckLatest, RetryCheckSiblings, RequeueAbort,
         RowsKept, dbVars
<1>2. call \in [Callers -> Call]
  BY DEF IInv, CallsOK
<1>3. ASSUME NEW d, ~ HasLiveJob(d)
      PROVE  \A j \in JobIds : job'[j].doc = d => ~ Live(j)'
  BY <1>1, <1>3 DEF HasLiveJob, JobsOf, Live, Exists, LiveStatuses, RowsKept
<1>4. ASSUME NEW d \in Documents, ReindexCheck(c, d)
      PROVE  RequestOK(c)'
  <2>1. call'[c] = [pc |-> "reindex_checked", doc |-> d, job |-> 0]
    BY <1>2, <1>4 DEF ReindexCheck
  <2>2. \A j \in JobIds : job'[j].doc = d => ~ Live(j)'
    BY <1>3, <1>4 DEF ReindexCheck
  <2> QED BY <2>1, <2>2 DEF RequestOK
<1>5. ASSUME NEW j \in JobIds, RetryFind(c, j)
      PROVE  RequestOK(c)'
  <2>1. call'[c].pc = "retry_found"
    BY <1>2, <1>5 DEF RetryFind
  <2> QED BY <2>1 DEF RequestOK
<1>6. ASSUME RetryCheckLatest(c), Goto(c, "retry_latest")
      PROVE  RequestOK(c)'
  <2>1. call'[c].pc = "retry_latest"
    BY <1>2, <1>6 DEF Goto, Call
  <2> QED BY <2>1 DEF RequestOK
<1>7. ASSUME ~ HasLiveJob(call[c].doc), Goto(c, "retry_checked")
      PROVE  RequestOK(c)'
  <2>1. call'[c].pc = "retry_checked" /\ call'[c].doc = call[c].doc
    BY <1>2, <1>7 DEF Goto, Call
  <2>2. \A j \in JobIds : job'[j].doc = call[c].doc => ~ Live(j)'
    BY <1>3, <1>7
  <2> QED BY <2>1, <2>2 DEF RequestOK
<1>8. RequestOK(c)'
  BY <1>4, <1>5, <1>6, <1>7, IdleKnows DEF RetryCheckLatest, RetryCheckSiblings, RequeueAbort
<1> QED BY <1>1, <1>8, HandlerOnly

\* An upload, or a reindex or retry that found no live job, commits a job that
\* is the only live one of its document and that only this handler knows.
LEMMA CommitSerial ==
    ASSUME OneHandler, IInv, IInv', Serial, NEW c \in Callers, NEW d \in Documents,
           SetStatus(d, "QUEUED", InitialVectorization), InsertJob(d), UNCHANGED chunks,
           Committed(c, d), UNCHANGED queue, UNCHANGED work,
           \A i \in JobIds : job[i].doc = d => ~ Live(i)
    PROVE  Serial'
<1>0. PICK j \in JobIds : j = jobCount + 1
  BY DbAssumption DEF IInv, DbOK, DbType, InsertJob, JobIds
<1>1. RowsOK'
  BY RowsOfInsert DEF IInv, Serial
<1>2. j \notin Born
  BY <1>0 DEF IInv, DbOK, DbType, Born
<1>3. /\ OthersKept(j)
      /\ job'[j].status = "WAITING" /\ job'[j].attempts = 0
  BY <1>0 DEF InsertJob, OthersKept, IInv, DbOK, DbType
<1>4. ASSUME NEW w \in Workers
      PROVE  OwnerOK(w)'
  <2>1. work[w].pc # "idle" => work[w].job # j
    BY <1>2, BusySlot
  <2> QED BY <1>3, <2>1, OwnerKept DEF Serial
<1>5. queue[j].state = "absent"
  BY <1>2 DEF IInv, QueueOK, EntryOK
<1>6. call'[c] = [pc |-> "committed", doc |-> d, job |-> j]
  BY <1>0 DEF Committed, IInv, CallsOK
<1>7. RequestOK(c)'
  BY <1>3, <1>5, <1>6 DEF RequestOK
<1>8. \A b \in Callers : RequestOK(b)'
  BY <1>7 DEF OneHandler
<1> QED BY <1>1, <1>4, <1>8 DEF Serial

\* The job that the handler holds is added, or marked as failed: no slot has it.
LEMMA HandlerJob ==
    ASSUME OneHandler, IInv, Serial, NEW c \in Callers,
           call[c].pc \in {"committed", "add_failed"}, Return(c),
           OthersKept(call[c].job), UNCHANGED chunks, RowsOK', UNCHANGED work
    PROVE  Serial'
<1>1. ASSUME NEW w \in Workers
      PROVE  OwnerOK(w)'
  <2>1. work[w].pc # "idle" => work[w].job # call[c].job
    BY OneOwner
  <2> QED BY <2>1, OwnerKept DEF Serial
<1>2. \A b \in Callers : RequestOK(b)'
  BY IdleKnows DEF OneHandler
<1> QED BY <1>1, <1>2 DEF Serial

\* Every step of the handler keeps one owner per job.
LEMMA ApiSerial ==
    ASSUME OneHandler, OwnershipKept, IInv, IInv', Serial, NEW c \in Callers,
           ApiNext(c), UNCHANGED work
    PROVE  Serial'
<1> USE DEF IInv
<1>1. ASSUME NEW d \in Documents, Upload(c, d)
      PROVE  Serial'
  <2>1. \A i \in JobIds : job[i].doc = d => ~ Live(i)
    BY <1>1 DEF Upload, TxCreateDocument, Serial, RowsOK, JobsHaveDocuments, Live, Exists,
           LiveStatuses
  <2> QED BY <1>1, <2>1, CommitSerial DEF Upload, TxCreateDocument
<1>2. CASE RequeueCommit(c)
  <2>1. call[c].doc \in Documents
    BY <1>2 DEF RequeueCommit, CallsOK, CallOK
  <2>2. \A i \in JobIds : job[i].doc = call[c].doc => ~ Live(i)
    BY <1>2 DEF RequeueCommit, Serial, RequestOK
  <2> QED BY <1>2, <2>1, <2>2, CommitSerial DEF RequeueCommit, TxRequeue
<1>3. CASE Enqueue(c)
  <2>1. RowsOK'
    BY <1>3, RowsStay DEF Enqueue, Serial, RowsKept, dbVars
  <2>2. OthersKept(call[c].job) /\ UNCHANGED chunks
    BY <1>3 DEF Enqueue, QueueAdd, OthersKept, QueueOK, dbVars
  <2> QED BY <1>3, <2>1, <2>2, HandlerJob DEF Enqueue, At
<1>4. CASE MarkEnqueueFailure(c)
  <2>1. PICK j \in Born : j = call[c].job
    BY <1>4 DEF MarkEnqueueFailure, At, CallsOK, CallOK
  <2>2. Live(j)
    BY <1>4, <2>1 DEF MarkEnqueueFailure, At, Serial, RequestOK, Live, LiveStatuses
  <2>3. JobTx(j) /\ job'[j].status = "FAILED"
    BY <1>4, <2>1, EnqueueFailedDb DEF MarkEnqueueFailure
  <2>4. document'[job[j].doc] = "FAILED"
    BY <2>3 DEF JobTx, Explains
  <2>5. RowsOK'
    BY <2>2, <2>3, <2>4, RowsOfJobTx DEF Serial
  <2>6. OthersKept(j) /\ UNCHANGED chunks
    BY <1>4, <2>3 DEF MarkEnqueueFailure, JobTx, OthersKept, DbOK, DbType
  <2> QED BY <1>4, <2>1, <2>5, <2>6, HandlerJob DEF MarkEnqueueFailure, At
<1>5. CASE EnqueueRejected(c)
  <2>1. call'[c].pc = "add_failed" /\ call'[c].job = call[c].job
    BY <1>5 DEF EnqueueRejected, Goto, CallsOK, Call
  <2>2. RequestOK(c)'
    BY <1>5, <2>1 DEF EnqueueRejected, At, Serial, RequestOK
  <2> QED BY <1>5, <2>2, HandlerOnly DEF EnqueueRejected, RowsKept
<1>6. CASE MarkEnqueueFailureLost(c) \/ ApiCrash(c)
  BY <1>6, IdleKnows, HandlerOnly DEF MarkEnqueueFailureLost, ApiCrash, RowsKept
<1>7. ~ EnqueueAmbiguous(c)
  BY DEF EnqueueAmbiguous, Fault, OwnershipKept
<1> QED BY <1>1, <1>2, <1>3, <1>4, <1>5, <1>6, <1>7, ChecksSerial DEF ApiNext, CallStep, CallFault

-----------------------------------------------------------------------------
(* The steps of the worker                                                 *)

\* A document has one live job, and that one explains its status.
LEMMA LiveExplains ==
    ASSUME DbOK, RowsOK, NEW j \in JobIds, Live(j)
    PROVE  /\ Explains(j, job[j].doc)
           /\ \A i \in JobIds : Live(i) /\ job[i].doc = job[j].doc => i = j
<1> DEFINE d == job[j].doc
<1>1. \A i \in JobIds : Live(i) => Exists(i) /\ IsLatest(i)
  BY DEF RowsOK, LiveIsLatest, Live, Exists, LiveStatuses
<1>2. \A i, k \in JobIds :
        Exists(i) /\ Exists(k) /\ IsLatest(i) /\ IsLatest(k) /\ job[i].doc = job[k].doc => i = k
  BY DbAssumption DEF IsLatest, JobsOf, JobIds
<1>3. d \in Documents /\ document[d] # "NONE"
  BY <1>1 DEF RowsOK, JobsHaveDocuments, DbOK, DbType
<1>4. PICK k \in JobIds : Exists(k) /\ IsLatest(k) /\ Explains(k, d)
  BY <1>3 DEF RowsOK, LatestExplains
<1>5. k = j
  BY <1>1, <1>2, <1>4 DEF Explains
<1> QED BY <1>1, <1>2, <1>4, <1>5

\* A slot moves, having written at most the rows and the entry of its own job.
LEMMA SlotMovesOn ==
    ASSUME IInv, Serial, NEW w \in Workers, work[w].pc # "idle", NEW e,
           work' = [work EXCEPT ![w] = e], NEW j \in JobIds, j = work[w].job,
           OthersKept(j), RowsOK', OwnerOK(w)', UNCHANGED call,
           Live(j)' => Live(j) /\ job'[j].doc = job[j].doc,
           \A v \in Workers : v # w /\ work[v].pc = "persisted" =>
                chunks'[job[work[v].job].doc] = chunks[job[work[v].job].doc]
    PROVE  Serial'
<1>1. ASSUME NEW v \in Workers
      PROVE  OwnerOK(v)'
  <2>1. CASE v = w
    BY <2>1
  <2>2. CASE v # w
    <3>1. work'[v] = work[v]
      BY <2>2 DEF IInv, WorkOK
    <3>2. work[v].pc # "idle" => work[v].job # j
      BY <2>2, OneOwner
    <3> QED BY <2>2, <3>1, <3>2, OwnerKept DEF Serial
  <2> QED BY <2>1, <2>2
<1>2. ASSUME NEW c \in Callers
      PROVE  RequestOK(c)'
  <2>1. call[c].pc \in {"committed", "add_failed"} => call[c].job # j
    BY OneOwner
  <2> QED BY <2>1, RequestKept DEF Serial
<1> QED BY <1>1, <1>2 DEF Serial

\* A slot goes on without writing anything.
LEMMA SlotGoesOn ==
    ASSUME IInv, Serial, NEW w \in Workers, work[w].pc # "idle", NEW pc, Advance(w, pc),
           pc \in {"returned", "raised"} \/ (pc \in {"retryable", "permanent"} /\ InProcess(w)),
           RowsKept, UNCHANGED queue, UNCHANGED call
    PROVE  Serial'
<1>1. PICK j \in JobIds : j = work[w].job
  BY BusySlot
<1> DEFINE e == [pc |-> pc, job |-> work[w].job, attempt |-> work[w].attempt]
<1>2. work' = [work EXCEPT ![w] = e]
  BY BusySlot, AdvanceEntry
<1>3. work'[w] = e
  BY <1>2 DEF IInv, WorkOK
<1>4. OwnerOK(w)'
  <2>1. Holds(w, j)'
    BY <1>1 DEF Serial, OwnerOK, Holds
  <2>2. pc \in {"retryable", "permanent"} =>
            job[j].status = "ACTIVE" /\ work[w].attempt = job[j].attempts
    BY <1>1 DEF Serial, OwnerOK
  <2> HIDE DEF e
  <2>3. e.pc = pc /\ e.job = j /\ e.attempt = work[w].attempt
    BY <1>1 DEF e
  <2>4. work'[w].pc = pc /\ work'[w].job = j /\ work'[w].attempt = work[w].attempt
    BY <1>3, <2>3
  <2> QED BY <2>1, <2>2, <2>4 DEF OwnerOK, InProcess, Holds, RowsKept
<1>5. RowsOK' /\ OthersKept(j) /\ UNCHANGED <<job, chunks>>
  BY RowsStay DEF Serial, RowsKept, OthersKept
<1>6. Live(j)' => Live(j)
  BY <1>5 DEF Live
<1> QED BY <1>1, <1>2, <1>4, <1>5, <1>6, SlotMovesOn

\* A slot is emptied, and the queue entry of its job written at most.
LEMMA SlotLeaves ==
    ASSUME IInv, Serial, NEW w \in Workers, work[w].pc # "idle", Release(w),
           RowsKept, UNCHANGED call,
           \A i \in JobIds : i # work[w].job => queue'[i] = queue[i]
    PROVE  Serial'
<1>1. PICK j \in JobIds : j = work[w].job
  BY BusySlot
<1>2. work' = [work EXCEPT ![w] = IdleSlot] /\ work'[w] = IdleSlot
  BY DEF Release, IInv, WorkOK
<1>3. OwnerOK(w)'
  BY <1>2 DEF OwnerOK, InProcess, IdleSlot
<1>4. RowsOK' /\ OthersKept(j) /\ UNCHANGED <<job, chunks>>
  BY <1>1, RowsStay DEF Serial, RowsKept, OthersKept
<1>5. Live(j)' => Live(j)
  BY <1>4 DEF Live
<1> QED BY <1>1, <1>2, <1>3, <1>4, <1>5, SlotMovesOn

\* What ends a slot's work on its job keeps one owner per job.
LEMMA EndsSerial ==
    ASSUME IInv, Serial, NEW w \in Workers, UNCHANGED call,
           ReportReturn(w) \/ ReportRaise(w) \/ ReportUnrecoverable(w) \/ WorkerCrash(w)
    PROVE  Serial'
<1>1. work[w].pc # "idle" /\ Release(w) /\ RowsKept
  BY DEF ReportReturn, ReportRaise, ReportUnrecoverable, WorkerCrash, InStep, RowsKept, dbVars
<1>2. \A i \in JobIds : i # work[w].job => queue'[i] = queue[i]
  <2>1. UNCHANGED queue \/ \E entry : Finish(w, work[w].job, entry)
    BY DEF ReportReturn, ReportRaise, ReportUnrecoverable, WorkerCrash, QueueComplete,
           QueueFailForGood, QueueFailAttempt
  <2> QED BY <2>1 DEF Finish, IInv, QueueOK
<1> QED BY <1>1, <1>2, SlotLeaves

\* A claimed job is started, skipped or refused.
LEMMA ClaimedSerial ==
    ASSUME OwnershipKept, IInv, Serial, NEW w \in Workers, UNCHANGED call,
           Activate(w) \/ SkipTerminal(w) \/ ActivationRefused(w) \/ ActivationFails(w)
    PROVE  Serial'
<1>1. work[w].pc = "claimed"
  BY DEF Activate, SkipTerminal, ActivationRefused, ActivationFails, InStep
<1>2. PICK j \in Born : j = work[w].job
  BY <1>1, BusySlot
<1>3. j \in JobIds
  BY <1>1, <1>2, BusySlot
<1>4. CASE SkipTerminal(w) \/ ActivationRefused(w)
  BY <1>1, <1>4, SlotGoesOn DEF SkipTerminal, ActivationRefused, RowsKept, dbVars
<1>5. CASE ActivationFails(w)
  <2>1. RowsKept
    BY <1>5 DEF ActivationFails, Fault, OwnershipKept
  <2> QED BY <1>1, <1>5, <2>1, SlotGoesOn DEF ActivationFails
<1>6. CASE Activate(w)
  <2> DEFINE e == [pc |-> "running", job |-> j, attempt |-> job[j].attempts + 1]
  <2>1. TxActivate(j) /\ work' = [work EXCEPT ![w] = e] /\ UNCHANGED queue
    BY <1>2, <1>6 DEF Activate
  <2>2. JobTx(j) /\ job'[j].status = "ACTIVE" /\ job'[j].attempts = job[j].attempts + 1
    BY <2>1, ActivateDb DEF IInv
  <2>3. Live(j)
    <3>1. Exists(j) /\ job[j] \in JobRow /\ job[j].status \notin SkippedStatuses
      BY <1>3, <2>1 DEF IInv, DbOK, DbType, Born, TxActivate
    <3> QED BY <3>1 DEF Exists, Live, JobRow, SkippedStatuses, LiveStatuses, TerminalStatuses
  <2>4. document'[job[j].doc] = "PROCESSING" /\ job'[j].doc = job[j].doc /\ UNCHANGED chunks
    BY <2>2 DEF JobTx, Explains
  <2>5. RowsOK'
    BY <2>2, <2>3, <2>4, RowsOfJobTx DEF IInv, Serial
  <2>6. OthersKept(j)
    BY <2>1, <2>2 DEF OthersKept, JobTx, IInv, DbOK, DbType
  <2>7. OwnerOK(w)'
    <3>1. work'[w] = e
      BY <2>1 DEF IInv, WorkOK
    <3>2. Holds(w, j)'
      BY <1>1, <1>2, <2>1 DEF Serial, OwnerOK, Holds
    <3> QED BY <2>2, <3>1, <3>2 DEF OwnerOK, InProcess, Holds
  <2> QED BY <1>1, <1>2, <1>3, <2>1, <2>3, <2>4, <2>5, <2>6, <2>7, SlotMovesOn
<1> QED BY <1>4, <1>5, <1>6

\* What a slot in process() knows of its job, which it alone writes.
LEMMA Processing ==
    ASSUME IInv, Serial, NEW w \in Workers, InProcess(w)
    PROVE  /\ work[w].job \in Born /\ work[w].job \in JobIds /\ Holds(w, work[w].job)
           /\ Live(work[w].job)
           /\ job[work[w].job].status = "ACTIVE"
           /\ work[w].attempt = job[work[w].job].attempts
           /\ work[w].attempt \in 0..MaxAttempts /\ work[w].attempt > 0
<1>1. work[w].pc # "idle" /\ OwnerOK(w) /\ SlotOK(w)
  BY DEF InProcess, Serial, IInv, WorkOK
<1> QED BY <1>1, BusySlot DEF OwnerOK, SlotOK, InProcess, Live, LiveStatuses, Slot

\* The stages end in chunks or in an error: the chunks are those of the slot's
\* own attempt, and no other slot has chunks of that document to count.
LEMMA StagesSerial ==
    ASSUME OwnershipKept, IInv, Serial, NEW w \in Workers, UNCHANGED call,
           StageRaises(w) \/ PersistChunks(w) \/ PersistAnswerLost(w)
    PROVE  Serial'
<1>1. work[w].pc = "running" /\ InProcess(w) /\ work[w].pc # "idle"
  BY DEF StageRaises, PersistChunks, PersistAnswerLost, InStep, InProcess
<1>2. CASE StageRaises(w)
  BY <1>1, <1>2, SlotGoesOn DEF StageRaises, RowsKept, dbVars
<1>3. CASE PersistAnswerLost(w)
  BY <1>3 DEF PersistAnswerLost, Fault, OwnershipKept
<1>4. CASE PersistChunks(w)
  <2>1. PICK j \in Born, a \in 0..MaxAttempts : j = work[w].job /\ a = work[w].attempt
    BY <1>1, Processing
  <2>2. /\ j \in JobIds /\ Holds(w, j) /\ Live(j)
        /\ job[j].status = "ACTIVE" /\ a = job[j].attempts
    BY <1>1, <2>1, Processing
  <2> DEFINE e == [pc |-> "persisted", job |-> j, attempt |-> a]
  <2>3. work' = [work EXCEPT ![w] = e] /\ work'[w] = e
    <3>1. work' = [work EXCEPT ![w] = e]
      BY <1>1, <1>4, <2>1, BusySlot, AdvanceEntry DEF PersistChunks
    <3> QED BY <3>1 DEF IInv, WorkOK
  <2>4. TxPersistChunks(j, a) /\ UNCHANGED <<queue, job>>
    BY <1>4, <2>1 DEF PersistChunks, TxPersistChunks
  <2>5. job[j].doc \in Documents
    BY <2>1, <2>2 DEF IInv, DbOK, DbType, Exists, Born
  <2>6. RowsOK'
    <3>1. document[job[j].doc] # "INDEXED"
      BY <2>2, LiveExplains DEF Explains, IInv, Serial
    <3> QED BY <2>4, <3>1, RowsOfPersist DEF IInv, Serial
  <2>7. OwnerOK(w)'
    <3>1. chunks'[job[j].doc] = [job |-> j, attempt |-> a]
      BY <2>4, <2>5 DEF TxPersistChunks, IInv, DbOK, DbType
    <3> QED BY <2>2, <2>3, <2>4, <3>1 DEF OwnerOK, InProcess, Holds
  <2>8. ASSUME NEW v \in Workers, v # w, work[v].pc = "persisted"
        PROVE  chunks'[job[work[v].job].doc] = chunks[job[work[v].job].doc]
    <3>1. InProcess(v) /\ work[v].pc # "idle"
      BY <2>8 DEF InProcess
    <3>2. work[v].job \in JobIds /\ Live(work[v].job) /\ work[v].job # j
      BY <1>1, <2>1, <2>8, <3>1, Processing, OneOwner
    <3>3. job[work[v].job].doc # job[j].doc
      BY <2>2, <3>2, LiveExplains DEF IInv, Serial
    <3> QED BY <2>4, <3>3 DEF TxPersistChunks, IInv, DbOK, DbType
  <2>9. OthersKept(j) /\ (Live(j)' => Live(j))
    BY <2>4 DEF OthersKept, Live
  <2> HIDE DEF e
  <2> QED BY <1>1, <2>1, <2>2, <2>3, <2>4, <2>6, <2>7, <2>8, <2>9, SlotMovesOn
<1> QED BY <1>2, <1>3, <1>4

\* A transaction that ends an attempt keeps one owner per job.
LEMMA OutcomeSerial ==
    ASSUME IInv, Serial, NEW w \in Workers, InProcess(w),
           NEW pc \in {"returned", "raised", "unrecoverable"}, Advance(w, pc),
           NEW j \in Born, j = work[w].job, JobTx(j),
           document'[job[j].doc] = "INDEXED" =>
                version'[job[j].doc].counted = chunks[job[j].doc],
           UNCHANGED queue, UNCHANGED call
    PROVE  Serial'
<1> DEFINE e == [pc |-> pc, job |-> work[w].job, attempt |-> work[w].attempt]
<1>1. j \in JobIds /\ Live(j) /\ Holds(w, j) /\ work[w].pc # "idle"
  BY Processing DEF InProcess
<1>2. work' = [work EXCEPT ![w] = e] /\ work'[w] = e
  <2>1. work' = [work EXCEPT ![w] = e]
    BY <1>1, BusySlot, AdvanceEntry
  <2> QED BY <2>1 DEF IInv, WorkOK
<1>3. RowsOK'
  BY <1>1, RowsOfJobTx DEF IInv, Serial
<1>4. OthersKept(j) /\ job'[j].doc = job[j].doc /\ UNCHANGED chunks
  BY DEF JobTx, OthersKept, IInv, DbOK, DbType
<1>5. OwnerOK(w)'
  <2>1. Holds(w, j)'
    BY <1>1 DEF Holds
  <2>2. work'[w].pc = pc /\ work'[w].job = j
    BY <1>2
  <2> QED BY <2>1, <2>2 DEF OwnerOK, InProcess, Holds
<1> HIDE DEF e
<1> QED BY <1>1, <1>2, <1>3, <1>4, <1>5, SlotMovesOn

\* mark_job_success counts the chunks that this slot has just written.
LEMMA SuccessSerial ==
    ASSUME OwnershipKept, IInv, Serial, NEW w \in Workers, UNCHANGED call,
           MarkSuccess(w) \/ MarkSuccessFails(w)
    PROVE  Serial'
<1>1. work[w].pc = "persisted" /\ InProcess(w) /\ work[w].pc # "idle"
  BY DEF MarkSuccess, MarkSuccessFails, InStep, InProcess
<1>2. CASE MarkSuccessFails(w)
  <2>1. RowsKept
    BY <1>2 DEF MarkSuccessFails, Fault, OwnershipKept
  <2> QED BY <1>1, <1>2, <2>1, SlotGoesOn DEF MarkSuccessFails
<1>3. CASE MarkSuccess(w)
  <2>1. PICK j \in Born, a \in 0..MaxAttempts : j = work[w].job /\ a = work[w].attempt
    BY <1>1, Processing
  <2>2. a = job[j].attempts /\ a > 0 /\ chunks[job[j].doc] = [job |-> j, attempt |-> a]
    BY <1>1, <2>1, Processing DEF Serial, OwnerOK
  <2>3. chunks[job[j].doc] # NoGeneration
    BY <1>1, <2>1 DEF IInv, WorkOK, SlotOK
  <2>4. TxMarkSuccess(j, a)
    BY <1>3, <2>1 DEF MarkSuccess
  <2>5. JobTx(j) /\ version'[job[j].doc].counted = [job |-> j, attempt |-> a]
    BY <2>2, <2>3, <2>4, MarkSuccessDb DEF IInv
  <2> QED BY <1>1, <1>3, <2>1, <2>2, <2>5, OutcomeSerial DEF MarkSuccess
<1> QED BY <1>2, <1>3

\* What _handle_failure writes for the attempt of a slot.
LEMMA FailureTx ==
    ASSUME IInv, Serial, NEW w \in Workers, work[w].pc \in {"retryable", "permanent"},
           TxHandleFailure(w), NEW j \in Born, j = work[w].job
    PROVE  /\ JobTx(j) /\ job'[j].attempts = job[j].attempts
           /\ \/ job'[j].status = "FAILED"
              \/ job'[j].status = "DEAD_LETTER" /\ job[j].attempts = MaxAttempts
              \/ job'[j].status = "WAITING" /\ job[j].attempts < MaxAttempts
<1>1. InProcess(w)
  BY DEF InProcess
<1>2. /\ work[w].attempt = job[j].attempts
      /\ work[w].attempt \in 0..MaxAttempts /\ work[w].attempt > 0
  BY <1>1, Processing
<1>3. CASE InStep(w, "permanent")
  <2>1. TxMarkFailure(j, "FAILED", "PERMANENT")
    BY <1>3 DEF TxHandleFailure, InStep
  <2> QED BY <2>1, MarkFailureDb DEF IInv
<1>4. CASE InStep(w, "retryable") /\ OutOfAttempts(w)
  <2>1. TxMarkFailure(j, "DEAD_LETTER", "TRANSIENT")
    BY <1>4 DEF TxHandleFailure, InStep
  <2>2. job[j].attempts = MaxAttempts
    BY <1>2, <1>4, DbAssumption DEF OutOfAttempts
  <2> QED BY <2>1, <2>2, DeadLetterDb DEF IInv
<1>5. CASE InStep(w, "retryable") /\ ~ OutOfAttempts(w)
  <2>1. TxMarkRetryWaiting(j)
    BY <1>5 DEF TxHandleFailure, InStep
  <2>2. job[j].attempts < MaxAttempts /\ job[j].attempts > 0
    BY <1>2, <1>5, DbAssumption DEF OutOfAttempts
  <2> QED BY <2>1, <2>2, MarkRetryWaitingDb DEF IInv
<1> QED BY <1>3, <1>4, <1>5 DEF InStep

\* _handle_failure keeps one owner per job.
LEMMA FailureSerial ==
    ASSUME OwnershipKept, IInv, Serial, NEW w \in Workers, UNCHANGED call,
           HandleFailure(w) \/ HandleFailureFails(w)
    PROVE  Serial'
<1>1. work[w].pc \in {"retryable", "permanent"} /\ InProcess(w) /\ work[w].pc # "idle"
  BY DEF HandleFailure, HandleFailureFails, InStep, InProcess
<1>2. CASE HandleFailureFails(w)
  <2>1. RowsKept
    BY <1>2 DEF HandleFailureFails, Fault, OwnershipKept
  <2> QED BY <1>1, <1>2, <2>1, SlotGoesOn DEF HandleFailureFails
<1>3. CASE HandleFailure(w)
  <2>1. PICK j \in Born : j = work[w].job
    BY <1>1, Processing
  <2>2. JobTx(j) /\ job'[j].status \in {"FAILED", "DEAD_LETTER", "WAITING"}
    BY <1>1, <1>3, <2>1, FailureTx DEF HandleFailure
  <2>3. document'[job[j].doc] # "INDEXED"
    BY <2>2 DEF JobTx, Explains
  <2> QED BY <1>1, <1>3, <2>1, <2>2, <2>3, OutcomeSerial DEF HandleFailure
<1> QED BY <1>2, <1>3

\* A job in the queue's hands has neither a slot nor a handler.
LEMMA Unowned ==
    ASSUME IInv, Serial, NEW j \in JobIds, queue[j].state \in {"wait", "delayed"}
    PROVE  /\ \A w \in Workers : work[w].pc # "idle" => work[w].job # j
           /\ \A c \in Callers : call[c].pc \in {"committed", "add_failed"} => call[c].job # j
<1>1. \A w \in Workers : work[w].pc # "idle" => work[w].job # j
  BY DEF Serial, OwnerOK, Holds
<1>2. ASSUME NEW c \in Callers, call[c].pc \in {"committed", "add_failed"}
      PROVE  call[c].job # j
  <2>1. queue[call[c].job].state = "absent"
    BY <1>2 DEF Serial, RequestOK
  <2> QED BY <2>1
<1> QED BY <1>1, <1>2

\* The queue writes an entry that nobody owns.
LEMMA EntryWritten ==
    ASSUME IInv, Serial, NEW j \in JobIds, RowsKept, UNCHANGED call,
           \A i \in JobIds : i # j => queue'[i] = queue[i],
           \A c \in Callers : call[c].pc \in {"committed", "add_failed"} => call[c].job # j,
           \A v \in Workers :
                \/ work'[v] = work[v] /\ (work[v].pc # "idle" => work[v].job # j)
                \/ OwnerOK(v)'
    PROVE  Serial'
<1>1. RowsOK' /\ OthersKept(j) /\ UNCHANGED <<job, chunks>>
  BY RowsStay DEF Serial, RowsKept, OthersKept
<1>2. Live(j)' => Live(j)
  BY <1>1 DEF Live
<1>3. \A v \in Workers : OwnerOK(v)'
  BY <1>1, OwnerKept DEF Serial
<1>4. \A c \in Callers : RequestOK(c)'
  BY <1>1, <1>2, RequestKept DEF Serial
<1> QED BY <1>1, <1>3, <1>4 DEF Serial

\* A slot takes a waiting job: the lock makes it the only one that has it.
LEMMA ClaimSerial ==
    ASSUME IInv, Serial, NEW w \in Workers, NEW j \in JobIds, Claim(w, j), UNCHANGED call
    PROVE  Serial'
<1> DEFINE e == [pc |-> "claimed", job |-> j, attempt |-> 0]
<1>1. queue[j].state = "wait" /\ RowsKept
  BY DEF Claim, QueueClaim, RowsKept, dbVars
<1>2. work'[w] = e /\ \A v \in Workers : v # w => work'[v] = work[v]
  BY DEF Claim, IInv, WorkOK
<1>3. Holds(w, j)' /\ \A i \in JobIds : i # j => queue'[i] = queue[i]
  BY DEF Claim, QueueClaim, Holds, IInv, QueueOK
<1>4. OwnerOK(w)'
  BY <1>2, <1>3 DEF OwnerOK, InProcess, Holds
<1>5. \A v \in Workers :
        \/ work'[v] = work[v] /\ (work[v].pc # "idle" => work[v].job # j)
        \/ OwnerOK(v)'
  BY <1>1, <1>2, <1>4, Unowned
<1>6. \A c \in Callers : call[c].pc \in {"committed", "add_failed"} => call[c].job # j
  BY <1>1, Unowned
<1> QED BY <1>1, <1>3, <1>5, <1>6, EntryWritten

\* Backoffs end, and the stalled check takes only locks of slots that are gone.
LEMMA QueueSerial ==
    ASSUME OwnershipKept, IInv, Serial, NEW j \in JobIds, UNCHANGED call,
           BackoffOver(j) \/ StallDead(j) \/ StallLive(j)
    PROVE  Serial'
<1>1. ~ StallLive(j)
  BY DEF StallLive, Fault, OwnershipKept
<1>2. /\ RowsKept /\ UNCHANGED work
      /\ \A i \in JobIds : i # j => queue'[i] = queue[i]
  BY <1>1 DEF BackoffOver, StallDead, QueuePromote, QueueStall, RowsKept, dbVars, IInv, QueueOK
<1>3. \A w \in Workers : work[w].pc # "idle" => work[w].job # j
  <2>1. CASE BackoffOver(j)
    BY <2>1, Unowned DEF BackoffOver, QueuePromote
  <2>2. CASE StallDead(j)
    BY <2>2 DEF StallDead, Working, InStep, Serial, OwnerOK
  <2> QED BY <1>1, <2>1, <2>2
<1>4. ASSUME NEW c \in Callers, call[c].pc \in {"committed", "add_failed"}
      PROVE  call[c].job # j
  <2>1. queue[call[c].job].state = "absent"
    BY <1>4 DEF Serial, RequestOK
  <2>2. queue[j].state # "absent"
    BY <1>1 DEF BackoffOver, StallDead, QueuePromote, QueueStall
  <2> QED BY <2>1, <2>2
<1> QED BY <1>2, <1>3, <1>4, EntryWritten

-----------------------------------------------------------------------------
(* One owner per job, always                                               *)

\* In the beginning nobody owns anything.
LEMMA InitSerial ==
    ASSUME Init
    PROVE  Serial
<1> USE DEF Init
<1>1. RowsOK
  BY DEF DbInit, RowsOK, LiveIsLatest, LatestExplains, JobsHaveDocuments, CountsWhatIsSearched,
         Live, Exists, LiveStatuses
<1>2. \A w \in Workers : OwnerOK(w)
  BY DEF WorkInit, IdleSlot, OwnerOK, InProcess
<1>3. \A c \in Callers : RequestOK(c)
  BY DEF CallInit, IdleCall, RequestOK
<1> QED BY <1>1, <1>2, <1>3 DEF Serial

\* Every step of the system keeps one owner per job.
LEMMA NextKeepsSerial ==
    ASSUME OneHandler, OwnershipKept, IInv, IInv', Serial, [Next]_vars
    PROVE  Serial'
<1>1. CASE UNCHANGED vars
  <2>1. RowsKept /\ UNCHANGED <<queue, call, work>>
    BY <1>1 DEF vars, dbVars, RowsKept
  <2>2. RowsOK'
    BY <2>1, RowsStay DEF Serial
  <2>3. \A w \in Workers : OwnerOK(w)'
    BY <2>1 DEF Serial, RowsKept, OwnerOK, InProcess, Holds
  <2>4. \A c \in Callers : RequestOK(c)'
    BY <2>1 DEF Serial, RowsKept, RequestOK, Live
  <2> QED BY <2>2, <2>3, <2>4 DEF Serial
<1>2. ASSUME NEW w \in Workers, WorkerNext(w), UNCHANGED call
      PROVE  Serial'
  BY <1>2, ClaimSerial, ClaimedSerial, StagesSerial, SuccessSerial, FailureSerial, EndsSerial
     DEF WorkerNext, WorkStep, WorkFault
<1> QED BY <1>1, <1>2, ApiSerial, QueueSerial DEF Next

\* With one handler and locks that hold, every busy slot owns its job, and the
\* latest job of a document is the only one that can be live.
THEOREM SerialInductive ==
    ASSUME OneHandler, OwnershipKept
    PROVE  Spec => [](IInv /\ Serial)
<1>1. Init => IInv /\ Serial
  BY InitIInv, InitSerial
<1>2. (IInv /\ Serial) /\ [Next]_vars => (IInv /\ Serial)'
  BY NextKeepsIInv, NextKeepsSerial
<1> QED BY <1>1, <1>2, PTL DEF Spec

\* "Document version already has an active ingest job": of the jobs of a
\* document at most one is queued or running, whatever handlers do one after
\* another and however jobs fail, crash and come back.
THEOREM LiveJobsDiffer ==
    ASSUME OneHandler, OwnershipKept
    PROVE  Spec => []OneLiveJob
<1>1. IInv /\ Serial => OneLiveJob
  <2> SUFFICES ASSUME IInv, Serial, NEW d \in Documents
               PROVE  Cardinality({j \in JobsOf(d) : Live(j)}) <= 1
    BY DEF OneLiveJob
  <2> DEFINE L == {j \in JobsOf(d) : Live(j)}
  <2>1. \A i, j \in L : i = j
    BY LiveExplains DEF IInv, Serial, JobsOf
  <2>2. CASE L = {}
    BY <2>2, FS_EmptySet
  <2>3. CASE L # {}
    <3>1. PICK j : L = {j}
      BY <2>1, <2>3
    <3>2. Cardinality(L) = 1
      BY <3>1, FS_Singleton, Zenon
    <3> QED BY <3>2
  <2> QED BY <2>2, <2>3
<1> QED BY <1>1, SerialInductive, PTL

\* chunkCount counts the chunks that retrieval finds: the success transaction
\* of mark_job_success comes after the slot's own persist_chunks, and no other
\* slot replaces the chunks of an indexed document.
THEOREM CountIsTrue ==
    ASSUME OneHandler, OwnershipKept
    PROVE  Spec => []CountsWhatIsSearched
<1>1. IInv /\ Serial => CountsWhatIsSearched
  BY DEF Serial, RowsOK
<1> QED BY <1>1, SerialInductive, PTL

-----------------------------------------------------------------------------
(* The life cycle                                                          *)

\* The phase that a job row tells by itself, when it explains its document.
PhaseOfRow(row) ==
    CASE row.status = "WAITING" /\ row.attempts = 0 -> "queued"
      [] row.status = "WAITING" /\ row.attempts # 0 -> "retrying"
      [] row.status = "ACTIVE" -> "running"
      [] row.status = "COMPLETED" -> "indexed"
      [] row.status = "FAILED" -> "failed"
      [] row.status = "DEAD_LETTER" -> "dead"

\* The latest of the rows of one document is one row.
LEMMA OnlyLatest ==
    ASSUME NEW J, J \subseteq Nat, NEW row, NEW d, NEW k \in J,
           row[k].status # "NONE", row[k].doc = d,
           \A i \in {i \in J : row[i].status # "NONE" /\ row[i].doc = row[k].doc} : i <= k
    PROVE  k = CHOOSE j \in {i \in J : row[i].status # "NONE" /\ row[i].doc = d} :
                \A i \in {i \in J : row[i].status # "NONE" /\ row[i].doc = row[j].doc} : i <= j
<1> DEFINE S == {i \in J : row[i].status # "NONE" /\ row[i].doc = d}
           P(j) == \A i \in {i \in J : row[i].status # "NONE" /\ row[i].doc = row[j].doc} : i <= j
<1>1. k \in S /\ P(k)
  OBVIOUS
<1>2. \A j \in S : P(j) => j = k
  OBVIOUS
<1>3. (CHOOSE j \in S : P(j)) = k
  <2> HIDE DEF S, P
  <2> QED BY <1>1, <1>2
<1> QED BY <1>3

\* What the latest job row of a document says about its phase and its tries.
PhaseTold ==
    \A j \in JobIds :
        Exists(j) /\ IsLatest(j) /\ Explains(j, job[j].doc) =>
            /\ PhaseOf(job[j].doc) = PhaseOfRow(job[j])
            /\ TriesOf(job[j].doc) = job[j].attempts

LEMMA PhaseIsTold == PhaseTold
<1> SUFFICES ASSUME NEW j \in JobIds, Exists(j), IsLatest(j), Explains(j, job[j].doc)
             PROVE  /\ PhaseOf(job[j].doc) = PhaseOfRow(job[j])
                    /\ TriesOf(job[j].doc) = job[j].attempts
  BY DEF PhaseTold
<1>1. JobIds \subseteq Nat
  BY DEF JobIds
<1>2. j = LatestJob(job[j].doc)
  BY <1>1, OnlyLatest DEF LatestJob, JobsOf, IsLatest, Exists
<1> QED BY <1>2 DEF PhaseOf, TriesOf, PhaseOfRow, Explains

\* The same after a step.
LEMMA PhaseIsToldNext == PhaseTold'
BY PhaseIsTold, PTL

\* A document that a step does not touch stays in its phase.
LEMMA OtherDocument ==
    ASSUME DbOK, RowsOK, NEW e \in Documents, document'[e] = document[e],
           \A i \in JobIds :
                (Exists(i) /\ job[i].doc = e) \/ (Exists(i)' /\ job'[i].doc = e) =>
                    job'[i] = job[i]
    PROVE  PhaseOf(e)' = PhaseOf(e) /\ TriesOf(e)' = TriesOf(e) /\ JobsOf(e)' = JobsOf(e)
<1>1. JobsOf(e)' = JobsOf(e)
  BY DEF JobsOf, Exists
<1>2. CASE document[e] = "NONE"
  BY <1>1, <1>2 DEF PhaseOf, TriesOf
<1>3. CASE document[e] # "NONE"
  <2>1. PICK k \in JobIds : Exists(k) /\ IsLatest(k) /\ Explains(k, e)
    BY <1>3 DEF RowsOK, LatestExplains
  <2>2. job[k].doc = e /\ job'[k] = job[k]
    BY <2>1 DEF Explains
  <2>3. Exists(k)' /\ IsLatest(k)' /\ Explains(k, e)'
    BY <1>1, <2>1, <2>2 DEF Exists, IsLatest, Explains
  <2>4. PhaseOf(e) = PhaseOfRow(job[k]) /\ TriesOf(e) = job[k].attempts
    BY <2>1, <2>2, PhaseIsTold DEF PhaseTold
  <2>5. PhaseOf(e)' = PhaseOfRow(job'[k]) /\ TriesOf(e)' = job'[k].attempts
    BY <2>2, <2>3, PhaseIsToldNext DEF PhaseTold
  <2> QED BY <1>1, <2>2, <2>4, <2>5
<1> QED BY <1>2, <1>3

\* The abstract state of all documents.
Phases == [d \in Documents |-> PhaseOf(d)]
Rounds == [d \in Documents |-> Cardinality(JobsOf(d))]
Tries == [d \in Documents |-> TriesOf(d)]

\* A transaction of a live job moves its document from the phase of the old
\* row to that of the new one.
LEMMA JobTxMoves ==
    ASSUME DbOK, RowsOK, RowsOK', NEW j \in Born, Live(j), JobTx(j)
    PROVE  /\ Phases[job[j].doc] = PhaseOfRow(job[j])
           /\ Tries[job[j].doc] = job[j].attempts
           /\ Phases' = [Phases EXCEPT ![job[j].doc] = PhaseOfRow(job'[j])]
           /\ Tries' = [Tries EXCEPT ![job[j].doc] = job'[j].attempts]
           /\ Rounds' = Rounds
<1>0. PICK d \in Documents : d = job[j].doc
  BY DbAssumption DEF DbOK, DbType, Exists, Born, JobIds
<1>1. j \in JobIds /\ Exists(j)
  BY DbAssumption DEF DbOK, DbType, Born, JobIds
<1>2. /\ \A i \in JobIds : i # j => job'[i] = job[i]
      /\ job'[j].doc = d /\ job'[j].status # "NONE"
      /\ \A e \in Documents : e # d => document'[e] = document[e]
      /\ Explains(j, d)'
  BY <1>0, <1>1 DEF JobTx, DbOK, DbType
<1>3. \A i \in JobIds : (Exists(i)' <=> Exists(i)) /\ job'[i].doc = job[i].doc
  BY <1>0, <1>1, <1>2 DEF Exists
<1>4. \A e \in Documents : JobsOf(e)' = JobsOf(e)
  BY <1>3 DEF JobsOf
<1>5. IsLatest(j) /\ Explains(j, d) /\ IsLatest(j)'
  <2>1. IsLatest(j) /\ Explains(j, d)
    BY <1>0, <1>1, LiveExplains DEF RowsOK, LiveIsLatest
  <2> QED BY <1>0, <1>2, <1>4, <2>1 DEF IsLatest
<1>6. PhaseOf(d) = PhaseOfRow(job[j]) /\ TriesOf(d) = job[j].attempts
  BY <1>0, <1>1, <1>5, PhaseIsTold DEF PhaseTold
<1>7. PhaseOf(d)' = PhaseOfRow(job'[j]) /\ TriesOf(d)' = job'[j].attempts
  BY <1>1, <1>2, <1>3, <1>5, PhaseIsToldNext DEF PhaseTold
<1>8. ASSUME NEW e \in Documents, e # d
      PROVE  PhaseOf(e)' = PhaseOf(e) /\ TriesOf(e)' = TriesOf(e)
  <2>1. \A i \in JobIds :
            (Exists(i) /\ job[i].doc = e) \/ (Exists(i)' /\ job'[i].doc = e) => job'[i] = job[i]
    BY <1>0, <1>2, <1>8
  <2> QED BY <1>2, <1>8, <2>1, OtherDocument
<1> QED BY <1>0, <1>4, <1>6, <1>7, <1>8 DEF Phases, Tries, Rounds

\* A new job of a document without a live one opens its next round.
LEMMA InsertMoves ==
    ASSUME DbOK, DbOK', RowsOK, RowsOK', NEW d \in Documents, InsertJob(d),
           SetStatus(d, "QUEUED", InitialVectorization),
           \A i \in JobIds : job[i].doc = d => ~ Live(i)
    PROVE  Lifecycle!Submit(d)
<1>0. PICK j \in JobIds : j = jobCount + 1
  BY DbAssumption DEF DbOK, DbType, InsertJob, JobIds
<1>1. ~ Exists(j) /\ jobCount \in Nat
  BY <1>0, DbAssumption DEF DbOK, DbType, InsertJob, JobIds
<1>2. /\ \A i \in JobIds : i # j => job'[i] = job[i]
      /\ job'[j].doc = d /\ job'[j].status = "WAITING" /\ job'[j].attempts = 0
      /\ \A e \in Documents : e # d => document'[e] = document[e]
      /\ document'[d] = "QUEUED"
  BY <1>0, <1>1 DEF InsertJob, SetStatus, DbOK, DbType
<1>3. \A i \in JobIds : Exists(i)' => i <= j
  BY <1>0 DEF DbOK, DbType, InsertJob
<1>4. Exists(j)' /\ IsLatest(j)' /\ Explains(j, d)'
  BY <1>1, <1>2, <1>3 DEF Exists, IsLatest, JobsOf, Explains
<1>5. PhaseOf(d)' = "queued" /\ TriesOf(d)' = 0
  <2>1. PhaseOf(d)' = PhaseOfRow(job'[j]) /\ TriesOf(d)' = job'[j].attempts
    BY <1>2, <1>4, PhaseIsToldNext DEF PhaseTold
  <2> QED BY <1>2, <2>1 DEF PhaseOfRow
<1>6. ASSUME NEW e \in Documents, e # d
      PROVE  /\ PhaseOf(e)' = PhaseOf(e) /\ TriesOf(e)' = TriesOf(e)
             /\ Cardinality(JobsOf(e))' = Cardinality(JobsOf(e))
  <2>1. \A i \in JobIds :
            (Exists(i) /\ job[i].doc = e) \/ (Exists(i)' /\ job'[i].doc = e) => job'[i] = job[i]
    BY <1>1, <1>2, <1>6
  <2>2. /\ PhaseOf(e)' = PhaseOf(e) /\ TriesOf(e)' = TriesOf(e) /\ JobsOf(e)' = JobsOf(e)
    BY <1>2, <1>6, <2>1, OtherDocument
  <2> QED BY <2>2
<1>7. Cardinality(JobsOf(d))' = Cardinality(JobsOf(d)) + 1
  <2>1. JobsOf(d)' = JobsOf(d) \cup {j} /\ j \notin JobsOf(d)
    BY <1>1, <1>2 DEF JobsOf, Exists
  <2>2. IsFiniteSet(JobsOf(d))
    <3>1. IsFiniteSet(JobIds)
      BY FS_Interval, DbAssumption DEF JobIds
    <3>2. JobsOf(d) \in SUBSET JobIds
      BY DEF JobsOf
    <3> QED BY <3>1, <3>2, FS_Subset
  <2>3. Cardinality(JobsOf(d) \cup {j}) = Cardinality(JobsOf(d)) + 1
    BY <2>1, <2>2, FS_AddElement
  <2> QED BY <2>1, <2>3
<1>8. PhaseOf(d) \in {"indexed", "failed", "dead", "absent"}
  <2>1. CASE document[d] = "NONE"
    BY <2>1 DEF PhaseOf
  <2>2. CASE document[d] # "NONE"
    <3>1. PICK k \in JobIds : Exists(k) /\ IsLatest(k) /\ Explains(k, d)
      BY <2>2 DEF RowsOK, LatestExplains
    <3>2. PhaseOf(d) = PhaseOfRow(job[k]) /\ ~ Live(k)
      BY <3>1, PhaseIsTold DEF PhaseTold, Explains
    <3> QED BY <3>1, <3>2 DEF Explains, Live, LiveStatuses, PhaseOfRow
  <2> QED BY <2>1, <2>2
<1>9. /\ Phases' = [Phases EXCEPT ![d] = "queued"]
      /\ Rounds' = [Rounds EXCEPT ![d] = Rounds[d] + 1]
      /\ Tries' = [Tries EXCEPT ![d] = 0]
  BY <1>5, <1>6, <1>7 DEF Phases, Rounds, Tries
<1>10. Phases[d] = PhaseOf(d)
  BY DEF Phases
<1> QED BY <1>8, <1>9, <1>10 DEF Lifecycle!Submit, Lifecycle!Settled, Phases, Rounds, Tries

\* A step that writes neither documents nor jobs is invisible.
LEMMA Invisible ==
    ASSUME UNCHANGED <<document, job>>
    PROVE  UNCHANGED Lifecycle!vars
<1>1. \A d \in Documents :
        PhaseOf(d)' = PhaseOf(d) /\ TriesOf(d)' = TriesOf(d) /\ JobsOf(d)' = JobsOf(d)
  BY DEF PhaseOf, TriesOf, LatestJob, JobsOf, IsLatest, Exists
<1> QED BY <1>1 DEF Lifecycle!vars

\* What a handler does to documents and jobs is a submission or a rejection.
LEMMA ApiFollows ==
    ASSUME OneHandler, OwnershipKept, IInv, IInv', Serial, Serial', NEW c \in Callers, ApiNext(c)
    PROVE  Lifecycle!Next \/ UNCHANGED Lifecycle!vars
<1> USE DEF IInv
<1>1. CASE UNCHANGED <<document, job>>
  BY <1>1, Invisible
<1>2. ASSUME NEW d \in Documents, Upload(c, d)
      PROVE  Lifecycle!Next
  <2>1. \A i \in JobIds : job[i].doc = d => ~ Live(i)
    BY <1>2 DEF Upload, TxCreateDocument, Serial, RowsOK, JobsHaveDocuments, Live, Exists,
           LiveStatuses
  <2>2. Lifecycle!Submit(d)
    BY <1>2, <2>1, InsertMoves DEF Upload, TxCreateDocument, Serial
  <2> QED BY <2>2 DEF Lifecycle!Next
<1>3. CASE RequeueCommit(c)
  <2>1. PICK d \in Documents : d = call[c].doc
    BY <1>3 DEF RequeueCommit, CallsOK, CallOK
  <2>2. \A i \in JobIds : job[i].doc = d => ~ Live(i)
    BY <1>3, <2>1 DEF RequeueCommit, Serial, RequestOK
  <2>3. SetStatus(d, "QUEUED", InitialVectorization) /\ InsertJob(d)
    BY <1>3, <2>1 DEF RequeueCommit, TxRequeue
  <2>4. Lifecycle!Submit(d)
    BY <2>2, <2>3, InsertMoves DEF Serial
  <2> QED BY <2>4 DEF Lifecycle!Next
<1>4. CASE MarkEnqueueFailure(c)
  <2>1. PICK j \in Born : j = call[c].job
    BY <1>4 DEF MarkEnqueueFailure, At, CallsOK, CallOK
  <2>2. Live(j) /\ job[j].status = "WAITING" /\ job[j].attempts = 0
    BY <1>4, <2>1 DEF MarkEnqueueFailure, At, Serial, RequestOK, Live, LiveStatuses
  <2>3. JobTx(j) /\ job'[j].status = "FAILED" /\ job'[j].attempts = job[j].attempts
    BY <1>4, <2>1, EnqueueFailedDb DEF MarkEnqueueFailure
  <2>4. PICK d \in Documents : d = job[j].doc
    BY DbAssumption DEF DbOK, DbType, Exists, Born, JobIds
  <2>5. /\ Phases[d] = "queued" /\ Phases' = [Phases EXCEPT ![d] = "failed"]
        /\ Rounds' = Rounds /\ Tries' = Tries
    <3>1. PhaseOfRow(job[j]) = "queued" /\ PhaseOfRow(job'[j]) = "failed"
      BY <2>2, <2>3 DEF PhaseOfRow
    <3>2. /\ Phases[d] = "queued" /\ Phases' = [Phases EXCEPT ![d] = "failed"]
          /\ Rounds' = Rounds /\ Tries' = [Tries EXCEPT ![d] = Tries[d]]
      BY <2>2, <2>3, <2>4, <3>1, JobTxMoves DEF Serial
    <3> QED BY <3>2 DEF Tries
  <2>6. Lifecycle!Reject(d)
    BY <2>5 DEF Lifecycle!Reject, Lifecycle!Move, Phases, Rounds, Tries
  <2> QED BY <2>6 DEF Lifecycle!Next
<1>5. ASSUME NEW d \in Documents, ReindexCheck(c, d)
      PROVE  UNCHANGED <<document, job>>
  BY <1>5 DEF ReindexCheck, dbVars
<1>6. ASSUME NEW j \in JobIds, RetryFind(c, j)
      PROVE  UNCHANGED <<document, job>>
  BY <1>6 DEF RetryFind, dbVars
<1>7. CASE \/ RetryCheckLatest(c) \/ RetryCheckSiblings(c) \/ RequeueAbort(c) \/ Enqueue(c)
           \/ CallFault(c)
  BY <1>1, <1>7 DEF RetryCheckLatest, RetryCheckSiblings, RequeueAbort, Enqueue, CallFault,
     EnqueueRejected, EnqueueAmbiguous, MarkEnqueueFailureLost, ApiCrash, dbVars
<1> QED BY <1>1, <1>2, <1>3, <1>4, <1>5, <1>6, <1>7 DEF ApiNext, CallStep

\* A slot starts, retries, gives up, indexes or fails its document, or is
\* invisible.
LEMMA WorkerFollows ==
    ASSUME OwnershipKept, IInv, Serial, Serial', NEW w \in Workers, WorkerNext(w)
    PROVE  Lifecycle!Next \/ UNCHANGED Lifecycle!vars
<1> USE DEF IInv
<1>1. \/ UNCHANGED <<document, job>>
      \/ Activate(w) \/ MarkSuccess(w) \/ HandleFailure(w)
  BY DEF WorkerNext, WorkStep, WorkFault, Claim, SkipTerminal, ActivationRefused,
         ActivationFails, StageRaises, PersistChunks, PersistAnswerLost, TxPersistChunks,
         MarkSuccessFails, HandleFailureFails, ReportReturn,
         ReportRaise, ReportUnrecoverable, WorkerCrash, RowsKept, dbVars, Fault, OwnershipKept
<1>2. CASE Activate(w) \/ MarkSuccess(w) \/ HandleFailure(w)
  <2>1. work[w].pc # "idle"
    BY <1>2 DEF Activate, MarkSuccess, HandleFailure, InStep
  <2>2. PICK j \in Born : j = work[w].job
    BY <2>1, BusySlot
  <2>3. j \in JobIds /\ job[j] \in JobRow /\ Exists(j) /\ job[j].attempts \in 0..MaxAttempts
    BY <2>1, <2>2, BusySlot DEF DbOK, DbType, Born, JobRow
  <2>4. PICK d \in Documents : d = job[j].doc
    BY <2>3 DEF DbOK, DbType
  <2>5. CASE Activate(w)
    <3>1. TxActivate(j)
      BY <2>2, <2>5 DEF Activate
    <3>2. /\ JobTx(j) /\ job'[j].status = "ACTIVE"
          /\ job'[j].attempts = job[j].attempts + 1 /\ job[j].attempts < MaxAttempts
      BY <3>1, ActivateDb DEF TxActivate, AttemptsLeft
    <3>3. job[j].status \in LiveStatuses /\ Live(j)
      BY <2>3, <3>1 DEF TxActivate, Exists, Live, JobRow, SkippedStatuses, LiveStatuses,
             TerminalStatuses
    <3>4. /\ PhaseOfRow(job[j]) \in {"queued", "retrying", "running"}
          /\ PhaseOfRow(job'[j]) = "running"
      BY <3>2, <3>3 DEF PhaseOfRow, LiveStatuses
    <3>5. /\ Phases[d] \in {"queued", "retrying", "running"} /\ Tries[d] < MaxAttempts
          /\ Phases' = [Phases EXCEPT ![d] = "running"]
          /\ Tries' = [Tries EXCEPT ![d] = Tries[d] + 1]
          /\ Rounds' = Rounds
      BY <2>4, <3>2, <3>3, <3>4, JobTxMoves DEF Serial
    <3>6. Lifecycle!Start(d)
      BY <3>5 DEF Lifecycle!Start, Phases, Rounds, Tries
    <3> QED BY <3>6 DEF Lifecycle!Next
  <2>6. ASSUME Live(j), job[j].status = "ACTIVE", JobTx(j), job'[j].attempts = job[j].attempts
        PROVE  /\ Phases[d] = "running" /\ Tries[d] = job[j].attempts
               /\ Phases' = [Phases EXCEPT ![d] = PhaseOfRow(job'[j])]
               /\ Rounds' = Rounds /\ Tries' = Tries
    <3>1. PhaseOfRow(job[j]) = "running"
      BY <2>6 DEF PhaseOfRow
    <3>2. /\ Phases[d] = "running" /\ Tries[d] = job[j].attempts
          /\ Phases' = [Phases EXCEPT ![d] = PhaseOfRow(job'[j])]
          /\ Rounds' = Rounds /\ Tries' = [Tries EXCEPT ![d] = Tries[d]]
      BY <2>4, <2>6, <3>1, JobTxMoves DEF Serial
    <3> QED BY <3>2 DEF Tries
  <2>7. CASE MarkSuccess(w)
    <3>1. InProcess(w)
      BY <2>7 DEF MarkSuccess, InStep, InProcess
    <3>2. PICK a \in 0..MaxAttempts : a = work[w].attempt
      BY <3>1, Processing
    <3>3. /\ Live(j) /\ job[j].status = "ACTIVE" /\ job[j].attempts > 0
          /\ chunks[job[j].doc] # NoGeneration
      BY <2>2, <2>7, <3>1, Processing DEF WorkOK, SlotOK, MarkSuccess, InStep
    <3>4. JobTx(j) /\ job'[j].status = "COMPLETED" /\ job'[j].attempts = job[j].attempts
      BY <2>2, <2>7, <3>2, <3>3, MarkSuccessDb DEF MarkSuccess
    <3>5. PhaseOfRow(job'[j]) = "indexed"
      BY <3>4 DEF PhaseOfRow
    <3>6. Lifecycle!Index(d)
      BY <2>6, <3>3, <3>4, <3>5 DEF Lifecycle!Index, Lifecycle!Move, Phases, Rounds, Tries
    <3> QED BY <3>6 DEF Lifecycle!Next
  <2>8. CASE HandleFailure(w)
    <3>1. InProcess(w) /\ work[w].pc \in {"retryable", "permanent"} /\ TxHandleFailure(w)
      BY <2>8 DEF HandleFailure, InProcess
    <3>2. Live(j) /\ job[j].status = "ACTIVE" /\ job[j].attempts > 0
      BY <2>2, <3>1, Processing
    <3>3. /\ JobTx(j) /\ job'[j].attempts = job[j].attempts
          /\ \/ job'[j].status = "FAILED"
             \/ job'[j].status = "DEAD_LETTER" /\ job[j].attempts = MaxAttempts
             \/ job'[j].status = "WAITING" /\ job[j].attempts < MaxAttempts
      BY <2>2, <3>1, FailureTx
    <3>4. /\ Phases[d] = "running" /\ Tries[d] = job[j].attempts
          /\ Phases' = [Phases EXCEPT ![d] = PhaseOfRow(job'[j])]
          /\ Rounds' = Rounds /\ Tries' = Tries
      BY <2>6, <3>2, <3>3
    <3>5. \/ PhaseOfRow(job'[j]) = "failed"
          \/ PhaseOfRow(job'[j]) = "dead" /\ Tries[d] = MaxAttempts
          \/ PhaseOfRow(job'[j]) = "retrying" /\ Tries[d] < MaxAttempts
      BY <2>3, <3>2, <3>3, <3>4 DEF PhaseOfRow
    <3>6. Lifecycle!Fail(d) \/ Lifecycle!GiveUp(d) \/ Lifecycle!Retry(d)
      BY <3>4, <3>5 DEF Lifecycle!Fail, Lifecycle!GiveUp, Lifecycle!Retry, Lifecycle!Move,
             Phases, Rounds, Tries
    <3> QED BY <3>6 DEF Lifecycle!Next
  <2> QED BY <1>2, <2>5, <2>7, <2>8
<1> QED BY <1>1, <1>2, Invisible

\* Every document follows the state machine of the architecture notes, whatever
\* the handler, the queue, the slots and crashes do to its rows: a round opens
\* only after the outcome of the last, its tries are counted one by one up to
\* their bound, and it ends in exactly one outcome.
THEOREM LifecycleFollowed ==
    ASSUME OneHandler, OwnershipKept
    PROVE  Spec => FollowsLifecycle
<1>1. Init => Lifecycle!Init
  <2> SUFFICES ASSUME Init
               PROVE  Lifecycle!Init
    OBVIOUS
  <2>1. \A d \in Documents : PhaseOf(d) = "absent" /\ TriesOf(d) = 0
    BY DEF Init, DbInit, PhaseOf, TriesOf
  <2>2. \A d \in Documents : JobsOf(d) = {}
    BY DEF Init, DbInit, JobsOf, Exists
  <2>3. \A d \in Documents : Cardinality(JobsOf(d)) = 0
    BY <2>2, FS_EmptySet
  <2> QED BY <2>1, <2>3 DEF Lifecycle!Init
<1>2. (IInv /\ Serial) /\ (IInv /\ Serial)' /\ [Next]_vars => [Lifecycle!Next]_(Lifecycle!vars)
  <2> SUFFICES ASSUME IInv, Serial, IInv', Serial', [Next]_vars
               PROVE  Lifecycle!Next \/ UNCHANGED Lifecycle!vars
    OBVIOUS
  <2>1. CASE UNCHANGED vars
    BY <2>1, Invisible DEF vars, dbVars
  <2>2. ASSUME NEW j \in JobIds, BackoffOver(j) \/ StallDead(j) \/ StallLive(j)
        PROVE  UNCHANGED Lifecycle!vars
    BY <2>2, Invisible DEF BackoffOver, StallDead, StallLive, RowsKept, dbVars
  <2> QED BY <2>1, <2>2, ApiFollows, WorkerFollows DEF Next
<1> QED BY <1>1, <1>2, SerialInductive, PTL DEF Spec, Lifecycle!Spec, FollowsLifecycle

-----------------------------------------------------------------------------
(* Below one transaction: the statements of persist_chunks (ChunkStore).   *)
(* Retrieval never sees a part or a mixture of generations, and the         *)
(* statements implement the atomic replacement of ChunkReplace.             *)

\* Retrieval finds nothing, or all of one generation.
OneWholeGeneration ==
    active = {} \/ \E g \in Generations : size[g] > 0 /\ Whole(g)

Open(w) == tx[w].pc # "idle"

\* The generation that an open transaction writes is its own: it has a size,
\* and no row of it was ever committed. Later runs have not begun.
Fresh(w) ==
    /\ Open(w) => tx[w].run > 0 /\ size[GenerationOf(w)] > 0
    /\ \A g \in retired \cup {r.gen : r \in active} :
         g.writer = w => g.run < tx[w].run \/ (g.run = tx[w].run /\ ~Open(w))

\* What the UPDATE has visited or still has to visit is the generation that is
\* active, or one that is retired.
Visits(w) ==
    Open(w) =>
        /\ \A r \in tx[w].todo \cup tx[w].marked : r \in active \/ r.gen \in retired
        /\ \/ active \cap (tx[w].todo \cup tx[w].marked) = {}
           \/ active \subseteq tx[w].todo \cup tx[w].marked
        /\ tx[w].pc = "inserting" => tx[w].todo = {}

\* The rows inserted so far are the first ones of the generation. From the first
\* one on, everything active is superseded by this transaction, and no other
\* has inserted anything.
Inserts(w) ==
    /\ Open(w) =>
        \E k \in 0..size[GenerationOf(w)] :
            /\ tx[w].inserted = Chunks(GenerationOf(w), k)
            /\ IsFiniteSet(tx[w].inserted) /\ Cardinality(tx[w].inserted) = k
    /\ tx[w].inserted # {} =>
        /\ tx[w].pc = "inserting"
        /\ active \subseteq tx[w].marked
        /\ \A v \in Writers \ {w} : tx[v].inserted = {}

\* A generation that is active is not retired.
ActiveNotRetired == \A r \in active : r.gen \notin retired

WriterOK(w) == Fresh(w) /\ Visits(w) /\ Inserts(w)

StoreIInv ==
    /\ StoreTypeOK
    /\ OneWholeGeneration
    /\ ActiveNotRetired
    /\ \A w \in Writers : WriterOK(w)

-----------------------------------------------------------------------------
(* Rows and transactions                                                   *)

\* The first rows of a generation.
LEMMA FirstRows ==
    ASSUME NEW g, NEW k \in Nat
    PROVE  /\ Chunks(g, 0) = {}
           /\ Chunks(g, k + 1) = Chunks(g, k) \cup {[gen |-> g, no |-> k + 1]}
           /\ [gen |-> g, no |-> k + 1] \notin Chunks(g, k)
           /\ \A r \in Chunks(g, k) : r.gen = g
           /\ k > 0 => [gen |-> g, no |-> 1] \in Chunks(g, k) /\ Chunks(g, k) # {}
<1>1. 1..0 = {} /\ 1..(k + 1) = 1..k \cup {k + 1}
  OBVIOUS
<1>2. Chunks(g, 0) = {}
  BY DEF Chunks
<1>3. Chunks(g, k + 1) = Chunks(g, k) \cup {[gen |-> g, no |-> k + 1]}
  BY <1>1 DEF Chunks
<1>4. [gen |-> g, no |-> k + 1] \notin Chunks(g, k)
  <2>1. \A r \in Chunks(g, k) : r.no \in 1..k
    BY DEF Chunks
  <2>2. [gen |-> g, no |-> k + 1].no = k + 1
    OBVIOUS
  <2> QED BY <2>1, <2>2
<1>5. \A r \in Chunks(g, k) : r.gen = g
  BY DEF Chunks
<1>6. k > 0 => [gen |-> g, no |-> 1] \in Chunks(g, k)
  <2>1. k > 0 => 1 \in 1..k
    OBVIOUS
  <2> QED BY <2>1 DEF Chunks
<1> QED BY <1>2, <1>3, <1>4, <1>5, <1>6

\* The rows of a generation that exists.
LEMMA RowsTyped ==
    ASSUME NEW g \in Generations, NEW k \in 0..MaxChunks
    PROVE  Chunks(g, k) \subseteq Row
<1>1. \A i \in 1..k : i \in 1..MaxChunks
  BY ChunkAssumption
<1> QED BY <1>1 DEF Chunks, Row

\* The fields of a transaction.
LEMMA TxFields ==
    ASSUME NEW t \in Tx
    PROVE  /\ t.pc \in {"idle", "superseding", "inserting"} /\ t.run \in 0..MaxRuns
           /\ t.todo \in SUBSET Row /\ t.marked \in SUBSET Row /\ t.inserted \in SUBSET Row
           /\ t.run \in Nat
<1>1. /\ t.pc \in {"idle", "superseding", "inserting"} /\ t.run \in 0..MaxRuns
      /\ t.todo \in SUBSET Row /\ t.marked \in SUBSET Row /\ t.inserted \in SUBSET Row
  BY DEF Tx
<1> QED BY <1>1, ChunkAssumption

LEMMA RowFields ==
    ASSUME NEW r \in Row
    PROVE  r.gen \in Generations /\ r.no \in 1..MaxChunks
BY DEF Row

LEMMA IdleTyped ==
    ASSUME NEW n \in 0..MaxRuns
    PROVE  /\ Idle(n) \in Tx /\ Idle(n).pc = "idle" /\ Idle(n).run = n
           /\ Idle(n).todo = {} /\ Idle(n).marked = {} /\ Idle(n).inserted = {}
BY DEF Idle, Tx

\* A generation that a transaction writes.
LEMMA OwnGeneration ==
    ASSUME NEW w \in Writers, NEW n \in 1..MaxRuns
    PROVE  /\ [writer |-> w, run |-> n] \in Generations
           /\ [writer |-> w, run |-> n] # Earlier
           /\ [writer |-> w, run |-> n].writer = w /\ [writer |-> w, run |-> n].run = n
BY ChunkAssumption DEF Generations, Earlier

-----------------------------------------------------------------------------
(* Steps                                                                   *)

\* What a writer does in its own transaction leaves the others alone.
LEMMA OwnTransaction ==
    ASSUME StoreIInv, NEW w \in Writers, UNCHANGED <<active, size, retired>>,
           tx' \in [Writers -> Tx], \A v \in Writers \ {w} : tx'[v] = tx[v],
           WriterOK(w)',
           tx'[w].inserted # {} => \A v \in Writers \ {w} : tx[v].inserted = {}
    PROVE  StoreIInv'
<1>1. StoreTypeOK' /\ OneWholeGeneration' /\ ActiveNotRetired'
  BY DEF StoreIInv, StoreTypeOK, OneWholeGeneration, Whole, ActiveNotRetired
<1>2. ASSUME NEW v \in Writers \ {w}
      PROVE  WriterOK(v)'
  <2>1. WriterOK(v) /\ tx'[v] = tx[v]
    BY DEF StoreIInv
  <2>2. Fresh(v)'
    BY <2>1 DEF WriterOK, Fresh, Open, GenerationOf
  <2>3. Visits(v)'
    BY <2>1 DEF WriterOK, Visits, Open
  <2>4. Inserts(v)'
    BY <2>1 DEF WriterOK, Inserts, Open, GenerationOf
  <2> QED BY <2>2, <2>3, <2>4 DEF WriterOK
<1> QED BY <1>1, <1>2 DEF StoreIInv

\* A transaction that ends without a commit, or has not begun.
LEMMA EndsWithoutTrace ==
    ASSUME StoreIInv, NEW w \in Writers, tx' = [tx EXCEPT ![w] = Idle(tx[w].run)],
           UNCHANGED <<active, size, retired>>
    PROVE  StoreIInv'
<1>1. tx[w] \in Tx /\ tx \in [Writers -> Tx] /\ WriterOK(w)
  BY DEF StoreIInv, StoreTypeOK
<1>2. /\ Idle(tx[w].run) \in Tx /\ Idle(tx[w].run).pc = "idle"
      /\ Idle(tx[w].run).run = tx[w].run /\ Idle(tx[w].run).inserted = {}
  BY <1>1, TxFields, IdleTyped
<1>3. /\ tx' \in [Writers -> Tx] /\ tx'[w] = Idle(tx[w].run)
      /\ \A v \in Writers \ {w} : tx'[v] = tx[v]
  BY <1>1, <1>2
<1>4. Fresh(w)'
  BY <1>1, <1>2, <1>3, TxFields DEF WriterOK, Fresh, Open
<1>5. Visits(w)' /\ Inserts(w)'
  BY <1>2, <1>3 DEF Visits, Inserts, Open
<1> QED BY <1>2, <1>3, <1>4, <1>5, OwnTransaction DEF WriterOK

LEMMA StartKeeps ==
    ASSUME StoreIInv, NEW w \in Writers, StartUpdate(w)
    PROVE  StoreIInv'
<1> DEFINE g == [writer |-> w, run |-> tx[w].run + 1]
<1>1. PICK n \in 1..MaxChunks : size' = [size EXCEPT ![g] = n]
  BY DEF StartUpdate
<1>2. /\ tx[w] \in Tx /\ tx \in [Writers -> Tx] /\ tx[w].run \in Nat
      /\ tx[w].pc = "idle" /\ tx[w].run + 1 \in 1..MaxRuns
      /\ \A v \in Writers : tx[v] \in Tx /\ WriterOK(v)
      /\ UNCHANGED <<active, retired>> /\ active \subseteq Row
      /\ size \in [Generations -> 0..MaxChunks]
  <2>1. tx[w] \in Tx /\ tx \in [Writers -> Tx] /\ tx[w].run < MaxRuns
    BY DEF StoreIInv, StoreTypeOK, StartUpdate
  <2>2. tx[w].run + 1 \in 1..MaxRuns
    BY <2>1, TxFields, ChunkAssumption
  <2> QED BY <2>1, <2>2, TxFields DEF StoreIInv, StoreTypeOK, StartUpdate
<1>3. g \in Generations /\ g.writer = w /\ g.run = tx[w].run + 1
  BY <1>2, OwnGeneration
<1>4. ASSUME NEW h \in retired \cup {r.gen : r \in active}
      PROVE  h # g
  BY <1>2, <1>3 DEF WriterOK, Fresh
<1>5. /\ size' \in [Generations -> 0..MaxChunks] /\ size'[g] = n
      /\ \A h \in Generations \ {g} : size'[h] = size[h]
  <2>1. n \in 0..MaxChunks
    BY ChunkAssumption
  <2> HIDE DEF g
  <2> QED BY <1>1, <1>2, <1>3, <2>1
<1>6. /\ tx' = [tx EXCEPT ![w] = [Idle(tx[w].run + 1) EXCEPT !.pc = "superseding",
                                                            !.todo = active]]
  BY <1>2 DEF StartUpdate
<1>7. /\ tx' \in [Writers -> Tx] /\ \A v \in Writers \ {w} : tx'[v] = tx[v]
      /\ tx'[w].pc = "superseding" /\ tx'[w].run = tx[w].run + 1
      /\ tx'[w].todo = active /\ tx'[w].marked = {} /\ tx'[w].inserted = {}
  <2> DEFINE idle == Idle(tx[w].run + 1)
             begun == [idle EXCEPT !.pc = "superseding", !.todo = active]
  <2>1. /\ idle \in Tx /\ idle.run = tx[w].run + 1
        /\ idle.marked = {} /\ idle.inserted = {}
    <3>1. tx[w].run + 1 \in 0..MaxRuns
      BY <1>2
    <3> QED BY <3>1, IdleTyped
  <2>2. tx' = [tx EXCEPT ![w] = begun]
    BY <1>6
  <2> HIDE DEF idle
  <2>3. /\ begun \in Tx /\ begun.pc = "superseding" /\ begun.run = tx[w].run + 1
        /\ begun.todo = active /\ begun.marked = {} /\ begun.inserted = {}
    BY <1>2, <2>1 DEF Tx
  <2> HIDE DEF begun
  <2> QED BY <1>2, <2>2, <2>3
<1> HIDE DEF g
<1>8. StoreTypeOK'
  BY <1>2, <1>5, <1>7 DEF StoreIInv, StoreTypeOK
<1>9. OneWholeGeneration' /\ ActiveNotRetired'
  <2>1. CASE active = {}
    BY <1>2, <2>1 DEF OneWholeGeneration, ActiveNotRetired
  <2>2. CASE active # {}
    <3>1. PICK h \in Generations : size[h] > 0 /\ active = Chunks(h, size[h])
      BY <2>2 DEF StoreIInv, OneWholeGeneration, Whole
    <3>2. size[h] \in Nat
      BY <1>2
    <3>3. h # g
      <4>1. \A r \in active : r.gen = h
        BY <3>1, <3>2, FirstRows
      <4> QED BY <1>4, <2>2, <4>1
    <3>4. size'[h] = size[h]
      BY <1>5, <3>3
    <3>5. OneWholeGeneration'
      BY <1>2, <3>1, <3>4 DEF OneWholeGeneration, Whole
    <3>6. ActiveNotRetired'
      BY <1>2 DEF StoreIInv, ActiveNotRetired
    <3> QED BY <3>5, <3>6
  <2> QED BY <2>1, <2>2
<1>10. WriterOK(w)'
  <2>1. GenerationOf(w)' = g
    BY <1>7 DEF GenerationOf, g
  <2>2. Fresh(w)'
    <3>1. \A h \in retired \cup {r.gen : r \in active} : h.writer = w => h.run < tx[w].run + 1
      <4>1. \A h \in retired \cup {r.gen : r \in active} :
                h \in Generations /\ (h.writer = w => h.run <= tx[w].run)
        <5>1. retired \cup {r.gen : r \in active} \subseteq Generations
          BY <1>2, RowFields DEF StoreIInv, StoreTypeOK
        <5>2. \A h \in Generations : h.run \in Nat
          BY ChunkAssumption DEF Generations, Earlier
        <5> QED BY <1>2, <5>1, <5>2 DEF WriterOK, Fresh
      <4>2. \A h \in Generations : h.run \in Nat
        BY ChunkAssumption DEF Generations, Earlier
      <4> QED BY <1>2, <4>1, <4>2
    <3> QED BY <1>2, <1>5, <1>7, <2>1, <3>1 DEF Fresh, Open
  <2>3. Visits(w)'
    BY <1>2, <1>7 DEF Visits
  <2>4. Inserts(w)'
    <3>1. 0 \in 0..size'[g]
      BY <1>5
    <3>2. Chunks(g, 0) = {} /\ IsFiniteSet({}) /\ Cardinality({}) = 0
      BY FirstRows, FS_EmptySet
    <3> QED BY <1>7, <2>1, <3>1, <3>2 DEF Inserts
  <2> QED BY <2>2, <2>3, <2>4 DEF WriterOK
<1>11. ASSUME NEW v \in Writers \ {w}
       PROVE  WriterOK(v)'
  <2>1. tx'[v] = tx[v] /\ WriterOK(v) /\ tx[v] \in Tx
    BY <1>2, <1>7
  <2>2. Open(v) => GenerationOf(v) \in Generations /\ GenerationOf(v) # g
    <3>1. Open(v) => tx[v].run \in 1..MaxRuns
      BY <2>1, TxFields DEF WriterOK, Fresh
    <3> QED BY <1>3, <3>1, OwnGeneration DEF GenerationOf
  <2>3. Open(v) => size'[GenerationOf(v)] = size[GenerationOf(v)]
    BY <1>5, <2>2
  <2>4. Fresh(v)'
    BY <1>2, <2>1, <2>3 DEF WriterOK, Fresh, Open, GenerationOf
  <2>5. Visits(v)'
    BY <1>2, <2>1 DEF WriterOK, Visits, Open
  <2>6. Inserts(v)'
    BY <1>2, <1>7, <2>1, <2>3 DEF WriterOK, Inserts, Open, GenerationOf
  <2> QED BY <2>4, <2>5, <2>6 DEF WriterOK
<1> QED BY <1>8, <1>9, <1>10, <1>11 DEF StoreIInv

\* The UPDATE goes on: a row, or its end.
LEMMA UpdateKeeps ==
    ASSUME StoreIInv, NEW w \in Writers, (\E r \in tx[w].todo : SupersedeRow(w, r)) \/ EndUpdate(w)
    PROVE  StoreIInv'
<1>1. /\ tx \in [Writers -> Tx] /\ tx[w] \in Tx /\ WriterOK(w)
      /\ UNCHANGED <<active, size, retired>>
      /\ tx[w].pc = "superseding" /\ tx[w].inserted = {}
  <2>1. tx \in [Writers -> Tx] /\ tx[w] \in Tx /\ WriterOK(w)
    BY DEF StoreIInv, StoreTypeOK
  <2>2. UNCHANGED <<active, size, retired>> /\ tx[w].pc = "superseding"
    BY DEF SupersedeRow, EndUpdate
  <2> QED BY <2>1, <2>2 DEF WriterOK, Inserts
<1>2. /\ tx' \in [Writers -> Tx] /\ \A v \in Writers \ {w} : tx'[v] = tx[v]
      /\ tx'[w].pc # "idle" /\ tx'[w].run = tx[w].run /\ tx'[w].inserted = {}
      /\ \A r \in tx'[w].todo \cup tx'[w].marked : r \in active \/ r.gen \in retired
      /\ \/ active \cap (tx'[w].todo \cup tx'[w].marked) = {}
         \/ active \subseteq tx'[w].todo \cup tx'[w].marked
      /\ tx'[w].pc = "inserting" => tx'[w].todo = {}
  <2>1. /\ \A r \in tx[w].todo \cup tx[w].marked : r \in active \/ r.gen \in retired
        /\ \/ active \cap (tx[w].todo \cup tx[w].marked) = {}
           \/ active \subseteq tx[w].todo \cup tx[w].marked
    BY <1>1 DEF WriterOK, Visits, Open
  <2>2. ASSUME NEW r \in tx[w].todo, SupersedeRow(w, r)
        PROVE  /\ tx' \in [Writers -> Tx] /\ \A v \in Writers \ {w} : tx'[v] = tx[v]
               /\ tx'[w] = [tx[w] EXCEPT !.todo = @ \ {r},
                                !.marked = IF r \in active THEN @ \cup {r} ELSE @]
    <3>1. tx' = [tx EXCEPT ![w] = [tx[w] EXCEPT !.todo = @ \ {r},
                                !.marked = IF r \in active THEN @ \cup {r} ELSE @]]
      BY <1>1, <2>2 DEF SupersedeRow
    <3>2. [tx[w] EXCEPT !.todo = @ \ {r},
                        !.marked = IF r \in active THEN @ \cup {r} ELSE @] \in Tx
      <4>1. /\ tx[w].todo \ {r} \in SUBSET Row
            /\ (IF r \in active THEN tx[w].marked \cup {r} ELSE tx[w].marked) \in SUBSET Row
        BY <1>1, TxFields
      <4>2. ASSUME NEW a \in SUBSET Row, NEW b \in SUBSET Row
            PROVE  [tx[w] EXCEPT !.todo = a, !.marked = b] \in Tx
        BY <1>1 DEF Tx
      <4> QED BY <4>1, <4>2
    <3> QED BY <1>1, <3>1, <3>2
  <2>3. CASE \E r \in tx[w].todo : SupersedeRow(w, r)
    <3>1. PICK r \in tx[w].todo : SupersedeRow(w, r)
      BY <2>3
    <3>2. /\ tx'[w].pc = "superseding" /\ tx'[w].run = tx[w].run /\ tx'[w].inserted = {}
          /\ tx'[w].todo = tx[w].todo \ {r}
          /\ tx'[w].marked = IF r \in active THEN tx[w].marked \cup {r} ELSE tx[w].marked
      BY ZenonT(30), <1>1, <2>2, <3>1 DEF Tx
    <3> QED BY <2>1, <2>2, <3>1, <3>2
  <2>4. CASE EndUpdate(w)
    <3>1. tx' = [tx EXCEPT ![w] = [tx[w] EXCEPT !.pc = "inserting"]] /\ tx[w].todo = {}
      BY <2>4 DEF EndUpdate
    <3>2. [tx[w] EXCEPT !.pc = "inserting"] \in Tx
      BY <1>1 DEF Tx
    <3>3. /\ tx'[w].pc = "inserting" /\ tx'[w].run = tx[w].run /\ tx'[w].inserted = {}
          /\ tx'[w].todo = tx[w].todo /\ tx'[w].marked = tx[w].marked
      BY <1>1, <3>1 DEF Tx
    <3> QED BY <1>1, <2>1, <3>1, <3>2, <3>3
  <2> QED BY <2>3, <2>4
<1>3. Fresh(w)'
  BY <1>1, <1>2 DEF WriterOK, Fresh, Open, GenerationOf
<1>4. Visits(w)'
  BY <1>1, <1>2 DEF Visits
<1>5. Inserts(w)'
  BY <1>1, <1>2 DEF WriterOK, Inserts, Open, GenerationOf
<1> QED BY <1>1, <1>2, <1>3, <1>4, <1>5, OwnTransaction DEF WriterOK

\* An open transaction has inserted the first k rows of its generation.
LEMMA InsertedSoFar ==
    ASSUME StoreIInv, NEW w \in Writers, Open(w)
    PROVE  LET k == Cardinality(tx[w].inserted) IN
           /\ k \in 0..size[GenerationOf(w)] /\ k \in Nat
           /\ tx[w].inserted = Chunks(GenerationOf(w), k)
           /\ IsFiniteSet(tx[w].inserted)
           /\ GenerationOf(w) \in Generations
           /\ size[GenerationOf(w)] \in 1..MaxChunks
<1>1. tx[w] \in Tx /\ Fresh(w) /\ Inserts(w) /\ size \in [Generations -> 0..MaxChunks]
  BY DEF StoreIInv, StoreTypeOK, WriterOK
<1>2. tx[w].run \in 1..MaxRuns
  BY <1>1, TxFields DEF Fresh
<1>3. GenerationOf(w) \in Generations
  BY <1>2, OwnGeneration DEF GenerationOf
<1>4. size[GenerationOf(w)] \in 1..MaxChunks
  BY <1>1, <1>3, ChunkAssumption DEF Fresh
<1> QED BY <1>1, <1>3, <1>4 DEF Inserts

\* Who has inserted the first chunk holds every row that is active: the unique
\* index has refused it otherwise, and it makes others wait.
LEMMA InsertKeeps ==
    ASSUME StoreIInv, NEW w \in Writers, InsertChunk(w)
    PROVE  StoreIInv'
<1> DEFINE g == GenerationOf(w)
           k == Cardinality(tx[w].inserted)
           row == [gen |-> g, no |-> k + 1]
<1>1. /\ tx \in [Writers -> Tx] /\ tx[w] \in Tx /\ WriterOK(w)
      /\ UNCHANGED <<active, size, retired>>
      /\ tx[w].pc = "inserting" /\ Open(w)
  BY DEF StoreIInv, StoreTypeOK, InsertChunk, Open
<1>2. /\ k \in Nat /\ tx[w].inserted = Chunks(g, k) /\ IsFiniteSet(tx[w].inserted)
      /\ g \in Generations /\ size[g] \in 1..MaxChunks /\ k + 1 \in 0..size[g] /\ k < size[g]
      /\ k + 1 \in 1..MaxChunks
  <2>1. ~ (k + 1 > size[g])
    BY DEF InsertChunk, AllInserted, NextNo
  <2> QED BY <1>1, <2>1, InsertedSoFar, ChunkAssumption
<1>3. tx' = [tx EXCEPT ![w] = [tx[w] EXCEPT !.inserted = @ \cup {row}]]
  BY <1>1 DEF InsertChunk, NextNo
<1> HIDE DEF g, k
<1>4. row \in Row
  BY <1>2 DEF Row
<1>5. [tx[w] EXCEPT !.inserted = @ \cup {row}] \in Tx
  BY <1>1, <1>4 DEF Tx
<1>6. /\ tx' \in [Writers -> Tx] /\ \A v \in Writers \ {w} : tx'[v] = tx[v]
      /\ tx'[w].pc = "inserting" /\ tx'[w].run = tx[w].run
      /\ tx'[w].todo = tx[w].todo /\ tx'[w].marked = tx[w].marked
      /\ tx'[w].inserted = tx[w].inserted \cup {row}
  BY <1>1, <1>3, <1>5 DEF Tx
<1>7. /\ tx'[w].inserted = Chunks(g, k + 1)
      /\ IsFiniteSet(tx'[w].inserted) /\ Cardinality(tx'[w].inserted) = k + 1
  <2>1. Chunks(g, k + 1) = Chunks(g, k) \cup {row} /\ row \notin Chunks(g, k)
    BY <1>2, FirstRows
  <2>2. Cardinality(tx[w].inserted) = k
    BY DEF k
  <2>3. /\ IsFiniteSet(tx[w].inserted \cup {row})
        /\ Cardinality(tx[w].inserted \cup {row}) = k + 1
    BY <1>2, <2>1, <2>2, FS_AddElement
  <2> QED BY <1>2, <1>6, <2>1, <2>3
<1>8. active \subseteq tx[w].marked /\ \A v \in Writers \ {w} : tx[v].inserted = {}
  <2>1. CASE tx[w].inserted # {}
    BY <1>1, <2>1 DEF WriterOK, Inserts
  <2>2. CASE tx[w].inserted = {}
    <3>1. k = 0
      BY <2>2, FS_EmptySet DEF k
    <3>2. ~Undecided(w, 1) /\ Taken(w, 1) = {}
      BY <3>1 DEF InsertChunk, NextNo, k
    <3>3. ASSUME NEW v \in Writers \ {w}, tx[v].inserted # {}
          PROVE  FALSE
      <4>1. Open(v)
        BY <3>3 DEF StoreIInv, WriterOK, Inserts, Open
      <4>2. Cardinality(tx[v].inserted) \in Nat
            /\ tx[v].inserted = Chunks(GenerationOf(v), Cardinality(tx[v].inserted))
        BY <4>1, InsertedSoFar
      <4>3. Cardinality(tx[v].inserted) # 0
        BY <3>3, <4>2, FirstRows
      <4>4. [gen |-> GenerationOf(v), no |-> 1] \in tx[v].inserted
        <5>1. ASSUME NEW h, NEW n \in Nat, n # 0
              PROVE  [gen |-> h, no |-> 1] \in Chunks(h, n)
          <6>1. 1 \in 1..n
            BY <5>1
          <6> QED BY <6>1 DEF Chunks
        <5>2. [gen |-> GenerationOf(v), no |-> 1]
                \in Chunks(GenerationOf(v), Cardinality(tx[v].inserted))
          BY <4>2, <4>3, <5>1
        <5> QED BY <4>2, <5>2
      <4> QED BY <3>2, <4>4 DEF Undecided
    <3>4. active \subseteq tx[w].marked
      <4>1. CASE active = {}
        BY <4>1
      <4>2. CASE active # {}
        <5>1. PICK h \in Generations : size[h] > 0 /\ active = Chunks(h, size[h])
          BY <4>2 DEF StoreIInv, OneWholeGeneration, Whole
        <5>2. size[h] \in Nat
          BY <5>1 DEF StoreIInv, StoreTypeOK
        <5>3. [gen |-> h, no |-> 1] \in active
          BY <5>1, <5>2, FirstRows
        <5>4. [gen |-> h, no |-> 1] \in tx[w].marked
          BY <3>2, <5>3 DEF Taken
        <5> QED BY <1>1, <5>3, <5>4 DEF WriterOK, Visits
      <4> QED BY <4>1, <4>2
    <3> QED BY <3>3, <3>4
  <2> QED BY <2>1, <2>2
<1>9. GenerationOf(w)' = g /\ size'[g] = size[g]
  BY <1>1, <1>6 DEF GenerationOf, g
<1>10. Fresh(w)'
  BY <1>1, <1>6 DEF WriterOK, Fresh, Open, GenerationOf
<1>11. Visits(w)'
  BY <1>1, <1>6 DEF WriterOK, Visits, Open
<1>12. Inserts(w)'
  BY <1>1, <1>2, <1>6, <1>7, <1>8, <1>9 DEF Inserts
<1> QED BY <1>1, <1>6, <1>8, <1>10, <1>11, <1>12, OwnTransaction DEF WriterOK

\* A commit leaves the new generation, whole: the index let this transaction
\* insert only once it had superseded everything that was active.
LEMMA CommittedWhole ==
    ASSUME StoreIInv, NEW w \in Writers, Commit(w)
    PROVE  /\ active' = Chunks(GenerationOf(w), size[GenerationOf(w)])
           /\ active \subseteq tx[w].marked
           /\ \A v \in Writers \ {w} : tx[v].inserted = {}
           /\ GenerationOf(w) \in Generations
           /\ size[GenerationOf(w)] \in 1..MaxChunks
<1> DEFINE g == GenerationOf(w)
           k == Cardinality(tx[w].inserted)
<1>1. Open(w) /\ Inserts(w) /\ k + 1 > size[g] /\ active' = CommittedRows(w)
  BY DEF StoreIInv, WriterOK, Commit, Open, AllInserted, NextNo
<1>2. /\ k \in 0..size[g] /\ k \in Nat /\ tx[w].inserted = Chunks(g, k)
      /\ g \in Generations /\ size[g] \in 1..MaxChunks
  BY <1>1, InsertedSoFar
<1> HIDE DEF g, k
<1>3. k = size[g] /\ k > 0
  BY <1>1, <1>2
<1>4. tx[w].inserted = Chunks(g, size[g]) /\ tx[w].inserted # {}
  <2>1. Chunks(g, k) # {}
    BY <1>2, <1>3, FirstRows
  <2> QED BY <1>2, <1>3, <2>1
<1>5. active \subseteq tx[w].marked /\ \A v \in Writers \ {w} : tx[v].inserted = {}
  BY <1>1, <1>4 DEF Inserts
<1> QED BY <1>1, <1>2, <1>4, <1>5 DEF CommittedRows, g

LEMMA CommitKeeps ==
    ASSUME StoreIInv, NEW w \in Writers, Commit(w)
    PROVE  StoreIInv'
<1> DEFINE g == GenerationOf(w)
<1>1. /\ active' = Chunks(g, size[g]) /\ active \subseteq tx[w].marked
      /\ \A v \in Writers \ {w} : tx[v].inserted = {}
      /\ g \in Generations /\ size[g] \in 1..MaxChunks
      /\ g.writer = w /\ g.run = tx[w].run
  <2>1. g.writer = w /\ g.run = tx[w].run
    BY DEF GenerationOf
  <2> QED BY <2>1, CommittedWhole
<1>2. /\ tx \in [Writers -> Tx] /\ tx[w] \in Tx /\ WriterOK(w) /\ Open(w)
      /\ size \in [Generations -> 0..MaxChunks] /\ size' = size
      /\ retired' = retired \cup {r.gen : r \in active}
      /\ tx' = [tx EXCEPT ![w] = Idle(tx[w].run)]
  BY DEF StoreIInv, StoreTypeOK, Commit, Open
<1>3. /\ Idle(tx[w].run) \in Tx /\ Idle(tx[w].run).pc = "idle"
      /\ Idle(tx[w].run).run = tx[w].run /\ Idle(tx[w].run).inserted = {}
  BY <1>2, TxFields, IdleTyped
<1>4. /\ tx' \in [Writers -> Tx] /\ tx'[w] = Idle(tx[w].run)
      /\ \A v \in Writers \ {w} : tx'[v] = tx[v]
  BY <1>2, <1>3
<1> HIDE DEF g
<1>5. /\ \A r \in active' : r.gen = g
      /\ active' \subseteq Row
      /\ {r.gen : r \in active'} = {g}
  <2>1. size[g] \in Nat /\ size[g] > 0 /\ size[g] \in 0..MaxChunks
    BY <1>1, ChunkAssumption
  <2>2. Chunks(g, size[g]) # {} /\ \A r \in Chunks(g, size[g]) : r.gen = g
    BY <2>1, FirstRows
  <2>3. Chunks(g, size[g]) \subseteq Row
    BY <1>1, <2>1, RowsTyped
  <2> QED BY <1>1, <2>2, <2>3
<1>6. retired' \subseteq Generations /\ g \notin retired'
  <2>1. {r.gen : r \in active} \subseteq Generations /\ retired \subseteq Generations
    BY RowFields DEF StoreIInv, StoreTypeOK
  <2>2. g \notin retired \cup {r.gen : r \in active}
    <3>1. tx[w].run \in Nat
      BY <1>2, TxFields
    <3> QED BY <1>1, <1>2, <3>1 DEF WriterOK, Fresh
  <2> QED BY <1>2, <2>1, <2>2
<1>7. StoreTypeOK'
  BY <1>2, <1>4, <1>5, <1>6 DEF StoreTypeOK
<1>8. OneWholeGeneration' /\ ActiveNotRetired'
  <2>1. size'[g] > 0 /\ active' = Chunks(g, size'[g])
    BY <1>1, <1>2
  <2>2. OneWholeGeneration'
    BY <1>1, <2>1 DEF OneWholeGeneration, Whole
  <2> QED BY <1>5, <1>6, <2>2 DEF ActiveNotRetired
<1>9. WriterOK(w)'
  <2>1. Fresh(w)'
    <3>1. ~Open(w)' /\ tx'[w].run = tx[w].run /\ tx[w].run \in Nat
      BY <1>2, <1>3, <1>4, TxFields DEF Open
    <3>2. \A h \in retired' \cup {r.gen : r \in active'} :
             h.writer = w => h.run < tx[w].run \/ h.run = tx[w].run
      BY <1>1, <1>2, <1>5 DEF WriterOK, Fresh
    <3> QED BY <3>1, <3>2 DEF Fresh
  <2>2. Visits(w)' /\ Inserts(w)'
    BY <1>3, <1>4 DEF Visits, Inserts, Open
  <2> QED BY <2>1, <2>2 DEF WriterOK
<1>10. ASSUME NEW v \in Writers \ {w}
       PROVE  WriterOK(v)'
  <2>1. tx'[v] = tx[v] /\ WriterOK(v) /\ tx[v] \in Tx /\ tx[v].inserted = {}
    BY <1>1, <1>4 DEF StoreIInv, StoreTypeOK
  <2>2. Fresh(v)'
    <3>1. \A h \in retired' \cup {r.gen : r \in active'} :
             h \in retired \cup {r.gen : r \in active} \/ h = g
      BY <1>2, <1>5
    <3>2. g.writer # v
      BY <1>1
    <3>3. GenerationOf(v)' = GenerationOf(v)
      BY <2>1 DEF GenerationOf
    <3> QED BY <1>2, <2>1, <3>1, <3>2, <3>3 DEF WriterOK, Fresh, Open
  <2>3. Visits(v)'
    <3>1. CASE ~Open(v)
      BY <2>1, <3>1 DEF Visits, Open
    <3>2. CASE Open(v)
      <4>1. /\ \A r \in tx[v].todo \cup tx[v].marked : r \in active \/ r.gen \in retired
            /\ tx[v].pc = "inserting" => tx[v].todo = {}
        BY <2>1, <3>2 DEF WriterOK, Visits
      <4>2. \A r \in tx[v].todo \cup tx[v].marked : r.gen \in retired'
        BY <1>2, <4>1
      <4>3. active' \cap (tx[v].todo \cup tx[v].marked) = {}
        BY <1>5, <1>6, <4>2
      <4> QED BY <2>1, <4>1, <4>2, <4>3 DEF Visits
    <3> QED BY <3>1, <3>2
  <2>4. Inserts(v)'
    BY <1>2, <2>1 DEF WriterOK, Inserts, Open, GenerationOf
  <2> QED BY <2>2, <2>3, <2>4 DEF WriterOK
<1> QED BY <1>7, <1>8, <1>9, <1>10 DEF StoreIInv

LEMMA InitStoreIInv == StoreInit => StoreIInv
<1> SUFFICES ASSUME StoreInit PROVE StoreIInv
  OBVIOUS
<1>1. PICK n \in 0..MaxChunks :
         /\ active = Chunks(Earlier, n)
         /\ size = [h \in Generations |-> IF h = Earlier THEN n ELSE 0]
  BY DEF StoreInit
<1>2. Earlier \in Generations
  BY DEF Generations
<1>3. n \in Nat /\ 0 \in 0..MaxChunks /\ 0 \in 0..MaxRuns
  BY ChunkAssumption
<1>4. size \in [Generations -> 0..MaxChunks] /\ size[Earlier] = n
  BY <1>1, <1>2, <1>3
<1>5. retired = {} /\ tx = [w \in Writers |-> Idle(0)]
  BY DEF StoreInit
<1>6. tx \in [Writers -> Tx]
  BY <1>3, <1>5, IdleTyped
<1>7. StoreTypeOK
  <2>1. active \subseteq Row
    BY <1>1, <1>2, RowsTyped
  <2> QED BY <1>4, <1>5, <1>6, <2>1 DEF StoreTypeOK
<1>8. OneWholeGeneration
  <2>1. CASE n = 0
    BY <1>1, <1>3, <2>1, FirstRows DEF OneWholeGeneration
  <2>2. CASE n > 0
    BY <1>1, <1>2, <1>4, <2>2 DEF OneWholeGeneration, Whole
  <2> QED BY <1>3, <2>1, <2>2
<1>9. ActiveNotRetired
  BY <1>5 DEF ActiveNotRetired
<1>10. ASSUME NEW w \in Writers
       PROVE  WriterOK(w)
  <2>1. tx[w].pc = "idle" /\ tx[w].inserted = {}
    BY <1>3, <1>5, IdleTyped
  <2>2. \A h \in {r.gen : r \in active} : h.writer # w
    <3>1. \A r \in active : r.gen = Earlier
      BY <1>1, <1>3, FirstRows
    <3>2. Earlier.writer # w
      BY ChunkAssumption DEF Earlier
    <3> QED BY <3>1, <3>2
  <2> QED BY <1>5, <2>1, <2>2 DEF WriterOK, Fresh, Visits, Inserts, Open
<1> QED BY <1>7, <1>8, <1>9, <1>10 DEF StoreIInv

LEMMA NextKeepsStoreIInv == StoreIInv /\ [StoreNext]_storeVars => StoreIInv'
<1> SUFFICES ASSUME StoreIInv, [StoreNext]_storeVars PROVE StoreIInv'
  OBVIOUS
<1>1. CASE UNCHANGED storeVars
  BY <1>1 DEF StoreIInv, StoreTypeOK, OneWholeGeneration, Whole, ActiveNotRetired, WriterOK,
              Fresh, Visits, Inserts, Open, GenerationOf, storeVars
<1>2. ASSUME NEW w \in Writers, StartUpdate(w)
      PROVE  StoreIInv'
  BY <1>2, StartKeeps
<1>3. ASSUME NEW w \in Writers, (\E r \in tx[w].todo : SupersedeRow(w, r)) \/ EndUpdate(w)
      PROVE  StoreIInv'
  BY <1>3, UpdateKeeps
<1>4. ASSUME NEW w \in Writers, InsertChunk(w)
      PROVE  StoreIInv'
  BY <1>4, InsertKeeps
<1>5. ASSUME NEW w \in Writers, InsertRefused(w) \/ Rollback(w)
      PROVE  StoreIInv'
  BY <1>5, EndsWithoutTrace DEF InsertRefused, Rollback
<1>6. ASSUME NEW w \in Writers, Commit(w)
      PROVE  StoreIInv'
  BY <1>6, CommitKeeps
<1> QED BY <1>1, <1>2, <1>3, <1>4, <1>5, <1>6 DEF StoreNext

-----------------------------------------------------------------------------
(* The generation retrieval finds                                          *)

\* The rows tell their generation.
LEMMA OnlyOneWhole ==
    ASSUME NEW sizes, NEW rows, NEW g \in Generations, sizes[g] \in Nat,
           rows = Chunks(g, sizes[g]), rows # {},
           \A h \in Generations : sizes[h] \in Nat
    PROVE  (CHOOSE h \in Generations : rows = Chunks(h, sizes[h])) = g
<1> DEFINE c == CHOOSE h \in Generations : rows = Chunks(h, sizes[h])
<1>1. c \in Generations /\ rows = Chunks(c, sizes[c])
  OBVIOUS
<1> HIDE DEF c
<1>2. ASSUME NEW h, NEW n
      PROVE  \A r \in Chunks(h, n) : r.gen = h
  BY DEF Chunks
<1>3. (\A r \in rows : r.gen = c) /\ (\A r \in rows : r.gen = g)
  BY <1>1, <1>2
<1> QED BY <1>3 DEF c

\* A state of the invariant shows retrieval nothing, or the one generation.
LEMMA CurrentIs ==
    ASSUME StoreTypeOK, OneWholeGeneration
    PROVE  \/ active = {} /\ CurrentGeneration = None
           \/ \E g \in Generations :
                /\ active # {} /\ active = Chunks(g, size[g]) /\ CurrentGeneration = g
                /\ {r.gen : r \in active} = {g}
<1>1. CASE active = {}
  BY <1>1 DEF CurrentGeneration
<1>2. CASE active # {}
  <2>1. PICK g \in Generations : size[g] > 0 /\ active = Chunks(g, size[g])
    BY <1>2 DEF OneWholeGeneration, Whole
  <2>2. \A h \in Generations : size[h] \in Nat
    BY DEF StoreTypeOK
  <2>3. CurrentGeneration = g
    <3>1. (CHOOSE h \in Generations : active = Chunks(h, size[h])) = g
      BY <1>2, <2>1, <2>2, OnlyOneWhole
    <3> QED BY <1>2, <2>1, <3>1 DEF CurrentGeneration, Whole
  <2>4. \A r \in active : r.gen = g
    BY <2>1, <2>2, FirstRows
  <2> QED BY <1>2, <2>1, <2>3, <2>4
<1> QED BY <1>1, <1>2

\* What a writer does before its commit is a stutter of the replacement.
LEMMA SameCurrent ==
    ASSUME StoreIInv, StoreIInv', [StoreNext]_storeVars, active' = active
    PROVE  CurrentGeneration' = CurrentGeneration
<1>1. CASE active = {}
  BY <1>1 DEF CurrentGeneration
<1>2. CASE active # {}
  <2>1. PICK g \in Generations : active = Chunks(g, size[g]) /\ CurrentGeneration = g
    BY <1>2, CurrentIs DEF StoreIInv
  <2>2. /\ \A h \in Generations : size[h] \in Nat /\ size'[h] \in Nat
        /\ size \in [Generations -> 0..MaxChunks]
    BY DEF StoreIInv, StoreTypeOK
  <2>3. size'[g] = size[g]
    <3>1. CASE size' = size
      BY <3>1
    <3>2. ASSUME NEW w \in Writers, StartUpdate(w)
          PROVE  size'[g] = size[g]
      <4>1. g # [writer |-> w, run |-> tx[w].run + 1]
        <5>1. \A r \in active : r.gen = g
          BY <2>1, <2>2, FirstRows
        <5>2. g \in {r.gen : r \in active}
          BY <1>2, <5>1
        <5>3. tx[w].run \in Nat
          BY TxFields DEF StoreIInv, StoreTypeOK
        <5>4. g.writer = w => g.run < tx[w].run \/ g.run = tx[w].run
          BY <5>2, <5>3 DEF StoreIInv, WriterOK, Fresh
        <5> QED BY <5>3, <5>4
      <4> QED BY <2>1, <2>2, <3>2, <4>1 DEF StartUpdate
    <3> QED BY <3>1, <3>2 DEF StoreNext, storeVars, SupersedeRow, EndUpdate, InsertChunk,
                              InsertRefused, Commit, Rollback
  <2>4. (CHOOSE h \in Generations : active = Chunks(h, size'[h])) = g
    BY <1>2, <2>1, <2>2, <2>3, OnlyOneWhole
  <2>5. CurrentGeneration' = g
    BY <1>2, <2>1, <2>3, <2>4 DEF CurrentGeneration, Whole
  <2> QED BY <2>1, <2>5
<1> QED BY <1>1, <1>2

LEMMA CommitReplaces ==
    ASSUME StoreIInv, StoreIInv', NEW w \in Writers, Commit(w)
    PROVE  Replacing!Replace(GenerationOf(w))
<1> DEFINE g == GenerationOf(w)
<1>1. /\ active' = Chunks(g, size[g]) /\ g \in Generations /\ size[g] \in 1..MaxChunks
      /\ g.writer = w /\ g.run = tx[w].run /\ size' = size
      /\ retired' = retired \cup {r.gen : r \in active}
  BY CommittedWhole DEF GenerationOf, Commit
<1>2. \A h \in retired \cup {r.gen : r \in active} : h # g
  <2>1. tx[w].run \in Nat /\ Open(w)
    BY TxFields DEF StoreIInv, StoreTypeOK, Commit, Open
  <2> QED BY <1>1, <2>1 DEF StoreIInv, WriterOK, Fresh
<1> HIDE DEF g
<1>3. CurrentGeneration' = g
  <2>1. size[g] \in Nat /\ size[g] > 0 /\ \A h \in Generations : size[h] \in Nat
    BY <1>1, ChunkAssumption DEF StoreIInv, StoreTypeOK
  <2>2. active' # {}
    BY <1>1, <2>1, FirstRows
  <2>3. (CHOOSE h \in Generations : active' = Chunks(h, size[h])) = g
    BY <1>1, <2>1, <2>2, OnlyOneWhole
  <2> QED BY <1>1, <2>2, <2>3 DEF CurrentGeneration, Whole
<1>4. /\ {r.gen : r \in active} = {CurrentGeneration} \ {None}
      /\ CurrentGeneration # g
  <2>1. CASE active = {} /\ CurrentGeneration = None
    BY <1>1, <2>1, GenerationAssumption
  <2>2. ASSUME NEW h \in Generations, CurrentGeneration = h, {r.gen : r \in active} = {h}
        PROVE  <1>4!1 /\ <1>4!2
    BY <1>2, <2>2, GenerationAssumption
  <2> QED BY <2>1, <2>2, CurrentIs DEF StoreIInv
<1> QED BY <1>1, <1>2, <1>3, <1>4 DEF Replacing!Replace, g

-----------------------------------------------------------------------------
(* The results                                                             *)

\* The invariant holds in every reachable state: the unique index decides at
\* the first chunk which transaction goes on, and it is the one that has
\* superseded everything retrieval could still find.
THEOREM ChunkInductive == StoreSpec => []StoreIInv
<1> QED BY InitStoreIInv, NextKeepsStoreIInv, PTL DEF StoreSpec

\* Rows, generations and open transactions keep their types.
THEOREM ChunkTypes == StoreSpec => []StoreTypeOK
<1>1. StoreIInv => StoreTypeOK
  BY DEF StoreIInv
<1> QED BY <1>1, ChunkInductive, PTL

\* Whatever transactions run beside each other or are cut off, retrieval never
\* finds a part of what persist_chunks writes, or two writings mixed.
THEOREM NeverMixed == StoreSpec => [](CurrentGeneration # Mixture)
<1>1. StoreIInv => CurrentGeneration # Mixture
  <2>1. Mixture # None /\ Mixture \notin Generations
    BY ChunkAssumption, GenerationAssumption DEF Mixture, Generations, Earlier
  <2> QED BY <2>1, CurrentIs DEF StoreIInv
<1> QED BY <1>1, ChunkInductive, PTL

\* persist_chunks, statement by statement beside other transactions, replaces
\* the chunks of a version atomically: its commits are the replacements, and
\* every other statement is a stutter.
THEOREM ReplacementProved == StoreSpec => ReplacesAtomically
<1>1. StoreInit => Replacing!Init
  <2> SUFFICES ASSUME StoreInit PROVE Replacing!Init
    OBVIOUS
  <2>1. StoreIInv
    BY InitStoreIInv
  <2>2. CurrentGeneration \in Generations \cup {None}
    BY <2>1, CurrentIs DEF StoreIInv
  <2> QED BY <2>2 DEF StoreInit, Replacing!Init
<1>2. StoreIInv /\ StoreIInv' /\ [StoreNext]_storeVars => [Replacing!Next]_(Replacing!vars)
  <2> SUFFICES ASSUME StoreIInv, StoreIInv', [StoreNext]_storeVars
               PROVE  [Replacing!Next]_(Replacing!vars)
    OBVIOUS
  <2>1. ASSUME NEW w \in Writers, Commit(w)
        PROVE  Replacing!Next
    <3>1. GenerationOf(w) \in Generations
      BY <2>1, CommittedWhole
    <3> QED BY <2>1, <3>1, CommitReplaces DEF Replacing!Next
  <2>2. CASE UNCHANGED <<active, retired>>
    BY <2>2, SameCurrent DEF Replacing!vars
  <2> QED BY <2>1, <2>2 DEF StoreNext, storeVars, StartUpdate, SupersedeRow, EndUpdate,
                            InsertChunk, InsertRefused, Rollback
<1> QED BY <1>1, <1>2, ChunkInductive, PTL DEF StoreSpec, ReplacesAtomically, Replacing!Spec

=============================================================================
