---------------------------- MODULE IngestWorker ----------------------------
(***************************************************************************)
(* The worker's side of ingestion: IngestConsumer._process_job around       *)
(* IngestPipeline.process, one slot per concurrently processed job.  The    *)
(* steps end where the coroutine awaits a transaction.  The stages between  *)
(* activation and persisting (fetch, parse, normalize, chunk, embed) touch  *)
(* no row: they end in new chunks or in an error that is retryable or not.  *)
(***************************************************************************)
EXTENDS IngestQueue

VARIABLE work   \* per slot: where process() is, its job, its attempt_no

WorkPcs ==
    { "idle",
      "claimed",           \* delivered by the queue, mark_job_active is next
      "running",           \* attempt_no >= 1, the stages are next
      "persisted",         \* persist_chunks committed, mark_success is next
      "retryable",         \* a retryable error reached _handle_failure
      "permanent",         \* a non-retryable error reached _handle_failure
      "returned",          \* process() returned: the queue is told so
      "raised",            \* _process_job raised an exception: retry
      "unrecoverable" }    \* _process_job raised UnrecoverableError

Slot == [pc : WorkPcs, job : 0..MaxJobs, attempt : 0..MaxAttempts]
IdleSlot == [pc |-> "idle", job |-> 0, attempt |-> 0]

WorkInit == work = [w \in Workers |-> IdleSlot]

InStep(w, pc) == work[w].pc = pc
Advance(w, pc) == work' = [work EXCEPT ![w].pc = pc]
Release(w) == work' = [work EXCEPT ![w] = IdleSlot]
RowsKept == UNCHANGED <<document, version, job, jobCount, chunks>>

-----------------------------------------------------------------------------
Claim(w, j) ==
    /\ InStep(w, "idle")
    /\ QueueClaim(j, w)
    /\ work' = [work EXCEPT ![w] = [pc |-> "claimed", job |-> j, attempt |-> 0]]
    /\ UNCHANGED dbVars

Activate(w) ==
    LET j == work[w].job IN
    /\ InStep(w, "claimed")
    /\ TxActivate(j)
    /\ work' = [work EXCEPT ![w] =
                    [ pc |-> "running", job |-> j, attempt |-> job[j].attempts + 1 ]]
    /\ NoFault
    /\ UNCHANGED queue

SkipTerminal(w) ==
    /\ InStep(w, "claimed")
    /\ job[work[w].job].status \in SkippedStatuses
    /\ Advance(w, "returned")
    /\ UNCHANGED <<dbVars, queue>>

\* The CHECK constraint raises outside process()'s try: no failure is recorded.
ActivationRefused(w) ==
    /\ InStep(w, "claimed")
    /\ job[work[w].job].status \notin SkippedStatuses
    /\ ~ AttemptsLeft(work[w].job)
    /\ Advance(w, "raised")
    /\ UNCHANGED <<dbVars, queue>>

\* So does a database error, with the activation committed or not.
ActivationFails(w) ==
    /\ InStep(w, "claimed")
    /\ Advance(w, "raised")
    /\ \/ Fault("db_write") /\ RowsKept
       \/ Fault("db_ack") /\ TxActivate(work[w].job)
    /\ UNCHANGED queue

StageRaises(w) ==
    /\ InStep(w, "running")
    /\ \E pc \in {"retryable", "permanent"} : Advance(w, pc)
    /\ UNCHANGED <<dbVars, queue>>

\* Mutant: success is marked before the chunks are there.
PersistChunks_Later(w) ==
    /\ InStep(w, "running")
    /\ RowsKept
    /\ Advance(w, "persisted")
    /\ NoFault
    /\ UNCHANGED queue

PersistChunks(w) ==
    /\ InStep(w, "running")
    /\ TxPersistChunks(work[w].job, work[w].attempt)
    /\ Advance(w, "persisted")
    /\ NoFault
    /\ UNCHANGED queue

\* persist_chunks turns every database error into a retryable one; a failure
\* that rolls back looks like StageRaises.
PersistAnswerLost(w) ==
    /\ InStep(w, "running")
    /\ Fault("db_ack")
    /\ TxPersistChunks(work[w].job, work[w].attempt)
    /\ Advance(w, "retryable")
    /\ UNCHANGED queue

MarkSuccess(w) ==
    /\ InStep(w, "persisted")
    /\ TxMarkSuccess(work[w].job, work[w].attempt)
    /\ Advance(w, "returned")
    /\ NoFault
    /\ UNCHANGED queue

\* An error of mark_success is wrapped as a retryable TRANSIENT_EXTERNAL_ERROR.
MarkSuccessFails(w) ==
    /\ InStep(w, "persisted")
    /\ Advance(w, "retryable")
    /\ \/ Fault("db_write") /\ RowsKept
       \/ Fault("db_ack") /\ TxMarkSuccess(work[w].job, work[w].attempt)
    /\ UNCHANGED queue

\* Mutants: one attempt too early, one too late.
OutOfAttempts_Early(w) == work[w].attempt + 1 >= MaxAttempts
OutOfAttempts_Late(w) == work[w].attempt > MaxAttempts

\* dead_letter in _handle_failure
OutOfAttempts(w) == work[w].attempt >= MaxAttempts

\* The row changes of _handle_failure.
TxHandleFailure(w) ==
    LET j == work[w].job IN
    CASE InStep(w, "permanent") -> TxMarkFailure(j, "FAILED", "PERMANENT")
      [] InStep(w, "retryable") /\ OutOfAttempts(w) ->
            TxMarkFailure(j, "DEAD_LETTER", "TRANSIENT")
      [] OTHER -> TxMarkRetryWaiting(j)

HandleFailure(w) ==
    /\ work[w].pc \in {"retryable", "permanent"}
    /\ TxHandleFailure(w)
    /\ Advance(w, IF InStep(w, "permanent") THEN "unrecoverable" ELSE "raised")
    /\ NoFault
    /\ UNCHANGED queue

\* A database error inside _handle_failure leaves process() as it is: not an
\* IngestionError, so even a permanent failure is retried by the queue.
HandleFailureFails(w) ==
    /\ work[w].pc \in {"retryable", "permanent"}
    /\ Advance(w, "raised")
    /\ \/ Fault("db_write") /\ RowsKept
       \/ Fault("db_ack") /\ TxHandleFailure(w)
    /\ UNCHANGED queue

ReportReturn(w) ==
    /\ InStep(w, "returned")
    /\ QueueComplete(w, work[w].job)
    /\ Release(w)
    /\ UNCHANGED dbVars

ReportRaise(w) ==
    /\ InStep(w, "raised")
    /\ QueueFailAttempt(w, work[w].job)
    /\ Release(w)
    /\ UNCHANGED dbVars

ReportUnrecoverable(w) ==
    /\ InStep(w, "unrecoverable")
    /\ QueueFailForGood(w, work[w].job)
    /\ Release(w)
    /\ UNCHANGED dbVars

-----------------------------------------------------------------------------
\* The process dies and comes back with an empty slot.
WorkerCrash(w) ==
    /\ ~ InStep(w, "idle")
    /\ Fault("worker_crash")
    /\ Release(w)
    /\ RowsKept
    /\ UNCHANGED queue

Working(w, j) == ~ InStep(w, "idle") /\ work[w].job = j

\* The lock of a dead worker runs out.
StallDead(j) ==
    /\ \A w \in Workers : Holds(w, j) => ~ Working(w, j)
    /\ QueueStall(j)
    /\ UNCHANGED <<dbVars, work>>

\* The lock of a live one does: its renewal shares the event loop with the
\* synchronous parsing and chunking of large files.
StallLive(j) ==
    /\ \E w \in Workers : Holds(w, j) /\ Working(w, j)
    /\ Fault("lock_lost")
    /\ QueueStall(j)
    /\ RowsKept
    /\ UNCHANGED work

BackoffOver(j) == QueuePromote(j) /\ UNCHANGED <<dbVars, work>>

\* What a busy slot does next: scheduled by the worker's event loop.
WorkStep(w) ==
    \/ Activate(w) \/ SkipTerminal(w) \/ ActivationRefused(w)
    \/ StageRaises(w) \/ PersistChunks(w) \/ MarkSuccess(w) \/ HandleFailure(w)
    \/ ReportReturn(w) \/ ReportRaise(w) \/ ReportUnrecoverable(w)

WorkFault(w) ==
    \/ ActivationFails(w) \/ PersistAnswerLost(w) \/ MarkSuccessFails(w)
    \/ HandleFailureFails(w) \/ WorkerCrash(w)

WorkerNext(w) ==
    \/ \E j \in JobIds : Claim(w, j)
    \/ WorkStep(w)
    \/ WorkFault(w)

=============================================================================
