----------------------------- MODULE IngestApi -----------------------------
(***************************************************************************)
(* The API's side of ingestion: DocumentsService.uploadDocument and         *)
(* reindexDocument, OpsService.retryIngestJob, each of which commits one    *)
(* transaction, adds the new job to the queue and, when that raises, marks  *)
(* the job as failed.  A caller is a request handler; every await at which  *)
(* another handler, a worker or a crash may step in ends a step.            *)
(***************************************************************************)
EXTENDS IngestQueue

CONSTANT Callers   \* concurrent request handlers of the API

VARIABLE call      \* per handler: where it is, its document, its job

CallPcs ==
    { "idle",
      "reindex_checked",   \* reindex: no live job was found
      "retry_found",       \* retry: the job was read and is failed
      "retry_latest",      \* retry: it was the latest job
      "retry_checked",     \* retry: no live sibling was found
      "committed",         \* the rows are written, queue.add is next
      "add_failed" }       \* queue.add raised, the mark is next

Call == [pc : CallPcs, doc : Documents \cup {NoDocument}, job : 0..MaxJobs]
IdleCall == [pc |-> "idle", doc |-> NoDocument, job |-> 0]

CallInit == call = [c \in Callers |-> IdleCall]

At(c, pc) == call[c].pc = pc
Goto(c, pc) == call' = [call EXCEPT ![c].pc = pc]
Return(c) == call' = [call EXCEPT ![c] = IdleCall]
Committed(c, d) ==
    call' = [call EXCEPT ![c] = [pc |-> "committed", doc |-> d, job |-> jobCount + 1]]

\* Mutant: a queued job does not count.
HasLiveJob_ActiveOnly(d) == \E j \in JobsOf(d) : job[j].status = "ACTIVE"

\* A live job: status in [WAITING, ACTIVE].
HasLiveJob(d) == \E j \in JobsOf(d) : Live(j)

-----------------------------------------------------------------------------
\* Checks and the object upload change no row; then one transaction.
Upload(c, d) ==
    /\ At(c, "idle")
    /\ TxCreateDocument(d)
    /\ Committed(c, d)
    /\ NoFault
    /\ UNCHANGED queue

ReindexCheck(c, d) ==
    /\ At(c, "idle")
    /\ jobCount < MaxJobs
    /\ document[d] # "NONE"
    /\ ~ HasLiveJob(d)
    /\ call' = [call EXCEPT ![c] = [pc |-> "reindex_checked", doc |-> d, job |-> 0]]
    /\ UNCHANGED <<dbVars, queue>>

RetryFind(c, j) ==
    /\ At(c, "idle")
    /\ jobCount < MaxJobs
    /\ job[j].status \in {"FAILED", "DEAD_LETTER"}
    /\ call' = [call EXCEPT ![c] = [pc |-> "retry_found", doc |-> job[j].doc, job |-> j]]
    /\ UNCHANGED <<dbVars, queue>>

RetryCheckLatest(c) ==
    /\ At(c, "retry_found")
    /\ IF IsLatest(call[c].job) THEN Goto(c, "retry_latest") ELSE Return(c)
    /\ UNCHANGED <<dbVars, queue>>

RetryCheckSiblings(c) ==
    /\ At(c, "retry_latest")
    /\ IF HasLiveJob(call[c].doc) THEN Return(c) ELSE Goto(c, "retry_checked")
    /\ UNCHANGED <<dbVars, queue>>

\* The transaction re-checks nothing.
RequeueCommit(c) ==
    /\ call[c].pc \in {"reindex_checked", "retry_checked"}
    /\ TxRequeue(call[c].doc)
    /\ Committed(c, call[c].doc)
    /\ NoFault
    /\ UNCHANGED queue

\* The transaction fails and rolls back: the client gets a 500.
RequeueAbort(c) ==
    /\ call[c].pc \in {"reindex_checked", "retry_checked"}
    /\ Return(c)
    /\ UNCHANGED <<dbVars, queue>>

Enqueue(c) ==
    /\ At(c, "committed")
    /\ QueueAdd(call[c].job)
    /\ Return(c)
    /\ UNCHANGED dbVars

EnqueueRejected(c) ==
    /\ At(c, "committed")
    /\ Fault("add_rejected")
    /\ Goto(c, "add_failed")
    /\ UNCHANGED <<document, version, job, jobCount, chunks, queue>>

EnqueueAmbiguous(c) ==
    /\ At(c, "committed")
    /\ Fault("add_ambiguous")
    /\ QueueAdd(call[c].job)
    /\ Goto(c, "add_failed")
    /\ UNCHANGED <<document, version, job, jobCount, chunks>>

MarkEnqueueFailure(c) ==
    /\ At(c, "add_failed")
    /\ TxEnqueueFailed(call[c].job)
    /\ Return(c)
    /\ NoFault
    /\ UNCHANGED queue

MarkEnqueueFailureLost(c) ==
    /\ At(c, "add_failed")
    /\ Fault("mark_lost")
    /\ Return(c)
    /\ UNCHANGED <<document, version, job, jobCount, chunks, queue>>

\* The process dies between the commit and the end of the request.
ApiCrash(c) ==
    /\ call[c].pc \in {"committed", "add_failed"}
    /\ Fault("api_crash")
    /\ Return(c)
    /\ UNCHANGED <<document, version, job, jobCount, chunks, queue>>

\* What a handler does once it has started: scheduled by the event loop.
CallStep(c) ==
    \/ RetryCheckLatest(c) \/ RetryCheckSiblings(c)
    \/ RequeueCommit(c) \/ RequeueAbort(c)
    \/ Enqueue(c) \/ MarkEnqueueFailure(c)

CallFault(c) ==
    \/ EnqueueRejected(c) \/ EnqueueAmbiguous(c)
    \/ MarkEnqueueFailureLost(c) \/ ApiCrash(c)

ApiNext(c) ==
    \/ \E d \in Documents : Upload(c, d) \/ ReindexCheck(c, d)
    \/ \E j \in JobIds : RetryFind(c, j)
    \/ CallStep(c)
    \/ CallFault(c)

=============================================================================
