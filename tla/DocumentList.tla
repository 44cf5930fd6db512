----------------------------- MODULE DocumentList -----------------------------
(***************************************************************************)
(* The page of a knowledge base, KnowledgeBaseView: its list of documents,  *)
(* fetched when the selection changes, by a button, every five seconds      *)
(* while a document is pending, and two seconds after an upload.  Answers   *)
(* come in any order, and each replaces the list that is shown.             *)
(***************************************************************************)
EXTENDS KbSelection

CONSTANTS
    MaxRequests,   \* bound: requests for the list under way
    MaxUploads     \* bound: uploads in all

VARIABLES
    docs,      \* the list that is shown: whose it is, and whether one is pending
    requests,  \* requests for a list under way, in the order they were sent
    file,      \* the form holds a file
    uploading, \* isUploading
    upload,    \* the upload under way
    uploads,   \* how many there were
    timers,    \* knowledge bases to fetch two seconds after an upload
    pending,   \* server: the knowledge bases with a document not yet ingested
    cause      \* history: why the list is not the answer to the last request

pageVars == <<docs, requests, file, uploading, timers, cause>>
serverVars == <<upload, uploads, pending>>
documentVars == <<pageVars, serverVars>>

NoDocs == [of |-> None, pending |-> FALSE]
NoUpload == [kb |-> None, stored |-> FALSE, here |-> FALSE]

Request(kb, now) ==
    [kb |-> kb, answer |-> "none", late |-> FALSE, former |-> kb # now]

\* fetchDocuments, called n times by a render that saw kb while now is selected.
Fetch(kb, now, n) ==
    /\ Len(requests) + n <= MaxRequests
    /\ requests' = IF kb = None THEN requests
                   ELSE requests \o [i \in 1..n |-> Request(kb, now)]

DocumentInit ==
    /\ docs = NoDocs
    /\ requests = <<>>
    /\ file = FALSE
    /\ uploading = FALSE
    /\ upload = NoUpload
    /\ uploads = 0
    /\ timers = <<>>
    /\ pending = {}
    /\ cause = "none"

\* What an earlier page had under way no longer shows.
NewPage(first) ==
    /\ docs' = NoDocs
    /\ requests' = first
    /\ file' = FALSE
    /\ uploading' = FALSE
    /\ timers' = <<>>
    /\ cause' = "none"
    /\ upload' = [upload EXCEPT !.here = FALSE]
    /\ UNCHANGED <<uploads, pending>>

MountPage ==
    NewPage(IF selected = None THEN <<>>
            ELSE [i \in 1..runs |-> Request(selected, selected)])

UnmountPage == NewPage(<<>>)

\* Mutant: the effect forgets its dependency on the selection.
FetchOnSelection_MountOnly == UNCHANGED requests

\* The effect on [selectedKB?.id].
FetchOnSelection ==
    IF selected' = selected THEN UNCHANGED requests ELSE Fetch(selected', selected', 1)

SelectionChanges ==
    /\ FetchOnSelection
    /\ UNCHANGED <<docs, file, uploading, timers, cause, serverVars>>

\* The interval lives while a document is pending; the button is always there.
Refetch ==
    /\ selected # None
    /\ Fetch(selected, selected, 1)
    /\ UNCHANGED <<docs, file, uploading, timers, cause, serverVars>>

\* Mutant: only while an upload is under way.
Poll_WhileUploading == docs.pending /\ uploading /\ Refetch

Poll == docs.pending /\ Refetch

ChooseFile(chosen) ==
    /\ file' = chosen
    /\ UNCHANGED <<docs, requests, uploading, timers, cause, serverVars>>

-----------------------------------------------------------------------------
(* Uploading.                                                              *)

HandleUpload ==
    /\ file /\ ~uploading /\ selected # None
    /\ upload = NoUpload
    /\ uploads < MaxUploads
    /\ uploading' = TRUE
    /\ upload' = [kb |-> selected, stored |-> FALSE, here |-> TRUE]
    /\ uploads' = uploads + 1
    /\ UNCHANGED <<docs, requests, file, timers, pending, cause>>

\* The API stores the document and queues its ingestion.
StoreUpload ==
    /\ upload # NoUpload /\ ~upload.stored
    /\ upload' = [upload EXCEPT !.stored = TRUE]
    /\ pending' = pending \cup {upload.kb}
    /\ UNCHANGED <<pageVars, uploads>>

\* The timer keeps the knowledge base that was selected when the upload began.
UploadSucceeds ==
    /\ upload.stored
    /\ upload' = NoUpload
    /\ IF upload.here
       THEN uploading' = FALSE /\ timers' = Append(timers, upload.kb)
       ELSE UNCHANGED <<uploading, timers>>
    /\ UNCHANGED <<docs, requests, file, cause, uploads, pending>>

\* Refused, or the answer is lost after the document was stored.
UploadFails ==
    /\ upload # NoUpload
    /\ upload' = NoUpload
    /\ uploading' = IF upload.here THEN FALSE ELSE uploading
    /\ UNCHANGED <<docs, requests, file, timers, cause, uploads, pending>>

TimerFires ==
    /\ timers # <<>>
    /\ timers' = Tail(timers)
    /\ file' = FALSE
    /\ Fetch(Head(timers), selected, 1)
    /\ UNCHANGED <<docs, uploading, cause, serverVars>>

-----------------------------------------------------------------------------
(* Answers.                                                                *)

\* The API reads the documents of the knowledge base.
ServeList(i) ==
    /\ requests[i].answer = "none"
    /\ requests' = [requests EXCEPT ![i].answer =
                        IF requests[i].kb \in pending THEN "pending" ELSE "settled"]
    /\ UNCHANGED <<docs, file, uploading, timers, cause, serverVars>>

\* Request i is over: those sent before it are late from now on.
Over(i) ==
    requests' = RemoveAt([j \in DOMAIN requests |->
                            [requests[j] EXCEPT !.late = @ \/ j < i]], i)

ShowList(i) ==
    LET r == requests[i] IN
    /\ r.answer # "none"
    /\ docs' = [of |-> r.kb, pending |-> r.answer = "pending"]
    /\ cause' = CASE r.late -> "overtaken"
                  [] ~r.late /\ r.former -> "former"
                  [] OTHER -> "none"
    /\ Over(i)
    /\ UNCHANGED <<file, uploading, timers, serverVars>>

\* The list that is shown stays.
ListRequestFails(i) ==
    /\ cause' = IF requests[i].late THEN cause ELSE "failed"
    /\ Over(i)
    /\ UNCHANGED <<docs, file, uploading, timers, serverVars>>

IngestionSettles(kb) ==
    /\ kb \in pending
    /\ pending' = pending \ {kb}
    /\ UNCHANGED <<pageVars, upload, uploads>>

=============================================================================
