------------------------------- MODULE WebViews -------------------------------
(***************************************************************************)
(* The pages of the web client: one is mounted at a time, all share the     *)
(* selected knowledge base.  Requests under way when a page is left are     *)
(* answered all the same, and the answer shows nowhere.                     *)
(***************************************************************************)
EXTENDS DocumentList, ChatTranscript

VARIABLE route

vars == <<selectionVars, documentVars, chatVars, route>>

Init ==
    /\ SelectionInit
    /\ DocumentInit
    /\ ChatInit
    /\ route = "chat"

On(page) == route = page /\ UNCHANGED route

-----------------------------------------------------------------------------
(* Going from page to page.                                                *)

\* The conversations that the questions under way may still start.
MayStart ==
    { s \in SUBSET (Conversations \ stored) :
        Cardinality(s) <= Cardinality({ i \in DOMAIN calls :
            calls[i].kind = "ask" /\ calls[i].conv = None /\ calls[i].answer = None }) }

OpenKnowledgeBase ==
    /\ route # "kb"
    /\ route' = "kb"
    /\ MountPage
    /\ history' = {}
    /\ \E reached \in MayStart : UnmountChat(reached)
    /\ KeepSelection

OpenConversations ==
    /\ route # "conversations"
    /\ route' = "conversations"
    /\ UnmountPage
    /\ history' = {}
    /\ \E reached \in MayStart : UnmountChat(reached)
    /\ KeepSelection

\* From the menu, or by a conversation of the list.  The menu's link does
\* nothing to a chat that is open.
OpenChat ==
    /\ route # "chat"
    /\ route' = "chat"
    /\ UnmountPage
    /\ \E resumed \in {None} \cup (IF route = "conversations" THEN history ELSE {}) :
          MountChat(resumed)
    /\ KeepSelection
    /\ UNCHANGED stored

-----------------------------------------------------------------------------
(* The steps of the provider, wherever the user is.                        *)

Selection ==
    /\ \/ ListAnswered
       \/ ListFails
       \/ route \in {"chat", "kb"} /\ \E kb \in Range(KBs) : Pick(kb)
    /\ IF route = "kb" THEN SelectionChanges ELSE UNCHANGED documentVars
    /\ UNCHANGED <<chatVars, route>>

DocumentPage ==
    /\ On("kb")
    /\ \/ Poll
       \/ Refetch
       \/ \E chosen \in BOOLEAN : ChooseFile(chosen)
       \/ HandleUpload
       \/ TimerFires
       \/ \E i \in DOMAIN requests : ServeList(i) \/ ShowList(i) \/ ListRequestFails(i)
    /\ UNCHANGED <<selectionVars, chatVars>>

Server ==
    /\ \/ StoreUpload
       \/ UploadSucceeds
       \/ UploadFails
       \/ \E kb \in Range(KBs) : IngestionSettles(kb)
    /\ UNCHANGED <<selectionVars, chatVars, route>>

ChatPage ==
    /\ On("chat")
    /\ \/ HandleSubmit
       \/ NewChat
       \/ \E i \in DOMAIN calls :
            \/ \E c \in Conversations : Serve(i, c)
            \/ AnswerArrives(i)
            \/ MessagesArrive(i)
            \/ CallFails(i)
    /\ UNCHANGED <<selectionVars, documentVars>>

ConversationsPage ==
    /\ On("conversations")
    /\ HistoryArrives
    /\ UNCHANGED <<selectionVars, documentVars>>

Next ==
    \/ OpenKnowledgeBase \/ OpenConversations \/ OpenChat
    \/ Selection \/ DocumentPage \/ Server \/ ChatPage \/ ConversationsPage

\* The browser runs its timers, the API answers some request of a browser that
\* keeps asking, and the ingestion of every document ends.
OnPage(A) == A /\ UNCHANGED <<selectionVars, chatVars, route>>

Fairness ==
    /\ WF_vars(route = "kb" /\ OnPage(Poll))
    /\ SF_vars(route = "kb" /\ OnPage(\E i \in DOMAIN requests : ServeList(i)))
    /\ SF_vars(route = "kb" /\ OnPage(\E i \in DOMAIN requests : ShowList(i)))
    /\ \A kb \in Range(KBs) : WF_vars(OnPage(IngestionSettles(kb)))

Spec == Init /\ [][Next]_vars /\ Fairness

-----------------------------------------------------------------------------
\* What the user picked stays picked.  Only in the development build, which
\* asks for the list twice, may the second answer come after the user's choice
\* and put the first item in its place (KBContext.tsx:43, KBSelector.tsx:20).
ChoiceStands ==
    choice # None /\ selected # choice => runs = 2 /\ selected = Head(KBs)

\* When nothing is under way or due, the list under the name of a knowledge
\* base is its own, unless the answers came in another order than the requests,
\* the last request failed, or the last one was the refresh after an upload to
\* the knowledge base selected before (KnowledgeBaseView.tsx:19-42, :89).
ListIsOfSelection ==
    /\ route = "kb"
    /\ requests = <<>>
    /\ ~docs.pending
    /\ selected # docs.of
    => cause # "none"

\* The messages on the page are those of the conversation a question would go
\* to, unless the user has started a new chat while an answer was under way
\* (ChatView.tsx:62-145, :154).
TranscriptIsOfConversation ==
    transcript \subseteq {conv} \/ crossed

\* A page that shows a document of its selection as pending finds out how its
\* ingestion ended (KnowledgeBaseView.tsx:36-42).
PendingIsFollowed ==
    (route = "kb" /\ docs.pending /\ docs.of = selected)
        ~> ~(route = "kb" /\ docs.pending /\ docs.of = selected)

=============================================================================
