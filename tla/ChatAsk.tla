------------------------------ MODULE ChatAsk ------------------------------
(***************************************************************************)
(* ChatService.ask: a question is stored, the knowledge base is searched by *)
(* two queries, the model or its local substitute answers, and the answer   *)
(* is stored with its citations.  Requests overlap with each other, in one  *)
(* conversation or in two, and with the reindexing of documents; each await *)
(* ends a step.                                                             *)
(*                                                                         *)
(* A message is created in a transaction: its createdAt is read when the    *)
(* row is inserted, and others see it after the commit.  The clock is that  *)
(* of one API process in milliseconds.                                      *)
(***************************************************************************)
EXTENDS ChatCorpus

CONSTANTS
    Asks,            \* the requests
    Conversations,
    NoConversation,
    HistoryLimit,    \* CHAT_PROMPT_HISTORY_LIMIT
    LocalLimit,      \* MAX_LOCAL_GROUNDED_CHUNKS
    MaxTime,         \* bound: milliseconds
    MaxFaults        \* bound: faults in a behaviour

ASSUME AskAssumption ==
    /\ IsFiniteSet(Asks)
    /\ NoConversation \notin Conversations
    /\ {HistoryLimit, LocalLimit} \subseteq Nat \ {0}
    /\ MaxTime \in Nat \ {0}
    /\ MaxFaults \in Nat

VARIABLES
    pc,             \* where a request is
    conversation,   \* the conversation of a request
    counted,        \* whether it counted any indexed chunk
    pending,        \* the candidate queries it still waits for
    found,          \* the candidates of those that are back
    history,        \* the messages in its prompt
    reply,          \* status, grounding set and citations so far
    message,        \* the Message rows: one question and one answer per request
    activity,       \* Conversation.lastActivityAt, 0 before its creation
    clock,
    faults,
    served,         \* history: the chunks that were readable during a search, then
                    \* those of them in the grounding set
    raced           \* history: conversations with overlapping transactions

rowVars == <<message, activity>>
localVars == <<conversation, counted, pending, found, history, reply>>
askVars == <<corpusVars, pc, localVars, rowVars, clock, faults, served, raced>>

Statuses == {"grounded", "insufficient_data", "out_of_scope"}
Reply ==
    [ status    : Statuses \cup {"undecided"},
      selected  : SUBSET Chunk,
      citations : SUBSET Chunk ]
NoReply == [status |-> "undecided", selected |-> {}, citations |-> {}]

MessageIds == Asks \X {"USER", "ASSISTANT"}
Question(a) == <<a, "USER">>
Answer(a) == <<a, "ASSISTANT">>

\* A row that is inserted, and stored once its transaction has committed.
MessageRow == [at : 0..MaxTime, stored : BOOLEAN, content : Reply]
NoMessage == [at |-> 0, stored |-> FALSE, content |-> NoReply]

Pcs ==
    { "idle",         \* no request yet
      "scoped",       \* resolveKbScope let it through
      "conversing",   \* it has a conversation
      "asking",       \* inside the transaction of the question
      "asked",        \* the question is stored
      "counted",      \* countIndexedChunks is back
      "reading",      \* the candidate queries run
      "prompting",    \* there is evidence: the history is next
      "generating",   \* the model
      "answering",    \* the reply is final
      "storing",      \* inside the transaction of the answer
      "stored",       \* the audit row is next
      "returned",     \* over: the reply
      "refused",      \* over: not found
      "failed" }      \* over: another error, or the end of the process

Ended == {"returned", "refused", "failed"}
UnderWay(a) == pc[a] \notin Ended \cup {"idle"}
InTransaction(a) == pc[a] \in {"asking", "storing"}

AskInit ==
    /\ CorpusInit
    /\ pc = [a \in Asks |-> "idle"]
    /\ conversation = [a \in Asks |-> NoConversation]
    /\ counted = [a \in Asks |-> FALSE]
    /\ pending = [a \in Asks |-> {}]
    /\ found = [a \in Asks |-> {}]
    /\ history = [a \in Asks |-> {}]
    /\ reply = [a \in Asks |-> NoReply]
    /\ message = [m \in MessageIds |-> NoMessage]
    /\ activity = [c \in Conversations |-> 0]
    /\ clock = 1
    /\ faults = 0
    /\ served = [a \in Asks |-> {}]
    /\ raced = {}

Goto(a, place) == pc' = [pc EXCEPT ![a] = place]
Tick == clock' \in {clock, clock + 1} \cap 0..MaxTime
Fault == faults < MaxFaults /\ faults' = faults + 1
Quiet == UNCHANGED <<corpusVars, faults, served>>

-----------------------------------------------------------------------------
(* The conversation and the question                                       *)

\* resolveKbScope
Begin(a) ==
    /\ pc[a] = "idle"
    /\ open
    /\ Goto(a, "scoped")
    /\ Quiet
    /\ UNCHANGED <<localVars, rowVars, clock, raced>>

\* Neither the knowledge base nor a conversation of it is found.
Refuse(a) ==
    /\ pc[a] \in {"idle", "scoped"}
    /\ ~open
    /\ Goto(a, "refused")
    /\ Quiet
    /\ UNCHANGED <<localVars, rowVars, clock, raced>>

Join(a, c) == conversation' = [conversation EXCEPT ![a] = c]

Continue(a, c) ==
    /\ pc[a] = "scoped"
    /\ open
    /\ activity[c] > 0
    /\ Join(a, c)
    /\ Goto(a, "conversing")
    /\ Quiet
    /\ UNCHANGED <<counted, pending, found, history, reply, rowVars, clock, raced>>

CreateConversation(a, c) ==
    /\ pc[a] = "scoped"
    /\ activity[c] = 0
    /\ Tick
    /\ activity' = [activity EXCEPT ![c] = clock']
    /\ Join(a, c)
    /\ Goto(a, "conversing")
    /\ Quiet
    /\ UNCHANGED <<counted, pending, found, history, reply, message, raced>>

\* A transaction begins with the insert of message m of request a.
Insert(a, m, content) ==
    /\ Tick
    /\ message' = [message EXCEPT ![m] = [at |-> clock', stored |-> FALSE, content |-> content]]
    /\ raced' = raced \cup {conversation[b] : b \in {b \in Asks \ {a} :
                    InTransaction(b) /\ conversation[b] = conversation[a]}}
    /\ UNCHANGED <<localVars, activity>>
    /\ Quiet

\* It ends with the update of lastActivityAt and the commit.
Commit(a, m, lastActivity) ==
    /\ message' = [message EXCEPT ![m].stored = TRUE]
    /\ activity' = [activity EXCEPT ![conversation[a]] = lastActivity]

InsertQuestion(a) ==
    /\ pc[a] = "conversing"
    /\ Insert(a, Question(a), NoReply)
    /\ Goto(a, "asking")

TxQuestion(a) == Commit(a, Question(a), message[Question(a)].at)

CommitQuestion(a) ==
    /\ pc[a] = "asking"
    /\ TxQuestion(a)
    /\ Goto(a, "asked")
    /\ Quiet
    /\ UNCHANGED <<localVars, clock, raced>>

-----------------------------------------------------------------------------
(* Retrieval                                                               *)

\* The count does not join the knowledge base or the member.
Count(a) ==
    /\ pc[a] = "asked"
    /\ counted' = [counted EXCEPT ![a] = IndexedChunks # {}]
    /\ Goto(a, "counted")
    /\ Quiet
    /\ UNCHANGED <<conversation, pending, found, history, reply, rowVars, clock, raced>>

\* A failed or disabled embedding leaves out the semantic query, a question
\* without terms the lexical one, and one without words both.
Embed(a) ==
    /\ pc[a] = "counted"
    /\ \E queries \in SUBSET {"semantic", "lexical"} :
             pending' = [pending EXCEPT ![a] = queries]
    /\ Goto(a, "reading")
    /\ served' = [served EXCEPT ![a] = Readable]
    /\ UNCHANGED <<corpusVars, conversation, counted, found, history, reply, rowVars>>
    /\ UNCHANGED <<clock, faults, raced>>

\* Both queries are under way together, each sees a snapshot of its own.
\* Candidates are merged by id.
Receive(a, query, candidates) ==
    /\ pc[a] = "reading"
    /\ query \in pending[a]
    /\ pending' = [pending EXCEPT ![a] = @ \ {query}]
    /\ found' = [found EXCEPT ![a] = @ \cup candidates]
    /\ Quiet
    /\ UNCHANGED <<pc, conversation, counted, history, reply, rowVars, clock, raced>>

FetchSemantic(a) == \E S \in SemanticCandidates : Receive(a, "semantic", S)
FetchLexical(a) == \E S \in LexicalCandidates : Receive(a, "lexical", S)

\* What follows from the count and from the selection; whether the top score
\* reaches the threshold is open, unless nothing was selected.
Verdicts(a, selected) ==
    IF ~counted[a] THEN {"insufficient_data"}
    ELSE {"out_of_scope"} \cup IF selected = {} THEN {} ELSE {"undecided"}

Select(a) ==
    /\ pc[a] = "reading"
    /\ pending[a] = {}
    /\ \E S \in Selections(found[a]) : \E verdict \in Verdicts(a, S) :
            /\ reply' = [reply EXCEPT ![a] =
                            [status |-> verdict, selected |-> S, citations |-> {}]]
            /\ Goto(a, IF verdict = "undecided" THEN "prompting" ELSE "answering")
    /\ found' = [found EXCEPT ![a] = {}]
    /\ served' = [served EXCEPT ![a] = @ \cap reply'[a].selected]
    /\ UNCHANGED <<conversation, counted, pending, history, rowVars>>
    /\ UNCHANGED <<corpusVars, clock, faults, raced>>

-----------------------------------------------------------------------------
(* The answer                                                              *)

StoredIn(c) == {m \in MessageIds : message[m].stored /\ conversation[m[1]] = c}

\* Mutant: the order is ascending.
Latest_Oldest(messages) ==
    {T \in SUBSET messages :
        /\ \A m \in T, o \in messages \ T : message[o].at >= message[m].at
        /\ \/ Cardinality(T) = HistoryLimit
           \/ T = messages /\ Cardinality(T) < HistoryLimit}

\* orderBy createdAt desc, take HistoryLimit
Latest(messages) ==
    {T \in SUBSET messages :
        /\ \A m \in T, o \in messages \ T : message[o].at <= message[m].at
        /\ \/ Cardinality(T) = HistoryLimit
           \/ T = messages /\ Cardinality(T) < HistoryLimit}

ReadHistory(a) ==
    /\ pc[a] = "prompting"
    /\ \E T \in Latest(StoredIn(conversation[a])) :
            history' = [history EXCEPT ![a] = T]
    /\ Goto(a, "generating")
    /\ Quiet
    /\ UNCHANGED <<conversation, counted, pending, found, reply, rowVars, clock, raced>>

\* The chunk ids in an answer of the model, cut to the limit: it may name any.
ModelIds == {U \in SUBSET Chunk : Cardinality(U) <= CitationLimit}

\* Without a model the local substitute selects some of the grounding set.
LocalIds(a) ==
    {U \in SUBSET reply[a].selected : U # {} /\ Cardinality(U) <= LocalLimit}

\* finalizeAnswer
Finalized(status, citations) ==
    IF status = "grounded" /\ citations = {} THEN "insufficient_data" ELSE status

Answered(a, status, citations) ==
    /\ reply' = [reply EXCEPT ![a].status = Finalized(status, citations),
                              ![a].citations = citations]
    /\ history' = [history EXCEPT ![a] = {}]

\* Whether there is a model is configured; either may answer here.
Generate(a) ==
    /\ pc[a] = "generating"
    /\ \/ \E used \in ModelIds \cup LocalIds(a) :
            \E C \in CitationsFrom(used, reply[a].selected) : Answered(a, "grounded", C)
       \/ \E status \in Statuses \ {"grounded"} : Answered(a, status, {})
    /\ Goto(a, "answering")
    /\ Quiet
    /\ UNCHANGED <<conversation, counted, pending, found, rowVars, clock, raced>>

InsertAnswer(a) ==
    /\ pc[a] = "answering"
    /\ Insert(a, Answer(a), reply[a])
    /\ Goto(a, "storing")

\* Mutant: the conversation is not updated.
TxAnswer_MessageOnly(a) ==
    /\ message' = [message EXCEPT ![Answer(a)].stored = TRUE]
    /\ UNCHANGED activity

\* lastActivityAt is new Date(), read after the insert.  The cited chunks are
\* looked up in the knowledge base first, where they always are: no chunk is
\* ever deleted (CitationsStand).
TxAnswer(a) == \E now \in message[Answer(a)].at..clock' : Commit(a, Answer(a), now)

CommitAnswer(a) ==
    /\ pc[a] = "storing"
    /\ Tick
    /\ TxAnswer(a)
    /\ Goto(a, "stored")
    /\ Quiet
    /\ UNCHANGED <<localVars, raced>>

\* Mutant: the reply does not wait for the answer to be stored.
Return_Unstored(a) ==
    /\ pc[a] \in {"answering", "stored"}
    /\ Goto(a, "returned")
    /\ Quiet
    /\ UNCHANGED <<localVars, rowVars, clock, raced>>

\* The audit row, then the reply.
Return(a) ==
    /\ pc[a] = "stored"
    /\ Goto(a, "returned")
    /\ Quiet
    /\ UNCHANGED <<localVars, rowVars, clock, raced>>

-----------------------------------------------------------------------------
(* Faults                                                                  *)

\* What a request held in memory is gone with it.
Forget(a) ==
    /\ counted' = [counted EXCEPT ![a] = FALSE]
    /\ pending' = [pending EXCEPT ![a] = {}]
    /\ found' = [found EXCEPT ![a] = {}]
    /\ history' = [history EXCEPT ![a] = {}]
    /\ reply' = [reply EXCEPT ![a] = NoReply]
    /\ UNCHANGED conversation

\* A query, a transaction, the model or the audit row raises, or the process dies.
Fails(a) ==
    /\ UnderWay(a)
    /\ Fault
    /\ Goto(a, "failed")
    /\ Forget(a)
    /\ UNCHANGED <<corpusVars, rowVars, clock, served, raced>>

\* A transaction commits, but its answer is lost.
CommitLost(a) ==
    /\ InTransaction(a)
    /\ Fault
    /\ Tick
    /\ \/ pc[a] = "asking" /\ TxQuestion(a)
       \/ pc[a] = "storing" /\ TxAnswer(a)
    /\ Goto(a, "failed")
    /\ Forget(a)
    /\ UNCHANGED <<corpusVars, served, raced>>

\* A step of ingestion or of membership; requests that search are witnesses.
CorpusStep ==
    /\ CorpusNext
    /\ served' = [a \in Asks |->
                    IF pc[a] = "reading" THEN served[a] \cup Readable' ELSE served[a]]
    /\ UNCHANGED <<pc, localVars, rowVars, clock, faults, raced>>

AskNext ==
    \/ CorpusStep
    \/ \E a \in Asks :
        \/ Begin(a) \/ Refuse(a)
        \/ \E c \in Conversations : Continue(a, c) \/ CreateConversation(a, c)
        \/ InsertQuestion(a) \/ CommitQuestion(a)
        \/ Count(a) \/ Embed(a) \/ FetchSemantic(a) \/ FetchLexical(a) \/ Select(a)
        \/ ReadHistory(a) \/ Generate(a)
        \/ InsertAnswer(a) \/ CommitAnswer(a) \/ Return(a)
        \/ Fails(a) \/ CommitLost(a)

AskSpec == AskInit /\ [][AskNext]_askVars

-----------------------------------------------------------------------------
\* Rows and requests keep their types.
TypeOK ==
    /\ open \in BOOLEAN
    /\ indexed \subseteq Documents
    /\ generation \in [Documents -> 0..MaxGenerations]
    /\ chunks \subseteq Chunk
    /\ pc \in [Asks -> Pcs]
    /\ conversation \in [Asks -> Conversations \cup {NoConversation}]
    /\ counted \in [Asks -> BOOLEAN]
    /\ pending \in [Asks -> SUBSET {"semantic", "lexical"}]
    /\ found \in [Asks -> SUBSET Chunk]
    /\ history \in [Asks -> SUBSET MessageIds]
    /\ reply \in [Asks -> Reply]
    /\ message \in [MessageIds -> MessageRow]
    /\ activity \in [Conversations -> 0..MaxTime]
    /\ clock \in 0..MaxTime
    /\ faults \in 0..MaxFaults
    /\ served \in [Asks -> SUBSET Chunk]
    /\ raced \subseteq Conversations

StoredAnswers == {a \in Asks : message[Answer(a)].stored}
Content(a) == message[Answer(a)].content

\* An answer cites only chunks that the user could have read at some moment of
\* its search, whatever ingestion did before, meanwhile and afterwards.
CitedWasReadable ==
    \A a \in StoredAnswers : Content(a).citations \subseteq served[a]

\* "citations still point to real chunk rows, including historical superseded
\* rows"; they are from the grounding set that is stored with the answer, not
\* more than the limit, and an answer is grounded exactly when it has some.
CitationsStand ==
    \A a \in StoredAnswers :
        LET C == Content(a).citations IN
        /\ C \subseteq Content(a).selected \cap chunks
        /\ Cardinality(C) <= CitationLimit
        /\ Content(a).status = "grounded" <=> C # {}

\* No text is in the grounding set twice, so none is cited twice, although two
\* documents may share it and the two queries may see two generations of one.
PassageOnce ==
    \A a \in StoredAnswers : \A c, e \in Content(a).selected :
        c.text = e.text => c = e

\* The prompt has the question among the messages before it, and the question
\* of every answer, unless as many messages as fit have come since.
PromptFollowsConversation ==
    \A a \in Asks :
        pc[a] = "generating" =>
            \A m \in history[a] \cup {Question(a)} :
                \/ Question(m[1]) \in history[a]
                \/ /\ Cardinality(history[a]) = HistoryLimit
                   /\ \A o \in history[a] : message[o].at >= message[Question(m[1])].at

\* What the user is told agrees with the rows: a reply is stored as it is, with
\* its question; an error with a stored answer came after the commit; nothing is
\* stored for a request that was refused.
RepliesAreStored ==
    \A a \in Asks :
        /\ pc[a] \in {"stored", "returned"} =>
                a \in StoredAnswers /\ Content(a) = reply[a]
        /\ a \in StoredAnswers =>
                /\ message[Question(a)].stored
                /\ message[Question(a)].at <= message[Answer(a)].at
                /\ pc[a] \in {"stored", "returned", "failed"}
        /\ pc[a] = "refused" => ~message[Question(a)].stored

\* The order of the conversation list: lastActivityAt is behind a message only
\* where two transactions of the conversation overlapped.
ActivityLagsOnlyOnRace ==
    \A c \in Conversations \ raced :
        \A m \in StoredIn(c) : message[m].at <= activity[c]

=============================================================================
