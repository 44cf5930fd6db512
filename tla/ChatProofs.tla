----------------------------- MODULE ChatProofs -----------------------------
(***************************************************************************)
(* Chat for any number of documents, requests, conversations and faults,    *)
(* and for any limits.                                                      *)
(*                                                                         *)
(* A request writes its own rows, and nobody changes a message once it is   *)
(* stored; chunks are never deleted.  So what a request holds stays true    *)
(* while others go on, and each action owes only what it does to its own    *)
(* request and to the conversation it has joined.                           *)
(***************************************************************************)
EXTENDS ChatAsk, FiniteSetTheorems, TLAPS

Unjoined == {"idle", "scoped", "refused", "failed"}
Placed(a) == pc[a] \notin Unjoined => conversation[a] \in Conversations

\* Before the search there are no candidates and no reply.
Early(a) ==
    pc[a] \in {"idle", "scoped", "conversing", "asking", "asked", "counted", "refused"} =>
        found[a] = {} /\ reply[a] = NoReply

Searched(a) ==
    /\ found[a] \subseteq served[a] \cap chunks
    /\ pc[a] = "reading" => Readable \subseteq served[a]

\* What can be said of a reply on its own, before it is stored and after.
Sound(a, R) ==
    /\ R.selected \subseteq served[a] \cap chunks
    /\ R.citations \subseteq R.selected
    /\ Cardinality(R.citations) <= CitationLimit
    /\ \A c, e \in R.selected : c.text = e.text => c = e
    /\ R.status = "grounded" <=> R.citations # {}

Asked(a) == message[Question(a)].stored
Replied(a) == message[Answer(a)].stored

Rows(a) ==
    /\ pc[a] \in {"idle", "scoped", "conversing", "asking", "refused"} => ~Asked(a)
    /\ pc[a] \notin {"idle", "scoped", "conversing", "asking", "refused", "failed"} => Asked(a)
    /\ pc[a] \notin {"storing", "stored", "returned", "failed"} => message[Answer(a)] = NoMessage
    /\ pc[a] = "storing" => ~Replied(a) /\ Content(a) = reply[a]
    /\ pc[a] \in {"stored", "returned"} => Replied(a) /\ Content(a) = reply[a]
    /\ Replied(a) \/ pc[a] = "storing" =>
            Asked(a) /\ message[Question(a)].at <= message[Answer(a)].at
    /\ message[Question(a)].at <= clock /\ message[Answer(a)].at <= clock

Prompted(a) ==
    pc[a] = "generating" =>
        /\ \A m \in history[a] : message[m].stored
        /\ \A m \in history[a] \cup {Question(a)} :
                \/ Question(m[1]) \in history[a]
                \/ /\ Cardinality(history[a]) = HistoryLimit
                   /\ \A o \in history[a] : message[o].at >= message[Question(m[1])].at

AskOK(a) ==
    /\ Placed(a) /\ Early(a) /\ Searched(a)
    /\ Sound(a, reply[a]) /\ Sound(a, Content(a))
    /\ Rows(a) /\ Prompted(a)

\* The message of the transaction that a request is in.
OpenMessage(a) == IF pc[a] = "asking" THEN message[Question(a)] ELSE message[Answer(a)]

In(a, c) == InTransaction(a) /\ conversation[a] = c

RaceOK(c) ==
    c \notin raced =>
        /\ \A a, b \in Asks : In(a, c) /\ In(b, c) => a = b
        /\ \A m \in StoredIn(c) : message[m].at <= activity[c]
        /\ \A a \in Asks, m \in StoredIn(c) : In(a, c) => message[m].at <= OpenMessage(a).at

IInv == TypeOK /\ (\A a \in Asks : AskOK(a)) /\ (\A c \in Conversations : RaceOK(c))

-----------------------------------------------------------------------------
(* Messages and their ids                                                  *)

\* Every message is the question or the answer of one request.
LEMMA Ids ==
    /\ \A a \in Asks : /\ Question(a) \in MessageIds /\ Answer(a) \in MessageIds
                       /\ Question(a)[1] = a /\ Answer(a)[1] = a
    /\ \A a, b \in Asks : /\ Question(a) # Answer(b)
                          /\ Question(a) = Question(b) => a = b
                          /\ Answer(a) = Answer(b) => a = b
    /\ \A m \in MessageIds : m[1] \in Asks /\ (m = Question(m[1]) \/ m = Answer(m[1]))
  BY DEF MessageIds, Question, Answer

\* Nothing is cited, and nothing selected, before there is a reply.
LEMMA NoReplySound ==
    ASSUME AskAssumption, CorpusAssumption, NEW a
    PROVE  Sound(a, NoReply) /\ Sound(a, NoMessage.content)
  BY FS_EmptySet DEF Sound, NoReply, NoMessage, CorpusAssumption

\* The constants of a type: there is a reply and a message for nothing yet.
LEMMA NullTypes ==
    NoReply \in Reply /\ NoMessage \in MessageRow /\ 1 \in 0..MaxTime
  BY AskAssumption DEF NoReply, NoMessage, Reply, MessageRow

-----------------------------------------------------------------------------
(* The corpus                                                              *)

\* Queries return chunks that exist and that the user may read.
LEMMA CandidatesReadable ==
    ASSUME NEW S \in SemanticCandidates \cup LexicalCandidates
    PROVE  S \subseteq Readable
  BY DEF SemanticCandidates, LexicalCandidates, TopOf

\* What is readable exists.
LEMMA ReadableExist == Readable \subseteq chunks
  BY DEF Readable, IndexedChunks

\* Selection keeps to the pool and never takes a text twice.
LEMMA SelectionSound ==
    ASSUME NEW pool, NEW S \in Selections(pool)
    PROVE  S \subseteq pool /\ \A c, e \in S : c.text = e.text => c = e
  BY DEF Selections, SelectionsOf, TopOf, Identical

\* Chunks of a new generation are chunks.
LEMMA NewChunksType ==
    ASSUME NEW d \in Documents, NEW g \in 1..MaxGenerations, NEW text \in [1..Passages -> Texts]
    PROVE  NewChunks(d, g, text) \subseteq Chunk
  BY DEF NewChunks, Chunk

CorpusGrows ==
    /\ chunks \subseteq chunks'
    /\ open' \in BOOLEAN /\ indexed' \subseteq Documents
    /\ generation' \in [Documents -> 0..MaxGenerations] /\ chunks' \subseteq Chunk

\* Ingestion never deletes a chunk, and the corpus keeps its types.
LEMMA CorpusSteps ==
    ASSUME TypeOK, CorpusNext
    PROVE  CorpusGrows
<1> USE CorpusAssumption
<1> USE DEF CorpusGrows
<1>1. CASE CloseKb
  BY <1>1 DEF TypeOK, CloseKb
<1>2. ASSUME NEW d \in Documents, Requeue(d)
      PROVE  CorpusGrows
  BY <1>2 DEF TypeOK, Requeue
<1>3. ASSUME NEW d \in Documents, MarkIndexed(d)
      PROVE  CorpusGrows
  BY <1>3 DEF TypeOK, MarkIndexed
<1>4. ASSUME NEW d \in Documents, Replace(d)
      PROVE  CorpusGrows
  <2>1. generation[d] + 1 \in 1..MaxGenerations
    BY <1>4 DEF TypeOK, Replace
  <2>2. generation' \in [Documents -> 0..MaxGenerations]
    BY <1>4, <2>1 DEF TypeOK, Replace
  <2>3. PICK text \in [1..Passages -> Texts] :
                chunks' = chunks \cup NewChunks(d, generation[d] + 1, text)
    BY <1>4 DEF Replace
  <2>4. chunks \subseteq chunks' /\ chunks' \subseteq Chunk
    BY <2>1, <2>3, NewChunksType DEF TypeOK
  <2> QED BY <1>4, <2>2, <2>4 DEF TypeOK, Replace
<1> QED BY <1>1, <1>2, <1>3, <1>4 DEF CorpusNext

-----------------------------------------------------------------------------
(* What others keep                                                        *)

\* A step of request a leaves the corpus and the others alone.
Local(a) ==
    /\ UNCHANGED <<open, indexed, generation, chunks>>
    /\ clock' \in 0..MaxTime /\ clock' >= clock
    /\ \A m \in MessageIds : message[m].stored => message'[m] = message[m]
    /\ \A b \in Asks \ {a} :
        /\ pc'[b] = pc[b] /\ conversation'[b] = conversation[b] /\ found'[b] = found[b]
        /\ history'[b] = history[b] /\ reply'[b] = reply[b] /\ served'[b] = served[b]
        /\ message'[Question(b)] = message[Question(b)]
        /\ message'[Answer(b)] = message[Answer(b)]

\* What a request holds stays true in steps of another.
LEMMA OthersKept ==
    ASSUME IInv, NEW a \in Asks, Local(a), NEW b \in Asks \ {a}
    PROVE  AskOK(b)'
<1>1. AskOK(b)
  BY DEF IInv
<1>2. Placed(b)' /\ Early(b)'
  BY <1>1 DEF Local, AskOK, Placed, Early
<1>3. Searched(b)'
  BY <1>1 DEF Local, AskOK, Searched, Readable, IndexedChunks
<1>4. Sound(b, reply[b])' /\ Sound(b, Content(b))'
  BY <1>1 DEF Local, AskOK, Sound, Content
<1>5. Rows(b)'
  <2>1. message[Question(b)].at \in Nat /\ message[Answer(b)].at \in Nat /\ clock \in Nat
    BY Ids DEF IInv, TypeOK, MessageRow
  <2> QED BY <1>1, <2>1 DEF Local, AskOK, Rows, Asked, Replied, Content
<1>6. Prompted(b)'
  <2> SUFFICES ASSUME pc[b] = "generating"
               PROVE  Prompted(b)'
    BY DEF Local, Prompted
  <2>1. \A m \in history[b] : m \in MessageIds /\ message[m].stored
    BY <1>1 DEF AskOK, Prompted, IInv, TypeOK
  <2>2. message[Question(b)].stored
    BY <1>1 DEF AskOK, Rows, Asked
  <2>3. \A m \in history[b] \cup {Question(b)} : message[Question(m[1])].stored
    BY <2>1, <2>2, Ids DEF IInv, AskOK, Rows, Asked, Replied
  <2>4. \A m \in history[b] \cup {Question(b)} :
            message'[m] = message[m] /\ message'[Question(m[1])] = message[Question(m[1])]
    BY <2>1, <2>2, <2>3, Ids DEF Local
  <2> QED BY <1>1, <2>1, <2>4 DEF Local, AskOK, Prompted
<1> QED BY <1>2, <1>3, <1>4, <1>5, <1>6 DEF AskOK

\* A step that neither joins a conversation nor opens or ends a transaction with
\* success keeps what is known of the conversations.
LEMMA RacesKept ==
    ASSUME IInv, UNCHANGED <<conversation, message, activity, raced>>,
           \A b \in Asks : pc'[b] = pc[b] \/ ~InTransaction(b)'
    PROVE  \A c \in Conversations : RaceOK(c)'
<1> SUFFICES ASSUME NEW c \in Conversations, c \notin raced
             PROVE  RaceOK(c)'
  BY DEF RaceOK
<1>1. RaceOK(c)
  BY DEF IInv
<1>2. \A b \in Asks : In(b, c)' => In(b, c) /\ OpenMessage(b)' = OpenMessage(b)
  BY DEF In, InTransaction, OpenMessage
<1>3. StoredIn(c)' = StoredIn(c)
  BY DEF StoredIn
<1> QED BY <1>1, <1>2, <1>3 DEF RaceOK

\* A step of ingestion or of membership keeps the invariant.
LEMMA CorpusStepKeeps ==
    ASSUME IInv, CorpusStep
    PROVE  IInv'
<1>1. CorpusGrows
  BY CorpusSteps DEF CorpusStep, IInv
<1>2. Readable' \subseteq chunks'
  BY DEF Readable, IndexedChunks
<1>3. TypeOK'
  <2>1. served' \in [Asks -> SUBSET Chunk]
    BY <1>1, <1>2 DEF CorpusStep, CorpusGrows, IInv, TypeOK
  <2> QED BY <1>1, <2>1 DEF CorpusStep, CorpusGrows, IInv, TypeOK, localVars, rowVars
<1>4. ASSUME NEW a \in Asks
      PROVE  AskOK(a)'
  <2>1. AskOK(a)
    BY DEF IInv
  <2>2. served[a] \subseteq served'[a] /\ (pc[a] = "reading" => Readable' \subseteq served'[a])
    BY DEF CorpusStep
  <2>3. Searched(a)'
    BY <1>1, <2>1, <2>2 DEF CorpusStep, CorpusGrows, AskOK, Searched, localVars
  <2>4. Sound(a, reply[a])' /\ Sound(a, Content(a))'
    BY <1>1, <2>1, <2>2 DEF CorpusStep, CorpusGrows, AskOK, Sound, Content, localVars, rowVars
  <2>5. Placed(a)' /\ Early(a)' /\ Rows(a)' /\ Prompted(a)'
    BY <2>1 DEF CorpusStep, AskOK, Placed, Early, Rows, Asked, Replied, Content, Prompted,
                localVars, rowVars
  <2> QED BY <2>3, <2>4, <2>5 DEF AskOK
<1>5. \A c \in Conversations : RaceOK(c)'
  BY RacesKept DEF CorpusStep, localVars, rowVars
<1> QED BY <1>3, <1>4, <1>5 DEF IInv

-----------------------------------------------------------------------------
(* Steps of a request that write no row                                    *)

OthersUntouched(a) ==
    \A b \in Asks \ {a} :
        /\ pc'[b] = pc[b] /\ conversation'[b] = conversation[b] /\ found'[b] = found[b]
        /\ history'[b] = history[b] /\ reply'[b] = reply[b] /\ served'[b] = served[b]

\* Outside of transactions a request has only itself to account for.
LEMMA OwnRequestOnly ==
    ASSUME IInv, NEW a \in Asks, OthersUntouched(a), TypeOK',
           UNCHANGED <<corpusVars, rowVars, conversation, clock, raced>>,
           ~InTransaction(a)', AskOK(a)'
    PROVE  IInv'
<1>1. clock \in Nat /\ clock' \in 0..MaxTime
  BY AskAssumption DEF IInv, TypeOK
<1>2. Local(a)
  BY <1>1 DEF OthersUntouched, Local, corpusVars, rowVars
<1>3. \A b \in Asks : AskOK(b)'
  BY <1>2, OthersKept
<1>4. \A c \in Conversations : RaceOK(c)'
  BY RacesKept DEF OthersUntouched, rowVars
<1> QED BY <1>3, <1>4 DEF IInv

\* The scope check, its refusal and the reply change nothing but the place.
LEMMA MoveKeeps ==
    ASSUME IInv, NEW a \in Asks, Begin(a) \/ Refuse(a) \/ Return(a)
    PROVE  IInv'
<1> USE DEF Begin, Refuse, Return, Goto, Quiet, corpusVars, localVars, rowVars
<1>1. AskOK(a) /\ TypeOK
  BY DEF IInv
<1>2. TypeOK' /\ OthersUntouched(a) /\ ~InTransaction(a)'
  BY <1>1 DEF TypeOK, Pcs, OthersUntouched, InTransaction
<1>3. Placed(a)' /\ Early(a)' /\ Prompted(a)' /\ Searched(a)'
  BY <1>1 DEF AskOK, TypeOK, Placed, Unjoined, Early, Prompted, Searched
<1>4. Sound(a, reply[a])' /\ Sound(a, Content(a))'
  BY <1>1 DEF AskOK, Sound, Content
<1>5. Rows(a)'
  BY <1>1 DEF AskOK, TypeOK, Rows, Asked, Replied, Content
<1> QED BY <1>2, <1>3, <1>4, <1>5, OwnRequestOnly DEF AskOK

\* The count and the embedding come before any candidate.
LEMMA SearchBegins ==
    ASSUME IInv, NEW a \in Asks, Count(a) \/ Embed(a)
    PROVE  IInv'
<1> USE DEF Count, Embed, Goto, Quiet, corpusVars, localVars, rowVars
<1>1. AskOK(a) /\ TypeOK
  BY DEF IInv
<1>2. found'[a] = {} /\ reply'[a] = NoReply /\ message'[Answer(a)] = NoMessage
  BY <1>1 DEF AskOK, Early, Rows
<1>3. Readable \subseteq Chunk
  BY <1>1, ReadableExist DEF TypeOK
<1>4. TypeOK'
  <2>1. counted' \in [Asks -> BOOLEAN] /\ pc' \in [Asks -> Pcs]
    BY <1>1 DEF TypeOK, Pcs
  <2>2. pending' \in [Asks -> SUBSET {"semantic", "lexical"}]
    BY ZenonT(30), <1>1 DEF TypeOK
  <2>3. served' \in [Asks -> SUBSET Chunk]
    BY <1>1, <1>3 DEF TypeOK
  <2> QED BY <1>1, <2>1, <2>2, <2>3 DEF TypeOK
<1>5. OthersUntouched(a) /\ ~InTransaction(a)'
  BY <1>1 DEF TypeOK, OthersUntouched, InTransaction
<1>6. Placed(a)' /\ Early(a)' /\ Prompted(a)'
  BY <1>1, <1>2 DEF AskOK, TypeOK, Placed, Unjoined, Early, Prompted
<1>7. Searched(a)'
  BY <1>1, <1>2 DEF TypeOK, Searched, Readable, IndexedChunks
<1>8. Sound(a, reply[a])' /\ Sound(a, Content(a))'
  BY <1>2, NoReplySound, AskAssumption, CorpusAssumption DEF Sound, Content
<1>9. Rows(a)'
  BY <1>1 DEF AskOK, TypeOK, Rows, Asked, Replied, Content
<1> QED BY <1>4, <1>5, <1>6, <1>7, <1>8, <1>9, OwnRequestOnly DEF AskOK

\* The answer of a candidate query brings what is readable now.
LEMMA ReceiveKeeps ==
    ASSUME IInv, NEW a \in Asks, FetchSemantic(a) \/ FetchLexical(a)
    PROVE  IInv'
<1>1. PICK q \in {"semantic", "lexical"}, S \in SemanticCandidates \cup LexicalCandidates :
            Receive(a, q, S)
  BY DEF FetchSemantic, FetchLexical
<1> USE DEF Receive, Quiet, corpusVars, rowVars
<1>2. AskOK(a) /\ TypeOK
  BY DEF IInv
<1>3. S \subseteq served[a] \cap chunks
  BY <1>1, <1>2, CandidatesReadable, ReadableExist DEF AskOK, Searched
<1>4. TypeOK'
  <2>1. found' \in [Asks -> SUBSET Chunk]
    BY <1>1, <1>2, <1>3 DEF TypeOK
  <2>2. pending' \in [Asks -> SUBSET {"semantic", "lexical"}]
    BY <1>1, <1>2 DEF TypeOK
  <2> QED BY <1>1, <1>2, <2>1, <2>2 DEF TypeOK
<1>5. OthersUntouched(a) /\ ~InTransaction(a)'
  BY <1>1, <1>2 DEF TypeOK, OthersUntouched, InTransaction
<1>6. Placed(a)' /\ Early(a)' /\ Prompted(a)'
  BY <1>1, <1>2 DEF AskOK, Placed, Early, Prompted
<1>7. Searched(a)'
  BY <1>1, <1>2, <1>3 DEF AskOK, TypeOK, Searched, Readable, IndexedChunks
<1>8. Sound(a, reply[a])' /\ Sound(a, Content(a))'
  BY <1>1, <1>2 DEF AskOK, Sound, Content
<1>9. Rows(a)'
  BY <1>1, <1>2 DEF AskOK, Rows, Asked, Replied, Content
<1> QED BY <1>1, <1>4, <1>5, <1>6, <1>7, <1>8, <1>9, OwnRequestOnly DEF AskOK

\* The selection ends the search, and may end the work of the request.
LEMMA SelectKeeps ==
    ASSUME IInv, NEW a \in Asks, Select(a)
    PROVE  IInv'
<1> USE DEF Select, Goto, Quiet, corpusVars, rowVars
<1>1. AskOK(a) /\ TypeOK
  BY DEF IInv
<1>2. PICK S \in Selections(found[a]) : \E verdict \in Verdicts(a, S) :
            /\ reply' = [reply EXCEPT ![a] =
                            [status |-> verdict, selected |-> S, citations |-> {}]]
            /\ Goto(a, IF verdict = "undecided" THEN "prompting" ELSE "answering")
  BY Zenon
<1>3. PICK verdict \in Verdicts(a, S) :
            /\ reply' = [reply EXCEPT ![a] =
                            [status |-> verdict, selected |-> S, citations |-> {}]]
            /\ Goto(a, IF verdict = "undecided" THEN "prompting" ELSE "answering")
  BY <1>2
<1>4. verdict \in {"insufficient_data", "out_of_scope", "undecided"}
  BY DEF Verdicts
<1>5. S \subseteq served[a] \cap chunks /\ \A c, e \in S : c.text = e.text => c = e
  BY <1>1, SelectionSound DEF AskOK, Searched
<1>6. TypeOK'
  <2>1. [status |-> verdict, selected |-> S, citations |-> {}] \in Reply
    BY <1>1, <1>4, <1>5 DEF Reply, Statuses, TypeOK
  <2>2. reply' \in [Asks -> Reply]
    BY <1>1, <1>3, <2>1 DEF TypeOK
  <2>3. pc' \in [Asks -> Pcs] /\ found' \in [Asks -> SUBSET Chunk]
    BY <1>1, <1>3 DEF TypeOK, Pcs
  <2>4. served' \in [Asks -> SUBSET Chunk]
    BY <1>1 DEF TypeOK
  <2> QED BY <1>1, <2>2, <2>3, <2>4 DEF TypeOK
<1>7. OthersUntouched(a) /\ ~InTransaction(a)'
  BY <1>1, <1>3 DEF TypeOK, OthersUntouched, InTransaction
<1>8. pc'[a] \in {"prompting", "answering"} /\ found'[a] = {}
  BY <1>1, <1>3 DEF TypeOK
<1>9. Placed(a)' /\ Early(a)' /\ Prompted(a)' /\ Searched(a)'
  BY <1>1, <1>8 DEF AskOK, Placed, Unjoined, Early, Prompted, Searched
<1>10. Sound(a, reply[a])'
  <2>1. Cardinality({}) <= CitationLimit
    BY FS_EmptySet, CorpusAssumption
  <2>2. reply'[a] = [status |-> verdict, selected |-> S, citations |-> {}]
    BY <1>1, <1>3 DEF TypeOK
  <2>3. /\ reply'[a].selected = S /\ reply'[a].citations = {}
        /\ reply'[a].status # "grounded"
    BY <1>4, <2>2
  <2>4. UNCHANGED chunks /\ served'[a] = served[a] \cap S
    BY <1>1, <2>3 DEF TypeOK
  <2> HIDE DEF Select
  <2> QED BY <1>5, <2>1, <2>3, <2>4 DEF Sound
<1>11. Sound(a, Content(a))'
  <2>1. message'[Answer(a)] = NoMessage
    BY <1>1 DEF AskOK, Rows
  <2> QED BY <2>1, NoReplySound, AskAssumption, CorpusAssumption DEF Sound, Content
<1>12. Rows(a)'
  BY <1>1, <1>8 DEF AskOK, Rows, Asked, Replied, Content
<1> QED BY <1>6, <1>7, <1>9, <1>10, <1>11, <1>12, OwnRequestOnly DEF AskOK

\* The messages that are read are stored, and the newest of the conversation.
LEMMA ReadHistoryKeeps ==
    ASSUME IInv, NEW a \in Asks, ReadHistory(a)
    PROVE  IInv'
<1> USE DEF ReadHistory, Goto, Quiet, corpusVars, rowVars
<1>1. AskOK(a) /\ TypeOK
  BY DEF IInv
<1>2. PICK T \in Latest(StoredIn(conversation[a])) : history' = [history EXCEPT ![a] = T]
  OBVIOUS
<1>3. T \subseteq StoredIn(conversation[a]) /\ T \subseteq MessageIds
  BY DEF Latest, StoredIn
<1>4. TypeOK'
  <2>1. history' \in [Asks -> SUBSET MessageIds]
    BY <1>1, <1>2, <1>3 DEF TypeOK
  <2>2. pc' \in [Asks -> Pcs]
    BY <1>1 DEF TypeOK, Pcs
  <2> QED BY <1>1, <2>1, <2>2 DEF TypeOK
<1>5. OthersUntouched(a) /\ ~InTransaction(a)' /\ pc'[a] = "generating" /\ history'[a] = T
  BY <1>1, <1>2 DEF TypeOK, OthersUntouched, InTransaction
<1>6. Placed(a)' /\ Early(a)' /\ Searched(a)'
  BY <1>1, <1>5 DEF AskOK, Placed, Unjoined, Early, Searched
<1>7. Sound(a, reply[a])' /\ Sound(a, Content(a))'
  BY <1>1 DEF AskOK, Sound, Content
<1>8. Rows(a)'
  BY <1>1, <1>5 DEF AskOK, Rows, Asked, Replied, Content
<1>9. Prompted(a)'
  <2>1. Asked(a)
    BY <1>1 DEF AskOK, Rows
  <2>2. \A m \in T : m \in MessageIds /\ message[m].stored /\ conversation[m[1]] = conversation[a]
    BY <1>3 DEF StoredIn
  <2>3. ASSUME NEW m \in T \cup {Question(a)}
        PROVE  \/ Question(m[1]) \in T
               \/ /\ Cardinality(T) = HistoryLimit
                  /\ \A o \in T : message[o].at >= message[Question(m[1])].at
    <3>1. Question(m[1]) \in MessageIds /\ message[Question(m[1])].stored
      BY <2>1, <2>2, Ids DEF IInv, AskOK, Rows, Asked, Replied
    <3>2. conversation[Question(m[1])[1]] = conversation[a]
      BY <2>2, Ids
    <3>3. Question(m[1]) \in StoredIn(conversation[a])
      BY <3>1, <3>2 DEF StoredIn
    <3>4. CASE Question(m[1]) \in T
      BY <3>4
    <3>5. CASE Question(m[1]) \notin T
      <4>1. Cardinality(T) = HistoryLimit
        BY <3>3, <3>5 DEF Latest
      <4>2. \A o \in T : message[Question(m[1])].at <= message[o].at
        BY <3>3, <3>5 DEF Latest
      <4>3. message[Question(m[1])].at \in Nat /\ \A o \in T : message[o].at \in Nat
        BY <1>1, <2>2, <3>1 DEF TypeOK, MessageRow
      <4> QED BY <4>1, <4>2, <4>3
    <3> QED BY <3>4, <3>5
  <2> QED BY <1>5, <2>2, <2>3 DEF Prompted
<1> QED BY <1>4, <1>5, <1>6, <1>7, <1>8, <1>9, OwnRequestOnly DEF AskOK

\* An answer cites what was selected, within the limit, or nothing.
LEMMA AnsweredSound ==
    ASSUME IInv, NEW a \in Asks, pc[a] = "generating",
           NEW C \in SUBSET reply[a].selected, Cardinality(C) <= CitationLimit,
           NEW status \in Statuses, status = "grounded" \/ C = {},
           Answered(a, status, C), UNCHANGED <<chunks, served>>
    PROVE  Sound(a, reply[a])' /\ reply' \in [Asks -> Reply]
<1>1. AskOK(a) /\ TypeOK
  BY DEF IInv
<1>2. reply'[a] = [reply[a] EXCEPT !.status = Finalized(status, C), !.citations = C]
  BY <1>1 DEF Answered, TypeOK
<1>3. reply[a] \in Reply
  BY <1>1 DEF TypeOK
<1>4. /\ reply'[a].selected = reply[a].selected /\ reply'[a].citations = C
      /\ reply'[a].status = Finalized(status, C)
  BY <1>2, <1>3 DEF Reply
<1>5. /\ Finalized(status, C) \in Statuses
      /\ Finalized(status, C) = "grounded" <=> C # {}
  BY DEF Finalized, Statuses
<1>6. Sound(a, reply[a])'
  BY <1>1, <1>4, <1>5 DEF AskOK, Sound
<1>7. reply'[a] \in Reply
  <2>1. C \subseteq Chunk
    BY <1>3 DEF Reply
  <2> QED BY <1>2, <1>3, <1>5, <2>1 DEF Reply
<1>8. reply' \in [Asks -> Reply]
  BY <1>1, <1>7 DEF Answered, TypeOK
<1> QED BY <1>6, <1>8

\* Whatever the model or the local substitute says, the final reply is sound
\* (chat.service.ts:224-249).
LEMMA GenerateKeeps ==
    ASSUME IInv, NEW a \in Asks, Generate(a)
    PROVE  IInv'
<1> USE DEF Generate, Goto, Quiet, corpusVars, rowVars
<1>1. AskOK(a) /\ TypeOK
  BY DEF IInv
<1> DEFINE SoundReply ==
        /\ Sound(a, reply[a])' /\ reply' \in [Asks -> Reply]
        /\ history' = [history EXCEPT ![a] = {}]
        /\ \A b \in Asks \ {a} : reply'[b] = reply[b]
<1>2. SoundReply
  <2>1. ASSUME NEW used \in ModelIds \cup LocalIds(a),
               NEW C \in CitationsFrom(used, reply[a].selected), Answered(a, "grounded", C)
        PROVE  SoundReply
    <3>1. C \in SUBSET reply[a].selected /\ Cardinality(C) <= CitationLimit
      BY DEF CitationsFrom
    <3>2. "grounded" \in Statuses
      BY DEF Statuses
    <3> QED BY <1>1, <2>1, <3>1, <3>2, AnsweredSound DEF Answered, TypeOK
  <2>2. ASSUME NEW status \in Statuses \ {"grounded"}, Answered(a, status, {})
        PROVE  SoundReply
    <3>1. Cardinality({}) <= CitationLimit
      BY FS_EmptySet, CorpusAssumption
    <3> QED BY <1>1, <2>2, <3>1, AnsweredSound DEF Answered, TypeOK
  <2> QED BY <2>1, <2>2
<1>3. TypeOK'
  <2>1. pc' \in [Asks -> Pcs] /\ history' \in [Asks -> SUBSET MessageIds]
    BY <1>1, <1>2 DEF TypeOK, Pcs
  <2> QED BY <1>1, <1>2, <2>1 DEF TypeOK
<1>4. OthersUntouched(a) /\ ~InTransaction(a)' /\ pc'[a] = "answering"
  BY <1>1, <1>2 DEF TypeOK, OthersUntouched, InTransaction
<1>5. Placed(a)' /\ Early(a)' /\ Searched(a)' /\ Prompted(a)'
  BY <1>1, <1>4 DEF AskOK, Placed, Unjoined, Early, Searched, Prompted
<1>6. Sound(a, Content(a))'
  BY <1>1 DEF AskOK, Sound, Content
<1>7. Rows(a)'
  BY <1>1, <1>4 DEF AskOK, Rows, Asked, Replied, Content
<1> QED BY <1>2, <1>3, <1>4, <1>5, <1>6, <1>7, OwnRequestOnly DEF AskOK

\* After an error a request holds nothing; its rows stay.
LEMMA Forgotten ==
    ASSUME IInv, NEW a \in Asks, Forget(a), Goto(a, "failed")
    PROVE  /\ pc' \in [Asks -> Pcs] /\ pc'[a] = "failed"
           /\ counted' \in [Asks -> BOOLEAN]
           /\ pending' \in [Asks -> SUBSET {"semantic", "lexical"}]
           /\ found' \in [Asks -> SUBSET Chunk] /\ history' \in [Asks -> SUBSET MessageIds]
           /\ reply' \in [Asks -> Reply] /\ reply'[a] = NoReply /\ found'[a] = {}
           /\ UNCHANGED conversation
           /\ \A b \in Asks \ {a} :
                /\ pc'[b] = pc[b] /\ found'[b] = found[b]
                /\ history'[b] = history[b] /\ reply'[b] = reply[b]
<1>1. TypeOK
  BY DEF IInv
<1>2. pc' \in [Asks -> Pcs] /\ counted' \in [Asks -> BOOLEAN]
  BY <1>1 DEF TypeOK, Goto, Forget, Pcs
<1>3. /\ pending' \in [Asks -> SUBSET {"semantic", "lexical"}] /\ found' \in [Asks -> SUBSET Chunk]
      /\ history' \in [Asks -> SUBSET MessageIds]
  BY <1>1 DEF TypeOK, Forget
<1>4. reply' \in [Asks -> Reply]
  BY <1>1, NullTypes DEF TypeOK, Forget
<1> QED BY <1>1, <1>2, <1>3, <1>4 DEF TypeOK, Goto, Forget

\* An error or the end of the process anywhere keeps the invariant.
LEMMA FailsKeeps ==
    ASSUME IInv, NEW a \in Asks, Fails(a)
    PROVE  IInv'
<1> USE DEF Fails, Fault, corpusVars, rowVars
<1>1. AskOK(a) /\ TypeOK
  BY DEF IInv
<1>2. TypeOK'
  <2>1. faults' \in 0..MaxFaults
    BY <1>1, AskAssumption DEF TypeOK
  <2> QED BY <1>1, <2>1, Forgotten DEF TypeOK
<1>3. OthersUntouched(a) /\ ~InTransaction(a)' /\ UNCHANGED conversation
  BY <1>1, Forgotten DEF OthersUntouched, InTransaction
<1>4. Placed(a)' /\ Early(a)' /\ Searched(a)' /\ Prompted(a)'
  BY <1>1, Forgotten DEF AskOK, Placed, Unjoined, Early, Searched, Prompted
<1>5. Sound(a, reply[a])' /\ Sound(a, Content(a))'
  <2>1. Sound(a, NoReply) /\ reply'[a] = NoReply
    BY Forgotten, NoReplySound, AskAssumption, CorpusAssumption
  <2> QED BY <1>1, <2>1 DEF AskOK, Sound, Content
<1>6. Rows(a)'
  BY <1>1, Forgotten DEF AskOK, Rows, Asked, Replied, Content
<1> QED BY <1>2, <1>3, <1>4, <1>5, <1>6, OwnRequestOnly DEF AskOK

-----------------------------------------------------------------------------
(* Steps that join a conversation or write a row                           *)

\* What a step of a request owes, whatever it writes.
LEMMA StepOf ==
    ASSUME IInv, NEW a \in Asks, Local(a), TypeOK', AskOK(a)',
           \A c \in Conversations : RaceOK(c)'
    PROVE  IInv'
  BY OthersKept DEF IInv

\* No message is from the future.
LEMMA PastMessages ==
    ASSUME IInv
    PROVE  \A m \in MessageIds : message[m].at \in Nat /\ message[m].at <= clock
<1>1. \A m \in MessageIds : message[m].at \in Nat
  BY DEF IInv, TypeOK, MessageRow
<1>2. \A a \in Asks : message[Question(a)].at <= clock /\ message[Answer(a)].at <= clock
  BY DEF IInv, AskOK, Rows
<1>3. \A m \in MessageIds : message[m].at <= clock
  BY <1>2, Ids
<1> QED BY <1>1, <1>3

\* The messages that are stored now are those of before, if none is stored.
LEMMA SameStored ==
    ASSUME NEW c \in Conversations,
           \A m \in MessageIds : /\ message'[m].stored <=> message[m].stored
                                 /\ message[m].stored => message'[m] = message[m],
           \A m \in MessageIds : message[m].stored => conversation'[m[1]] = conversation[m[1]]
    PROVE  /\ StoredIn(c)' = StoredIn(c)
           /\ \A m \in StoredIn(c) : message'[m] = message[m]
<1>1. \A m \in MessageIds : m \in StoredIn(c)' <=> m \in StoredIn(c)
  BY DEF StoredIn
<1>2. StoredIn(c)' \subseteq MessageIds /\ StoredIn(c) \subseteq MessageIds
  BY DEF StoredIn
<1>3. \A m \in StoredIn(c) : message'[m] = message[m]
  BY DEF StoredIn
<1> QED BY <1>1, <1>2, <1>3

\* A request that joins a conversation has no message yet; a new conversation
\* begins with the present.
LEMMA JoinKeeps ==
    ASSUME IInv, NEW a \in Asks, NEW c \in Conversations,
           Continue(a, c) \/ CreateConversation(a, c)
    PROVE  IInv'
<1> USE DEF Join, Goto, Quiet, corpusVars
<1>1. AskOK(a) /\ TypeOK
  BY DEF IInv
<1>2. /\ pc[a] = "scoped" /\ pc' = [pc EXCEPT ![a] = "conversing"]
      /\ conversation' = [conversation EXCEPT ![a] = c]
      /\ UNCHANGED <<open, indexed, generation, chunks, faults, served>>
      /\ UNCHANGED <<counted, pending, found, history, reply, message, raced>>
  BY DEF Continue, CreateConversation, rowVars
<1>3. /\ clock \in Nat /\ clock' \in 0..MaxTime /\ clock' >= clock
      /\ activity' = activity \/ activity' = [activity EXCEPT ![c] = clock']
  BY <1>1, AskAssumption DEF TypeOK, Continue, CreateConversation, Tick, rowVars
<1>4. TypeOK'
  <2>1. pc' \in [Asks -> Pcs] /\ conversation' \in [Asks -> Conversations \cup {NoConversation}]
    BY <1>1, <1>2 DEF TypeOK, Pcs
  <2>2. activity' \in [Conversations -> 0..MaxTime]
    BY <1>1, <1>3 DEF TypeOK
  <2> QED BY <1>1, <1>2, <1>3, <2>1, <2>2 DEF TypeOK
<1>5. Local(a)
  BY <1>1, <1>2, <1>3 DEF TypeOK, Local
<1>6. pc'[a] = "conversing" /\ conversation'[a] = c /\ ~Asked(a) /\ ~Replied(a)
  BY <1>1, <1>2 DEF TypeOK, AskOK, Rows, NoMessage, Replied
<1>7. AskOK(a)'
  <2>1. Placed(a)' /\ Early(a)' /\ Searched(a)' /\ Prompted(a)'
    BY <1>1, <1>2, <1>6 DEF AskOK, Placed, Early, Searched, Prompted
  <2>2. Sound(a, reply[a])' /\ Sound(a, Content(a))'
    BY <1>1, <1>2 DEF AskOK, Sound, Content
  <2>3. message[Question(a)].at \in Nat /\ message[Answer(a)].at \in Nat
    BY <1>1, Ids DEF TypeOK, MessageRow
  <2>4. Rows(a)'
    BY <1>1, <1>2, <1>3, <1>6, <2>3 DEF AskOK, Rows, Asked, Replied, Content
  <2> QED BY <2>1, <2>2, <2>4 DEF AskOK
<1>8. ASSUME NEW k \in Conversations
      PROVE  RaceOK(k)'
  <2> SUFFICES ASSUME k \notin raced
               PROVE  RaceOK(k)'
    BY <1>2 DEF RaceOK
  <2>1. RaceOK(k)
    BY DEF IInv
  <2>2. \A m \in MessageIds : message[m].stored => m[1] # a
    BY <1>6, Ids DEF Asked, Replied
  <2>3. StoredIn(k)' = StoredIn(k)
    <3>1. \A m \in MessageIds : message[m].stored => conversation'[m[1]] = conversation[m[1]]
      BY <1>1, <1>2, <2>2, Ids DEF TypeOK
    <3> QED BY <1>2, <3>1, SameStored
  <2>4. \A b \in Asks : In(b, k)' => In(b, k) /\ OpenMessage(b)' = OpenMessage(b)
    BY <1>1, <1>2, <1>6 DEF TypeOK, In, InTransaction, OpenMessage
  <2>5. \A m \in StoredIn(k) : message[m].at <= activity'[k]
    <3>1. \A m \in StoredIn(k) : message[m].at \in Nat /\ message[m].at <= clock
      BY PastMessages DEF StoredIn
    <3>2. activity'[k] = activity[k] \/ activity'[k] = clock'
      BY <1>1, <1>3 DEF TypeOK
    <3> QED BY <1>3, <2>1, <3>1, <3>2 DEF RaceOK
  <2> QED BY <1>2, <2>1, <2>3, <2>4, <2>5 DEF RaceOK
<1> QED BY <1>4, <1>5, <1>7, <1>8, StepOf

\* What an insert does to the rows and to the conversations: nobody sees it yet,
\* and it is not older than what is stored.
LEMMA InsertRows ==
    ASSUME IInv, NEW a \in Asks, NEW m \in {Question(a), Answer(a)},
           NEW content \in Reply, Insert(a, m, content), ~message[m].stored,
           ~InTransaction(a), conversation[a] \in Conversations,
           NEW p \in {"asking", "storing"}, Goto(a, p),
           p = "asking" <=> m = Question(a)
    PROVE  /\ TypeOK' /\ Local(a) /\ \A c \in Conversations : RaceOK(c)'
           /\ pc'[a] = p /\ message'[m] = [at |-> clock', stored |-> FALSE, content |-> content]
           /\ \A o \in MessageIds \ {m} : message'[o] = message[o]
<1> USE DEF Insert, Goto, Quiet, corpusVars, localVars
<1>1. TypeOK /\ m \in MessageIds
  BY Ids DEF IInv
<1>2. clock \in Nat /\ clock' \in 0..MaxTime /\ clock' >= clock
  BY <1>1, AskAssumption DEF TypeOK, Tick
<1>3. /\ pc'[a] = p /\ message'[m] = [at |-> clock', stored |-> FALSE, content |-> content]
      /\ \A o \in MessageIds \ {m} : message'[o] = message[o]
      /\ \A b \in Asks \ {a} : pc'[b] = pc[b]
  BY <1>1 DEF TypeOK
<1>4. TypeOK'
  <2>1. [at |-> clock', stored |-> FALSE, content |-> content] \in MessageRow
    BY <1>2 DEF MessageRow
  <2>2. message' \in [MessageIds -> MessageRow] /\ pc' \in [Asks -> Pcs]
    BY <1>1, <2>1 DEF TypeOK, Pcs
  <2>3. raced' \subseteq Conversations
    BY <1>1 DEF IInv, AskOK, Placed, Unjoined, InTransaction, TypeOK
  <2> QED BY <1>1, <1>2, <2>2, <2>3 DEF TypeOK
<1>5. Local(a)
  BY <1>1, <1>2, <1>3, Ids DEF TypeOK, Local
<1>6. ASSUME NEW c \in Conversations
      PROVE  RaceOK(c)'
  <2> SUFFICES ASSUME c \notin raced'
               PROVE  RaceOK(c)'
    BY DEF RaceOK
  <2>1. RaceOK(c) /\ c \notin raced
    BY DEF IInv
  <2>2. StoredIn(c)' = StoredIn(c) /\ \A o \in StoredIn(c) : o \in MessageIds /\ message'[o] = message[o]
    <3>1. StoredIn(c) \subseteq MessageIds
      BY DEF StoredIn
    <3>2. \A o \in MessageIds : /\ message'[o].stored <=> message[o].stored
                                /\ message[o].stored => message'[o] = message[o]
      BY <1>3
    <3> QED BY <3>1, <3>2, SameStored
  <2>3. \A b \in Asks \ {a} : In(b, c)' = In(b, c) /\ OpenMessage(b)' = OpenMessage(b)
    BY <1>3, <1>1, Ids DEF In, InTransaction, OpenMessage
  <2>4. In(a, c)' => \A b \in Asks \ {a} : ~In(b, c)
    BY DEF In
  <2>5. OpenMessage(a)' = message'[m]
    BY <1>3 DEF OpenMessage
  <2>6. \A o \in StoredIn(c) : message[o].at <= clock'
    <3>1. \A o \in StoredIn(c) : message[o].at \in Nat /\ message[o].at <= clock
      BY <2>2, PastMessages
    <3> QED BY <1>2, <3>1
  <2>7. \A b \in Asks, d \in Asks : In(b, c)' /\ In(d, c)' => b = d
    BY <2>1, <2>3, <2>4 DEF RaceOK
  <2>8. \A b \in Asks, o \in StoredIn(c) : In(b, c)' => message'[o].at <= OpenMessage(b).at'
    <3>1. message'[m].at = clock'
      BY <1>3
    <3>2. ASSUME NEW b \in Asks, NEW o \in StoredIn(c), In(b, c)'
          PROVE  message'[o].at <= OpenMessage(b).at'
      <4>1. CASE b = a
        BY <2>2, <2>5, <2>6, <3>1, <4>1
      <4>2. CASE b # a
        BY <2>1, <2>2, <2>3, <3>2, <4>2 DEF RaceOK
      <4> QED BY <4>1, <4>2
    <3> QED BY <3>2
  <2>9. \A o \in StoredIn(c) : message'[o].at <= activity'[c]
    BY <2>1, <2>2 DEF RaceOK
  <2> QED BY <2>2, <2>7, <2>8, <2>9 DEF RaceOK
<1> QED BY <1>3, <1>4, <1>5, <1>6

\* Either insert keeps the invariant: the answer is not older than its question.
LEMMA InsertKeeps ==
    ASSUME IInv, NEW a \in Asks, InsertQuestion(a) \/ InsertAnswer(a)
    PROVE  IInv'
<1>1. AskOK(a) /\ TypeOK
  BY DEF IInv
<1>2. reply[a] \in Reply /\ NoReply \in Reply
  BY <1>1, NullTypes DEF TypeOK
<1>3. CASE InsertQuestion(a)
  <2> USE <1>3 DEF InsertQuestion
  <2>1. ~message[Question(a)].stored /\ message[Answer(a)] = NoMessage
    BY <1>1 DEF AskOK, Rows, Asked
  <2>2. /\ TypeOK' /\ Local(a) /\ \A c \in Conversations : RaceOK(c)'
        /\ pc'[a] = "asking"
        /\ message'[Question(a)] = [at |-> clock', stored |-> FALSE, content |-> NoReply]
        /\ \A o \in MessageIds \ {Question(a)} : message'[o] = message[o]
    BY <1>1, <1>2, <2>1, InsertRows DEF InTransaction, AskOK, Placed, Unjoined
  <2>3. message'[Answer(a)] = NoMessage
    BY <2>1, <2>2, Ids
  <2>4. UNCHANGED <<conversation, found, reply, served, chunks, history>>
    BY DEF Insert, Quiet, corpusVars, localVars
  <2>5. Placed(a)' /\ Early(a)' /\ Searched(a)' /\ Prompted(a)'
    BY <1>1, <2>2, <2>4 DEF AskOK, Placed, Unjoined, Early, Searched, Prompted
  <2>6. Sound(a, reply[a])' /\ Sound(a, Content(a))'
    BY <1>1, <2>1, <2>3, <2>4 DEF AskOK, Sound, Content
  <2>7. Rows(a)'
    <3>1. message'[Question(a)].at = clock' /\ message'[Answer(a)].at = 0 /\ clock' \in Nat
      BY <2>2, <2>3 DEF NoMessage, Local
    <3>2. ~message'[Question(a)].stored /\ ~message'[Answer(a)].stored
      BY <2>2, <2>3 DEF NoMessage
    <3> QED BY <2>2, <2>3, <3>1, <3>2 DEF Rows, Asked, Replied
  <2> QED BY <2>2, <2>5, <2>6, <2>7, StepOf DEF AskOK
<1>4. CASE InsertAnswer(a)
  <2> USE <1>4 DEF InsertAnswer
  <2>1. message[Answer(a)] = NoMessage /\ Asked(a)
    BY <1>1 DEF AskOK, Rows
  <2>2. /\ TypeOK' /\ Local(a) /\ \A c \in Conversations : RaceOK(c)'
        /\ pc'[a] = "storing"
        /\ message'[Answer(a)] = [at |-> clock', stored |-> FALSE, content |-> reply[a]]
        /\ \A o \in MessageIds \ {Answer(a)} : message'[o] = message[o]
    BY <1>1, <1>2, <2>1, Ids, InsertRows DEF InTransaction, AskOK, Placed, Unjoined, NoMessage
  <2>3. message'[Question(a)] = message[Question(a)]
    BY <2>2, Ids
  <2>4. UNCHANGED <<conversation, found, reply, served, chunks, history>>
    BY DEF Insert, Quiet, corpusVars, localVars
  <2>5. Placed(a)' /\ Early(a)' /\ Searched(a)' /\ Prompted(a)'
    BY <1>1, <2>2, <2>4 DEF AskOK, Placed, Unjoined, Early, Searched, Prompted
  <2>6. Sound(a, reply[a])' /\ Sound(a, Content(a))'
    BY <1>1, <2>2, <2>4 DEF AskOK, Sound, Content
  <2>7. Rows(a)'
    <3>1. message'[Answer(a)].at = clock' /\ clock' \in Nat /\ message[Question(a)].at \in Nat
      BY <1>1, <2>2, Ids DEF Local, TypeOK, MessageRow
    <3>2. message[Question(a)].at <= clock /\ clock \in Nat
      BY <1>1 DEF AskOK, Rows, TypeOK
    <3>3. ~message'[Answer(a)].stored /\ message'[Answer(a)].content = reply[a]
      BY <2>2
    <3> QED BY <2>1, <2>2, <2>3, <2>4, <3>1, <3>2, <3>3 DEF Rows, Asked, Replied, Content, Local
  <2> QED BY <2>2, <2>5, <2>6, <2>7, StepOf DEF AskOK
<1> QED BY <1>3, <1>4

\* What a commit does to the rows and to the conversations: where no transaction
\* overlapped, the message that it shows is the latest.
LEMMA CommitRows ==
    ASSUME IInv, NEW a \in Asks, NEW m,
           \/ pc[a] = "asking" /\ m = Question(a)
           \/ pc[a] = "storing" /\ m = Answer(a),
           clock' \in 0..MaxTime, clock' >= clock,
           NEW now \in message[m].at..clock', Commit(a, m, now),
           NEW p \in {"asked", "stored", "failed"}, Goto(a, p),
           UNCHANGED <<conversation, raced>>
    PROVE  /\ message' \in [MessageIds -> MessageRow]
           /\ activity' \in [Conversations -> 0..MaxTime]
           /\ message'[m].stored /\ message'[m].at = message[m].at
           /\ message'[m].content = message[m].content
           /\ \A o \in MessageIds \ {m} : message'[o] = message[o]
           /\ ~message[m].stored
           /\ \A c \in Conversations : RaceOK(c)'
<1> USE DEF Commit, Goto
<1>1. TypeOK /\ AskOK(a) /\ m \in MessageIds /\ m[1] = a
  BY Ids DEF IInv
<1>2. InTransaction(a) /\ conversation[a] \in Conversations /\ OpenMessage(a) = message[m]
  BY <1>1 DEF AskOK, Placed, Unjoined, InTransaction, OpenMessage
<1>3. message[m] \in MessageRow /\ message'[m] = [message[m] EXCEPT !.stored = TRUE]
  BY <1>1 DEF TypeOK
<1>4. /\ message'[m].stored /\ message'[m].at = message[m].at
      /\ message'[m].content = message[m].content
  BY <1>3 DEF MessageRow
<1>5. \A o \in MessageIds \ {m} : message'[o] = message[o]
  BY <1>1 DEF TypeOK
<1>6. ~message[m].stored
  BY <1>1 DEF AskOK, Rows, Asked, Replied
<1>7. message' \in [MessageIds -> MessageRow]
  <2>1. message'[m] \in MessageRow
    BY ZenonT(30), <1>3 DEF MessageRow
  <2> QED BY <1>1, <2>1 DEF TypeOK
<1>8. now \in 0..MaxTime /\ message[m].at \in Nat /\ message[m].at <= now
  BY <1>3, AskAssumption DEF MessageRow
<1>9. activity' \in [Conversations -> 0..MaxTime]
  BY <1>1, <1>8 DEF TypeOK
<1>10. ~InTransaction(a)' /\ \A b \in Asks \ {a} : pc'[b] = pc[b]
  BY <1>1 DEF TypeOK, InTransaction
<1>11. ASSUME NEW c \in Conversations
       PROVE  RaceOK(c)'
  <2> SUFFICES ASSUME c \notin raced
               PROVE  RaceOK(c)'
    BY DEF RaceOK
  <2>1. RaceOK(c)
    BY DEF IInv
  <2>2. \A b \in Asks \ {a} : In(b, c)' = In(b, c)
    BY <1>10 DEF In, InTransaction
  <2>3. ~In(a, c)'
    BY <1>10 DEF In
  <2>4. StoredIn(c) \subseteq MessageIds
    BY DEF StoredIn
  <2>5. CASE c = conversation[a]
    <3>1. In(a, c)
      BY <1>2, <2>5 DEF In
    <3>2. \A b \in Asks : ~In(b, c)'
      BY <2>1, <2>2, <2>3, <3>1 DEF RaceOK
    <3>3. \A o \in StoredIn(c)' : o \in StoredIn(c) \/ o = m
      BY <1>5 DEF StoredIn
    <3>4. \A o \in StoredIn(c) : message[o].at <= message[m].at
      BY <1>2, <2>1, <3>1 DEF RaceOK
    <3>5. activity'[c] = now
      BY <1>1, <1>2, <2>5 DEF TypeOK
    <3>6. ASSUME NEW o \in StoredIn(c)'
          PROVE  message'[o].at <= activity'[c]
      <4>1. CASE o = m
        BY <1>4, <1>8, <3>5, <4>1
      <4>2. CASE o # m
        <5>1. o \in StoredIn(c) /\ o \in MessageIds
          BY <2>4, <3>3, <4>2
        <5>2. message'[o] = message[o] /\ message[o].at \in Nat
          BY <1>5, <4>2, <5>1, PastMessages
        <5> QED BY <1>8, <3>4, <3>5, <5>1, <5>2
      <4> QED BY <4>1, <4>2
    <3> QED BY <3>2, <3>6 DEF RaceOK
  <2>6. CASE c # conversation[a]
    <3>1. \A o \in MessageIds : o \in StoredIn(c)' <=> o \in StoredIn(c)
      BY <1>1, <1>5, <2>6 DEF StoredIn
    <3>2. StoredIn(c)' = StoredIn(c) /\ \A o \in StoredIn(c) : message'[o] = message[o]
      <4>1. StoredIn(c)' \subseteq MessageIds
        BY DEF StoredIn
      <4>2. m \notin StoredIn(c)
        BY <1>6 DEF StoredIn
      <4> QED BY <1>5, <2>4, <3>1, <4>1, <4>2
    <3>3. activity'[c] = activity[c]
      BY <1>1, <2>6 DEF TypeOK
    <3>4. \A b \in Asks \ {a} : OpenMessage(b)' = OpenMessage(b)
      BY <1>5, <1>10, <1>1, Ids DEF OpenMessage
    <3> QED BY <2>1, <2>2, <2>3, <3>2, <3>3, <3>4 DEF RaceOK
  <2> QED BY <2>5, <2>6
<1> QED BY <1>4, <1>5, <1>6, <1>7, <1>9, <1>11

\* The commit of a question, and of an answer, with the reply or without.
LEMMA CommitKeeps ==
    ASSUME IInv, NEW a \in Asks,
           CommitQuestion(a) \/ CommitAnswer(a) \/ CommitLost(a)
    PROVE  IInv'
<1>1. AskOK(a) /\ TypeOK
  BY DEF IInv
<1>2. /\ clock \in Nat /\ clock' \in 0..MaxTime /\ clock' >= clock
      /\ UNCHANGED <<open, indexed, generation, chunks, served, conversation, raced>>
      /\ faults' \in 0..MaxFaults
  BY <1>1, AskAssumption
  DEF TypeOK, CommitQuestion, CommitAnswer, CommitLost, Tick, Fault, Forget, Quiet,
      corpusVars, localVars
<1>3. PICK p \in {"asked", "stored", "failed"} : Goto(a, p)
  BY DEF CommitQuestion, CommitAnswer, CommitLost
<1>4. PICK m \in {Question(a), Answer(a)} :
        /\ \E now \in message[m].at..clock' : Commit(a, m, now)
        /\ \/ pc[a] = "asking" /\ m = Question(a) /\ p \in {"asked", "failed"}
           \/ pc[a] = "storing" /\ m = Answer(a) /\ p \in {"stored", "failed"}
  <2>1. ASSUME pc[a] = "asking", TxQuestion(a)
        PROVE  \E now \in message[Question(a)].at..clock' : Commit(a, Question(a), now)
    <3>1. message[Question(a)].at \in Nat /\ message[Question(a)].at <= clock
      BY PastMessages, Ids
    <3>2. message[Question(a)].at \in message[Question(a)].at..clock'
      BY <1>2, <3>1
    <3> QED BY <2>1, <3>2 DEF TxQuestion
  <2>2. \/ pc[a] = "asking" /\ TxQuestion(a) /\ pc'[a] \in {"asked", "failed"}
        \/ pc[a] = "storing" /\ TxAnswer(a) /\ pc'[a] \in {"stored", "failed"}
    BY <1>1 DEF TypeOK, CommitQuestion, CommitAnswer, CommitLost, Goto
  <2>3. p = pc'[a]
    BY <1>1, <1>3 DEF TypeOK, Goto
  <2> QED BY <2>1, <2>2, <2>3 DEF TxAnswer
<1>5. /\ message' \in [MessageIds -> MessageRow]
      /\ activity' \in [Conversations -> 0..MaxTime]
      /\ message'[m].stored /\ message'[m].at = message[m].at
      /\ message'[m].content = message[m].content
      /\ \A o \in MessageIds \ {m} : message'[o] = message[o]
      /\ ~message[m].stored
      /\ \A c \in Conversations : RaceOK(c)'
  BY <1>2, <1>3, <1>4, CommitRows
<1>6. /\ pc' \in [Asks -> Pcs] /\ pc'[a] = p
      /\ counted' \in [Asks -> BOOLEAN]
      /\ pending' \in [Asks -> SUBSET {"semantic", "lexical"}]
      /\ found' \in [Asks -> SUBSET Chunk] /\ history' \in [Asks -> SUBSET MessageIds]
      /\ reply' \in [Asks -> Reply]
      /\ \/ p # "failed" /\ UNCHANGED <<found, reply>>
         \/ p = "failed" /\ found'[a] = {} /\ reply'[a] = NoReply
      /\ \A b \in Asks \ {a} :
            /\ pc'[b] = pc[b] /\ found'[b] = found[b]
            /\ history'[b] = history[b] /\ reply'[b] = reply[b]
  <2>1. pc'[a] = p
    BY <1>1, <1>3 DEF TypeOK, Goto
  <2>2. CASE CommitLost(a)
    <3>1. p = "failed"
      BY <1>1, <2>1, <2>2 DEF CommitLost, Goto, TypeOK
    <3> QED BY <2>1, <2>2, <3>1, Forgotten DEF CommitLost
  <2>3. CASE CommitQuestion(a) \/ CommitAnswer(a)
    <3>1. p # "failed"
      BY <1>1, <2>1, <2>3 DEF CommitQuestion, CommitAnswer, Goto, TypeOK
    <3> QED BY <1>1, <1>3, <2>1, <2>3, <3>1
            DEF CommitQuestion, CommitAnswer, Goto, TypeOK, Pcs, localVars
  <2> QED BY <2>2, <2>3
<1>7. TypeOK'
  BY <1>1, <1>2, <1>5, <1>6 DEF TypeOK
<1>8. Local(a)
  BY <1>2, <1>4, <1>5, <1>6, Ids DEF Local
<1>9. Placed(a)' /\ Early(a)' /\ Searched(a)' /\ Prompted(a)'
  BY <1>1, <1>2, <1>4, <1>6 DEF AskOK, Placed, Unjoined, Early, Searched, Prompted
<1>10. Sound(a, reply[a])'
  <2>1. Sound(a, NoReply)
    BY NoReplySound, AskAssumption, CorpusAssumption
  <2> QED BY <1>1, <1>2, <1>6, <2>1 DEF AskOK, Sound
<1>11. message'[Answer(a)].content = message[Answer(a)].content
  BY <1>4, <1>5, Ids
<1>12. Sound(a, Content(a))'
  BY <1>1, <1>2, <1>11 DEF AskOK, Sound, Content
<1>13. Rows(a)'
  <2>1. message[Question(a)].at \in Nat /\ message[Answer(a)].at \in Nat
    BY Ids, PastMessages
  <2>2. CASE m = Question(a)
    <3>1. message'[Answer(a)] = message[Answer(a)] /\ Asked(a)' /\ ~Replied(a)'
      BY <1>1, <1>4, <1>5, <2>2, Ids DEF AskOK, Rows, Asked, Replied, NoMessage
    <3>2. pc[a] = "asking" /\ pc'[a] \in {"asked", "failed"}
      BY <1>4, <1>6, <2>2, Ids
    <3> QED BY <1>1, <1>2, <1>5, <2>1, <2>2, <3>1, <3>2 DEF AskOK, Rows
  <2>3. CASE m = Answer(a)
    <3>1. message'[Question(a)] = message[Question(a)] /\ Asked(a)' /\ Replied(a)'
      BY <1>1, <1>4, <1>5, <2>3, Ids DEF AskOK, Rows, Asked, Replied
    <3>2. pc[a] = "storing" /\ pc'[a] \in {"stored", "failed"}
      BY <1>4, <1>6, <2>3, Ids
    <3> QED BY <1>1, <1>2, <1>5, <1>6, <2>1, <2>3, <3>1, <3>2 DEF AskOK, Rows, Content
  <2> QED BY <2>2, <2>3
<1> QED BY <1>5, <1>7, <1>8, <1>9, <1>10, <1>12, <1>13, StepOf DEF AskOK

-----------------------------------------------------------------------------
(* The theorems                                                            *)

\* Before the first request the invariant holds.
LEMMA InitIInv == AskInit => IInv
<1> SUFFICES ASSUME AskInit
             PROVE  IInv
  OBVIOUS
<1> USE AskAssumption, CorpusAssumption DEF AskInit
<1>1. TypeOK
  <2>1. PICK texts \in [indexed -> [1..Passages -> Texts]] :
                chunks = UNION {NewChunks(d, 1, texts[d]) : d \in indexed}
    BY DEF CorpusInit
  <2>2. indexed \subseteq Documents /\ open \in BOOLEAN
    BY DEF CorpusInit
  <2>3. chunks \subseteq Chunk
    <3>1. \A d \in indexed : NewChunks(d, 1, texts[d]) \subseteq Chunk
      BY <2>2, NewChunksType
    <3> QED BY <2>1, <3>1
  <2>4. generation \in [Documents -> 0..MaxGenerations]
    BY DEF CorpusInit
  <2> QED BY <2>2, <2>3, <2>4, NullTypes DEF TypeOK, Pcs
<1>2. ASSUME NEW a \in Asks
      PROVE  AskOK(a)
  <2>1. message[Question(a)] = NoMessage /\ message[Answer(a)] = NoMessage
    BY Ids
  <2>2. Sound(a, reply[a]) /\ Sound(a, Content(a))
    BY <2>1, NoReplySound DEF Content
  <2>3. Rows(a)
    BY <2>1 DEF Rows, Asked, Replied, NoMessage
  <2> QED BY <2>2, <2>3 DEF AskOK, Placed, Unjoined, Early, Searched, Prompted
<1>3. ASSUME NEW c \in Conversations
      PROVE  RaceOK(c)
  <2>1. StoredIn(c) = {}
    BY DEF StoredIn, NoMessage
  <2>2. \A a \in Asks : ~In(a, c)
    BY DEF In, InTransaction
  <2> QED BY <2>1, <2>2 DEF RaceOK
<1> QED BY <1>1, <1>2, <1>3 DEF IInv

\* Every step keeps the invariant.
LEMMA NextKeepsIInv == IInv /\ [AskNext]_askVars => IInv'
<1> SUFFICES ASSUME IInv, [AskNext]_askVars
             PROVE  IInv'
  OBVIOUS
<1>1. CASE CorpusStep
  BY <1>1, CorpusStepKeeps
<1>2. ASSUME NEW a \in Asks, NEW c \in Conversations, Continue(a, c) \/ CreateConversation(a, c)
      PROVE  IInv'
  BY <1>2, JoinKeeps
<1>3. ASSUME NEW a \in Asks,
             \/ Begin(a) \/ Refuse(a) \/ InsertQuestion(a) \/ CommitQuestion(a)
             \/ Count(a) \/ Embed(a) \/ FetchSemantic(a) \/ FetchLexical(a) \/ Select(a)
             \/ ReadHistory(a) \/ Generate(a)
             \/ InsertAnswer(a) \/ CommitAnswer(a) \/ Return(a)
             \/ Fails(a) \/ CommitLost(a)
      PROVE  IInv'
  BY <1>3, MoveKeeps, InsertKeeps, CommitKeeps, SearchBegins, ReceiveKeeps, SelectKeeps,
     ReadHistoryKeeps, GenerateKeeps, FailsKeeps
<1>4. CASE UNCHANGED askVars
  BY <1>4 DEF askVars, corpusVars, localVars, rowVars, IInv, TypeOK, AskOK, Placed, Early,
              Searched, Readable, IndexedChunks, Sound, Content, Rows, Asked, Replied, Prompted,
              RaceOK, In, InTransaction, OpenMessage, StoredIn
<1> QED BY <1>1, <1>2, <1>3, <1>4 DEF AskNext

\* The inductive invariant holds in every reachable state.
THEOREM ChatInductive == AskSpec => []IInv
  BY InitIInv, NextKeepsIInv, PTL DEF AskSpec

\* Rows and requests keep their types, whatever the model answers
\* (finalizeAnswer, 453-467).
THEOREM ChatTypes == AskSpec => []TypeOK
<1>1. IInv => TypeOK
  BY DEF IInv
<1> QED BY <1>1, ChatInductive, PTL

\* An answer cites only chunks that could be read at some moment of its search
\* (retrieval-query.repository.ts:72-164).
THEOREM CitationsWereReadable == AskSpec => []CitedWasReadable
<1>1. IInv => CitedWasReadable
  BY DEF IInv, AskOK, Sound, CitedWasReadable, StoredAnswers
<1> QED BY <1>1, ChatInductive, PTL

\* Cited chunks still exist, come from the grounding set and keep to the limit,
\* and exactly the grounded answers have some
\* (citation-assembler.service.ts:37-148).
THEOREM CitationsStay == AskSpec => []CitationsStand
<1>1. IInv => CitationsStand
  BY DEF IInv, AskOK, Sound, CitationsStand, StoredAnswers
<1> QED BY <1>1, ChatInductive, PTL

\* No text is in the grounding set of an answer twice, although the queries see
\* two snapshots (retrieval.service.ts:94-128, 295-320).
THEOREM TextsOnce == AskSpec => []PassageOnce
<1>1. IInv => PassageOnce
  BY DEF IInv, AskOK, Sound, PassageOnce, StoredAnswers
<1> QED BY <1>1, ChatInductive, PTL

\* Prompts have the question, and the question of every answer in them,
\* unless later messages fill the limit (getPromptHistory, 286-297).
THEOREM PromptsFollow == AskSpec => []PromptFollowsConversation
<1>1. IInv => PromptFollowsConversation
  BY DEF IInv, AskOK, Prompted, PromptFollowsConversation
<1> QED BY <1>1, ChatInductive, PTL

\* What the user is told agrees with the rows (persistAnswerOutcome, 546-642).
THEOREM RepliesStored == AskSpec => []RepliesAreStored
<1>1. IInv => RepliesAreStored
  <2> SUFFICES ASSUME IInv, NEW a \in Asks
               PROVE  /\ pc[a] \in {"stored", "returned"} => Replied(a) /\ Content(a) = reply[a]
                      /\ Replied(a) =>
                            /\ Asked(a)
                            /\ message[Question(a)].at <= message[Answer(a)].at
                            /\ pc[a] \in {"stored", "returned", "failed"}
                      /\ pc[a] = "refused" => ~Asked(a)
    BY DEF RepliesAreStored, StoredAnswers, Asked, Replied
  <2>1. Rows(a)
    BY DEF IInv, AskOK
  <2> QED BY <2>1 DEF Rows, Replied, NoMessage
<1> QED BY <1>1, ChatInductive, PTL

\* lastActivityAt is behind a message only where transactions overlapped
\* (conversation-persistence.service.ts:166-284).
THEOREM ActivityLags == AskSpec => []ActivityLagsOnlyOnRace
<1>1. IInv => ActivityLagsOnlyOnRace
  BY DEF IInv, RaceOK, ActivityLagsOnlyOnRace
<1> QED BY <1>1, ChatInductive, PTL

=============================================================================
