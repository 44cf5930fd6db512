---------------------------- MODULE ChatTranscript ----------------------------
(***************************************************************************)
(* The chat page, ChatView, and the list of conversations it is opened      *)
(* from.  Of the messages that are shown the model keeps the conversations  *)
(* they belong to.                                                          *)
(***************************************************************************)
EXTENDS KbSelection

CONSTANT Conversations   \* bound: the conversations there can be

ASSUME ConversationAssumption == None \notin Conversations

VARIABLES
    conv,        \* conversationId
    transcript,  \* the conversations whose messages are shown
    busy,        \* isLoading
    calls,       \* requests of the page under way
    stored,      \* server: the conversations that exist
    history,     \* the conversations the list shows
    crossed      \* history: a request ended after the user had left its conversation

chatVars == <<conv, transcript, busy, calls, stored, history, crossed>>

ChatInit ==
    /\ conv = None
    /\ transcript = {}
    /\ busy = FALSE
    /\ calls = <<>>
    /\ stored = {}
    /\ history = {}
    /\ crossed = FALSE

Call(kind, c) == [kind |-> kind, conv |-> c, answer |-> None, left |-> FALSE]

\* Mounted for a conversation to resume, or for none; the effect loads it.
MountChat(resumed) ==
    /\ conv' = resumed
    /\ transcript' = {}
    /\ busy' = (resumed # None)
    /\ calls' = IF resumed = None THEN <<>> ELSE [i \in 1..runs |-> Call("load", resumed)]
    /\ history' = {}
    /\ crossed' = FALSE

\* A question under way may reach the server yet.
UnmountChat(reached) ==
    /\ conv' = None
    /\ transcript' = {}
    /\ busy' = FALSE
    /\ calls' = <<>>
    /\ crossed' = FALSE
    /\ stored' = stored \cup reached

\* The question shows at once.  Without a conversation and without a selected
\* knowledge base the page only asks for one.
HandleSubmit ==
    /\ ~busy
    /\ conv # None \/ selected # None
    /\ busy' = TRUE
    /\ calls' = Append(calls, Call("ask", conv))
    /\ transcript' = transcript \cup ({conv} \ {None})
    /\ UNCHANGED <<conv, stored, history, crossed>>

\* Mutant: the button keeps the messages.
Cleared_Nothing == transcript

Cleared == {}

\* Offered whenever there is a conversation, whatever is under way.
NewChat ==
    /\ conv # None
    /\ conv' = None
    /\ transcript' = Cleared
    /\ calls' = [i \in DOMAIN calls |-> [calls[i] EXCEPT !.left = TRUE]]
    /\ crossed' = FALSE
    /\ UNCHANGED <<busy, stored, history>>

\* A question without a conversation starts one.
Serve(i, c) ==
    /\ calls[i].answer = None
    /\ IF calls[i].conv = None THEN c \in Conversations \ stored ELSE c = calls[i].conv
    /\ stored' = stored \cup {c}
    /\ calls' = [calls EXCEPT ![i].answer = c]
    /\ UNCHANGED <<conv, transcript, busy, history, crossed>>

\* The answer is added to what is shown, and its conversation becomes that of
\* the page when the question had none.
AnswerArrives(i) ==
    LET r == calls[i] IN
    /\ r.kind = "ask" /\ r.answer # None
    /\ conv' = IF r.conv = None THEN r.answer ELSE conv
    /\ transcript' = transcript \cup {r.answer}
    /\ busy' = FALSE
    /\ crossed' = (crossed \/ r.left)
    /\ calls' = RemoveAt(calls, i)
    /\ UNCHANGED <<stored, history>>

\* The messages replace what is shown, unless there are none.
MessagesArrive(i) ==
    LET r == calls[i] IN
    /\ r.kind = "load" /\ r.answer # None
    /\ transcript' = {r.conv} \/ UNCHANGED transcript
    /\ crossed' = (crossed \/ r.left)
    /\ busy' = FALSE
    /\ calls' = RemoveAt(calls, i)
    /\ UNCHANGED <<conv, stored, history>>

\* Whichever request ends, the page takes another question.
CallFails(i) ==
    /\ busy' = FALSE
    /\ crossed' = (crossed \/ calls[i].left)
    /\ calls' = RemoveAt(calls, i)
    /\ UNCHANGED <<conv, transcript, stored, history>>

\* The list of conversations, as it is read.
HistoryArrives ==
    /\ history' = stored
    /\ UNCHANGED <<conv, transcript, busy, calls, stored, crossed>>

=============================================================================
