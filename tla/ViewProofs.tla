----------------------------- MODULE ViewProofs -----------------------------
(***************************************************************************)
(* What the pages show, for any number of knowledge bases, conversations,   *)
(* requests and uploads, and for both builds.                               *)
(*                                                                         *)
(* The three arguments: the list of knowledge bases is asked for as often   *)
(* as effects run, so only a second answer can come after a choice; the     *)
(* page of documents always has a request for its selection among the last  *)
(* ones, or shows its answer; and a conversation is left only by New chat,  *)
(* which leaves every request of it behind.                                 *)
(***************************************************************************)
EXTENDS WebViews, SequenceTheorems, TLAPS

-----------------------------------------------------------------------------
(* The inductive invariant                                                 *)

KB == Range(KBs)
Requests == [kb : KB, answer : {"none", "pending", "settled"}, late : BOOLEAN, former : BOOLEAN]
Uploads == [kb : KB, stored : BOOLEAN, here : BOOLEAN]
Calls == [kind : {"ask", "load"}, conv : Conversations \cup {None},
          answer : Conversations \cup {None}, left : BOOLEAN]

SelectionTypes ==
    /\ runs \in {1, 2} /\ starting \in Nat
    /\ loading \in BOOLEAN /\ listed \in BOOLEAN
    /\ selected \in KB \cup {None} /\ choice \in KB \cup {None}

DocumentTypes ==
    /\ docs \in [of : KB \cup {None}, pending : BOOLEAN]
    /\ requests \in Seq(Requests)
    /\ upload \in Uploads \cup {NoUpload}
    /\ timers \in Seq(KB)

ChatTypes ==
    /\ conv \in Conversations \cup {None}
    /\ transcript \subseteq Conversations
    /\ busy \in BOOLEAN /\ crossed \in BOOLEAN
    /\ calls \in Seq(Calls)
    /\ stored \subseteq Conversations /\ history \subseteq Conversations

\* The menu has items once an answer has come, and the user picks from it.
SelectionInv ==
    /\ starting <= runs
    /\ listed => starting < runs
    /\ choice # None => listed
    /\ choice # None /\ selected # choice => runs = 2 /\ starting = 0 /\ selected = Head(KBs)

\* Before there is a selection the page of documents has nothing under way.
NothingBefore ==
    selected = None =>
        docs.of = None /\ requests = <<>> /\ timers = <<>> /\ upload = NoUpload

\* What was sent before a late request is late too.
LateFirst ==
    \A i, j \in DOMAIN requests : i < j /\ requests[j].late => requests[i].late

\* A request that was sent by the page of its selection has been followed by
\* one for the selection of now, when that is another.
Followed ==
    \A i \in DOMAIN requests :
        ~requests[i].late /\ ~requests[i].former /\ requests[i].kb # selected =>
            \E k \in DOMAIN requests :
                k > i /\ requests[k].kb = selected /\ ~requests[k].former

\* The list of another selection is shown only while a request for this one is
\* under way, or for a cause that is named.
Awaited ==
    cause = "none" /\ selected # None /\ docs.of # selected =>
        \E k \in DOMAIN requests :
            requests[k].kb = selected /\ ~requests[k].late /\ ~requests[k].former

ListInv == route = "kb" => LateFirst /\ Followed /\ Awaited

Staying(i) == i \in DOMAIN calls /\ ~calls[i].left

\* Until a request crosses, all that have not been left are about the
\* conversation of the page, and the first question is alone.
ChatInv ==
    /\ \A i \in DOMAIN calls :
        /\ calls[i].kind = "load" => calls[i].conv # None
        /\ calls[i].answer # None /\ calls[i].conv # None => calls[i].answer = calls[i].conv
    /\ ~crossed =>
        /\ transcript \subseteq {conv}
        /\ \A i \in DOMAIN calls : Staying(i) => calls[i].conv = conv
        /\ conv = None =>
            \A i, j \in DOMAIN calls : Staying(i) /\ Staying(j) => i = j /\ busy

IInv ==
    /\ SelectionTypes /\ DocumentTypes /\ ChatTypes
    /\ SelectionInv
    /\ NothingBefore /\ ListInv
    /\ ChatInv

-----------------------------------------------------------------------------
(* Sequences                                                               *)

\* What is left of a sequence without its i-th element.
LEMMA Without ==
    ASSUME NEW S, NEW s \in Seq(S), NEW i \in 1..Len(s)
    PROVE  /\ RemoveAt(s, i) \in Seq(S)
           /\ Len(RemoveAt(s, i)) = Len(s) - 1
           /\ \A j \in 1..(Len(s) - 1) :
                RemoveAt(s, i)[j] = IF j < i THEN s[j] ELSE s[j + 1]
<1> DEFINE a == SubSeq(s, 1, i - 1)
           b == SubSeq(s, i + 1, Len(s))
<1>1. /\ a \in Seq(S) /\ Len(a) = i - 1
      /\ \A j \in 1..(i - 1) : a[j] = s[j]
  BY SubSeqProperties
<1>2. /\ b \in Seq(S) /\ Len(b) = Len(s) - i
      /\ \A j \in 1..(Len(s) - i) : b[j] = s[j + i]
  BY SubSeqProperties
<1>3. RemoveAt(s, i) = a \o b
  BY DEF RemoveAt
<1> HIDE DEF a, b
<1>4. /\ a \o b \in Seq(S) /\ Len(a \o b) = Len(s) - 1
      /\ \A j \in 1..(Len(s) - 1) :
            (a \o b)[j] = IF j <= i - 1 THEN a[j] ELSE b[j - (i - 1)]
  <2>1. /\ a \o b \in Seq(S) /\ Len(a \o b) = Len(a) + Len(b)
        /\ \A j \in 1..(Len(a) + Len(b)) :
              (a \o b)[j] = IF j <= Len(a) THEN a[j] ELSE b[j - Len(a)]
    BY <1>1, <1>2, ConcatProperties, Zenon
  <2>2. Len(a) + Len(b) = Len(s) - 1 /\ Len(a) = i - 1
    BY <1>1, <1>2
  <2> QED BY <2>1, <2>2
<1>5. ASSUME NEW j \in 1..(Len(s) - 1)
      PROVE  (a \o b)[j] = IF j < i THEN s[j] ELSE s[j + 1]
  <2>1. CASE j < i
    BY <1>1, <1>4, <2>1
  <2>2. CASE j >= i
    <3>1. j - (i - 1) \in 1..(Len(s) - i) /\ (j - (i - 1)) + i = j + 1
      BY <2>2
    <3>2. (a \o b)[j] = b[j - (i - 1)]
      BY <1>4, <2>2
    <3>3. b[j - (i - 1)] = s[j + 1]
      <4>1. b[j - (i - 1)] = s[(j - (i - 1)) + i]
        BY <1>2, <3>1
      <4>2. (j - (i - 1)) + i = j + 1
        BY <3>1
      <4> QED BY <4>1, <4>2, Zenon
    <3>4. ~(j < i)
      BY <2>2
    <3> QED BY <3>2, <3>3, <3>4, Zenon
  <2>3. j < i \/ j >= i
    OBVIOUS
  <2> QED BY <2>1, <2>2, <2>3, Zenon
<1> QED BY <1>3, <1>4, <1>5

\* A sequence with one more element.
LEMMA OneMore ==
    ASSUME NEW S, NEW s \in Seq(S), NEW q \in S
    PROVE  /\ s \o [i \in 1..1 |-> q] \in Seq(S)
           /\ Len(s \o [i \in 1..1 |-> q]) = Len(s) + 1
           /\ \A j \in 1..Len(s) : (s \o [i \in 1..1 |-> q])[j] = s[j]
           /\ (s \o [i \in 1..1 |-> q])[Len(s) + 1] = q
<1> DEFINE t == [i \in 1..1 |-> q]
<1>1. t \in Seq(S) /\ Len(t) = 1 /\ t[1] = q
  BY IsASeq
<1> HIDE DEF t
<1>2. /\ s \o t \in Seq(S) /\ Len(s \o t) = Len(s) + Len(t)
      /\ \A j \in 1..(Len(s) + Len(t)) :
            (s \o t)[j] = IF j <= Len(s) THEN s[j] ELSE t[j - Len(s)]
  BY <1>1, ConcatProperties, Zenon
<1>3. Len(s) \in Nat /\ (Len(s) + 1) - Len(s) = 1 /\ ~(Len(s) + 1 <= Len(s))
  OBVIOUS
<1>4. (s \o t)[Len(s) + 1] = q
  BY <1>1, <1>2, <1>3
<1> QED BY <1>1, <1>2, <1>3, <1>4 DEF t

LEMMA FirstKB == Head(KBs) \in KB
<1>1. KBs \in Seq(KB) /\ KBs # <<>>
  BY SelectionAssumption DEF KB
<1> QED BY <1>1, HeadTailProperties

-----------------------------------------------------------------------------
(* The selection                                                           *)

LEMMA SelectionKeeps ==
    ASSUME IInv, [Next]_vars
    PROVE  (SelectionTypes /\ SelectionInv)'
<1>1. SelectionTypes /\ SelectionInv
  BY DEF IInv
<1>2. CASE UNCHANGED selectionVars
  BY <1>1, <1>2 DEF selectionVars, SelectionTypes, SelectionInv
<1>3. CASE ListAnswered
  <2> DEFINE first == Head(KBs)
  <2>1. /\ starting > 0 /\ starting' = starting - 1 /\ loading' = FALSE /\ listed' = TRUE
        /\ selected' = first /\ runs' = runs /\ choice' = choice
    BY <1>3 DEF ListAnswered
  <2>2. first \in KB
    BY FirstKB
  <2>3. SelectionInv' <=> /\ starting' <= runs'
                          /\ listed' => starting' < runs'
                          /\ choice' # None => listed'
                          /\ choice' # None /\ selected' # choice'
                               => runs' = 2 /\ starting' = 0 /\ selected' = first
    BY DEF SelectionInv
  <2> HIDE DEF first
  <2>4. runs \in {1, 2} /\ starting \in Nat
    BY <1>1 DEF SelectionTypes
  <2>5. starting' \in Nat
    BY <2>1, <2>4
  <2>6. loading' \in BOOLEAN /\ listed' \in BOOLEAN
    BY <2>1
  <2>7. SelectionTypes'
    BY <1>1, <2>1, <2>2, <2>5, <2>6, Zenon DEF SelectionTypes
  <2> QED BY <1>1, <2>1, <2>3, <2>4, <2>7 DEF SelectionInv
<1>4. CASE ListFails
  <2>1. /\ starting > 0 /\ starting' = starting - 1 /\ loading' = FALSE
        /\ UNCHANGED <<runs, listed, selected, choice>>
    BY <1>4 DEF ListFails
  <2>2. runs \in {1, 2} /\ starting \in Nat
    BY <1>1 DEF SelectionTypes
  <2>3. starting' \in Nat
    BY <2>1, <2>2
  <2>4. loading' \in BOOLEAN
    BY <2>1
  <2>5. SelectionTypes'
    BY <1>1, <2>1, <2>3, <2>4, Zenon DEF SelectionTypes
  <2>6. SelectionInv'
    BY <1>1, <2>1, <2>2 DEF SelectionInv
  <2> QED BY <2>5, <2>6
<1>5. ASSUME NEW kb \in KB, Pick(kb)
      PROVE  (SelectionTypes /\ SelectionInv)'
  BY <1>1, <1>5, SelectionAssumption DEF Pick, SelectionTypes, SelectionInv, KB
<1> QED BY <1>2, <1>3, <1>4, <1>5 DEF Next, vars, OpenKnowledgeBase, OpenConversations, OpenChat,
           KeepSelection, Selection, DocumentPage, Server, ChatPage, ConversationsPage, KB

-----------------------------------------------------------------------------
(* The page of documents                                                   *)

LEMMA NoDocsTyped ==
    NoDocs \in [of : KB \cup {None}, pending : BOOLEAN] /\ NoDocs.of = None
BY DEF NoDocs

LEMMA RequestTyped ==
    ASSUME NEW kb \in KB, NEW now
    PROVE  /\ Request(kb, now) \in Requests
           /\ Request(kb, now).kb = kb /\ Request(kb, now).late = FALSE
           /\ Request(kb, now).former = (kb # now)
BY DEF Request, Requests

\* Requests that keep what is said of them, and nothing else that matters here
\* changes.
LEMMA SameRequests ==
    ASSUME ListInv, route = "kb",
           UNCHANGED <<selected, cause>>, docs'.of = docs.of,
           DOMAIN requests' = DOMAIN requests,
           \A j \in DOMAIN requests :
              /\ requests'[j].kb = requests[j].kb /\ requests'[j].late = requests[j].late
              /\ requests'[j].former = requests[j].former
    PROVE  (LateFirst /\ Followed /\ Awaited)'
BY DEF ListInv, LateFirst, Followed, Awaited

\* One more request, for the selection of now or by a timer.
LEMMA RequestAdded ==
    ASSUME DocumentTypes, ListInv, route = "kb", UNCHANGED <<docs, cause>>,
           NEW kb \in KB, requests' = requests \o [i \in 1..1 |-> Request(kb, selected')],
           selected' = selected \/ kb = selected'
    PROVE  requests' \in Seq(Requests) /\ (LateFirst /\ Followed /\ Awaited)'
<1> DEFINE q == Request(kb, selected')
           n == Len(requests)
<1>1. q \in Requests /\ q.kb = kb /\ q.late = FALSE /\ q.former = (kb # selected')
  BY RequestTyped
<1>2. requests \in Seq(Requests) /\ n \in Nat /\ DOMAIN requests = 1..n
  BY DEF DocumentTypes
<1>3. requests' = requests \o [i \in 1..1 |-> q]
  OBVIOUS
<1> HIDE DEF q
<1>4. /\ requests' \in Seq(Requests) /\ Len(requests') = n + 1
      /\ \A j \in 1..n : requests'[j] = requests[j]
      /\ requests'[n + 1] = q
  BY <1>1, <1>2, <1>3, OneMore
<1> HIDE DEF n
<1>5. DOMAIN requests' = 1..(n + 1) /\ n + 1 \in 1..(n + 1)
  BY <1>2, <1>4
<1>6. \A j \in DOMAIN requests' : j \in DOMAIN requests \/ j = n + 1
  BY <1>2, <1>5
<1>7. LateFirst /\ Followed /\ Awaited
  BY DEF ListInv
<1>8. LateFirst'
  BY <1>1, <1>2, <1>4, <1>5, <1>6, <1>7 DEF LateFirst
<1>9. ASSUME kb = selected'
      PROVE  Followed' /\ Awaited'
  <2>1. requests'[n + 1].kb = selected' /\ ~requests'[n + 1].former /\ ~requests'[n + 1].late
    BY <1>1, <1>4, <1>9
  <2>2. Followed'
    BY <1>2, <1>5, <1>6, <2>1 DEF Followed
  <2>3. Awaited'
    BY <1>5, <2>1 DEF Awaited
  <2> QED BY <2>2, <2>3
<1>10. ASSUME kb # selected', selected' = selected
       PROVE  Followed' /\ Awaited'
  <2>1. requests'[n + 1].former
    BY <1>1, <1>4, <1>10
  <2>2. Followed'
    <3> SUFFICES ASSUME NEW i \in DOMAIN requests', ~requests'[i].late, ~requests'[i].former,
                        requests'[i].kb # selected'
                 PROVE  \E k \in DOMAIN requests' :
                           k > i /\ requests'[k].kb = selected' /\ ~requests'[k].former
      BY DEF Followed
    <3>1. i \in DOMAIN requests /\ requests'[i] = requests[i]
      BY <1>2, <1>4, <1>6, <2>1
    <3>2. PICK k \in DOMAIN requests : k > i /\ requests[k].kb = selected /\ ~requests[k].former
      BY <1>7, <1>10, <3>1 DEF Followed
    <3>3. k \in DOMAIN requests' /\ requests'[k] = requests[k]
      BY <1>2, <1>4, <1>5
    <3> QED BY <1>10, <3>2, <3>3
  <2>3. Awaited'
    <3> SUFFICES ASSUME cause = "none", selected # None, docs.of # selected
                 PROVE  \E k \in DOMAIN requests' :
                           requests'[k].kb = selected' /\ ~requests'[k].late
                           /\ ~requests'[k].former
      BY <1>10 DEF Awaited
    <3>1. PICK k \in DOMAIN requests :
             requests[k].kb = selected /\ ~requests[k].late /\ ~requests[k].former
      BY <1>7 DEF Awaited
    <3>2. k \in DOMAIN requests' /\ requests'[k] = requests[k]
      BY <1>2, <1>4, <1>5
    <3> QED BY <1>10, <3>1, <3>2
  <2> QED BY <2>2, <2>3
<1> QED BY <1>4, <1>8, <1>9, <1>10

\* Where the request at place j was before request i was over, and the other
\* way round.
From(i, j) == IF j < i THEN j ELSE j + 1
To(i, o) == IF o < i THEN o ELSE o - 1

\* The requests that are left when one is over.
LEMMA OverLeaves ==
    ASSUME requests \in Seq(Requests), NEW i \in DOMAIN requests, Over(i)
    PROVE  /\ requests' \in Seq(Requests)
           /\ \A j \in DOMAIN requests' :
                /\ From(i, j) \in DOMAIN requests \ {i}
                /\ requests'[j].kb = requests[From(i, j)].kb
                /\ requests'[j].former = requests[From(i, j)].former
                /\ requests'[j].late <=> requests[From(i, j)].late \/ From(i, j) < i
           /\ \A o \in DOMAIN requests \ {i} :
                To(i, o) \in DOMAIN requests' /\ From(i, To(i, o)) = o
<1> DEFINE marked == [j \in DOMAIN requests |->
                        [requests[j] EXCEPT !.late = @ \/ j < i]]
           n == Len(requests)
<1>1. n \in Nat /\ DOMAIN requests = 1..n /\ i \in 1..n
  OBVIOUS
<1>2. ASSUME NEW j \in 1..n
      PROVE  /\ marked[j] \in Requests /\ marked[j].kb = requests[j].kb
             /\ marked[j].former = requests[j].former
             /\ marked[j].late <=> requests[j].late \/ j < i
  <2>1. requests[j] \in Requests /\ marked[j] = [requests[j] EXCEPT !.late = @ \/ j < i]
    BY <1>1
  <2> DEFINE r == requests[j]
             m == [r EXCEPT !.late = @ \/ j < i]
  <2>2. r \in Requests /\ marked[j] = m
    BY <2>1
  <2> HIDE DEF marked, r
  <2>3. m \in Requests /\ m.kb = r.kb /\ m.former = r.former /\ (m.late <=> r.late \/ j < i)
    BY <2>2 DEF Requests
  <2> QED BY <2>2, <2>3 DEF r
<1>3. \A j \in 1..n : /\ marked[j] \in Requests /\ marked[j].kb = requests[j].kb
                      /\ marked[j].former = requests[j].former
                      /\ marked[j].late <=> requests[j].late \/ j < i
  BY <1>2
<1>4. marked \in Seq(Requests) /\ Len(marked) = n
  <2>1. marked = [j \in 1..n |-> marked[j]]
    BY <1>1
  <2> HIDE DEF marked, n
  <2>2. [j \in 1..n |-> marked[j]] \in Seq(Requests) /\ Len([j \in 1..n |-> marked[j]]) = n
    BY <1>1, <1>3, IsASeq
  <2> QED BY <2>1, <2>2, Zenon
<1>5. requests' = RemoveAt(marked, i)
  BY DEF Over
<1> HIDE DEF marked, n
<1>6. /\ requests' \in Seq(Requests) /\ Len(requests') = n - 1
      /\ \A j \in 1..(n - 1) : requests'[j] = IF j < i THEN marked[j] ELSE marked[j + 1]
  BY <1>1, <1>4, <1>5, Without
<1>7. DOMAIN requests' = 1..(n - 1)
  BY <1>1, <1>6
<1>8. ASSUME NEW j \in 1..(n - 1)
      PROVE  From(i, j) \in 1..n /\ From(i, j) # i /\ requests'[j] = marked[From(i, j)]
  <2>1. CASE j < i
    BY <1>1, <1>6, <2>1 DEF From
  <2>2. CASE j >= i
    BY <1>1, <1>6, <2>2 DEF From
  <2> QED BY <1>1, <2>1, <2>2
<1>9. ASSUME NEW o \in 1..n, o # i
      PROVE  To(i, o) \in 1..(n - 1) /\ From(i, To(i, o)) = o
  BY <1>1, <1>9 DEF From, To
<1> QED BY ZenonT(30), <1>1, <1>3, <1>6, <1>7, <1>8, <1>9

\* An answer, or the failure of a request.
LEMMA OverKeeps ==
    ASSUME DocumentTypes, ListInv, route = "kb", UNCHANGED selected,
           NEW i \in DOMAIN requests, Over(i),
           \/ docs' = docs /\ cause' = IF requests[i].late THEN cause ELSE "failed"
           \/ /\ docs'.of = requests[i].kb
              /\ requests[i].late \/ requests[i].former => cause' # "none"
    PROVE  requests' \in Seq(Requests) /\ (LateFirst /\ Followed /\ Awaited)'
<1>1. LateFirst /\ Followed /\ Awaited /\ requests \in Seq(Requests)
  BY DEF ListInv, DocumentTypes
<1>2. DOMAIN requests \subseteq Nat /\ DOMAIN requests' \subseteq Nat
  BY <1>1, OverLeaves
<1>3. /\ requests' \in Seq(Requests)
      /\ \A j \in DOMAIN requests' :
           /\ From(i, j) \in DOMAIN requests \ {i}
           /\ requests'[j].kb = requests[From(i, j)].kb
           /\ requests'[j].former = requests[From(i, j)].former
           /\ requests'[j].late <=> requests[From(i, j)].late \/ From(i, j) < i
      /\ \A o \in DOMAIN requests \ {i} :
           To(i, o) \in DOMAIN requests' /\ From(i, To(i, o)) = o
  BY <1>1, OverLeaves
<1>4. \A j, k \in DOMAIN requests' : j < k <=> From(i, j) < From(i, k)
  BY <1>2 DEF From
<1>5. LateFirst'
  BY <1>1, <1>2, <1>3, <1>4 DEF LateFirst
<1>6. ASSUME NEW o \in DOMAIN requests, ~requests[o].late, ~(o < i),
             ~requests[o].former, requests[o].kb # selected
      PROVE  \E k \in DOMAIN requests' :
                /\ From(i, k) > o /\ requests'[k].kb = selected
                /\ ~requests'[k].former /\ ~requests'[k].late
  <2>1. PICK k \in DOMAIN requests : k > o /\ requests[k].kb = selected /\ ~requests[k].former
    BY <1>1, <1>6 DEF Followed
  <2>2. k # i /\ ~(k < i)
    BY <1>2, <1>6, <2>1
  <2>3. ~requests[k].late
    BY <1>1, <1>2, <1>6, <2>1 DEF LateFirst
  <2> QED BY <1>3, <2>1, <2>2, <2>3
<1>7. Followed'
  <2> SUFFICES ASSUME NEW j \in DOMAIN requests', ~requests'[j].late, ~requests'[j].former,
                      requests'[j].kb # selected'
               PROVE  \E k \in DOMAIN requests' :
                         k > j /\ requests'[k].kb = selected' /\ ~requests'[k].former
    BY DEF Followed
  <2>1. PICK k \in DOMAIN requests' :
           From(i, k) > From(i, j) /\ requests'[k].kb = selected /\ ~requests'[k].former
    BY <1>3, <1>6
  <2> QED BY <1>2, <1>4, <2>1
<1>8. Awaited'
  <2> SUFFICES ASSUME cause' = "none", selected # None, docs'.of # selected
               PROVE  \E k \in DOMAIN requests' :
                         requests'[k].kb = selected' /\ ~requests'[k].late /\ ~requests'[k].former
    BY DEF Awaited
  <2>1. CASE docs' = docs /\ requests[i].late /\ cause = "none"
    <3>1. PICK o \in DOMAIN requests :
             requests[o].kb = selected /\ ~requests[o].late /\ ~requests[o].former
      BY <1>1, <2>1 DEF Awaited
    <3>2. o # i /\ ~(o < i)
      BY <1>1, <2>1, <3>1 DEF LateFirst
    <3> QED BY <1>3, <3>1, <3>2
  <2>2. CASE ~requests[i].late /\ ~requests[i].former /\ docs'.of = requests[i].kb
    <3>1. ~(i < i)
      BY <1>2
    <3> QED BY <1>6, <2>2, <3>1
  <2> QED BY <2>1, <2>2
<1> QED BY <1>3, <1>5, <1>7, <1>8

\* What the page of documents keeps.
PageInv == DocumentTypes /\ NothingBefore /\ ListInv

LEMMA UploadFields ==
    ASSUME NEW u \in Uploads \cup {NoUpload}
    PROVE  /\ [u EXCEPT !.here = FALSE] \in Uploads \cup {NoUpload}
           /\ u = NoUpload => [u EXCEPT !.here = FALSE] = NoUpload
           /\ u # NoUpload => u.kb \in KB /\ [u EXCEPT !.stored = TRUE] \in Uploads
           /\ u.stored => u # NoUpload
<1>1. /\ [NoUpload EXCEPT !.here = FALSE] = NoUpload
      /\ NoUpload.stored = FALSE
  <2>1. ASSUME NEW r \in [kb : {None}, stored : {FALSE}, here : {FALSE}]
        PROVE  r = [kb |-> None, stored |-> FALSE, here |-> FALSE]
    OBVIOUS
  <2>2. NoUpload \in [kb : {None}, stored : {FALSE}, here : {FALSE}]
    BY DEF NoUpload
  <2>3. [NoUpload EXCEPT !.here = FALSE] \in [kb : {None}, stored : {FALSE}, here : {FALSE}]
    BY <2>2
  <2> QED BY <2>1, <2>3 DEF NoUpload
<1>2. CASE u \in Uploads
  <2>1. /\ [u EXCEPT !.here = FALSE] \in Uploads /\ [u EXCEPT !.stored = TRUE] \in Uploads
        /\ u.kb \in KB
    BY <1>2 DEF Uploads
  <2>2. u = NoUpload => u.stored = FALSE /\ [u EXCEPT !.here = FALSE] = NoUpload
    BY <1>1
  <2> QED BY <2>1, <2>2
<1>3. CASE u = NoUpload
  BY <1>1, <1>3
<1> QED BY <1>2, <1>3

\* The page begins anew.
LEMMA PageOpens ==
    ASSUME IInv, OpenKnowledgeBase \/ OpenConversations \/ OpenChat
    PROVE  PageInv'
<1>1. /\ selected' = selected /\ selected \in KB \cup {None} /\ runs \in {1, 2}
      /\ upload \in Uploads \cup {NoUpload} /\ NothingBefore
  BY DEF IInv, SelectionTypes, DocumentTypes, OpenKnowledgeBase, OpenConversations,
         OpenChat, KeepSelection, selectionVars
<1>2. PICK first : NewPage(first) /\ \/ first = <<>>
                                     \/ /\ selected # None
                                        /\ first = [i \in 1..runs |-> Request(selected, selected)]
  BY DEF OpenKnowledgeBase, OpenConversations, OpenChat, MountPage, UnmountPage
<1>3. /\ docs' = NoDocs /\ requests' = first /\ timers' = <<>> /\ cause' = "none"
      /\ upload' = [upload EXCEPT !.here = FALSE]
  BY <1>2 DEF NewPage
<1>4. upload' \in Uploads \cup {NoUpload} /\ (upload = NoUpload => upload' = NoUpload)
  BY <1>1, <1>3, UploadFields
<1>5. \/ first = <<>> /\ first \in Seq(Requests) /\ DOMAIN first = {}
      \/ /\ selected # None /\ first \in Seq(Requests) /\ DOMAIN first = 1..runs
         /\ \A j \in DOMAIN first :
              first[j].kb = selected /\ ~first[j].late /\ ~first[j].former
  <2>1. CASE first = <<>>
    BY <2>1
  <2>2. CASE selected # None /\ first = [i \in 1..runs |-> Request(selected, selected)]
    <3> DEFINE q == Request(selected, selected)
    <3>1. q \in Requests /\ q.kb = selected /\ q.late = FALSE /\ q.former = FALSE
      BY ZenonT(30), <1>1, <2>2, RequestTyped
    <3>2. first = [i \in 1..runs |-> q]
      BY <2>2
    <3> HIDE DEF q
    <3>3. first \in Seq(Requests) /\ DOMAIN first = 1..runs /\ \A j \in 1..runs : first[j] = q
      BY <1>1, <3>1, <3>2
    <3> QED BY <2>2, <3>1, <3>3
  <2> QED BY <1>2, <2>1, <2>2
<1>6. DocumentTypes'
  BY <1>3, <1>4, <1>5, NoDocsTyped DEF DocumentTypes
<1>7. NothingBefore'
  BY <1>1, <1>2, <1>3, <1>4, NoDocsTyped DEF NothingBefore
<1>8. ListInv'
  <2> SUFFICES ASSUME route' = "kb" PROVE (LateFirst /\ Followed /\ Awaited)'
    BY DEF ListInv
  <2>1. selected # None => first = [i \in 1..runs |-> Request(selected, selected)]
    BY <1>3 DEF OpenKnowledgeBase, OpenConversations, OpenChat, MountPage, NewPage
  <2>2. selected # None => DOMAIN first # {}
    <3>1. 1 \in 1..runs
      BY <1>1
    <3> QED BY <2>1, <3>1
  <2>3. \A j \in DOMAIN requests' :
           requests'[j].kb = selected' /\ ~requests'[j].late /\ ~requests'[j].former
    BY <1>1, <1>3, <1>5
  <2>4. LateFirst' /\ Followed'
    BY <2>3 DEF LateFirst, Followed
  <2>5. Awaited'
    BY <1>1, <1>3, <2>2, <2>3 DEF Awaited
  <2> QED BY <2>4, <2>5
<1> QED BY <1>6, <1>7, <1>8 DEF PageInv

\* The provider answers, or the user picks.
LEMMA SelectionKeepsPage ==
    ASSUME IInv, Selection, SelectionTypes'
    PROVE  PageInv'
<1>1. /\ DocumentTypes /\ NothingBefore /\ ListInv /\ route' = route
      /\ selected' = selected \/ selected' \in KB
      /\ IF route = "kb" THEN SelectionChanges ELSE UNCHANGED documentVars
  BY FirstKB DEF IInv, Selection, ListAnswered, ListFails, Pick, KB
<1>2. UNCHANGED <<docs, timers, cause, upload>>
  BY <1>1 DEF SelectionChanges, serverVars, documentVars, pageVars
<1>3. selected' \in KB => selected' # None
  BY SelectionAssumption DEF KB
<1>4. CASE requests' = requests /\ (selected' = selected \/ route # "kb")
  <2>1. DocumentTypes'
    BY <1>1, <1>2, <1>4 DEF DocumentTypes
  <2>2. NothingBefore'
    BY <1>1, <1>2, <1>3, <1>4 DEF NothingBefore
  <2>3. CASE route # "kb"
    BY <1>1, <2>1, <2>2, <2>3 DEF ListInv, PageInv
  <2>4. CASE route = "kb"
    <3>1. (LateFirst /\ Followed /\ Awaited)'
      BY <1>1, <1>2, <1>4, <2>4, SameRequests
    <3> QED BY <2>1, <2>2, <3>1 DEF ListInv, PageInv
  <2> QED BY <2>3, <2>4
<1>5. CASE route = "kb" /\ selected' # selected
  <2>1. selected' \in KB /\ selected' # None
    BY <1>1, <1>3, <1>5
  <2>2. requests' = requests \o [i \in 1..1 |-> Request(selected', selected')]
    BY <1>1, <1>5, <2>1 DEF SelectionChanges, FetchOnSelection, Fetch
  <2>3. requests' \in Seq(Requests) /\ (LateFirst /\ Followed /\ Awaited)'
    BY <1>1, <1>2, <1>5, <2>1, <2>2, RequestAdded
  <2>4. DocumentTypes' /\ NothingBefore'
    BY <1>1, <1>2, <2>1, <2>3 DEF DocumentTypes, NothingBefore
  <2> QED BY <2>3, <2>4 DEF ListInv, PageInv
<1> QED BY <1>1, <1>4, <1>5 DEF SelectionChanges, FetchOnSelection, documentVars, pageVars

\* The user and the timers of the page, and the answers to its requests.
LEMMA DocumentPageKeeps ==
    ASSUME IInv, DocumentPage
    PROVE  PageInv'
<1>1. /\ DocumentTypes /\ NothingBefore /\ ListInv /\ route = "kb" /\ route' = "kb"
      /\ selected' = selected /\ selected \in KB \cup {None}
      /\ LateFirst /\ Followed /\ Awaited
  BY DEF IInv, DocumentPage, On, SelectionTypes, selectionVars, ListInv
<1>2. ASSUME NEW kb \in KB, kb = selected \/ timers # <<>>, Fetch(kb, selected, 1),
             UNCHANGED <<docs, cause, upload>>, timers' \in Seq(KB)
      PROVE  PageInv'
  <2>1. kb # None
    BY SelectionAssumption DEF KB
  <2>2. requests' = requests \o [i \in 1..1 |-> Request(kb, selected')]
    BY <1>1, <1>2, <2>1 DEF Fetch
  <2>3. requests' \in Seq(Requests) /\ (LateFirst /\ Followed /\ Awaited)'
    BY <1>1, <1>2, <2>2, RequestAdded
  <2>4. selected' # None
    BY <1>1, <1>2, <2>1 DEF NothingBefore
  <2> QED BY <1>1, <1>2, <2>3, <2>4 DEF PageInv, DocumentTypes, NothingBefore, ListInv
<1>3. ASSUME UNCHANGED <<docs, cause, timers>>, requests' \in Seq(Requests),
             DOMAIN requests' = DOMAIN requests, requests = <<>> => requests' = <<>>,
             \A j \in DOMAIN requests :
                /\ requests'[j].kb = requests[j].kb /\ requests'[j].late = requests[j].late
                /\ requests'[j].former = requests[j].former,
             upload' \in Uploads \cup {NoUpload},
             selected = None => upload' = NoUpload
      PROVE  PageInv'
  <2>1. (LateFirst /\ Followed /\ Awaited)'
    BY <1>1, <1>3, SameRequests
  <2> QED BY <1>1, <1>3, <2>1 DEF PageInv, DocumentTypes, NothingBefore, ListInv
<1>4. ASSUME NEW i \in DOMAIN requests, Over(i), UNCHANGED <<timers, upload>>,
             docs' \in [of : KB \cup {None}, pending : BOOLEAN],
             \/ docs' = docs /\ cause' = IF requests[i].late THEN cause ELSE "failed"
             \/ /\ docs'.of = requests[i].kb
                /\ requests[i].late \/ requests[i].former => cause' # "none"
      PROVE  PageInv'
  <2>1. requests' \in Seq(Requests) /\ (LateFirst /\ Followed /\ Awaited)'
    BY <1>1, <1>4, OverKeeps
  <2>2. requests # <<>>
    BY <1>4
  <2> QED BY <1>1, <1>4, <2>1, <2>2 DEF PageInv, DocumentTypes, NothingBefore, ListInv
<1>5. CASE Poll \/ Refetch
  <2>1. Refetch
    BY <1>5 DEF Poll
  <2> QED BY <1>1, <1>2, <2>1 DEF Refetch, serverVars, DocumentTypes
<1>6. ASSUME NEW chosen, ChooseFile(chosen)
      PROVE  PageInv'
  BY <1>1, <1>3, <1>6 DEF ChooseFile, serverVars, DocumentTypes, NothingBefore
<1>7. CASE HandleUpload
  <2>1. upload' \in Uploads /\ selected # None
    BY <1>1, <1>7 DEF HandleUpload, Uploads
  <2> QED BY <1>1, <1>3, <1>7, <2>1 DEF HandleUpload, DocumentTypes
<1>8. CASE TimerFires
  <2>1. timers \in Seq(KB) /\ timers # <<>> /\ timers' = Tail(timers)
        /\ Fetch(Head(timers), selected, 1)
    BY <1>1, <1>8 DEF TimerFires, DocumentTypes
  <2>2. Head(timers) \in KB /\ timers' \in Seq(KB)
    BY <2>1, HeadTailProperties
  <2> QED BY <1>2, <1>8, <2>1, <2>2 DEF TimerFires, serverVars
<1>9. ASSUME NEW i \in DOMAIN requests, ServeList(i)
      PROVE  PageInv'
  <2>1. PICK a \in {"pending", "settled"} :
           requests' = [requests EXCEPT ![i] = [requests[i] EXCEPT !.answer = a]]
    BY <1>9 DEF ServeList
  <2>2. requests \in Seq(Requests) /\ requests[i] \in Requests
    BY <1>1, <1>9 DEF DocumentTypes
  <2> DEFINE r == requests[i]
             m == [r EXCEPT !.answer = a]
  <2>3. m \in Requests /\ m.kb = r.kb /\ m.late = r.late /\ m.former = r.former
    BY <2>2 DEF Requests
  <2>4. requests' = [requests EXCEPT ![i] = m]
    BY <2>1
  <2> HIDE DEF m
  <2>5. /\ requests' \in Seq(Requests) /\ DOMAIN requests' = DOMAIN requests
        /\ \A j \in DOMAIN requests : requests'[j] = IF j = i THEN m ELSE requests[j]
    BY <2>2, <2>3, <2>4
  <2>6. requests # <<>>
    BY <1>9
  <2> QED BY <1>1, <1>3, <1>9, <2>3, <2>5, <2>6
        DEF ServeList, serverVars, DocumentTypes, NothingBefore
<1>10. ASSUME NEW i \in DOMAIN requests, ShowList(i)
       PROVE  PageInv'
  <2>1. requests[i] \in Requests
    BY <1>1, <1>10 DEF DocumentTypes
  <2>2. requests[i].kb \in KB /\ requests[i].late \in BOOLEAN /\ requests[i].former \in BOOLEAN
    BY <2>1 DEF Requests
  <2>3. docs' = [of |-> requests[i].kb, pending |-> requests[i].answer = "pending"]
    BY <1>10 DEF ShowList
  <2>4. docs' \in [of : KB \cup {None}, pending : BOOLEAN] /\ docs'.of = requests[i].kb
    BY <2>2, <2>3
  <2>5. requests[i].late \/ requests[i].former => cause' # "none"
    BY <1>10, <2>2 DEF ShowList
  <2> QED BY <1>4, <1>10, <2>4, <2>5 DEF ShowList, serverVars
<1>11. ASSUME NEW i \in DOMAIN requests, ListRequestFails(i)
       PROVE  PageInv'
  BY <1>1, <1>4, <1>11 DEF ListRequestFails, serverVars, DocumentTypes
<1> QED BY <1>5, <1>6, <1>7, <1>8, <1>9, <1>10, <1>11 DEF DocumentPage

\* The API and the upload, wherever the user is.
LEMMA ServerKeepsPage ==
    ASSUME IInv, Server
    PROVE  PageInv'
<1>1. /\ DocumentTypes /\ NothingBefore /\ ListInv /\ route' = route
      /\ selected' = selected /\ UNCHANGED <<docs, requests, cause>>
      /\ upload \in Uploads \cup {NoUpload} /\ timers \in Seq(KB)
  BY DEF IInv, Server, selectionVars, StoreUpload, UploadSucceeds, UploadFails,
         IngestionSettles, pageVars, DocumentTypes
<1>2. /\ timers' \in Seq(KB) /\ upload' \in Uploads \cup {NoUpload}
      /\ upload = NoUpload => upload' = NoUpload /\ timers' = timers
  <2>1. CASE StoreUpload
    BY <1>1, <2>1, UploadFields DEF StoreUpload, pageVars
  <2>2. CASE UploadSucceeds
    <3>1. upload # NoUpload /\ upload.kb \in KB
      BY <1>1, <2>2, UploadFields DEF UploadSucceeds
    <3>2. Append(timers, upload.kb) \in Seq(KB)
      BY <1>1, <3>1, AppendProperties
    <3> QED BY <1>1, <2>2, <3>1, <3>2 DEF UploadSucceeds
  <2>3. CASE UploadFails
    BY <1>1, <2>3 DEF UploadFails
  <2>4. ASSUME NEW kb, IngestionSettles(kb)
        PROVE  <1>2!1 /\ <1>2!2
    BY <1>1, <2>4 DEF IngestionSettles, pageVars
  <2> QED BY <2>1, <2>2, <2>3, <2>4 DEF Server
<1>3. DocumentTypes' /\ NothingBefore'
  BY <1>1, <1>2 DEF DocumentTypes, NothingBefore
<1>4. ListInv'
  BY <1>1 DEF ListInv, LateFirst, Followed, Awaited
<1> QED BY <1>3, <1>4 DEF PageInv

LEMMA PageKeeps ==
    ASSUME IInv, [Next]_vars, SelectionTypes'
    PROVE  PageInv'
<1>1. CASE UNCHANGED <<documentVars, selectionVars, route>>
  BY <1>1 DEF IInv, PageInv, DocumentTypes, NothingBefore, ListInv, LateFirst, Followed,
              Awaited, documentVars, pageVars, serverVars, selectionVars
<1>2. CASE ChatPage \/ ConversationsPage \/ UNCHANGED vars
  BY <1>1, <1>2 DEF ChatPage, ConversationsPage, On, vars
<1> QED BY <1>2, PageOpens, SelectionKeepsPage, DocumentPageKeeps, ServerKeepsPage DEF Next

-----------------------------------------------------------------------------
(* The chat page                                                           *)

PageOfChat == ChatTypes /\ ChatInv

LEMMA CallTyped ==
    ASSUME NEW kind \in {"ask", "load"}, NEW c \in Conversations \cup {None}
    PROVE  /\ Call(kind, c) \in Calls /\ Call(kind, c).kind = kind /\ Call(kind, c).conv = c
           /\ Call(kind, c).answer = None /\ Call(kind, c).left = FALSE
BY DEF Call, Calls

LEMMA CallFields ==
    ASSUME NEW r \in Calls
    PROVE  /\ r.kind \in {"ask", "load"} /\ r.conv \in Conversations \cup {None}
           /\ r.answer \in Conversations \cup {None} /\ r.left \in BOOLEAN
BY DEF Calls

\* The requests that are left when one has ended.
LEMMA CallEnds ==
    ASSUME calls \in Seq(Calls), NEW i \in DOMAIN calls, calls' = RemoveAt(calls, i)
    PROVE  /\ calls' \in Seq(Calls)
           /\ \A j \in DOMAIN calls' :
                From(i, j) \in DOMAIN calls \ {i} /\ calls'[j] = calls[From(i, j)]
           /\ \A j, k \in DOMAIN calls' : From(i, j) = From(i, k) => j = k
<1> DEFINE n == Len(calls)
<1>1. n \in Nat /\ DOMAIN calls = 1..n /\ i \in 1..n
  OBVIOUS
<1>2. /\ calls' \in Seq(Calls) /\ Len(calls') = n - 1
      /\ \A j \in 1..(n - 1) : calls'[j] = IF j < i THEN calls[j] ELSE calls[j + 1]
  BY <1>1, Without
<1> HIDE DEF n
<1>3. DOMAIN calls' = 1..(n - 1)
  BY <1>1, <1>2
<1>4. ASSUME NEW j \in 1..(n - 1)
      PROVE  From(i, j) \in 1..n /\ From(i, j) # i /\ calls'[j] = calls[From(i, j)]
  <2>1. CASE j < i
    BY <1>1, <1>2, <2>1 DEF From
  <2>2. CASE j >= i
    BY <1>1, <1>2, <2>2 DEF From
  <2> QED BY <1>1, <2>1, <2>2
<1>5. \A j, k \in 1..(n - 1) : From(i, j) = From(i, k) => j = k
  BY <1>1 DEF From
<1> QED BY <1>1, <1>2, <1>3, <1>4, <1>5

\* A request ends, and shows what it has of the conversation of the page.
LEMMA EndKeeps ==
    ASSUME ChatTypes, ChatInv, NEW i \in DOMAIN calls,
           calls' = RemoveAt(calls, i), busy' = FALSE,
           crossed' = (crossed \/ calls[i].left),
           UNCHANGED <<stored, history>>, conv' \in Conversations \cup {None},
           transcript' \subseteq Conversations,
           ~crossed /\ ~calls[i].left =>
              /\ transcript' \subseteq {conv'}
              /\ conv' = conv \/ (conv = None /\ conv' # None)
    PROVE  PageOfChat'
<1>1. calls \in Seq(Calls) /\ \A j \in DOMAIN calls : calls[j] \in Calls
  BY DEF ChatTypes
<1>2. /\ calls' \in Seq(Calls)
      /\ \A j \in DOMAIN calls' :
           From(i, j) \in DOMAIN calls \ {i} /\ calls'[j] = calls[From(i, j)]
      /\ \A j, k \in DOMAIN calls' : From(i, j) = From(i, k) => j = k
  BY <1>1, CallEnds
<1>3. ChatTypes'
  <2>1. crossed' \in BOOLEAN /\ busy' \in BOOLEAN
    OBVIOUS
  <2> QED BY <1>2, <2>1 DEF ChatTypes
<1>4. \A j \in DOMAIN calls' :
        /\ calls'[j].kind = "load" => calls'[j].conv # None
        /\ calls'[j].answer # None /\ calls'[j].conv # None => calls'[j].answer = calls'[j].conv
  BY <1>2 DEF ChatInv
<1>5. ASSUME ~crossed'
      PROVE  /\ transcript' \subseteq {conv'}
             /\ \A j \in DOMAIN calls' : ~calls'[j].left => calls'[j].conv = conv'
             /\ conv' = None => \A j, k \in DOMAIN calls' :
                   ~calls'[j].left /\ ~calls'[k].left => j = k /\ busy'
  <2>1. ~crossed /\ ~calls[i].left
    BY <1>5
  <2>2. /\ \A j \in DOMAIN calls : ~calls[j].left => calls[j].conv = conv
        /\ conv = None => \A j, k \in DOMAIN calls :
             ~calls[j].left /\ ~calls[k].left => j = k
    BY <2>1 DEF ChatInv, Staying
  <2>3. conv = None => \A j \in DOMAIN calls' : calls'[j].left
    BY <1>1, <1>2, <2>1, <2>2
  <2> QED BY <1>2, <2>1, <2>2, <2>3
<1> QED BY <1>3, <1>4, <1>5 DEF PageOfChat, ChatInv, Staying

LEMMA ChatPageKeeps ==
    ASSUME IInv, ChatPage
    PROVE  PageOfChat'
<1>1. /\ ChatTypes /\ ChatInv /\ calls \in Seq(Calls)
      /\ conv \in Conversations \cup {None} /\ None \notin Conversations
      /\ transcript \subseteq Conversations /\ None \notin transcript
      /\ \A j \in DOMAIN calls : calls[j] \in Calls
  BY ConversationAssumption DEF IInv, ChatTypes
<1>2. CASE HandleSubmit
  <2> DEFINE q == Call("ask", conv)
             n == Len(calls)
  <2>1. q \in Calls /\ q.kind = "ask" /\ q.conv = conv /\ q.answer = None /\ q.left = FALSE
    BY <1>1, CallTyped
  <2>2. /\ ~busy /\ busy' = TRUE /\ calls' = Append(calls, q)
        /\ transcript' = transcript \cup ({conv} \ {None})
        /\ UNCHANGED <<conv, stored, history, crossed>>
    BY <1>2 DEF HandleSubmit
  <2>3. n \in Nat /\ DOMAIN calls = 1..n
    BY <1>1
  <2> HIDE DEF q
  <2>4. /\ calls' \in Seq(Calls) /\ Len(calls') = n + 1
        /\ \A j \in 1..n : calls'[j] = calls[j]
        /\ calls'[n + 1] = q
    BY <1>1, <2>1, <2>2, AppendProperties
  <2> HIDE DEF n
  <2>5. DOMAIN calls' = 1..(n + 1) /\ \A j \in 1..(n + 1) : j \in 1..n \/ j = n + 1
    BY <2>3, <2>4
  <2>6. ChatTypes'
    BY <1>1, <2>2, <2>4 DEF ChatTypes
  <2>7. \A j \in DOMAIN calls' :
          /\ calls'[j].kind = "load" => calls'[j].conv # None
          /\ calls'[j].answer # None /\ calls'[j].conv # None => calls'[j].answer = calls'[j].conv
    BY <1>1, <2>1, <2>3, <2>4, <2>5 DEF ChatInv
  <2>8. ASSUME ~crossed
        PROVE  /\ transcript' \subseteq {conv}
               /\ \A j \in DOMAIN calls' : ~calls'[j].left => calls'[j].conv = conv
               /\ conv = None => \A j, k \in DOMAIN calls' :
                     ~calls'[j].left /\ ~calls'[k].left => j = k
    <3>1. /\ transcript \subseteq {conv}
          /\ \A j \in DOMAIN calls : ~calls[j].left => calls[j].conv = conv
          /\ conv = None => \A j \in DOMAIN calls : calls[j].left
      BY <1>1, <2>2, <2>8 DEF ChatInv, Staying
    <3>2. conv = None => \A j \in 1..n : calls'[j].left
      BY <2>3, <2>4, <3>1
    <3>3. conv = None => \A j, k \in DOMAIN calls' : ~calls'[j].left /\ ~calls'[k].left => j = k
      BY <2>5, <3>2
    <3> QED BY <2>1, <2>2, <2>3, <2>4, <2>5, <3>1, <3>3
  <2> QED BY <2>2, <2>6, <2>7, <2>8 DEF PageOfChat, ChatInv, Staying
<1>3. CASE NewChat
  <2>1. /\ conv' = None /\ transcript' = {} /\ crossed' = FALSE
        /\ calls' = [j \in DOMAIN calls |-> [calls[j] EXCEPT !.left = TRUE]]
        /\ UNCHANGED <<busy, stored, history>>
    BY <1>3 DEF NewChat, Cleared
  <2>2. ASSUME NEW r \in Calls
        PROVE  LET m == [r EXCEPT !.left = TRUE] IN
               m \in Calls /\ m.left /\ m.kind = r.kind /\ m.conv = r.conv /\ m.answer = r.answer
    BY DEF Calls
  <2>3. /\ DOMAIN calls' = DOMAIN calls
        /\ \A j \in DOMAIN calls :
             /\ calls'[j] \in Calls /\ calls'[j].left
             /\ calls'[j].kind = calls[j].kind /\ calls'[j].conv = calls[j].conv
             /\ calls'[j].answer = calls[j].answer
    BY <1>1, <2>1, <2>2
  <2>4. calls' \in Seq(Calls)
    <3>1. calls' = [j \in 1..Len(calls) |-> calls'[j]]
      BY <1>1, <2>1
    <3>2. Len(calls) \in Nat /\ \A j \in 1..Len(calls) : calls'[j] \in Calls
      BY <1>1, <2>3
    <3>3. [j \in 1..Len(calls) |-> calls'[j]] \in Seq(Calls)
      BY <3>2, IsASeq
    <3> QED BY <3>1, <3>3, Zenon
  <2>5. ChatTypes'
    BY <1>1, <2>1, <2>4 DEF ChatTypes
  <2> QED BY <1>1, <2>1, <2>3, <2>5 DEF PageOfChat, ChatInv, Staying
<1>4. ASSUME NEW i \in DOMAIN calls, NEW c \in Conversations, Serve(i, c)
      PROVE  PageOfChat'
  <2> DEFINE r == calls[i]
             m == [r EXCEPT !.answer = c]
  <2>1. r \in Calls
    BY <1>1, <1>4
  <2>2. /\ stored' = stored \cup {c} /\ calls' = [calls EXCEPT ![i] = m]
        /\ UNCHANGED <<conv, transcript, busy, history, crossed>>
        /\ r.conv # None => c = r.conv
    BY <1>4 DEF Serve
  <2>3. m \in Calls /\ m.kind = r.kind /\ m.conv = r.conv /\ m.left = r.left /\ m.answer = c
    BY <2>1 DEF Calls
  <2> HIDE DEF m
  <2>4. /\ calls' \in Seq(Calls) /\ DOMAIN calls' = DOMAIN calls
        /\ \A j \in DOMAIN calls : calls'[j] = IF j = i THEN m ELSE calls[j]
    BY <1>1, <1>4, <2>2, <2>3
  <2>5. ChatTypes'
    BY <1>1, <2>2, <2>4 DEF ChatTypes
  <2>6. \A j \in DOMAIN calls :
          /\ calls'[j].kind = calls[j].kind /\ calls'[j].conv = calls[j].conv
          /\ calls'[j].left = calls[j].left
          /\ calls'[j].answer = IF j = i THEN c ELSE calls[j].answer
    BY <2>3, <2>4
  <2> QED BY <1>1, <2>2, <2>4, <2>5, <2>6 DEF PageOfChat, ChatInv, Staying
<1>5. ASSUME NEW i \in DOMAIN calls, ~crossed, ~calls[i].left
      PROVE  calls[i].conv = conv /\ transcript \subseteq {conv}
  BY <1>1, <1>5 DEF ChatInv, Staying
<1>6. ASSUME NEW i \in DOMAIN calls, AnswerArrives(i)
      PROVE  PageOfChat'
  <2>1. /\ calls[i].answer # None /\ calls[i].answer \in Conversations
        /\ calls[i].conv # None => calls[i].answer = calls[i].conv
    BY <1>1, <1>6, CallFields DEF AnswerArrives, ChatInv
  <2>2. /\ conv' = IF calls[i].conv = None THEN calls[i].answer ELSE conv
        /\ transcript' = transcript \cup {calls[i].answer} /\ busy' = FALSE
        /\ crossed' = (crossed \/ calls[i].left) /\ calls' = RemoveAt(calls, i)
        /\ UNCHANGED <<stored, history>>
    BY <1>6 DEF AnswerArrives
  <2>3. conv' \in Conversations \cup {None} /\ transcript' \subseteq Conversations
    BY <1>1, <2>1, <2>2
  <2>4. ~crossed /\ ~calls[i].left => /\ transcript' \subseteq {conv'}
                                      /\ conv' = conv \/ (conv = None /\ conv' # None)
    BY <1>1, <1>5, <2>1, <2>2
  <2> QED BY <1>1, <2>2, <2>3, <2>4, EndKeeps
<1>7. ASSUME NEW i \in DOMAIN calls, MessagesArrive(i)
      PROVE  PageOfChat'
  <2>1. calls[i].conv \in Conversations
    BY <1>1, <1>7, CallFields DEF MessagesArrive, ChatInv
  <2>2. /\ transcript' = {calls[i].conv} \/ transcript' = transcript
        /\ conv' = conv /\ busy' = FALSE
        /\ crossed' = (crossed \/ calls[i].left) /\ calls' = RemoveAt(calls, i)
        /\ UNCHANGED <<stored, history>>
    BY <1>7 DEF MessagesArrive
  <2>3. ~crossed /\ ~calls[i].left => transcript' \subseteq {conv'}
    BY <1>5, <2>2
  <2> QED BY <1>1, <2>1, <2>2, <2>3, EndKeeps
<1>8. ASSUME NEW i \in DOMAIN calls, CallFails(i)
      PROVE  PageOfChat'
  <2>1. /\ UNCHANGED <<conv, transcript, stored, history>> /\ busy' = FALSE
        /\ crossed' = (crossed \/ calls[i].left) /\ calls' = RemoveAt(calls, i)
    BY <1>8 DEF CallFails
  <2>2. ~crossed /\ ~calls[i].left => transcript' \subseteq {conv'}
    BY <1>5, <2>1
  <2> QED BY <1>1, <2>1, <2>2, EndKeeps
<1> QED BY <1>2, <1>3, <1>4, <1>6, <1>7, <1>8 DEF ChatPage

LEMMA ChatOpens ==
    ASSUME IInv, OpenChat
    PROVE  PageOfChat'
<1>1. /\ ChatTypes /\ None \notin Conversations /\ runs \in {1, 2} /\ UNCHANGED stored
      /\ history \subseteq Conversations
  BY ConversationAssumption DEF IInv, ChatTypes, SelectionTypes, OpenChat
<1>2. PICK resumed \in {None} \cup history : MountChat(resumed)
  BY DEF OpenChat
<1>3. /\ conv' = resumed /\ transcript' = {} /\ busy' = (resumed # None) /\ history' = {}
      /\ crossed' = FALSE
      /\ calls' = IF resumed = None THEN <<>> ELSE [i \in 1..runs |-> Call("load", resumed)]
  BY <1>2 DEF MountChat
<1>4. /\ calls' \in Seq(Calls)
      /\ \A j \in DOMAIN calls' :
           calls'[j].conv = resumed /\ calls'[j].answer = None /\ resumed # None
  <2>1. CASE resumed = None
    BY <1>3, <2>1
  <2>2. CASE resumed # None
    <3> DEFINE q == Call("load", resumed)
    <3>1. q \in Calls /\ q.conv = resumed /\ q.answer = None
      BY <1>1, CallTyped
    <3>2. calls' = [i \in 1..runs |-> q]
      BY <1>3, <2>2
    <3> HIDE DEF q
    <3>3. calls' \in Seq(Calls) /\ DOMAIN calls' = 1..runs /\ \A j \in 1..runs : calls'[j] = q
      BY <1>1, <3>1, <3>2
    <3> QED BY <2>2, <3>1, <3>3
  <2> QED BY <2>1, <2>2
<1>5. ChatTypes'
  <2>1. busy' \in BOOLEAN /\ crossed' \in BOOLEAN
    BY <1>3
  <2> QED BY <1>1, <1>3, <1>4, <2>1 DEF ChatTypes
<1> QED BY <1>3, <1>4, <1>5 DEF PageOfChat, ChatInv, Staying

LEMMA ChatLeft ==
    ASSUME IInv, OpenKnowledgeBase \/ OpenConversations
    PROVE  PageOfChat'
<1>1. PICK reached \in MayStart : UnmountChat(reached) /\ history' = {}
  BY DEF OpenKnowledgeBase, OpenConversations
<1>2. /\ conv' = None /\ transcript' = {} /\ busy' = FALSE /\ calls' = <<>>
      /\ crossed' = FALSE /\ stored' = stored \cup reached /\ reached \subseteq Conversations
  BY <1>1 DEF UnmountChat, MayStart
<1>3. ChatTypes'
  <2>1. stored \subseteq Conversations
    BY DEF IInv, ChatTypes
  <2>2. busy' \in BOOLEAN /\ crossed' \in BOOLEAN
    BY <1>2, Zenon
  <2>3. calls' \in Seq(Calls)
    BY <1>2
  <2> QED BY <1>1, <1>2, <2>1, <2>2, <2>3 DEF ChatTypes
<1> QED BY <1>2, <1>3 DEF PageOfChat, ChatInv, Staying

LEMMA ChatKeeps ==
    ASSUME IInv, [Next]_vars
    PROVE  PageOfChat'
<1>1. CASE UNCHANGED chatVars
  BY <1>1 DEF IInv, PageOfChat, ChatTypes, ChatInv, Staying, chatVars
<1>2. CASE ConversationsPage
  BY <1>2 DEF ConversationsPage, HistoryArrives, IInv, PageOfChat, ChatTypes, ChatInv, Staying
<1> QED BY <1>1, <1>2, ChatOpens, ChatLeft, ChatPageKeeps
        DEF Next, vars, Selection, DocumentPage, Server

-----------------------------------------------------------------------------
(* The results                                                             *)

LEMMA InitIInv == Init => IInv
<1> SUFFICES ASSUME Init PROVE IInv
  OBVIOUS
<1>1. SelectionTypes /\ SelectionInv
  <2>1. /\ runs \in {1, 2} /\ starting = runs /\ loading = TRUE /\ listed = FALSE
        /\ selected = None /\ choice = None
    BY SelectionAssumption DEF Init, SelectionInit
  <2>2. loading \in BOOLEAN /\ listed \in BOOLEAN
    BY <2>1, Zenon
  <2>3. starting \in Nat
    BY <2>1
  <2>4. SelectionTypes
    BY <2>1, <2>2, <2>3, Zenon DEF SelectionTypes
  <2> QED BY <2>1, <2>4 DEF SelectionInv
<1>2. DocumentTypes /\ NothingBefore /\ ListInv
  BY NoDocsTyped DEF Init, SelectionInit, DocumentInit, DocumentTypes, NothingBefore, ListInv
<1>3. ChatTypes /\ ChatInv
  <2>1. /\ conv = None /\ transcript = {} /\ busy = FALSE /\ calls = <<>> /\ stored = {}
        /\ history = {} /\ crossed = FALSE
    BY DEF Init, ChatInit
  <2>2. busy \in BOOLEAN /\ crossed \in BOOLEAN
    BY <2>1, Zenon
  <2>3. calls \in Seq(Calls) /\ DOMAIN calls = {}
    BY <2>1
  <2>4. ChatTypes
    BY <2>1, <2>2, <2>3, Zenon DEF ChatTypes
  <2> QED BY <2>1, <2>3, <2>4 DEF ChatInv, Staying
<1> QED BY <1>1, <1>2, <1>3 DEF IInv

LEMMA NextKeepsIInv == IInv /\ [Next]_vars => IInv'
BY SelectionKeeps, PageKeeps, ChatKeeps DEF PageInv, PageOfChat, IInv

\* The invariant of the pages holds in every reachable state.
THEOREM ViewInductive == Spec => []IInv
BY InitIInv, NextKeepsIInv, PTL DEF Spec

\* What the user picked stays picked, in the build that runs effects once; in
\* the one that runs them twice only a second answer of the list replaces it,
\* by the first item (KBContext.tsx:43).
THEOREM PickedStays == Spec => []ChoiceStands
<1>1. IInv => ChoiceStands
  BY DEF IInv, SelectionInv, ChoiceStands
<1> QED BY <1>1, ViewInductive, PTL

\* When nothing is under way, the list of another knowledge base is shown only
\* for one of the causes the page has: answers out of order, a failed request,
\* or the refresh after an upload (KnowledgeBaseView.tsx:19-42, :89).
THEOREM ListOfSelection == Spec => []ListIsOfSelection
<1>1. IInv => ListIsOfSelection
  <2> SUFFICES ASSUME IInv, route = "kb", requests = <<>>, selected # docs.of, cause = "none"
               PROVE  FALSE
    BY DEF ListIsOfSelection
  <2>1. selected # None
    BY DEF IInv, NothingBefore
  <2>2. PICK k \in DOMAIN requests : requests[k].kb = selected
    BY <2>1 DEF IInv, ListInv, Awaited
  <2> QED BY <2>2
<1> QED BY <1>1, ViewInductive, PTL

\* The messages shown are those of the conversation the next question goes to,
\* as long as no request has ended whose conversation the user had left by New
\* chat (ChatView.tsx:62-145, :154).
THEOREM TranscriptOfConversation == Spec => []TranscriptIsOfConversation
<1>1. IInv => TranscriptIsOfConversation
  BY DEF IInv, ChatInv, TranscriptIsOfConversation
<1> QED BY <1>1, ViewInductive, PTL

=============================================================================
