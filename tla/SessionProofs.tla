---------------------------- MODULE SessionProofs ----------------------------
(***************************************************************************)
(* Sessions for any number of users, tabs, requests, pairs and faults.       *)
(*                                                                         *)
(* Two things carry the argument.  A refresh that was checked while another  *)
(* one of its token was, or while a logout ran, is remembered from its check *)
(* to its transaction; and a pair in an answer has not been used by anybody, *)
(* because only the browser that receives it can present it.                 *)
(***************************************************************************)
EXTENDS Sessions, SequenceTheorems, TLAPS

\* A request refers to pairs that exist, and is where its kind can be.
RequestOK(r) ==
    /\ req[r].token \in Issued \cup {NoToken}
    /\ req[r].got \in Issued \cup {NoToken}
    /\ req[r].kind = "refresh" => req[r].token \in Issued
    /\ req[r].kind = "login" /\ req[r].at = "sent" => req[r].user \in Users
    /\ req[r].kind \in {"login", "refresh"} /\ req[r].at = "granted" => req[r].got \in Issued
    /\ req[r].at = "checked" => req[r].kind = "refresh"

\* A session belongs to the user of its login and descends from one that has
\* been revoked.
LineageOK ==
    \A n \in Issued :
        /\ session[n].login \in Issued
        /\ session[session[n].login].user = session[n].user
        /\ session[n].parent \in Issued \cup {NoToken}
        /\ session[n].parent # NoToken => Revoked(session[n].parent)

\* A token that is checked beside another request, or was exchanged already.
ChecksOK ==
    \A r \in Requests : At(r, "refresh", "checked") =>
        /\ \A q \in Requests \ {r} :
              At(q, "refresh", "checked") /\ req[q].token = req[r].token
                  => req[r].token \in overlap
        /\ \A n \in Issued : session[n].parent = req[r].token => req[r].token \in overlap
        /\ session[req[r].token].login \notin ended

\* The answer with a pair is on its way.
Carries(r) == At(r, "login", "granted") \/ At(r, "refresh", "granted")

\* Nobody knows a pair before its answer arrives.
AnswersOK ==
    \A r \in Requests : Carries(r) =>
        /\ session[req[r].got].revoked # "rotated"
        /\ store.refresh # req[r].got
        /\ \A q \in Requests :
              /\ req[q].kind = "refresh" => req[q].token # req[r].got
              /\ q # r /\ Carries(q) => req[q].got # req[r].got

\* Nothing is left in a tab that could bring its user back.
TabsOK ==
    \A t \in Tabs : left[t] => ~ armed[t] /\ ~ RefreshUnderWay(t)

IInv ==
    /\ TypeOK
    /\ \A r \in Requests : RequestOK(r)
    /\ LineageOK /\ ChecksOK /\ AnswersOK /\ TabsOK
    /\ OneExchangePerToken /\ LogoutEndsLogins
    /\ StoredTokenIsUnspent /\ OthersChangeTheUser

-----------------------------------------------------------------------------
\* The rows as a function on the pairs that exist.
LEMMA Rows ==
    ASSUME TypeOK
    PROVE  /\ Len(session) \in Nat
           /\ Issued = 1..Len(session)
           /\ Issued \subseteq Tokens \ {NoToken}
           /\ \A n \in Issued : session[n] \in SessionRow
<1>1. session \in Seq(SessionRow) /\ Len(session) <= MaxPairs
  BY DEF TypeOK
<1>2. Len(session) \in Nat /\ DOMAIN session = 1..Len(session)
  BY <1>1
<1>3. \A n \in 1..Len(session) : session[n] \in SessionRow
  BY <1>1, ElementOfSeq
<1> QED BY <1>1, <1>2, <1>3, AuthAssumption DEF Issued, Tokens, NoToken

\* The rows keep their user, login and parent, and no token is given back.
RowsKept ==
    /\ session' \in Seq(SessionRow)
    /\ Len(session') <= MaxPairs
    /\ Issued \subseteq Issued'
    /\ \A n \in Issued : /\ session'[n].user = session[n].user
                         /\ session'[n].login = session[n].login
                         /\ session'[n].parent = session[n].parent
                         /\ Revoked(n) => Revoked(n)'

\* One more row, after a change to one of the others.
LEMMA Appended ==
    ASSUME TypeOK, CanIssue, NEW row \in SessionRow, NEW base \in Seq(SessionRow),
           Len(base) = Len(session), session' = Append(base, row)
    PROVE  /\ session' \in Seq(SessionRow)
           /\ Len(session') <= MaxPairs
           /\ NextPair \in 1..MaxPairs
           /\ NextPair \notin Issued
           /\ Issued' = Issued \cup {NextPair}
           /\ session'[NextPair] = row
           /\ \A n \in Issued : session'[n] = base[n]
<1>1. Len(session) \in Nat /\ Issued = 1..Len(session)
  BY Rows
<1>2. /\ session' \in Seq(SessionRow)
      /\ Len(session') = Len(session) + 1
      /\ session'[Len(session) + 1] = row
      /\ \A n \in 1..Len(session) : session'[n] = base[n]
  BY AppendProperties
<1>3. Issued' = 1..(Len(session) + 1)
  BY <1>1, <1>2 DEF Issued
<1> QED BY <1>1, <1>2, <1>3, AuthAssumption DEF CanIssue, NextPair

\* A login adds a session that descends from nothing.
LEMMA IssueEffect ==
    ASSUME TypeOK, NEW user \in Users, IssueAtLogin(user)
    PROVE  /\ RowsKept
           /\ NextPair \notin Issued
           /\ Issued' = Issued \cup {NextPair}
           /\ \A n \in Issued : session'[n] = session[n]
           /\ session'[NextPair].user = user
           /\ session'[NextPair].login = NextPair
           /\ session'[NextPair].parent = NoToken
           /\ session'[NextPair].revoked = "no"
<1> DEFINE row == [user |-> user, login |-> NextPair, parent |-> NoToken,
                   revoked |-> "no", age |-> "fresh"]
<1>1. CanIssue /\ session' = Append(session, row)
  BY DEF IssueAtLogin
<1>2. NextPair \in 1..MaxPairs
  BY <1>1, Rows, AuthAssumption DEF CanIssue, NextPair
<1>3. row \in SessionRow
  BY <1>2, AuthAssumption DEF SessionRow, Tokens, NoToken, Ages
<1>4. session \in Seq(SessionRow)
  BY DEF TypeOK
<1> HIDE DEF row
<1>5. /\ session' \in Seq(SessionRow) /\ Len(session') <= MaxPairs
      /\ NextPair \notin Issued /\ Issued' = Issued \cup {NextPair}
      /\ session'[NextPair] = row
      /\ \A n \in Issued : session'[n] = session[n]
  BY <1>1, <1>3, <1>4, Appended
<1> QED BY <1>5 DEF RowsKept, Revoked, row

\* A refresh revokes its session and adds one of the same login.
LEMMA RotateEffect ==
    ASSUME TypeOK, NEW p \in Issued, session[p].login \in Issued, Rotate(p)
    PROVE  /\ RowsKept
           /\ NextPair \notin Issued
           /\ Issued' = Issued \cup {NextPair}
           /\ \A n \in Issued \ {p} : session'[n] = session[n]
           /\ session'[p].revoked = "rotated"
           /\ session'[NextPair].user = session[p].user
           /\ session'[NextPair].login = session[p].login
           /\ session'[NextPair].parent = p
           /\ session'[NextPair].revoked = "no"
<1> DEFINE row == [user |-> session[p].user, login |-> session[p].login, parent |-> p,
                   revoked |-> "no", age |-> "fresh"]
           base == [session EXCEPT ![p].revoked = "rotated"]
<1>1. CanIssue /\ session' = Append(base, row)
  BY DEF Rotate
<1>2. p \in 1..Len(session) /\ session[p] \in SessionRow
  BY Rows
<1>3. row \in SessionRow
  BY <1>2, Rows, AuthAssumption DEF SessionRow, Ages
<1>4. [session[p] EXCEPT !.revoked = "rotated"] \in SessionRow
  BY <1>2 DEF SessionRow
<1>5. base = [session EXCEPT ![p] = [session[p] EXCEPT !.revoked = "rotated"]]
  OBVIOUS
<1>6. base \in Seq(SessionRow) /\ Len(base) = Len(session)
  BY <1>2, <1>4, <1>5, ExceptSeq DEF TypeOK
<1>7. base[p].revoked = "rotated" /\ base[p].user = session[p].user
      /\ base[p].login = session[p].login /\ base[p].parent = session[p].parent
  BY <1>2, <1>5 DEF SessionRow
<1>8. \A n \in Issued \ {p} : base[n] = session[n]
  BY <1>5
<1> HIDE DEF row, base
<1>9. /\ session' \in Seq(SessionRow) /\ Len(session') <= MaxPairs
      /\ NextPair \notin Issued /\ Issued' = Issued \cup {NextPair}
      /\ session'[NextPair] = row
      /\ \A n \in Issued : session'[n] = base[n]
  BY <1>1, <1>3, <1>6, Appended
<1> QED BY <1>7, <1>8, <1>9 DEF RowsKept, Revoked, row

\* A row may change how it was revoked and its age.
LEMMA ChangedRows ==
    ASSUME TypeOK, NEW f \in [Issued -> SessionRow], session' = f,
           \A n \in Issued : /\ f[n].user = session[n].user
                             /\ f[n].login = session[n].login
                             /\ f[n].parent = session[n].parent
                             /\ Revoked(n) => f[n].revoked # "no"
    PROVE  RowsKept /\ Issued' = Issued
<1>1. Len(session) \in Nat /\ Issued = 1..Len(session) /\ Len(session) <= MaxPairs
  BY Rows DEF TypeOK
<1>2. session' \in Seq(SessionRow)
  BY <1>1, SeqDef
<1>3. Issued' = Issued
  BY DEF Issued
<1>4. Len(session') \in Nat /\ Issued' = 1..Len(session')
  BY <1>2, LenProperties DEF Issued
<1>5. Len(session') = Len(session)
  BY <1>1, <1>3, <1>4
<1> QED BY <1>1, <1>2, <1>3, <1>5 DEF RowsKept, Revoked

\* Logout revokes what is live of one user.
LEMMA RevokeEffect ==
    ASSUME TypeOK, NEW p \in Issued, RevokeAll(p)
    PROVE  /\ RowsKept /\ Issued' = Issued
           /\ \A n \in Issued : session[n].user = session[p].user => Revoked(n)'
           /\ \A n \in Issued : session[n].user # session[p].user => session'[n] = session[n]
           /\ \A n \in Issued : session'[n].revoked = "rotated" => session[n].revoked = "rotated"
<1> DEFINE f == [m \in Issued |-> IF m \in LiveSessionsOf(p)
                                  THEN [session[m] EXCEPT !.revoked = "logged_out"]
                                  ELSE session[m]]
<1>1. session' = f
  BY DEF RevokeAll
<1>2. \A m \in Issued : session[m] \in SessionRow
  BY Rows
<1>3. \A m \in Issued :
         /\ f[m] \in SessionRow
         /\ f[m].user = session[m].user /\ f[m].login = session[m].login
         /\ f[m].parent = session[m].parent
         /\ m \in LiveSessionsOf(p) => f[m].revoked = "logged_out"
         /\ m \notin LiveSessionsOf(p) => f[m] = session[m]
  BY <1>2 DEF SessionRow
<1>4. f \in [Issued -> SessionRow]
  BY <1>3
<1> HIDE DEF f
<1>5. \A m \in Issued : Revoked(m) => m \notin LiveSessionsOf(p)
  BY DEF LiveSessionsOf
<1>6. \A m \in Issued : Revoked(m) => f[m].revoked # "no"
  BY <1>3, <1>5 DEF Revoked
<1>7. RowsKept /\ Issued' = Issued
  BY <1>1, <1>3, <1>4, <1>6, ChangedRows
<1>8. \A m \in Issued : /\ m \in LiveSessionsOf(p) => session[m].user = session[p].user
                        /\ m \notin LiveSessionsOf(p) =>
                              session[m].user # session[p].user \/ Revoked(m)
  BY DEF LiveSessionsOf
<1>9. \A m \in Issued : session[m].user = session[p].user => session'[m].revoked # "no"
  BY <1>1, <1>3, <1>8 DEF Revoked
<1> QED BY <1>1, <1>3, <1>7, <1>8, <1>9 DEF Revoked

\* Time changes nothing but an age.
LEMMA AgeEffect ==
    ASSUME TypeOK, NEW p \in Issued, GrowOlder(p)
    PROVE  /\ RowsKept /\ Issued' = Issued
           /\ \A n \in Issued : session'[n].revoked = session[n].revoked
<1> DEFINE age == IF session[p].age = "fresh" THEN "access_expired" ELSE "expired"
           f == [session EXCEPT ![p] = [session[p] EXCEPT !.age = age]]
<1>1. session' = f
  BY DEF GrowOlder
<1>2. \A n \in Issued : session[n] \in SessionRow
  BY Rows
<1>3. \A n \in Issued :
         /\ f[n] \in SessionRow
         /\ f[n].user = session[n].user /\ f[n].login = session[n].login
         /\ f[n].parent = session[n].parent /\ f[n].revoked = session[n].revoked
  BY <1>2 DEF SessionRow, Ages, Issued
<1>4. f \in [Issued -> SessionRow]
  BY <1>3 DEF Issued
<1> HIDE DEF f
<1>5. RowsKept /\ Issued' = Issued
  BY <1>1, <1>3, <1>4, ChangedRows DEF Revoked
<1> QED BY <1>1, <1>3, <1>5

\* What Reply changes of the requests.
LEMMA ReplyEffect ==
    ASSUME TypeOK, NEW r \in Requests, NEW got \in Tokens,
           NEW at \in {"sent", "checked", "granted", "denied", "failed"}, Reply(r, at, got)
    PROVE  /\ req' \in [Requests -> Request]
           /\ \A q \in Requests \ {r} : req'[q] = req[q]
           /\ req'[r].kind = req[r].kind /\ req'[r].tab = req[r].tab
           /\ req'[r].at = at /\ req'[r].got = got /\ req'[r].user = None
           /\ req[r].kind = "refresh" => req'[r].token = req[r].token
           /\ req[r].kind # "refresh" => req'[r].token = NoToken
<1> DEFINE new == [kind |-> req[r].kind, tab |-> req[r].tab, at |-> at, user |-> None, got |-> got,
                   token |-> IF req[r].kind = "refresh" THEN req[r].token ELSE NoToken]
<1>1. req[r] \in Request
  BY DEF TypeOK
<1>2. new \in Request
  BY <1>1, AuthAssumption DEF Request, Tokens, NoToken
<1>3. req' = [req EXCEPT ![r] = new]
  BY DEF Reply
<1>4. /\ new.kind = req[r].kind /\ new.tab = req[r].tab
      /\ new.at = at /\ new.got = got /\ new.user = None
      /\ new.token = IF req[r].kind = "refresh" THEN req[r].token ELSE NoToken
  OBVIOUS
<1> HIDE DEF new
<1> QED BY <1>2, <1>3, <1>4 DEF TypeOK

\* What Send changes of the requests.
LEMMA SendEffect ==
    ASSUME TypeOK, NEW r \in Requests, NEW t \in Tabs, NEW kind \in Kinds,
           NEW token \in Tokens, NEW user \in Users \cup {None},
           Send(r, t, kind, token, user)
    PROVE  /\ Free(r)
           /\ req' \in [Requests -> Request]
           /\ \A q \in Requests \ {r} : req'[q] = req[q]
           /\ req'[r].kind = kind /\ req'[r].tab = t /\ req'[r].at = "sent"
           /\ req'[r].token = token /\ req'[r].user = user /\ req'[r].got = NoToken
<1> DEFINE new == [kind |-> kind, tab |-> t, at |-> "sent", token |-> token,
                   user |-> user, got |-> NoToken]
<1>1. new \in Request
  BY AuthAssumption DEF Request, Tokens, NoToken
<1>2. req' = [req EXCEPT ![r] = new]
  BY DEF Send
<1>3. /\ new.kind = kind /\ new.tab = t /\ new.at = "sent"
      /\ new.token = token /\ new.user = user /\ new.got = NoToken
  OBVIOUS
<1> HIDE DEF new
<1> QED BY <1>1, <1>2, <1>3 DEF TypeOK, Send

-----------------------------------------------------------------------------
\* Nothing of the rows has changed.
LEMMA RowsUnchanged ==
    ASSUME IInv, UNCHANGED <<session, overlap, ended>>
    PROVE  /\ Issued' = Issued
           /\ \A n \in Issued : Revoked(n)' = Revoked(n)
           /\ LineageOK' /\ OneExchangePerToken' /\ LogoutEndsLogins'
<1>1. Issued' = Issued /\ \A n \in Issued : Revoked(n)' = Revoked(n)
  BY DEF Issued, Revoked
<1>2. LineageOK'
  BY <1>1 DEF IInv, LineageOK, Issued, Revoked
<1>3. OneExchangePerToken' /\ LogoutEndsLogins'
  BY DEF IInv, OneExchangePerToken, LogoutEndsLogins, Issued, Revoked
<1> QED BY <1>1, <1>2, <1>3

\* A new request, for a token that no answer carries.
LEMMA SendPreserves ==
    ASSUME IInv, NEW r \in Requests, NEW t \in Tabs, NEW kind \in Kinds,
           NEW token \in Issued \cup {NoToken}, NEW user \in Users \cup {None},
           Send(r, t, kind, token, user),
           kind = "login" => user \in Users,
           kind = "refresh" => token = store.refresh /\ token # NoToken,
           UNCHANGED <<session, store, shown, overlap, ended, cut, writer, faults>>,
           armed' \in [Tabs -> BOOLEAN],
           left' \in [Tabs -> BOOLEAN],
           TabsOK'
    PROVE  IInv'
<1>1. TypeOK /\ token \in Tokens
  BY AuthAssumption, Rows DEF IInv, Tokens, NoToken
<1>2. /\ Free(r)
      /\ req' \in [Requests -> Request]
      /\ \A q \in Requests \ {r} : req'[q] = req[q]
      /\ req'[r].kind = kind /\ req'[r].at = "sent"
      /\ req'[r].token = token /\ req'[r].user = user /\ req'[r].got = NoToken
  BY <1>1, SendEffect
<1>3. /\ Issued' = Issued
      /\ LineageOK' /\ OneExchangePerToken' /\ LogoutEndsLogins'
  BY RowsUnchanged
<1>4. TypeOK'
  BY <1>1, <1>2, <1>3 DEF TypeOK
<1>5. \A q \in Requests : RequestOK(q)'
  BY <1>2, <1>3 DEF IInv, RequestOK
<1>6. \A q \in Requests : /\ At(q, "refresh", "checked")' <=> At(q, "refresh", "checked") /\ q # r
                          /\ At(q, "refresh", "granted")' <=> At(q, "refresh", "granted") /\ q # r
                          /\ Carries(q)' <=> Carries(q) /\ q # r
  BY <1>2 DEF At, Carries
<1>7. ~ At(r, "refresh", "granted")
  BY <1>2 DEF At, Free
<1>8. ChecksOK'
  BY <1>2, <1>3, <1>6 DEF IInv, ChecksOK
<1>9. AnswersOK'
  <2> SUFFICES ASSUME NEW q \in Requests, Carries(q)'
               PROVE  /\ session'[req'[q].got].revoked # "rotated"
                      /\ store'.refresh # req'[q].got
                      /\ \A p \in Requests :
                           /\ req'[p].kind = "refresh" => req'[p].token # req'[q].got
                           /\ p # q /\ Carries(p)' => req'[p].got # req'[q].got
    BY DEF AnswersOK
  <2>1. Carries(q) /\ q # r /\ req'[q] = req[q]
    BY <1>2, <1>6
  <2>2. /\ session[req[q].got].revoked # "rotated"
        /\ store.refresh # req[q].got
        /\ \A p \in Requests :
             /\ req[p].kind = "refresh" => req[p].token # req[q].got
             /\ p # q /\ Carries(p) => req[p].got # req[q].got
    BY <2>1 DEF IInv, AnswersOK
  <2>3. req'[r].kind = "refresh" => req'[r].token # req'[q].got
    BY <1>2, <2>1, <2>2
  <2> QED BY <1>2, <1>6, <2>1, <2>2, <2>3
<1>10. StoredTokenIsUnspent'
  BY <1>2, <1>6, <1>7 DEF IInv, StoredTokenIsUnspent
<1>11. OthersChangeTheUser'
  BY DEF IInv, OthersChangeTheUser
<1> QED BY <1>3, <1>4, <1>5, <1>8, <1>9, <1>10, <1>11 DEF IInv

\* A request is answered without anything done.
LEMMA RefusedPreserves ==
    ASSUME IInv, NEW r \in Requests, NEW at \in {"granted", "denied", "failed"},
           req[r].at \in {"sent", "checked"},
           req[r].kind \in {"login", "refresh"} => at # "granted",
           Reply(r, at, NoToken),
           UNCHANGED <<session, browser, history>>, faults' \in 0..MaxFaults
    PROVE  IInv'
<1>1. TypeOK /\ NoToken \in Tokens
  BY AuthAssumption DEF IInv, Tokens, NoToken
<1>2. /\ req' \in [Requests -> Request]
      /\ \A q \in Requests \ {r} : req'[q] = req[q]
      /\ req'[r].kind = req[r].kind /\ req'[r].tab = req[r].tab
      /\ req'[r].at = at /\ req'[r].got = NoToken
      /\ req[r].kind = "refresh" => req'[r].token = req[r].token
      /\ req[r].kind # "refresh" => req'[r].token = NoToken
  BY <1>1, ReplyEffect
<1>3. /\ Issued' = Issued
      /\ LineageOK' /\ OneExchangePerToken' /\ LogoutEndsLogins'
  BY RowsUnchanged DEF history
<1>4. TypeOK'
  BY <1>1, <1>2, <1>3 DEF TypeOK, browser, history
<1>5. \A q \in Requests : RequestOK(q)'
  BY <1>2, <1>3 DEF IInv, RequestOK
<1>6. \A q \in Requests : /\ At(q, "refresh", "checked")' <=> At(q, "refresh", "checked") /\ q # r
                          /\ At(q, "refresh", "granted")' <=> At(q, "refresh", "granted")
                          /\ Carries(q)' <=> Carries(q)
                          /\ Carries(q) => q # r
  BY <1>2 DEF At, Carries
<1>7. ChecksOK'
  BY <1>2, <1>3, <1>6 DEF IInv, ChecksOK, history
<1>8. AnswersOK'
  <2> SUFFICES ASSUME NEW q \in Requests, Carries(q)'
               PROVE  /\ session'[req'[q].got].revoked # "rotated"
                      /\ store'.refresh # req'[q].got
                      /\ \A p \in Requests :
                           /\ req'[p].kind = "refresh" => req'[p].token # req'[q].got
                           /\ p # q /\ Carries(p)' => req'[p].got # req'[q].got
    BY DEF AnswersOK
  <2>1. Carries(q) /\ req'[q] = req[q]
    BY <1>2, <1>6
  <2>2. \A p \in Requests : /\ req'[p].kind = req[p].kind
                            /\ req[p].kind = "refresh" => req'[p].token = req[p].token
                            /\ Carries(p)' => Carries(p) /\ req'[p] = req[p]
    BY <1>2, <1>6
  <2>3. /\ session[req[q].got].revoked # "rotated"
        /\ store.refresh # req[q].got
        /\ \A p \in Requests :
             /\ req[p].kind = "refresh" => req[p].token # req[q].got
             /\ p # q /\ Carries(p) => req[p].got # req[q].got
    BY <2>1 DEF IInv, AnswersOK
  <2>4. session' = session /\ store' = store
    BY DEF browser
  <2> QED BY <2>1, <2>2, <2>3, <2>4
<1>9. StoredTokenIsUnspent'
  <2>1. UNCHANGED <<session, store, cut>>
    BY DEF browser, history
  <2>2. \A q \in Requests : At(q, "refresh", "granted") => req'[q] = req[q] /\ At(q, "refresh", "granted")'
    BY <1>2, <1>6 DEF At
  <2> QED BY <2>1, <2>2 DEF IInv, StoredTokenIsUnspent
<1>10. OthersChangeTheUser' /\ TabsOK'
  BY <1>2 DEF IInv, OthersChangeTheUser, TabsOK, RefreshUnderWay, browser, history
<1> QED BY <1>3, <1>4, <1>5, <1>7, <1>8, <1>9, <1>10 DEF IInv

-----------------------------------------------------------------------------
\* What the user and the timer do.
LEMMA SubmitLoginPreserves ==
    ASSUME IInv, NEW t \in Tabs, NEW r \in Requests, NEW user \in Users,
           SubmitLogin(t, r, user)
    PROVE  IInv'
<1>1. TypeOK /\ "login" \in Kinds
  BY DEF IInv, Kinds
<1>2. Send(r, t, "login", NoToken, user) /\ UNCHANGED <<session, browser, history, faults>>
  BY DEF SubmitLogin
<1>3. NoToken \in Tokens
  BY AuthAssumption DEF Tokens, NoToken
<1>4. /\ \A q \in Requests \ {r} : req'[q] = req[q]
      /\ req'[r].kind = "login"
  BY <1>1, <1>2, <1>3, SendEffect
<1>5. TabsOK'
  BY <1>2, <1>4 DEF IInv, TabsOK, RefreshUnderWay, browser, history
<1>6. /\ UNCHANGED <<session, store, shown, overlap, ended, cut, writer, faults>>
      /\ armed' \in [Tabs -> BOOLEAN] /\ left' \in [Tabs -> BOOLEAN]
  BY <1>1, <1>2 DEF TypeOK, browser, history
<1> QED BY <1>1, <1>2, <1>5, <1>6, SendPreserves

LEMMA CallPreserves ==
    ASSUME IInv, NEW t \in Tabs, NEW r \in Requests, Call(t, r)
    PROVE  IInv'
<1>1. TypeOK /\ "call" \in Kinds
  BY DEF IInv, Kinds
<1>2. Send(r, t, "call", store.access, None) /\ UNCHANGED <<session, browser, history, faults>>
  BY DEF Call
<1>3. store.access \in Issued \cup {NoToken} /\ store.access \in Tokens
  BY <1>1, Rows, AuthAssumption DEF TypeOK, Tokens, NoToken
<1>4. /\ \A q \in Requests \ {r} : req'[q] = req[q]
      /\ req'[r].kind = "call"
  BY <1>1, <1>2, <1>3, SendEffect
<1>5. TabsOK'
  BY <1>2, <1>4 DEF IInv, TabsOK, RefreshUnderWay, browser, history
<1>6. /\ UNCHANGED <<session, store, shown, overlap, ended, cut, writer, faults>>
      /\ armed' \in [Tabs -> BOOLEAN] /\ left' \in [Tabs -> BOOLEAN]
  BY <1>1, <1>2 DEF TypeOK, browser, history
<1> QED BY <1>1, <1>2, <1>3, <1>5, <1>6, SendPreserves

LEMMA ClickLogoutPreserves ==
    ASSUME IInv, NEW t \in Tabs, NEW r \in Requests, ClickLogout(t, r)
    PROVE  IInv'
<1>1. TypeOK /\ "logout" \in Kinds
  BY DEF IInv, Kinds
<1>2. /\ Send(r, t, "logout", store.access, None)
      /\ armed' = [armed EXCEPT ![t] = FALSE]
      /\ left' = [left EXCEPT ![t] = ~ RefreshUnderWay(t)]
      /\ UNCHANGED <<session, store, shown, overlap, ended, cut, writer, faults>>
  BY DEF ClickLogout, StopTimer
<1>3. store.access \in Issued \cup {NoToken} /\ store.access \in Tokens
  BY <1>1, Rows, AuthAssumption DEF TypeOK, Tokens, NoToken
<1>4. /\ \A q \in Requests \ {r} : req'[q] = req[q]
      /\ req'[r].kind = "logout"
  BY <1>1, <1>2, <1>3, SendEffect
<1>5. \A s \in Tabs : RefreshUnderWay(s)' => RefreshUnderWay(s)
  BY <1>4 DEF RefreshUnderWay
<1>6. /\ armed' \in [Tabs -> BOOLEAN] /\ left' \in [Tabs -> BOOLEAN]
      /\ left'[t] => ~ RefreshUnderWay(t)
      /\ ~ armed'[t]
      /\ \A s \in Tabs \ {t} : armed'[s] = armed[s] /\ left'[s] = left[s]
  BY <1>1, <1>2 DEF TypeOK
<1>7. TabsOK'
  BY <1>5, <1>6 DEF IInv, TabsOK
<1> QED BY <1>1, <1>2, <1>3, <1>6, <1>7, SendPreserves

LEMMA TimerFiresPreserves ==
    ASSUME IInv, NEW t \in Tabs, NEW r \in Requests, TimerFires(t, r)
    PROVE  IInv'
<1>1. TypeOK /\ "refresh" \in Kinds
  BY DEF IInv, Kinds
<1>2. /\ armed[t]
      /\ armed' = [armed EXCEPT ![t] = FALSE]
      /\ UNCHANGED <<session, store, shown, history, faults>>
  BY DEF TimerFires
<1>3. /\ armed' \in [Tabs -> BOOLEAN] /\ ~ armed'[t] /\ ~ left[t]
      /\ \A s \in Tabs \ {t} : armed'[s] = armed[s]
  BY <1>1, <1>2 DEF TypeOK, IInv, TabsOK
<1>4. CASE store.refresh = NoToken
  <2>1. UNCHANGED req
    BY <1>4 DEF TimerFires
  <2>2. TabsOK'
    BY <1>2, <1>3, <2>1 DEF IInv, TabsOK, RefreshUnderWay, history
  <2>3. Issued' = Issued /\ LineageOK' /\ OneExchangePerToken' /\ LogoutEndsLogins'
    BY <1>2, RowsUnchanged DEF history
  <2>4. TypeOK'
    BY <1>1, <1>2, <1>3, <2>1, <2>3 DEF TypeOK, history
  <2>5. (\A q \in Requests : RequestOK(q)') /\ ChecksOK' /\ AnswersOK'
    BY <1>2, <2>1, <2>3 DEF IInv, RequestOK, ChecksOK, AnswersOK, Carries, At, history
  <2>6. StoredTokenIsUnspent' /\ OthersChangeTheUser'
    BY <1>2, <2>1 DEF IInv, StoredTokenIsUnspent, OthersChangeTheUser, At, history
  <2> QED BY <2>2, <2>3, <2>4, <2>5, <2>6 DEF IInv
<1>5. CASE store.refresh # NoToken
  <2>1. Send(r, t, "refresh", store.refresh, None)
    BY <1>5 DEF TimerFires
  <2>2. store.refresh \in Issued \cup {NoToken} /\ store.refresh \in Tokens
    BY <1>1, Rows, AuthAssumption DEF TypeOK, Tokens, NoToken
  <2>3. /\ \A q \in Requests \ {r} : req'[q] = req[q]
        /\ req'[r].tab = t
    BY <1>1, <2>1, <2>2, SendEffect
  <2>4. \A s \in Tabs \ {t} : RefreshUnderWay(s)' => RefreshUnderWay(s)
    BY <2>3 DEF RefreshUnderWay
  <2>5. TabsOK'
    BY <1>2, <1>3, <2>4 DEF IInv, TabsOK, history
  <2>6. /\ UNCHANGED <<session, store, shown, overlap, ended, cut, writer, faults>>
        /\ left' \in [Tabs -> BOOLEAN]
    BY <1>1, <1>2 DEF TypeOK, history
  <2> QED BY <1>1, <1>3, <1>5, <2>1, <2>2, <2>5, <2>6, SendPreserves, SessionsAssumption
<1> QED BY <1>4, <1>5

-----------------------------------------------------------------------------
\* What the API does.

\* A pair that is issued now is known to nobody.
LEMMA NextIsUnknown ==
    ASSUME IInv, CanIssue
    PROVE  /\ NextPair \in Tokens /\ NextPair # NoToken /\ NextPair \notin Issued
           /\ NextPair \notin ended
           /\ store.refresh # NextPair
           /\ \A q \in Requests : /\ req[q].kind = "refresh" => req[q].token # NextPair
                                  /\ Carries(q) => req[q].got # NextPair
<1>1. Len(session) \in Nat /\ Issued = 1..Len(session)
  BY Rows DEF IInv
<1>2. NextPair \in Tokens /\ NextPair # NoToken /\ NextPair \notin Issued
  BY <1>1, AuthAssumption DEF NextPair, CanIssue, Tokens, NoToken
<1>3. NextPair \notin ended /\ store.refresh # NextPair
  BY <1>2 DEF IInv, TypeOK
<1>4. \A q \in Requests : /\ req[q].kind = "refresh" => req[q].token # NextPair
                          /\ Carries(q) => req[q].got # NextPair
  BY <1>2 DEF IInv, RequestOK, Carries, At
<1> QED BY <1>2, <1>3, <1>4

LEMMA LoginPreserves ==
    ASSUME IInv, NEW r \in Requests, Login(r)
    PROVE  IInv'
<1> DEFINE n == NextPair
<1>1. /\ TypeOK /\ At(r, "login", "sent") /\ CanIssue
      /\ IssueAtLogin(req[r].user) /\ req[r].user \in Users
      /\ Reply(r, "granted", n)
      /\ UNCHANGED <<store, shown, armed, overlap, ended, left, cut, writer, faults>>
  BY DEF IInv, Login, IssueAtLogin, RequestOK, At, browser, history
<1>2. /\ n \in Tokens /\ n # NoToken /\ n \notin Issued /\ n \notin ended
      /\ store.refresh # n
      /\ \A q \in Requests : /\ req[q].kind = "refresh" => req[q].token # n
                             /\ Carries(q) => req[q].got # n
  BY <1>1, NextIsUnknown
<1>3. /\ RowsKept
      /\ Issued' = Issued \cup {n}
      /\ \A m \in Issued : session'[m] = session[m]
      /\ session'[n].user = req[r].user /\ session'[n].login = n
      /\ session'[n].parent = NoToken /\ session'[n].revoked = "no"
  BY <1>1, IssueEffect
<1>4. /\ req' \in [Requests -> Request]
      /\ \A q \in Requests \ {r} : req'[q] = req[q]
      /\ req'[r].kind = "login" /\ req'[r].at = "granted" /\ req'[r].got = n
      /\ req'[r].token = NoToken
  BY <1>1, <1>2, ReplyEffect DEF At
<1> HIDE DEF n
<1>5. TypeOK'
  BY <1>1, <1>3, <1>4 DEF TypeOK, RowsKept
<1>6. \A q \in Requests : RequestOK(q)'
  BY <1>3, <1>4 DEF IInv, RequestOK
<1>7. LineageOK'
  BY <1>2, <1>3 DEF IInv, LineageOK, Revoked
<1>8. \A q \in Requests : /\ At(q, "refresh", "checked")' <=> At(q, "refresh", "checked") /\ q # r
                          /\ At(q, "refresh", "granted")' <=> At(q, "refresh", "granted") /\ q # r
                          /\ Carries(q)' <=> Carries(q) \/ q = r
                          /\ At(q, "refresh", "checked") => q # r /\ req[q].token \in Issued
                          /\ Carries(q) => q # r /\ req[q].got \in Issued
  BY <1>1, <1>4 DEF IInv, RequestOK, At, Carries
<1>9. ChecksOK'
  <2> SUFFICES ASSUME NEW q \in Requests, At(q, "refresh", "checked")'
               PROVE  /\ \A s \in Requests \ {q} :
                           At(s, "refresh", "checked")' /\ req'[s].token = req'[q].token
                              => req'[q].token \in overlap'
                      /\ \A m \in Issued' : session'[m].parent = req'[q].token
                                              => req'[q].token \in overlap'
                      /\ session'[req'[q].token].login \notin ended'
    BY DEF ChecksOK
  <2>1. q # r /\ At(q, "refresh", "checked") /\ req'[q] = req[q] /\ req[q].token \in Issued
    BY <1>4, <1>8
  <2>2. /\ \A s \in Requests \ {q} : At(s, "refresh", "checked") /\ req[s].token = req[q].token
                                        => req[q].token \in overlap
        /\ \A m \in Issued : session[m].parent = req[q].token => req[q].token \in overlap
        /\ session[req[q].token].login \notin ended
    BY <2>1 DEF IInv, ChecksOK
  <2>3. NoToken \notin Issued
    BY <1>1, Rows
  <2> QED BY <1>1, <1>3, <1>4, <1>8, <2>1, <2>2, <2>3
<1>10. AnswersOK'
  <2> SUFFICES ASSUME NEW q \in Requests, Carries(q)'
               PROVE  /\ session'[req'[q].got].revoked # "rotated"
                      /\ store'.refresh # req'[q].got
                      /\ \A p \in Requests :
                           /\ req'[p].kind = "refresh" => req'[p].token # req'[q].got
                           /\ p # q /\ Carries(p)' => req'[p].got # req'[q].got
    BY DEF AnswersOK
  <2>1. CASE q = r
    BY <1>1, <1>2, <1>3, <1>4, <1>8, <2>1
  <2>2. CASE q # r
    <3>1. /\ session[req[q].got].revoked # "rotated"
          /\ store.refresh # req[q].got
          /\ \A p \in Requests :
               /\ req[p].kind = "refresh" => req[p].token # req[q].got
               /\ p # q /\ Carries(p) => req[p].got # req[q].got
      BY <1>8, <2>2 DEF IInv, AnswersOK
    <3> QED BY <1>1, <1>2, <1>3, <1>4, <1>8, <2>2, <3>1
  <2> QED BY <2>1, <2>2
<1>11. OneExchangePerToken' /\ LogoutEndsLogins'
  BY <1>1, <1>2, <1>3 DEF IInv, OneExchangePerToken, LogoutEndsLogins, Revoked
<1>12. StoredTokenIsUnspent'
  <2>1. store.refresh \in Issued \cup {NoToken}
    BY <1>1 DEF TypeOK
  <2>2. \A q \in Requests : At(q, "refresh", "granted") => req'[q] = req[q] /\ At(q, "refresh", "granted")'
    BY <1>1, <1>4 DEF At
  <2> SUFFICES ASSUME store.refresh # NoToken, session'[store.refresh].revoked = "rotated"
               PROVE  \/ \E q \in Requests :
                            At(q, "refresh", "granted")' /\ req'[q].token = store.refresh
                      \/ store.refresh \in cut
    BY <1>1 DEF StoredTokenIsUnspent
  <2>3. session[store.refresh].revoked = "rotated"
    BY <1>3, <2>1
  <2> QED BY <2>2, <2>3 DEF IInv, StoredTokenIsUnspent
<1>13. OthersChangeTheUser' /\ TabsOK'
  BY <1>1, <1>4 DEF IInv, OthersChangeTheUser, TabsOK, RefreshUnderWay
<1> QED BY <1>5, <1>6, <1>7, <1>9, <1>10, <1>11, <1>12, <1>13 DEF IInv

LEMMA CommitRefreshPreserves ==
    ASSUME IInv, NEW r \in Requests, CommitRefresh(r)
    PROVE  IInv'
<1> DEFINE n == NextPair
           p == req[r].token
<1>1. /\ TypeOK /\ At(r, "refresh", "checked") /\ CanIssue
      /\ Rotate(p) /\ p \in Issued /\ session[p].login \in Issued
      /\ Reply(r, "granted", n)
      /\ UNCHANGED <<store, shown, armed, overlap, ended, left, cut, writer, faults>>
  BY DEF IInv, CommitRefresh, Rotate, RequestOK, LineageOK, At, browser, history
<1>2. /\ n \in Tokens /\ n # NoToken /\ n \notin Issued /\ n \notin ended
      /\ store.refresh # n
      /\ \A q \in Requests : /\ req[q].kind = "refresh" => req[q].token # n
                             /\ Carries(q) => req[q].got # n
  BY <1>1, NextIsUnknown
<1>3. /\ RowsKept
      /\ Issued' = Issued \cup {n}
      /\ \A m \in Issued \ {p} : session'[m] = session[m]
      /\ session'[p].revoked = "rotated"
      /\ session'[n].user = session[p].user /\ session'[n].login = session[p].login
      /\ session'[n].parent = p /\ session'[n].revoked = "no"
  BY <1>1, RotateEffect
<1>4. /\ req' \in [Requests -> Request]
      /\ \A q \in Requests \ {r} : req'[q] = req[q]
      /\ req'[r].kind = "refresh" /\ req'[r].at = "granted" /\ req'[r].got = n
      /\ req'[r].token = p /\ req'[r].tab = req[r].tab
  BY <1>1, <1>2, ReplyEffect DEF At
<1>5. /\ \A q \in Requests \ {r} : At(q, "refresh", "checked") /\ req[q].token = p => p \in overlap
      /\ \A m \in Issued : session[m].parent = p => p \in overlap
      /\ session[p].login \notin ended
      /\ req[r].kind = "refresh"
  BY <1>1 DEF IInv, ChecksOK, At
<1> HIDE DEF n, p
<1>6. TypeOK'
  BY <1>1, <1>3, <1>4 DEF TypeOK, RowsKept
<1>7. \A q \in Requests : RequestOK(q)'
  BY <1>1, <1>3, <1>4 DEF IInv, RequestOK
<1>8. LineageOK'
  <2>1. \A m \in Issued : Revoked(m) \/ m = p => session'[m].revoked # "no"
    BY <1>1, <1>3 DEF RowsKept, Revoked
  <2>2. \A m \in Issued : /\ session'[m].user = session[m].user
                          /\ session'[m].login = session[m].login
                          /\ session'[m].parent = session[m].parent
    BY <1>3 DEF RowsKept
  <2>3. \A m \in Issued : /\ session[m].login \in Issued
                          /\ session[session[m].login].user = session[m].user
                          /\ session[m].parent \in Issued \cup {NoToken}
                          /\ session[m].parent # NoToken => Revoked(session[m].parent)
    BY DEF IInv, LineageOK
  <2> QED BY <1>1, <1>2, <1>3, <2>1, <2>2, <2>3 DEF LineageOK, Revoked
<1>9. \A q \in Requests : /\ At(q, "refresh", "checked")' <=> At(q, "refresh", "checked") /\ q # r
                          /\ At(q, "refresh", "granted") => At(q, "refresh", "granted")' /\ q # r
                          /\ Carries(q)' <=> Carries(q) \/ q = r
                          /\ At(q, "refresh", "checked") => req[q].token \in Issued
                          /\ Carries(q) => q # r /\ req[q].got \in Issued /\ req[q].got # p
  <2>1. \A q \in Requests : Carries(q) => p # req[q].got
    BY <1>5 DEF IInv, AnswersOK, p
  <2> QED BY <1>1, <1>4, <2>1 DEF IInv, RequestOK, At, Carries
<1>10. ChecksOK'
  <2> SUFFICES ASSUME NEW q \in Requests, At(q, "refresh", "checked")'
               PROVE  /\ \A s \in Requests \ {q} :
                           At(s, "refresh", "checked")' /\ req'[s].token = req'[q].token
                              => req'[q].token \in overlap'
                      /\ \A m \in Issued' : session'[m].parent = req'[q].token
                                              => req'[q].token \in overlap'
                      /\ session'[req'[q].token].login \notin ended'
    BY DEF ChecksOK
  <2>1. q # r /\ At(q, "refresh", "checked") /\ req'[q] = req[q] /\ req[q].token \in Issued
    BY <1>4, <1>9
  <2>2. /\ \A s \in Requests \ {q} : At(s, "refresh", "checked") /\ req[s].token = req[q].token
                                        => req[q].token \in overlap
        /\ \A m \in Issued : session[m].parent = req[q].token => req[q].token \in overlap
        /\ session[req[q].token].login \notin ended
    BY <2>1 DEF IInv, ChecksOK
  <2>3. p = req[q].token => p \in overlap
    BY <1>5, <2>1
  <2>4. \A m \in Issued' : session'[m].parent = req[q].token => req[q].token \in overlap
    BY <1>3, <2>2, <2>3 DEF RowsKept
  <2>5. session'[req[q].token].login = session[req[q].token].login
    BY <1>3, <2>1 DEF RowsKept
  <2> QED BY <1>1, <1>4, <1>9, <2>1, <2>2, <2>4, <2>5
<1>11. AnswersOK'
  <2> SUFFICES ASSUME NEW q \in Requests, Carries(q)'
               PROVE  /\ session'[req'[q].got].revoked # "rotated"
                      /\ store'.refresh # req'[q].got
                      /\ \A s \in Requests :
                           /\ req'[s].kind = "refresh" => req'[s].token # req'[q].got
                           /\ s # q /\ Carries(s)' => req'[s].got # req'[q].got
    BY DEF AnswersOK
  <2>1. CASE q = r
    BY <1>1, <1>2, <1>3, <1>4, <1>9, <2>1
  <2>2. CASE q # r
    <3>1. /\ session[req[q].got].revoked # "rotated"
          /\ store.refresh # req[q].got
          /\ \A s \in Requests :
               /\ req[s].kind = "refresh" => req[s].token # req[q].got
               /\ s # q /\ Carries(s) => req[s].got # req[q].got
      BY <1>9, <2>2 DEF IInv, AnswersOK
    <3> QED BY <1>1, <1>2, <1>3, <1>4, <1>9, <2>2, <3>1
  <2> QED BY <2>1, <2>2
<1>12. OneExchangePerToken'
  BY <1>1, <1>2, <1>3, <1>5 DEF IInv, OneExchangePerToken, RowsKept
<1>13. LogoutEndsLogins'
  BY <1>1, <1>2, <1>3, <1>5 DEF IInv, LogoutEndsLogins, RowsKept
<1>14. StoredTokenIsUnspent'
  <2> SUFFICES ASSUME store.refresh # NoToken, session'[store.refresh].revoked = "rotated"
               PROVE  \/ \E q \in Requests :
                            At(q, "refresh", "granted")' /\ req'[q].token = store.refresh
                      \/ store.refresh \in cut
    BY <1>1 DEF StoredTokenIsUnspent
  <2>1. CASE store.refresh = p
    BY <1>4, <2>1 DEF At
  <2>2. CASE store.refresh # p
    <3>1. store.refresh \in Issued
      BY <1>1 DEF TypeOK
    <3>2. session[store.refresh].revoked = "rotated"
      BY <1>3, <2>2, <3>1
    <3> QED BY <1>4, <1>9, <3>2 DEF IInv, StoredTokenIsUnspent
  <2> QED BY <2>1, <2>2
<1>15. OthersChangeTheUser' /\ TabsOK'
  BY <1>1, <1>4, <1>5 DEF IInv, OthersChangeTheUser, TabsOK, RefreshUnderWay
<1> QED BY <1>6, <1>7, <1>8, <1>10, <1>11, <1>12, <1>13, <1>14, <1>15 DEF IInv

LEMMA CheckRefreshPreserves ==
    ASSUME IInv, NEW r \in Requests, CheckRefresh(r)
    PROVE  IInv'
<1> DEFINE n == req[r].token
           twin == \E q \in Requests \ {r} : At(q, "refresh", "checked") /\ req[q].token = n
<1>1. /\ TypeOK /\ At(r, "refresh", "sent") /\ n \in Issued
      /\ Reply(r, IF Admits(n) THEN "checked" ELSE "denied", NoToken)
      /\ overlap' = IF Admits(n) /\ twin THEN overlap \cup {n} ELSE overlap
      /\ UNCHANGED <<session, store, shown, armed, ended, left, cut, writer, faults>>
  BY DEF IInv, CheckRefresh, RequestOK, At, browser, history
<1>2. CASE ~ Admits(n)
  <2>1. Reply(r, "denied", NoToken) /\ overlap' = overlap
    BY <1>1, <1>2
  <2>2. /\ req[r].at \in {"sent", "checked"} /\ faults' \in 0..MaxFaults
        /\ UNCHANGED <<session, browser, history>>
    BY <1>1, <2>1 DEF At, TypeOK, browser, history
  <2> QED BY <2>1, <2>2, RefusedPreserves
<1>3. CASE Admits(n)
  <2>1. NoToken \in Tokens /\ ~ Revoked(n)
    BY <1>3, AuthAssumption DEF Tokens, NoToken, Admits
  <2>2. /\ req' \in [Requests -> Request]
        /\ \A q \in Requests \ {r} : req'[q] = req[q]
        /\ req'[r].kind = "refresh" /\ req'[r].tab = req[r].tab
        /\ req'[r].at = "checked" /\ req'[r].got = NoToken /\ req'[r].token = n
    <3>1. Reply(r, "checked", NoToken)
      BY <1>1, <1>3
    <3> QED BY <1>1, <2>1, <3>1, ReplyEffect DEF At
  <2>3. overlap \subseteq overlap' /\ overlap' \subseteq overlap \cup {n} /\ (twin => n \in overlap')
    BY <1>1, <1>3
  <2>4. /\ \A q \in Requests \ {r} : At(q, "refresh", "checked") /\ req[q].token = n => n \in overlap'
        /\ req[r].kind = "refresh"
    BY <1>1, <2>3 DEF At
  <2> HIDE DEF n, twin
  <2>5. Issued' = Issued /\ LineageOK' /\ LogoutEndsLogins'
    BY <1>1 DEF IInv, LineageOK, LogoutEndsLogins, Issued, Revoked
  <2>6. OneExchangePerToken'
    BY <1>1, <2>3, <2>5 DEF IInv, OneExchangePerToken
  <2>7. TypeOK'
    BY <1>1, <2>2, <2>3, <2>5 DEF TypeOK
  <2>8. \A q \in Requests : RequestOK(q)'
    BY <1>1, <2>2, <2>5 DEF IInv, RequestOK
  <2>9. \A q \in Requests : /\ At(q, "refresh", "checked")' <=> At(q, "refresh", "checked") \/ q = r
                            /\ At(q, "refresh", "granted")' <=> At(q, "refresh", "granted")
                            /\ At(q, "refresh", "granted") => req'[q] = req[q]
                            /\ Carries(q)' <=> Carries(q)
                            /\ Carries(q) => req'[q] = req[q]
    BY <1>1, <2>2 DEF At, Carries
  <2>10. /\ \A m \in Issued : session[m].parent # n
         /\ session[n].login \notin ended
    <3>1. n # NoToken
      BY <1>1, Rows
    <3> QED BY <1>1, <2>1, <3>1 DEF IInv, LineageOK, LogoutEndsLogins
  <2>11. ChecksOK'
    <3> SUFFICES ASSUME NEW q \in Requests, At(q, "refresh", "checked")'
                 PROVE  /\ \A s \in Requests \ {q} :
                             At(s, "refresh", "checked")' /\ req'[s].token = req'[q].token
                                => req'[q].token \in overlap'
                        /\ \A m \in Issued' : session'[m].parent = req'[q].token
                                                => req'[q].token \in overlap'
                        /\ session'[req'[q].token].login \notin ended'
      BY DEF ChecksOK
    <3>1. CASE q = r
      BY <1>1, <2>2, <2>4, <2>5, <2>9, <2>10, <3>1
    <3>2. CASE q # r
      <4>1. /\ \A s \in Requests \ {q} : At(s, "refresh", "checked") /\ req[s].token = req[q].token
                                            => req[q].token \in overlap
            /\ \A m \in Issued : session[m].parent = req[q].token => req[q].token \in overlap
            /\ session[req[q].token].login \notin ended
            /\ req[q].token = n => n \in overlap'
        BY <2>4, <2>9, <3>2 DEF IInv, ChecksOK
      <4> QED BY <1>1, <2>2, <2>3, <2>5, <2>9, <3>2, <4>1
    <3> QED BY <3>1, <3>2
  <2>12. AnswersOK'
    <3> SUFFICES ASSUME NEW q \in Requests, Carries(q)'
                 PROVE  /\ session'[req'[q].got].revoked # "rotated"
                        /\ store'.refresh # req'[q].got
                        /\ \A s \in Requests :
                             /\ req'[s].kind = "refresh" => req'[s].token # req'[q].got
                             /\ s # q /\ Carries(s)' => req'[s].got # req'[q].got
      BY DEF AnswersOK
    <3>1. /\ session[req[q].got].revoked # "rotated"
          /\ store.refresh # req[q].got
          /\ \A s \in Requests :
               /\ req[s].kind = "refresh" => req[s].token # req[q].got
               /\ s # q /\ Carries(s) => req[s].got # req[q].got
      BY <2>9 DEF IInv, AnswersOK
    <3>2. \A s \in Requests : req'[s].kind = req[s].kind /\ req'[s].token = req[s].token
      BY <2>2, <2>4 DEF n
    <3> QED BY <1>1, <2>9, <3>1, <3>2
  <2>13. StoredTokenIsUnspent'
    BY <1>1, <2>9 DEF IInv, StoredTokenIsUnspent
  <2>14. OthersChangeTheUser' /\ TabsOK'
    BY <1>1, <2>2, <2>4 DEF IInv, OthersChangeTheUser, TabsOK, RefreshUnderWay
  <2> QED BY <2>5, <2>6, <2>7, <2>8, <2>11, <2>12, <2>13, <2>14 DEF IInv
<1> QED BY <1>2, <1>3

LEMMA LogoutPreserves ==
    ASSUME IInv, NEW r \in Requests, Logout(r)
    PROVE  IInv'
<1> DEFINE n == req[r].token
           same == {m \in Issued : session[m].user = session[n].user}
           logins == LoginsOf(same)
<1>1. /\ TypeOK /\ At(r, "logout", "sent") /\ NoToken \in Tokens
      /\ UNCHANGED <<store, shown, armed, overlap, left, cut, writer, faults>>
  BY AuthAssumption DEF IInv, Logout, browser, Tokens, NoToken
<1>2. CASE ~ Bearer(n)
  <2>1. Reply(r, "denied", NoToken) /\ UNCHANGED <<session, browser, history>>
    BY <1>1, <1>2 DEF Logout, browser, history
  <2>2. req[r].at \in {"sent", "checked"} /\ faults' \in 0..MaxFaults
    BY <1>1 DEF At, TypeOK
  <2> QED BY <2>1, <2>2, RefusedPreserves
<1>3. CASE Bearer(n)
  <2>1. /\ RevokeAll(n) /\ Reply(r, "granted", NoToken)
        /\ ended' = ended \cup (logins \ LoginsOf(CheckedTokens))
    BY <1>3 DEF Logout
  <2>2. n \in Issued
    BY <1>3 DEF IInv, RequestOK, Bearer
  <2>3. /\ RowsKept /\ Issued' = Issued
        /\ \A m \in Issued : session[m].user = session[n].user => Revoked(m)'
        /\ \A m \in Issued : session'[m].revoked = "rotated" => session[m].revoked = "rotated"
    BY <1>1, <2>1, <2>2, RevokeEffect
  <2>4. /\ req' \in [Requests -> Request]
        /\ \A q \in Requests \ {r} : req'[q] = req[q]
        /\ req'[r].kind = "logout" /\ req'[r].tab = req[r].tab
        /\ req'[r].at = "granted" /\ req'[r].got = NoToken /\ req'[r].token = NoToken
    BY <1>1, <2>1, ReplyEffect DEF At
  <2>5. \A m \in Issued : /\ session[m].login \in Issued
                          /\ session[m].login \in logins => session[m].user = session[n].user
    BY DEF IInv, LineageOK, LoginsOf
  <2>6. logins \subseteq Issued
    BY <2>5 DEF LoginsOf
  <2>7. \A q \in Requests : /\ At(q, "refresh", "checked")' <=> At(q, "refresh", "checked")
                            /\ At(q, "refresh", "granted")' <=> At(q, "refresh", "granted")
                            /\ Carries(q)' <=> Carries(q)
                            /\ At(q, "refresh", "checked") => req'[q] = req[q] /\ req[q].token \in Issued
                            /\ Carries(q) => req'[q] = req[q] /\ req[q].got \in Issued
                            /\ req'[q].kind = req[q].kind
                            /\ req[q].kind = "refresh" => req'[q] = req[q]
    BY <1>1, <2>4 DEF IInv, RequestOK, At, Carries
  <2>8. \A q \in Requests : At(q, "refresh", "checked") /\ session[req[q].token].login \in ended'
                               => session[req[q].token].login \in ended
    BY <2>1 DEF LoginsOf, CheckedTokens
  <2> HIDE DEF n, same, logins
  <2>9. TypeOK'
    BY <1>1, <2>1, <2>3, <2>4, <2>6 DEF TypeOK, RowsKept
  <2>10. \A q \in Requests : RequestOK(q)'
    BY <1>1, <2>3, <2>4 DEF IInv, RequestOK
  <2>11. LineageOK'
    BY <2>3 DEF IInv, LineageOK, RowsKept
  <2>12. ChecksOK'
    <3> SUFFICES ASSUME NEW q \in Requests, At(q, "refresh", "checked")'
                 PROVE  /\ \A s \in Requests \ {q} :
                             At(s, "refresh", "checked")' /\ req'[s].token = req'[q].token
                                => req'[q].token \in overlap'
                        /\ \A m \in Issued' : session'[m].parent = req'[q].token
                                                => req'[q].token \in overlap'
                        /\ session'[req'[q].token].login \notin ended'
      BY DEF ChecksOK
    <3>1. /\ \A s \in Requests \ {q} : At(s, "refresh", "checked") /\ req[s].token = req[q].token
                                          => req[q].token \in overlap
          /\ \A m \in Issued : session[m].parent = req[q].token => req[q].token \in overlap
          /\ session[req[q].token].login \notin ended
      BY <2>7 DEF IInv, ChecksOK
    <3>2. session'[req[q].token].login = session[req[q].token].login
      BY <2>3, <2>7 DEF RowsKept
    <3>3. \A m \in Issued : session'[m].parent = session[m].parent
      BY <2>3 DEF RowsKept
    <3> QED BY <1>1, <2>1, <2>3, <2>7, <2>8, <3>1, <3>2, <3>3
  <2>13. AnswersOK'
    <3> SUFFICES ASSUME NEW q \in Requests, Carries(q)'
                 PROVE  /\ session'[req'[q].got].revoked # "rotated"
                        /\ store'.refresh # req'[q].got
                        /\ \A s \in Requests :
                             /\ req'[s].kind = "refresh" => req'[s].token # req'[q].got
                             /\ s # q /\ Carries(s)' => req'[s].got # req'[q].got
      BY DEF AnswersOK
    <3>1. /\ session[req[q].got].revoked # "rotated"
          /\ store.refresh # req[q].got
          /\ \A s \in Requests :
               /\ req[s].kind = "refresh" => req[s].token # req[q].got
               /\ s # q /\ Carries(s) => req[s].got # req[q].got
      BY <2>7 DEF IInv, AnswersOK
    <3> QED BY <1>1, <2>3, <2>7, <3>1
  <2>14. OneExchangePerToken'
    BY <1>1, <2>3 DEF IInv, OneExchangePerToken, RowsKept
  <2>15. LogoutEndsLogins'
    <3> SUFFICES ASSUME NEW m \in Issued, ~ Revoked(m)', session[m].login \in ended'
                 PROVE  FALSE
      BY <2>3 DEF LogoutEndsLogins, RowsKept
    <3>1. ~ Revoked(m) /\ session[m].user # session[n].user
      BY <2>3 DEF RowsKept
    <3> QED BY <2>1, <2>5, <3>1 DEF IInv, LogoutEndsLogins
  <2>16. StoredTokenIsUnspent'
    <3> SUFFICES ASSUME store.refresh # NoToken, session'[store.refresh].revoked = "rotated"
                 PROVE  \/ \E q \in Requests :
                              At(q, "refresh", "granted")' /\ req'[q].token = store.refresh
                        \/ store.refresh \in cut
      BY <1>1 DEF StoredTokenIsUnspent
    <3>1. session[store.refresh].revoked = "rotated"
      BY <1>1, <2>3 DEF TypeOK
    <3>2. \A q \in Requests : At(q, "refresh", "granted") => req'[q] = req[q]
      BY <1>1, <2>4 DEF At
    <3> QED BY <2>7, <3>1, <3>2 DEF IInv, StoredTokenIsUnspent
  <2>17. OthersChangeTheUser' /\ TabsOK'
    BY <1>1, <2>4, <2>7 DEF IInv, OthersChangeTheUser, TabsOK, RefreshUnderWay
  <2> QED BY <2>9, <2>10, <2>11, <2>12, <2>13, <2>14, <2>15, <2>16, <2>17 DEF IInv
<1> QED BY <1>2, <1>3

LEMMA RefusalsPreserve ==
    ASSUME IInv, NEW r \in Requests, WrongPassword(r) \/ Serve(r) \/ ServerError(r)
    PROVE  IInv'
<1>1. faults \in 0..MaxFaults /\ MaxFaults \in Nat
  BY SessionsAssumption DEF IInv, TypeOK
<1>2. CASE WrongPassword(r)
  <2>1. /\ req[r].at \in {"sent", "checked"} /\ Reply(r, "denied", NoToken)
        /\ UNCHANGED <<session, browser, history>> /\ faults' \in 0..MaxFaults
    BY <1>1, <1>2 DEF WrongPassword, At
  <2> QED BY <2>1, RefusedPreserves
<1>3. CASE Serve(r)
  <2> DEFINE at == IF Bearer(req[r].token) THEN "granted" ELSE "denied"
  <2>1. /\ req[r].kind = "call" /\ req[r].at \in {"sent", "checked"} /\ Reply(r, at, NoToken)
        /\ UNCHANGED <<session, browser, history>> /\ faults' \in 0..MaxFaults
    BY <1>1, <1>3 DEF Serve, At
  <2>2. at \in {"granted", "denied", "failed"}
    OBVIOUS
  <2> HIDE DEF at
  <2> QED BY <2>1, <2>2, RefusedPreserves
<1>4. CASE ServerError(r)
  <2>1. /\ req[r].at \in {"sent", "checked"} /\ Reply(r, "failed", NoToken)
        /\ UNCHANGED <<session, browser, history>> /\ faults' \in 0..MaxFaults
    BY <1>1, <1>4 DEF ServerError, Fault
  <2> QED BY <2>1, RefusedPreserves
<1> QED BY <1>2, <1>3, <1>4

LEMMA TimePassesPreserves ==
    ASSUME IInv, NEW n \in Issued, TimePasses(n)
    PROVE  IInv'
<1>1. TypeOK /\ GrowOlder(n)
      /\ UNCHANGED <<store, shown, armed, req, faults, overlap, ended, left, cut, writer>>
  BY DEF IInv, TimePasses, browser, history
<1>2. RowsKept /\ Issued' = Issued /\ \A m \in Issued : session'[m].revoked = session[m].revoked
  BY <1>1, AgeEffect
<1>3. TypeOK' /\ \A q \in Requests : RequestOK(q)'
  BY <1>1, <1>2 DEF IInv, TypeOK, RequestOK, RowsKept
<1>4. LineageOK' /\ OneExchangePerToken' /\ LogoutEndsLogins'
  BY <1>1, <1>2 DEF IInv, LineageOK, OneExchangePerToken, LogoutEndsLogins, RowsKept, Revoked
<1>5. \A q \in Requests : /\ At(q, "refresh", "checked") => req[q].token \in Issued
                          /\ Carries(q) => req[q].got \in Issued
  BY DEF IInv, RequestOK, At, Carries
<1>6. ChecksOK'
  BY <1>1, <1>2, <1>5 DEF IInv, ChecksOK, RowsKept, At
<1>7. AnswersOK'
  BY <1>1, <1>2, <1>5 DEF IInv, AnswersOK, Carries, At
<1>8. StoredTokenIsUnspent'
  BY <1>1, <1>2 DEF IInv, StoredTokenIsUnspent, TypeOK, At
<1>9. OthersChangeTheUser' /\ TabsOK'
  BY <1>1 DEF IInv, OthersChangeTheUser, TabsOK, RefreshUnderWay
<1> QED BY <1>3, <1>4, <1>6, <1>7, <1>8, <1>9 DEF IInv

-----------------------------------------------------------------------------
\* What a tab does with an answer.

\* Requests end or lose their tab, and change in nothing else.
Fewer ==
    /\ req' \in [Requests -> Request]
    /\ \A q \in Requests :
         \/ req'[q] = Idle
         \/ /\ req'[q].kind = req[q].kind /\ req'[q].at = req[q].at
            /\ req'[q].token = req[q].token /\ req'[q].user = req[q].user
            /\ req'[q].got = req[q].got
            /\ req'[q].tab \in {req[q].tab, None}

\* Fewer requests disturb nothing but what is said of the store and the tabs.
LEMMA FewerPreserves ==
    ASSUME IInv, Fewer, UNCHANGED <<session, overlap, ended>>
    PROVE  /\ Issued' = Issued
           /\ \A q \in Requests : RequestOK(q)'
           /\ LineageOK' /\ ChecksOK' /\ OneExchangePerToken' /\ LogoutEndsLogins'
           /\ \A t \in Tabs : RefreshUnderWay(t)' => RefreshUnderWay(t)
           /\ (\A q \in Requests : Carries(q)' => store'.refresh # req[q].got) => AnswersOK'
<1>1. /\ Issued' = Issued
      /\ LineageOK' /\ OneExchangePerToken' /\ LogoutEndsLogins'
  BY RowsUnchanged
<1>2. /\ Idle.kind = "none" /\ Idle.at = "sent" /\ Idle.tab = None
      /\ Idle.token = NoToken /\ Idle.got = NoToken
  BY DEF Idle
<1>3. \A q \in Requests : RequestOK(q)'
  BY <1>1, <1>2 DEF IInv, RequestOK, Fewer
<1>4. \A q \in Requests : /\ At(q, "refresh", "checked")' =>
                                At(q, "refresh", "checked") /\ req'[q].token = req[q].token
                          /\ Carries(q)' => Carries(q) /\ req'[q].got = req[q].got
                          /\ req'[q].kind = "refresh" =>
                                /\ req[q].kind = "refresh" /\ req'[q].token = req[q].token
                                /\ req'[q].tab \in {req[q].tab, None}
  BY <1>2 DEF Fewer, At, Carries
<1>5. ChecksOK'
  <2> SUFFICES ASSUME NEW q \in Requests, At(q, "refresh", "checked")'
               PROVE  /\ \A s \in Requests \ {q} :
                           At(s, "refresh", "checked")' /\ req'[s].token = req'[q].token
                              => req'[q].token \in overlap'
                      /\ \A m \in Issued' : session'[m].parent = req'[q].token
                                              => req'[q].token \in overlap'
                      /\ session'[req'[q].token].login \notin ended'
    BY DEF ChecksOK
  <2>1. /\ \A s \in Requests \ {q} : At(s, "refresh", "checked") /\ req[s].token = req[q].token
                                        => req[q].token \in overlap
        /\ \A m \in Issued : session[m].parent = req[q].token => req[q].token \in overlap
        /\ session[req[q].token].login \notin ended
    BY <1>4 DEF IInv, ChecksOK
  <2> QED BY <1>1, <1>4, <2>1
<1>6. ASSUME NEW t \in Tabs
      PROVE  RefreshUnderWay(t)' => RefreshUnderWay(t)
  BY <1>4, SessionsAssumption DEF RefreshUnderWay
<1>7. ASSUME \A q \in Requests : Carries(q)' => store'.refresh # req[q].got
      PROVE  AnswersOK'
  <2> SUFFICES ASSUME NEW q \in Requests, Carries(q)'
               PROVE  /\ session'[req'[q].got].revoked # "rotated"
                      /\ store'.refresh # req'[q].got
                      /\ \A s \in Requests :
                           /\ req'[s].kind = "refresh" => req'[s].token # req'[q].got
                           /\ s # q /\ Carries(s)' => req'[s].got # req'[q].got
    BY DEF AnswersOK
  <2>1. /\ session[req[q].got].revoked # "rotated"
        /\ \A s \in Requests :
             /\ req[s].kind = "refresh" => req[s].token # req[q].got
             /\ s # q /\ Carries(s) => req[s].got # req[q].got
    BY <1>4 DEF IInv, AnswersOK
  <2> QED BY <1>4, <1>7, <2>1
<1> QED BY <1>1, <1>3, <1>5, <1>6, <1>7

\* An answer, or its loss, in a tab.
LEMMA HandlePreserves ==
    ASSUME IInv, NEW r \in Requests, req[r].tab \in Tabs,
           NEW outcome \in {"granted", "denied", "failed"}, Handle(r, outcome),
           Fewer, \A q \in Requests \ {r} : req'[q] = req[q],
           outcome = "granted" => req[r].at = "granted" /\ req'[r] = Idle,
           UNCHANGED <<session, overlap, ended, cut>>, faults' \in 0..MaxFaults
    PROVE  IInv'
<1> DEFINE t == req[r].tab
           n == req[r].got
<1>1. TypeOK /\ t \in Tabs /\ NoToken \in Tokens /\ Idle.kind = "none"
  BY AuthAssumption DEF IInv, Tokens, NoToken, Idle
<1>2. /\ Issued' = Issued
      /\ \A q \in Requests : RequestOK(q)'
      /\ LineageOK' /\ ChecksOK' /\ OneExchangePerToken' /\ LogoutEndsLogins'
      /\ \A s \in Tabs : RefreshUnderWay(s)' => RefreshUnderWay(s)
      /\ (\A q \in Requests : Carries(q)' => store'.refresh # req[q].got) => AnswersOK'
  BY FewerPreserves
<1>3. \A q \in Requests : /\ Carries(q) => req[q].got \in Issued /\ req[q].got # NoToken
                          /\ Carries(q)' => Carries(q)
  <2>1. NoToken \notin Issued
    BY <1>1, Rows
  <2> QED BY <1>1, <2>1 DEF IInv, RequestOK, Carries, At, Fewer
<1>4. /\ req' \in [Requests -> Request]
      /\ UNCHANGED <<session, overlap, ended, cut>>
  BY DEF Fewer
<1>5. CASE req[r].kind \in {"login", "refresh"} /\ outcome = "granted"
  <2>1. /\ Carries(r) /\ n \in Issued /\ n # NoToken /\ req'[r] = Idle
        /\ session[n].user \in Users /\ None \notin Users
    <3>1. Carries(r)
      BY <1>5 DEF Carries, At
    <3>2. session[n] \in SessionRow
      BY <1>1, <1>3, <3>1, Rows
    <3> QED BY <1>3, <1>5, <3>1, <3>2, SessionsAssumption DEF SessionRow
  <2>2. /\ store' = [access |-> n, refresh |-> n, user |-> session[n].user]
        /\ shown' = [shown EXCEPT ![t] = session[n].user]
        /\ armed' = [armed EXCEPT ![t] = TRUE]
        /\ writer' = t
        /\ left' \in {left, [left EXCEPT ![t] = FALSE]}
        /\ req[r].kind = "login" => left' = [left EXCEPT ![t] = FALSE]
    BY <1>5 DEF Handle, KeepTokens, Stored, ShownAfterRefresh
  <2>3. /\ store'.access = n /\ store'.refresh = n /\ store'.user = session[n].user
        /\ store' \in [access : Issued \cup {NoToken}, refresh : Issued \cup {NoToken},
                       user : Users \cup {None}]
    BY <2>1, <2>2
  <2>4. /\ shown' \in [Tabs -> Users \cup {None}] /\ shown'[t] = session[n].user
        /\ armed' \in [Tabs -> BOOLEAN]
        /\ left' \in [Tabs -> BOOLEAN]
        /\ \A s \in Tabs \ {t} : armed'[s] = armed[s] /\ left'[s] = left[s]
    BY <1>1, <2>1, <2>2 DEF TypeOK
  <2>5. ~ left'[t]
    <3>1. CASE req[r].kind = "login"
      BY <1>1, <2>2, <3>1 DEF TypeOK
    <3>2. CASE req[r].kind = "refresh"
      <4>1. ~ left[t]
        BY <1>1, <3>2 DEF IInv, TabsOK, RefreshUnderWay
      <4> QED BY <1>1, <2>2, <4>1 DEF TypeOK
    <3> QED BY <1>5, <3>1, <3>2
  <2>6. /\ session[n].revoked # "rotated"
        /\ \A q \in Requests \ {r} : Carries(q) => req[q].got # n
    BY <2>1 DEF IInv, AnswersOK
  <2> HIDE DEF t, n
  <2>7. TypeOK'
    BY <1>1, <1>2, <1>4, <2>1, <2>2, <2>3, <2>4 DEF TypeOK
  <2>8. AnswersOK'
    <3>1. ASSUME NEW q \in Requests, Carries(q)'
          PROVE  store'.refresh # req[q].got
      <4>1. q # r
        BY <1>1, <2>1, <3>1 DEF Carries, At
      <4> QED BY <1>3, <2>3, <2>6, <3>1, <4>1
    <3> QED BY <1>2, <3>1
  <2>9. TabsOK'
    BY <1>2, <2>4, <2>5 DEF IInv, TabsOK
  <2>10. StoredTokenIsUnspent'
    BY <1>4, <2>3, <2>6 DEF StoredTokenIsUnspent
  <2>11. OthersChangeTheUser'
    BY <1>1, <2>2, <2>3, <2>4 DEF OthersChangeTheUser
  <2> QED BY <1>2, <2>7, <2>8, <2>9, <2>10, <2>11 DEF IInv
<1>6. CASE req[r].kind = "logout" \/ (req[r].kind = "refresh" /\ outcome # "granted")
  <2>1. /\ store' = EmptyStore /\ shown' = [shown EXCEPT ![t] = None]
        /\ writer' = None /\ UNCHANGED <<armed, left>>
    BY <1>6 DEF Handle, ForgetTokens
  <2>2. /\ store'.access = NoToken /\ store'.refresh = NoToken /\ store'.user = None
        /\ store' \in [access : Issued \cup {NoToken}, refresh : Issued \cup {NoToken},
                       user : Users \cup {None}]
    BY <2>1 DEF EmptyStore
  <2>3. shown' \in [Tabs -> Users \cup {None}]
    BY <1>1, <2>1 DEF TypeOK
  <2> HIDE DEF t, n
  <2>4. TypeOK'
    BY <1>1, <1>2, <1>4, <2>1, <2>2, <2>3 DEF TypeOK
  <2>5. AnswersOK'
    BY <1>2, <1>3, <2>2
  <2>6. TabsOK'
    BY <1>2, <2>1 DEF IInv, TabsOK
  <2>7. StoredTokenIsUnspent' /\ OthersChangeTheUser'
    BY <2>2 DEF StoredTokenIsUnspent, OthersChangeTheUser
  <2> QED BY <1>2, <2>4, <2>5, <2>6, <2>7 DEF IInv
<1>7. CASE req[r].kind \in {"login", "call"} /\ ~ (req[r].kind = "login" /\ outcome = "granted")
  <2>1. /\ UNCHANGED <<armed, left>>
        /\ \/ UNCHANGED <<store, shown, writer>>
           \/ /\ store' = WithoutAccess /\ shown' = [shown EXCEPT ![t] = None]
              /\ writer' = None
    BY <1>7 DEF Handle, AuthExpired, browser
  <2>2. /\ store'.refresh = store.refresh
        /\ store'.access = NoToken <=> store'.user = None
        /\ store'.user = None \/ (store'.user = store.user /\ UNCHANGED writer)
        /\ store' \in [access : Issued \cup {NoToken}, refresh : Issued \cup {NoToken},
                       user : Users \cup {None}]
    BY <1>1, <2>1 DEF TypeOK, WithoutAccess
  <2>3. /\ shown' \in [Tabs -> Users \cup {None}]
        /\ \A s \in Tabs : shown'[s] \in {shown[s], None}
    BY <1>1, <2>1 DEF TypeOK
  <2> HIDE DEF t, n
  <2>4. TypeOK'
    BY <1>1, <1>2, <1>4, <2>1, <2>2, <2>3 DEF TypeOK
  <2>5. AnswersOK'
    BY <1>2, <1>3, <2>2 DEF IInv, AnswersOK
  <2>6. TabsOK'
    BY <1>2, <2>1 DEF IInv, TabsOK
  <2>7. StoredTokenIsUnspent'
    <3>1. \A q \in Requests : At(q, "refresh", "granted") => req'[q] = req[q]
      BY <1>7 DEF At
    <3> QED BY <1>4, <2>2, <3>1 DEF IInv, StoredTokenIsUnspent, At
  <2>8. OthersChangeTheUser'
    BY <2>1, <2>2, <2>3 DEF IInv, OthersChangeTheUser
  <2> QED BY <1>2, <2>4, <2>5, <2>6, <2>7, <2>8 DEF IInv
<1> QED BY <1>5, <1>6, <1>7 DEF Handle

LEMMA AnswersPreserve ==
    ASSUME IInv, NEW r \in Requests, Answer(r) \/ ConnectionLost(r)
    PROVE  IInv'
<1>1. /\ TypeOK /\ req[r] \in Request /\ req[r].tab \in Tabs
      /\ faults \in 0..MaxFaults /\ MaxFaults \in Nat
  BY SessionsAssumption DEF IInv, TypeOK, Answer, ConnectionLost, Request
<1>2. Idle \in Request
  BY AuthAssumption DEF Idle, Request, Tokens, NoToken
<1>3. CASE Answer(r)
  <2>1. /\ req[r].at \in {"granted", "denied", "failed"} /\ Handle(r, req[r].at)
        /\ req' = [req EXCEPT ![r] = Idle]
        /\ UNCHANGED <<session, overlap, ended, cut, faults>>
    BY <1>3 DEF Answer
  <2>2. /\ req' \in [Requests -> Request] /\ req'[r] = Idle
        /\ \A q \in Requests \ {r} : req'[q] = req[q]
    BY <1>1, <1>2, <2>1 DEF TypeOK
  <2>3. Fewer
    BY <2>2 DEF Fewer
  <2> QED BY <1>1, <2>1, <2>2, <2>3, HandlePreserves
<1>4. CASE ConnectionLost(r)
  <2> DEFINE new == [req[r] EXCEPT !.tab = None]
  <2>1. /\ Handle(r, "failed") /\ faults' \in 0..MaxFaults
        /\ req' = [req EXCEPT ![r] = new]
        /\ UNCHANGED <<session, overlap, ended, cut>>
    BY <1>1, <1>4 DEF ConnectionLost, Fault
  <2>2. /\ new \in Request /\ new.kind = req[r].kind /\ new.at = req[r].at
        /\ new.token = req[r].token /\ new.user = req[r].user
        /\ new.got = req[r].got /\ new.tab = None
    BY <1>1 DEF Request
  <2> HIDE DEF new
  <2>3. /\ req' \in [Requests -> Request] /\ req'[r] = new
        /\ \A q \in Requests \ {r} : req'[q] = req[q]
    BY <1>1, <2>1, <2>2 DEF TypeOK
  <2>4. Fewer
    BY <2>2, <2>3 DEF Fewer
  <2> QED BY <1>1, <2>1, <2>3, <2>4, HandlePreserves
<1> QED BY <1>3, <1>4

LEMMA AnswerNobodyPreserves ==
    ASSUME IInv, NEW r \in Requests, AnswerNobody(r)
    PROVE  IInv'
<1>1. /\ TypeOK /\ req' = [req EXCEPT ![r] = Idle]
      /\ cut' = IF At(r, "refresh", "granted") THEN cut \cup {req[r].token} ELSE cut
      /\ UNCHANGED <<session, store, shown, armed, overlap, ended, left, writer, faults>>
  BY DEF IInv, AnswerNobody, browser
<1>2. Idle \in Request
  BY AuthAssumption DEF Idle, Request, Tokens, NoToken
<1>3. /\ req' \in [Requests -> Request] /\ req'[r] = Idle
      /\ \A q \in Requests \ {r} : req'[q] = req[q]
  BY <1>1, <1>2 DEF TypeOK
<1>4. Fewer
  BY <1>3 DEF Fewer
<1>5. /\ Issued' = Issued
      /\ \A q \in Requests : RequestOK(q)'
      /\ LineageOK' /\ ChecksOK' /\ OneExchangePerToken' /\ LogoutEndsLogins'
      /\ \A t \in Tabs : RefreshUnderWay(t)' => RefreshUnderWay(t)
      /\ (\A q \in Requests : Carries(q)' => store'.refresh # req[q].got) => AnswersOK'
  BY <1>1, <1>4, FewerPreserves
<1>6. At(r, "refresh", "granted") => req[r].token \in Issued
  BY DEF IInv, RequestOK, At
<1>7. TypeOK'
  BY <1>1, <1>3, <1>5, <1>6 DEF TypeOK
<1>8. AnswersOK'
  <2>1. \A q \in Requests : Carries(q)' => Carries(q)
    BY <1>3 DEF Carries, At, Idle
  <2> QED BY <1>1, <1>5, <2>1 DEF IInv, AnswersOK
<1>9. TabsOK' /\ OthersChangeTheUser'
  BY <1>1, <1>5 DEF IInv, TabsOK, OthersChangeTheUser
<1>10. StoredTokenIsUnspent'
  <2> SUFFICES ASSUME store.refresh # NoToken, session[store.refresh].revoked = "rotated",
                      store.refresh \notin cut'
               PROVE  \E q \in Requests :
                          At(q, "refresh", "granted")' /\ req'[q].token = store.refresh
    BY <1>1 DEF StoredTokenIsUnspent
  <2>1. PICK q \in Requests : At(q, "refresh", "granted") /\ req[q].token = store.refresh
    BY <1>1 DEF IInv, StoredTokenIsUnspent
  <2>2. q # r
    BY <1>1, <2>1
  <2> QED BY <1>3, <2>1, <2>2 DEF At
<1> QED BY <1>5, <1>7, <1>8, <1>9, <1>10 DEF IInv

LEMMA ReloadPreserves ==
    ASSUME IInv, NEW t \in Tabs, Reload(t)
    PROVE  IInv'
<1> DEFINE user == IF store.access # NoToken THEN store.user ELSE None
           without(q) == [req[q] EXCEPT !.tab = None]
<1>1. /\ TypeOK /\ faults' \in 0..MaxFaults
      /\ shown' = [shown EXCEPT ![t] = user]
      /\ armed' = [armed EXCEPT ![t] = user # None]
      /\ req' = [q \in Requests |-> IF req[q].tab = t THEN without(q) ELSE req[q]]
      /\ left' = [left EXCEPT ![t] = FALSE]
      /\ UNCHANGED <<session, store, overlap, ended, cut, writer>>
  BY SessionsAssumption DEF IInv, TypeOK, Reload, Fault
<1>2. user \in Users \cup {None} /\ (user # None => user = store.user)
  BY <1>1 DEF TypeOK
<1>3. ASSUME NEW q \in Requests
      PROVE  /\ without(q) \in Request /\ without(q).kind = req[q].kind
             /\ without(q).at = req[q].at
             /\ without(q).token = req[q].token /\ without(q).user = req[q].user
             /\ without(q).got = req[q].got /\ without(q).tab = None
  <2>1. req[q] \in Request
    BY <1>1 DEF TypeOK
  <2> QED BY <2>1 DEF Request
<1> HIDE DEF user, without
<1>4. Fewer /\ \A q \in Requests : req'[q].kind = req[q].kind /\ req'[q].at = req[q].at
                                   /\ req'[q].token = req[q].token
  <2>1. \A q \in Requests : req[q] \in Request
    BY <1>1 DEF TypeOK
  <2>2. req' \in [Requests -> Request]
    BY <1>1, <1>3, <2>1
  <2> QED BY <1>1, <1>3, <2>2 DEF Fewer
<1>5. /\ Issued' = Issued
      /\ \A q \in Requests : RequestOK(q)'
      /\ LineageOK' /\ ChecksOK' /\ OneExchangePerToken' /\ LogoutEndsLogins'
      /\ \A s \in Tabs : RefreshUnderWay(s)' => RefreshUnderWay(s)
      /\ (\A q \in Requests : Carries(q)' => store'.refresh # req[q].got) => AnswersOK'
  BY <1>1, <1>4, FewerPreserves
<1>6. /\ shown' \in [Tabs -> Users \cup {None}] /\ armed' \in [Tabs -> BOOLEAN]
      /\ left' \in [Tabs -> BOOLEAN]
      /\ ~ left'[t] /\ shown'[t] = user
      /\ \A s \in Tabs \ {t} : armed'[s] = armed[s] /\ left'[s] = left[s] /\ shown'[s] = shown[s]
  BY <1>1, <1>2 DEF TypeOK
<1>7. TypeOK'
  BY <1>1, <1>4, <1>5, <1>6 DEF TypeOK, Fewer
<1>8. AnswersOK'
  <2>1. \A q \in Requests : Carries(q)' => Carries(q)
    BY <1>4 DEF Carries, At
  <2> QED BY <1>1, <1>5, <2>1 DEF IInv, AnswersOK
<1>9. TabsOK'
  BY <1>5, <1>6 DEF IInv, TabsOK
<1>10. StoredTokenIsUnspent'
  BY <1>1, <1>4 DEF IInv, StoredTokenIsUnspent, At
<1>11. OthersChangeTheUser'
  BY <1>1, <1>2, <1>6 DEF IInv, OthersChangeTheUser
<1> QED BY <1>5, <1>7, <1>8, <1>9, <1>10, <1>11 DEF IInv

LEMMA StutterPreserves ==
    ASSUME IInv, UNCHANGED vars
    PROVE  IInv'
<1>1. UNCHANGED <<session, store, shown, armed, req, faults,
                  overlap, ended, left, cut, writer>>
  BY DEF vars, browser, history
<1>2. Issued' = Issued /\ LineageOK' /\ OneExchangePerToken' /\ LogoutEndsLogins'
  BY <1>1, RowsUnchanged
<1>3. TypeOK' /\ \A q \in Requests : RequestOK(q)'
  BY <1>1, <1>2 DEF IInv, TypeOK, RequestOK
<1>4. ChecksOK' /\ AnswersOK'
  BY <1>1, <1>2 DEF IInv, ChecksOK, AnswersOK, Carries, At
<1>5. StoredTokenIsUnspent' /\ OthersChangeTheUser' /\ TabsOK'
  BY <1>1 DEF IInv, StoredTokenIsUnspent, OthersChangeTheUser, TabsOK, RefreshUnderWay, At
<1> QED BY <1>2, <1>3, <1>4, <1>5 DEF IInv

LEMMA InitHolds == Init => IInv
<1> SUFFICES ASSUME Init
             PROVE  IInv
  OBVIOUS
<1>1. /\ session = << >> /\ Issued = {}
      /\ \A r \in Requests : req[r] = Idle
  BY DEF Init, AuthInit, Issued
<1>2. Idle \in Request /\ Idle.kind = "none" /\ Idle.at = "sent"
      /\ Idle.token = NoToken /\ Idle.got = NoToken
  BY AuthAssumption DEF Idle, Request, Tokens, NoToken
<1>3. /\ store.access = NoToken /\ store.refresh = NoToken /\ store.user = None
      /\ store \in [access : Issued \cup {NoToken}, refresh : Issued \cup {NoToken},
                    user : Users \cup {None}]
  BY DEF Init, EmptyStore
<1>4. session \in Seq(SessionRow) /\ Len(session) = 0
  BY <1>1
<1>5. TypeOK
  BY <1>1, <1>2, <1>3, <1>4, AuthAssumption, SessionsAssumption DEF Init, TypeOK
<1>6. \A r \in Requests : RequestOK(r)
  BY <1>1, <1>2 DEF RequestOK
<1>7. LineageOK /\ OneExchangePerToken /\ LogoutEndsLogins
  BY <1>1 DEF LineageOK, OneExchangePerToken, LogoutEndsLogins
<1>8. ChecksOK /\ AnswersOK
  BY <1>1, <1>2 DEF ChecksOK, AnswersOK, Carries, At
<1>9. TabsOK /\ StoredTokenIsUnspent /\ OthersChangeTheUser
  BY <1>3 DEF Init, TabsOK, StoredTokenIsUnspent, OthersChangeTheUser
<1> QED BY <1>5, <1>6, <1>7, <1>8, <1>9 DEF IInv

-----------------------------------------------------------------------------
LEMMA NextPreserves ==
    ASSUME IInv, [Next]_vars
    PROVE  IInv'
<1>1. CASE UNCHANGED vars
  BY <1>1, StutterPreserves
<1>2. ASSUME NEW t \in Tabs, Reload(t)
      PROVE  IInv'
  BY <1>2, ReloadPreserves
<1>3. ASSUME NEW t \in Tabs, NEW r \in Requests, NEW user \in Users, SubmitLogin(t, r, user)
      PROVE  IInv'
  BY <1>3, SubmitLoginPreserves
<1>4. ASSUME NEW t \in Tabs, NEW r \in Requests,
             TimerFires(t, r) \/ ClickLogout(t, r) \/ Call(t, r)
      PROVE  IInv'
  BY <1>4, TimerFiresPreserves, ClickLogoutPreserves, CallPreserves
<1>5. ASSUME NEW r \in Requests,
             Login(r) \/ CheckRefresh(r) \/ CommitRefresh(r) \/ Logout(r)
      PROVE  IInv'
  BY <1>5, LoginPreserves, CheckRefreshPreserves, CommitRefreshPreserves, LogoutPreserves
<1>6. ASSUME NEW r \in Requests, WrongPassword(r) \/ Serve(r) \/ ServerError(r)
      PROVE  IInv'
  BY <1>6, RefusalsPreserve
<1>7. ASSUME NEW r \in Requests, Answer(r) \/ AnswerNobody(r) \/ ConnectionLost(r)
      PROVE  IInv'
  BY <1>7, AnswersPreserve, AnswerNobodyPreserves
<1>8. ASSUME NEW n \in Issued, TimePasses(n)
      PROVE  IInv'
  BY <1>8, TimePassesPreserves
<1> QED BY <1>1, <1>2, <1>3, <1>4, <1>5, <1>6, <1>7, <1>8 DEF Next

\* The inductive invariant holds in every reachable state of the sessions.
THEOREM SessionInductive == Spec => []IInv
BY InitHolds, NextPreserves, PTL DEF Spec

\* Rows, requests, the store and the tabs keep their types; what refers to a
\* pair refers to one that was issued.
THEOREM SessionTypes == Spec => []TypeOK
<1>1. IInv => TypeOK
  BY DEF IInv
<1> QED BY <1>1, SessionInductive, PTL

\* refresh() exchanges a token twice only for requests that overlap between
\* its read and its transaction.
THEOREM TokensExchangedOnce == Spec => []OneExchangePerToken
<1>1. IInv => OneExchangePerToken
  BY DEF IInv
<1> QED BY <1>1, SessionInductive, PTL

\* logout() ends every earlier login of its user but those that a refresh was
\* writing.
THEOREM LogoutIsLasting == Spec => []LogoutEndsLogins
<1>1. IInv => LogoutEndsLogins
  BY DEF IInv
<1> QED BY <1>1, SessionInductive, PTL

\* The tabs of one browser do not leave a spent refresh token in localStorage.
THEOREM StoredTokensWork == Spec => []StoredTokenIsUnspent
<1>1. IInv => StoredTokenIsUnspent
  BY DEF IInv
<1> QED BY <1>1, SessionInductive, PTL

\* A tab shows its own user until another tab writes tokens.
THEOREM TabsShowTheirUser == Spec => []OthersChangeTheUser
<1>1. IInv => OthersChangeTheUser
  BY DEF IInv
<1> QED BY <1>1, SessionInductive, PTL

-----------------------------------------------------------------------------
\* An answer shows a user in a tab that was left only if it is one to a login.
LEMMA HandleShowsNobody ==
    ASSUME IInv, NEW t \in Tabs, left[t], shown[t] = None, shown'[t] # None,
           NEW r \in Requests, NEW outcome, Handle(r, outcome)
    PROVE  ~ left'[t]
<1>1. shown \in [Tabs -> Users \cup {None}] /\ left \in [Tabs -> BOOLEAN]
  BY DEF IInv, TypeOK
<1>2. ~ (req[r].kind = "refresh" /\ req[r].tab = t)
  BY DEF IInv, TabsOK, RefreshUnderWay
<1>3. PICK s, user :
        /\ s = req[r].tab
        /\ \/ /\ shown' = [shown EXCEPT ![s] = user]
              /\ req[r].kind = "login" /\ left' = [left EXCEPT ![s] = FALSE]
           \/ shown' = [shown EXCEPT ![s] = user] /\ req[r].kind = "refresh"
           \/ shown' = [shown EXCEPT ![s] = None]
           \/ shown' = shown
  BY DEF Handle, KeepTokens, ForgetTokens, AuthExpired, browser
<1> QED BY <1>1, <1>2, <1>3

LEMMA StaysOutStep ==
    ASSUME IInv, Next, NEW t \in Tabs,
           left[t], shown[t] = None, shown'[t] # None
    PROVE  ~ left'[t]
<1>1. shown \in [Tabs -> Users \cup {None}] /\ left \in [Tabs -> BOOLEAN]
  BY DEF IInv, TypeOK
<1>2. ASSUME NEW s \in Tabs, Reload(s)
      PROVE  ~ left'[t]
  BY <1>1, <1>2 DEF Reload
<1>3. ASSUME NEW r \in Requests, Answer(r) \/ ConnectionLost(r)
      PROVE  ~ left'[t]
  BY <1>3, HandleShowsNobody DEF Answer, ConnectionLost
<1>4. ASSUME NEW s \in Tabs, NEW r \in Requests, NEW user \in Users, SubmitLogin(s, r, user)
      PROVE  shown' = shown
  BY <1>4 DEF SubmitLogin, browser
<1>5. ASSUME NEW s \in Tabs, NEW r \in Requests,
             TimerFires(s, r) \/ ClickLogout(s, r) \/ Call(s, r)
      PROVE  shown' = shown
  BY <1>5 DEF TimerFires, ClickLogout, Call, browser
<1>6. ASSUME NEW r \in Requests,
             \/ Login(r) \/ WrongPassword(r) \/ CheckRefresh(r) \/ CommitRefresh(r)
             \/ Logout(r) \/ Serve(r) \/ ServerError(r) \/ AnswerNobody(r)
      PROVE  shown' = shown
  BY <1>6 DEF Login, WrongPassword, CheckRefresh, CommitRefresh, Logout, Serve, ServerError,
     AnswerNobody, browser
<1>7. ASSUME NEW n \in Issued, TimePasses(n)
      PROVE  shown' = shown
  BY <1>7 DEF TimePasses, browser
<1> QED BY <1>2, <1>3, <1>4, <1>5, <1>6, <1>7 DEF Next

\* A tab that was logged out with no refresh under way stays logged out, in
\* spite of its own timer and of the other tabs.
THEOREM LogoutStays == Spec => LoggedOutTabStaysOut
<1>1. ASSUME IInv, Next, NEW t \in Tabs
      PROVE  left[t] /\ shown[t] = None /\ shown'[t] # None => ~ left'[t]
  BY <1>1, StaysOutStep
<1>2. IInv /\ [Next]_vars =>
        [\A t \in Tabs :
           left[t] /\ shown[t] = None /\ shown'[t] # None => ~ left'[t]]_vars
  BY <1>1
<1> QED BY <1>2, SessionInductive, PTL DEF Spec, LoggedOutTabStaysOut

=============================================================================
