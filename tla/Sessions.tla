------------------------------ MODULE Sessions ------------------------------
(***************************************************************************)
(* One browser and the API: tabs that share localStorage, each with its own  *)
(* AuthProvider and refresh timer, and the requests they have sent.  A       *)
(* request goes on at the API when its tab is reloaded or loses it.  The     *)
(* head and the body of an answer arrive together.                           *)
(***************************************************************************)
EXTENDS AuthService, FiniteSets

CONSTANTS
    Tabs,
    Requests,   \* slots for requests under way, the bound on how many there are
    MaxFaults,  \* bound on reloads, lost connections and failing queries
    None

ASSUME SessionsAssumption ==
    /\ None \notin Users /\ None \notin Tabs
    /\ MaxFaults \in Nat

VARIABLES
    store,      \* localStorage: access_token, refresh_token, user
    shown,      \* per tab: the user of its AuthState
    armed,      \* per tab: its refresh timer runs
    req,        \* per slot: the request
    faults,     \* how many faults there were
    \* History, read by the properties only:
    overlap,    \* tokens that two requests had checked at the same time
    ended,      \* logins whose sessions a logout has revoked while no refresh
                \* of theirs was checked and not written
    left,       \* per tab: was it logged out while none of its refreshes was
                \* under way
    cut,        \* tokens exchanged for an answer that no tab received
    writer      \* the tab that wrote the user in the store

browser == <<store, shown, armed>>
history == <<overlap, ended, left, cut, writer>>
vars == <<session, browser, req, faults, history>>

Kinds == {"login", "refresh", "logout", "call"}

Request ==
    [ kind  : Kinds \cup {"none"},
      tab   : Tabs \cup {None},       \* None: nobody waits for the answer
      at    : {"sent", "checked", "granted", "denied", "failed"},
      token : Tokens,                 \* refresh: in the body; else the bearer's
      user  : Users \cup {None},      \* login: whose password was typed
      got   : Tokens ]                \* the pair in the answer

Idle == [kind |-> "none", tab |-> None, at |-> "sent", token |-> NoToken,
         user |-> None, got |-> NoToken]

EmptyStore == [access |-> NoToken, refresh |-> NoToken, user |-> None]

\* Rows, the store, tabs and requests keep their types.
TypeOK ==
    /\ session \in Seq(SessionRow)
    /\ Len(session) <= MaxPairs
    /\ store \in [access : Issued \cup {NoToken}, refresh : Issued \cup {NoToken},
                  user : Users \cup {None}]
    /\ store.access = NoToken <=> store.user = None
    /\ shown \in [Tabs -> Users \cup {None}]
    /\ armed \in [Tabs -> BOOLEAN]
    /\ req \in [Requests -> Request]
    /\ faults \in 0..MaxFaults
    /\ left \in [Tabs -> BOOLEAN]
    /\ writer \in Tabs \cup {None}
    /\ overlap \cup ended \cup cut \subseteq Issued

Init ==
    /\ AuthInit
    /\ store = EmptyStore
    /\ shown = [t \in Tabs |-> None]
    /\ armed = [t \in Tabs |-> FALSE]
    /\ req = [r \in Requests |-> Idle]
    /\ faults = 0
    /\ overlap = {} /\ ended = {} /\ cut = {}
    /\ left = [t \in Tabs |-> FALSE]
    /\ writer = None

Fault ==
    /\ faults < MaxFaults
    /\ faults' = faults + 1

Free(r) == req[r].kind = "none"
At(r, kind, at) == req[r].kind = kind /\ req[r].at = at

\* The answer to the request is made: what is needed of it is the pair it
\* carries and, for a refresh, the token it replaces.
Reply(r, at, got) ==
    req' = [req EXCEPT ![r] =
              [kind |-> @.kind, tab |-> @.tab, at |-> at, user |-> None, got |-> got,
               token |-> IF @.kind = "refresh" THEN @.token ELSE NoToken]]

Send(r, t, kind, token, user) ==
    /\ Free(r)
    /\ req' = [req EXCEPT ![r] =
                  [kind |-> kind, tab |-> t, at |-> "sent", token |-> token,
                   user |-> user, got |-> NoToken]]

-----------------------------------------------------------------------------
\* What the user and the timer do in a tab.

\* LoginView is shown while nobody is; its form is disabled until the answer.
\* One login per tab is a bound: a form that is mounted anew is enabled.
SubmitLogin(t, r, user) ==
    /\ shown[t] = None
    /\ \A q \in Requests : ~ (req[q].kind = "login" /\ req[q].tab = t)
    /\ Send(r, t, "login", NoToken, user)
    /\ UNCHANGED <<session, browser, history, faults>>

\* The timer's callback, up to its fetch.
TimerFires(t, r) ==
    /\ armed[t]
    /\ armed' = [armed EXCEPT ![t] = FALSE]
    /\ IF store.refresh = NoToken
       THEN UNCHANGED req
       ELSE Send(r, t, "refresh", store.refresh, None)
    /\ UNCHANGED <<session, store, shown, history, faults>>

RefreshUnderWay(t) == \E q \in Requests : req[q].kind = "refresh" /\ req[q].tab = t

\* Mutant: the timer is stopped at the end of logout() only.
StopTimer_AtTheEnd(t) == armed' = armed

StopTimer(t) == armed' = [armed EXCEPT ![t] = FALSE]

\* logout(), up to its fetch.
ClickLogout(t, r) ==
    /\ shown[t] # None
    /\ StopTimer(t)
    /\ Send(r, t, "logout", store.access, None)
    /\ left' = [left EXCEPT ![t] = ~ RefreshUnderWay(t)]
    /\ UNCHANGED <<session, store, shown, overlap, ended, cut, writer, faults>>

\* Any other request that needs a user.
Call(t, r) ==
    /\ shown[t] # None
    /\ Send(r, t, "call", store.access, None)
    /\ UNCHANGED <<session, browser, history, faults>>

\* The page is loaded anew; AuthProvider mounts with what the store holds.
Reload(t) ==
    LET user == IF store.access # NoToken THEN store.user ELSE None
    IN
    /\ Fault
    /\ shown' = [shown EXCEPT ![t] = user]
    /\ armed' = [armed EXCEPT ![t] = user # None]
    /\ req' = [q \in Requests |->
                 IF req[q].tab = t THEN [req[q] EXCEPT !.tab = None] ELSE req[q]]
    /\ left' = [left EXCEPT ![t] = FALSE]
    /\ UNCHANGED <<session, store, overlap, ended, cut, writer>>

-----------------------------------------------------------------------------
\* What the API does with a request.

Login(r) ==
    /\ At(r, "login", "sent")
    /\ IssueAtLogin(req[r].user)
    /\ Reply(r, "granted", NextPair)
    /\ UNCHANGED <<browser, history, faults>>

WrongPassword(r) ==
    /\ At(r, "login", "sent")
    /\ Reply(r, "denied", NoToken)
    /\ UNCHANGED <<session, browser, history, faults>>

\* refresh(), up to the transaction.
CheckRefresh(r) ==
    LET n == req[r].token
        twin == \E q \in Requests \ {r} : At(q, "refresh", "checked") /\ req[q].token = n
    IN
    /\ At(r, "refresh", "sent")
    /\ Reply(r, IF Admits(n) THEN "checked" ELSE "denied", NoToken)
    /\ overlap' = IF Admits(n) /\ twin THEN overlap \cup {n} ELSE overlap
    /\ UNCHANGED <<session, browser, ended, left, cut, writer, faults>>

CommitRefresh(r) ==
    /\ At(r, "refresh", "checked")
    /\ Rotate(req[r].token)
    /\ Reply(r, "granted", NextPair)
    /\ UNCHANGED <<browser, history, faults>>

LoginsOf(pairs) == {session[n].login : n \in pairs}
CheckedTokens == {req[q].token : q \in {q \in Requests : At(q, "refresh", "checked")}}

\* The guard of the route, then updateMany: one statement, one snapshot.
Logout(r) ==
    LET n == req[r].token
        logins == LoginsOf({m \in Issued : session[m].user = session[n].user})
    IN
    /\ At(r, "logout", "sent")
    /\ IF Bearer(n)
       THEN /\ RevokeAll(n)
            /\ Reply(r, "granted", NoToken)
            /\ ended' = ended \cup (logins \ LoginsOf(CheckedTokens))
       ELSE /\ Reply(r, "denied", NoToken)
            /\ UNCHANGED <<session, ended>>
    /\ UNCHANGED <<browser, overlap, left, cut, writer, faults>>

Serve(r) ==
    /\ At(r, "call", "sent")
    /\ Reply(r, IF Bearer(req[r].token) THEN "granted" ELSE "denied", NoToken)
    /\ UNCHANGED <<session, browser, history, faults>>

\* The database fails: an answer that is neither 200 nor 401.
ServerError(r) ==
    /\ Fault
    /\ ~ Free(r)
    /\ req[r].at \in {"sent", "checked"}
    /\ Reply(r, "failed", NoToken)
    /\ UNCHANGED <<session, browser, history>>

-----------------------------------------------------------------------------
\* What a tab does with an answer.

\* Mutant: a refresh token that is there is not replaced.
Stored_OldRefreshToken(n) ==
    [access  |-> n,
     refresh |-> IF store.refresh = NoToken THEN n ELSE store.refresh,
     user    |-> session[n].user]

Stored(n) == [access |-> n, refresh |-> n, user |-> session[n].user]

\* Mutant: the tab goes on to show its user.
ShownAfterRefresh_Same(t, n) == shown[t]

\* setState after a refresh.
ShownAfterRefresh(t, n) == session[n].user

KeepTokens(t, n, user) ==
    /\ store' = Stored(n)
    /\ shown' = [shown EXCEPT ![t] = user]
    /\ armed' = [armed EXCEPT ![t] = TRUE]
    /\ writer' = t

\* The end of logout() and the catch block of the timer.
ForgetTokens(t) ==
    /\ store' = EmptyStore
    /\ shown' = [shown EXCEPT ![t] = None]
    /\ writer' = None
    /\ UNCHANGED armed

\* What apiFetch removes on 401.
WithoutAccess == [store EXCEPT !.access = NoToken, !.user = None]

\* apiFetch on 401: the refresh token stays, and so does the timer.
AuthExpired(t) ==
    /\ IF store.access = NoToken
       THEN UNCHANGED <<store, shown, writer>>
       ELSE /\ store' = WithoutAccess
            /\ shown' = [shown EXCEPT ![t] = None]
            /\ writer' = None
    /\ UNCHANGED armed

Handle(r, outcome) ==
    LET t == req[r].tab
        n == req[r].got
        kind == req[r].kind
        granted == outcome = "granted"
    IN
    \/ /\ kind = "login" /\ granted
       /\ KeepTokens(t, n, session[n].user)
       /\ left' = [left EXCEPT ![t] = FALSE]
    \/ /\ kind = "refresh" /\ granted
       /\ KeepTokens(t, n, ShownAfterRefresh(t, n))
       /\ UNCHANGED left
    \/ /\ kind = "logout" \/ (kind = "refresh" /\ ~ granted)
       /\ ForgetTokens(t)
       /\ UNCHANGED left
    \/ /\ kind \in {"login", "call"} /\ outcome = "denied"
       /\ AuthExpired(t)
       /\ UNCHANGED left
    \/ /\ <<kind, outcome>> \in {<<"login", "failed">>, <<"call", "failed">>, <<"call", "granted">>}
       /\ UNCHANGED <<browser, left, writer>>

Answer(r) ==
    /\ ~ Free(r)
    /\ req[r].at \in {"granted", "denied", "failed"}
    /\ req[r].tab # None
    /\ Handle(r, req[r].at)
    /\ req' = [req EXCEPT ![r] = Idle]
    /\ UNCHANGED <<session, overlap, ended, cut, faults>>

\* The answer to a tab that is gone.
AnswerNobody(r) ==
    /\ ~ Free(r)
    /\ req[r].at \in {"granted", "denied", "failed"}
    /\ req[r].tab = None
    /\ cut' = IF At(r, "refresh", "granted") THEN cut \cup {req[r].token} ELSE cut
    /\ req' = [req EXCEPT ![r] = Idle]
    /\ UNCHANGED <<session, browser, overlap, ended, left, writer, faults>>

\* fetch raises in the tab; the API may still be at work.
ConnectionLost(r) ==
    /\ Fault
    /\ ~ Free(r)
    /\ req[r].tab # None
    /\ Handle(r, "failed")
    /\ req' = [req EXCEPT ![r].tab = None]
    /\ UNCHANGED <<session, overlap, ended, cut>>

TimePasses(n) ==
    /\ GrowOlder(n)
    /\ UNCHANGED <<browser, req, history, faults>>

Next ==
    \/ \E t \in Tabs :
        \/ Reload(t)
        \/ \E r \in Requests :
            \/ \E user \in Users : SubmitLogin(t, r, user)
            \/ TimerFires(t, r) \/ ClickLogout(t, r) \/ Call(t, r)
    \/ \E r \in Requests :
        \/ Login(r) \/ WrongPassword(r)
        \/ CheckRefresh(r) \/ CommitRefresh(r)
        \/ Logout(r) \/ Serve(r) \/ ServerError(r)
        \/ Answer(r) \/ AnswerNobody(r) \/ ConnectionLost(r)
    \/ \E n \in Issued : TimePasses(n)

Spec == Init /\ [][Next]_vars

-----------------------------------------------------------------------------
\* A refresh token is exchanged twice only by requests that had both checked
\* its session before either revoked it: refresh() reads outside the
\* transaction that writes.
OneExchangePerToken ==
    \A n, m \in Issued :
        n # m /\ session[n].parent = session[m].parent /\ session[n].parent # NoToken
            => session[n].parent \in overlap

\* After a logout no session of the user's earlier logins is ever valid again,
\* whichever tokens are presented and in whatever order; only a refresh that
\* was between its check and its transaction keeps its login alive.
LogoutEndsLogins == \A n \in Issued : session[n].login \in ended => Revoked(n)

\* The refresh token in the browser is never one that was exchanged already,
\* unless the answer is still under way or the page was reloaded meanwhile:
\* tabs that refresh with one token do not leave a spent token behind.
StoredTokenIsUnspent ==
    store.refresh # NoToken /\ session[store.refresh].revoked = "rotated" =>
        \/ \E r \in Requests : At(r, "refresh", "granted") /\ req[r].token = store.refresh
        \/ store.refresh \in cut

\* A tab whose user has logged out shows a user again only when somebody logs
\* in there, the page is reloaded, or one of its refreshes was under way when
\* the user clicked: other tabs and left-over timers do not bring it back.
LoggedOutTabStaysOut ==
    [][\A t \in Tabs :
          left[t] /\ shown[t] = None /\ shown'[t] # None => ~ left'[t]]_vars

\* A tab shows another user than the one its requests are made for only when
\* another tab has written the tokens.
OthersChangeTheUser ==
    \A t \in Tabs :
        shown[t] # None /\ store.user # None /\ shown[t] # store.user => writer # t

=============================================================================
