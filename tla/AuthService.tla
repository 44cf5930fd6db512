----------------------------- MODULE AuthService -----------------------------
(***************************************************************************)
(* The token pairs that AuthService issues and the RefreshSession rows       *)
(* behind them.  A pair is named by the number of its session: access and    *)
(* refresh token n come out of one issueTokenPair, which inserts row n.      *)
(* Signatures and hashes are right by construction: a token is its number.   *)
(* Accounts stay ACTIVE, as no code changes User.status; register() is left  *)
(* out.                                                                      *)
(***************************************************************************)
EXTENDS Naturals, Sequences

CONSTANTS
    Users,
    MaxPairs,   \* bound on the token pairs ever issued
    ShortLived  \* the pairs that grow old before the behaviour ends

ASSUME AuthAssumption == MaxPairs \in Nat

VARIABLE session    \* session[n]: the row of pair n, with the age of its tokens

NoToken == 0
Tokens == 0..MaxPairs

\* The access token expires before the refresh token of its pair.
Ages == {"fresh", "access_expired", "expired"}

\* revoked tells revokedAt and, for the properties only, who set it last.
SessionRow ==
    [ user    : Users,
      login   : 1..MaxPairs,     \* the pair of the login it descends from
      parent  : Tokens,          \* the refresh token it was exchanged for
      revoked : {"no", "rotated", "logged_out"},
      age     : Ages ]

AuthInit == session = << >>

Issued == DOMAIN session
NextPair == Len(session) + 1
CanIssue == Len(session) < MaxPairs
Revoked(n) == session[n].revoked # "no"

\* issueTokenPair for a user who gave the password.
IssueAtLogin(user) ==
    /\ CanIssue
    /\ session' = Append(session,
           [user |-> user, login |-> NextPair, parent |-> NoToken,
            revoked |-> "no", age |-> "fresh"])

\* Mutant: a rotated token is good until it expires.
Admits_IgnoresRevoked(n) == session[n].age # "expired"

\* What refresh() checks of the row it has read.
Admits(n) ==
    /\ session[n].age # "expired"
    /\ ~ Revoked(n)

\* Mutant: the transaction only issues.
Rotate_KeepsParent(n) ==
    /\ CanIssue
    /\ session' = Append(session, [session[n] EXCEPT !.parent = n, !.age = "fresh"])

\* The transaction of refresh(): its update of row n is unconditional.
Rotate(n) ==
    /\ CanIssue
    /\ session' = Append([session EXCEPT ![n].revoked = "rotated"],
           [user |-> session[n].user, login |-> session[n].login, parent |-> n,
            revoked |-> "no", age |-> "fresh"])

\* JwtStrategy: the bearer is known by an access token that has not expired.
Bearer(n) == n # NoToken /\ session[n].age = "fresh"

\* Which rows logout's updateMany finds for the bearer of access token n.
LiveSessionsOf(n) == {m \in Issued : session[m].user = session[n].user /\ ~ Revoked(m)}

RevokeAll(n) ==
    session' = [m \in Issued |->
                  IF m \in LiveSessionsOf(n)
                  THEN [session[m] EXCEPT !.revoked = "logged_out"]
                  ELSE session[m]]

\* Time passes for one pair.
GrowOlder(n) ==
    /\ n \in ShortLived
    /\ session[n].age # "expired"
    /\ session' = [session EXCEPT ![n].age =
                      IF @ = "fresh" THEN "access_expired" ELSE "expired"]

=============================================================================
