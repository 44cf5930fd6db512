---------------------------- MODULE KbMembership ----------------------------
(***************************************************************************)
(* KnowledgeBasesService: create, update, remove, addMember, removeMember,  *)
(* run by concurrent request handlers. Each is a chain of awaited queries   *)
(* outside any transaction, and ends with two writes that belong together:  *)
(* the change itself and the audit row that tells of it.                    *)
(* Every knowledge base here has the same name, hence slugs that differ by  *)
(* a number; rows are kept for the first of them. Users are not deleted, so *)
(* ensureTargetUserExists lets every target pass. The reads (findAll,       *)
(* findOne, getMembers) change nothing and are left out.                    *)
(***************************************************************************)
EXTENDS Naturals, FiniteSets

CONSTANTS
    Users,
    Admins,     \* users with the system role SUPER_ADMIN
    Names,      \* what PATCH may call a knowledge base
    Handlers,   \* concurrent request handlers of the API
    MaxKbs,     \* bound on the knowledge bases created
    MaxRequests \* bound on the requests served

ASSUME KbAssumption ==
    /\ Admins \subseteq Users
    /\ IsFiniteSet(Users)
    /\ {"name", "status"} \cap Users = {}
    /\ MaxKbs \in Nat /\ MaxRequests \in Nat

Roles == {"OWNER", "EDITOR", "VIEWER"}
NoRole == "NONE"

\* What a row or an audit row can be about: a member, the name, the status.
Subjects == Users \cup {"name", "status"}

Values == Names \cup Roles \cup {NoRole, "ACTIVE", "ARCHIVED"}

VARIABLES
    slugs,    \* the numbers of the slugs that are taken
    row,      \* what KnowledgeBase and its KbMember rows say of each subject
    log,      \* what the last AuditLog row about it says
    unsure,   \* history: subjects with a fault or another request between the
              \* two writes of a change
    call,     \* per handler: the request it is serving
    served    \* requests begun so far

vars == <<slugs, row, log, unsure, call, served>>

Nothing == [s \in {} |-> NoRole]    \* a request that changes no subject

Doing(place, change) ==
    [ pc |-> place,
      change |-> change,      \* subject |-> its value after the request
      logsFirst |-> FALSE,    \* the audit row is written before the change
      slug |-> 0,             \* create: the candidate
      met |-> {},             \* history: slugs taken while it is served
      seen |-> NoRole,        \* the target's role as it was read
      owners |-> 0 ]          \* the owner count as it was read

Idle == Doing("idle", Nothing)

\* What a request changes: subjects and their values after it.
Changes == UNION {[S -> Values] : S \in SUBSET Subjects}

Request == [ pc : {"idle", "looking", "free", "allowed", "owner", "ready", "half"},
             change : Changes,
             logsFirst : BOOLEAN,
             slug : Nat,
             met : SUBSET Nat,
             seen : Values,
             owners : Nat ]

\* Rows, audit rows and requests keep their types.
KbTypeOK ==
    /\ slugs \subseteq Nat \ {0}
    /\ unsure \subseteq Subjects
    /\ served \in 0..MaxRequests
    /\ row \in [Subjects -> Values]
    /\ log \in [Subjects -> Values]
    /\ call \in [Handlers -> Request]

Init ==
    /\ slugs = {}
    /\ row = [s \in Subjects |-> "NONE"]
    /\ log = row
    /\ unsure = {}
    /\ call = [h \in Handlers |-> Idle]
    /\ served = 0

At(h, pc) == call[h].pc = pc
MoveTo(h, pc) == call' = [call EXCEPT ![h].pc = pc]
Return(h) == call' = [call EXCEPT ![h] = Idle]
Owners == {u \in Users : row[u] = "OWNER"}
Subject(h) == DOMAIN call[h].change
Apply(change, rows) ==
    [s \in Subjects |-> IF s \in DOMAIN change THEN change[s] ELSE rows[s]]

\* assertKnowledgeBaseRole: admins pass without a membership.
Allowed(u, roles) ==
    /\ row["status"] = "ACTIVE"
    /\ u \in Admins \/ row[u] \in roles

Serve(h, request) ==
    /\ At(h, "idle")
    /\ served < MaxRequests
    /\ call' = [call EXCEPT ![h] = request]
    /\ served' = served + 1
    /\ UNCHANGED <<slugs, row, log, unsure>>

\* The two writes follow at once, or after ensureOwnerMutationAllowed.
Change(s, value) == Doing("ready", [x \in {s} |-> value])
MemberChange(u, next) == Doing("allowed", [x \in {u} |-> next])

-----------------------------------------------------------------------------
\* create(): a slug that is free, then the rows.
CreateStart(h, author, name) ==
    /\ Cardinality(slugs) + Cardinality({o \in Handlers : call[o].slug # 0}) < MaxKbs
    /\ LET change == [s \in {author, "name", "status"} |->
                        CASE s = author -> "OWNER"
                          [] s = "name" -> name
                          [] OTHER      -> "ACTIVE"]
       IN  Serve(h, [Doing("looking", change) EXCEPT !.slug = 1])

\* Mutant: the candidate with a suffix is not looked up again.
LookUp_Once(h) ==
    /\ At(h, "looking")
    /\ call' = [call EXCEPT ![h].pc = "free",
            ![h].slug = IF call[h].slug \in slugs THEN @ + 1 ELSE @]
    /\ UNCHANGED <<slugs, row, log, unsure, served>>

\* One turn of generateUniqueSlug's loop.
LookUp(h) ==
    /\ At(h, "looking")
    /\ IF call[h].slug \in slugs
       THEN call' = [call EXCEPT ![h].slug = @ + 1]
       ELSE MoveTo(h, "free")
    /\ UNCHANGED <<slugs, row, log, unsure, served>>

\* The first write is done; what was read for it is no longer needed.
Half(h) == call' = [call EXCEPT ![h] =
                [@ EXCEPT !.pc = "half", !.seen = NoRole, !.owners = 0]]

\* A change of h begins: is another request between its two writes?
Overtaken(h) ==
    LET others == UNION {Subject(o) : o \in {o \in Handlers \ {h} : At(o, "half")}}
    IN  unsure' = (unsure \ Subject(h)) \cup (Subject(h) \cap others)

\* The unique index refuses a slug that another request has taken meanwhile.
Refuse(h) ==
    /\ At(h, "free")
    /\ call[h].slug \in slugs
    /\ Return(h)
    /\ UNCHANGED <<slugs, row, log, unsure, served>>

\* The knowledge base and its first owner in one statement.
Insert(h) ==
    LET n == call[h].slug
        change == IF n = 1 THEN call[h].change ELSE Nothing IN
    /\ At(h, "free")
    /\ n \notin slugs
    /\ slugs' = slugs \cup {n}
    /\ row' = Apply(change, row)
    /\ call' = [o \in Handlers |->
                    IF o = h THEN Doing("half", change)
                    ELSE IF call[o].slug = 0 THEN call[o]
                    ELSE [call[o] EXCEPT !.met = @ \cup {n}]]
    /\ UNCHANGED <<log, unsure, served>>

UpdateStart(h, author, name) ==
    /\ Allowed(author, {"OWNER", "EDITOR"})
    /\ Serve(h, Change("name", name))

\* remove(): the audit row is written first.
ArchiveStart(h, author) ==
    /\ Allowed(author, {"OWNER"})
    /\ Serve(h, [Change("status", "ARCHIVED") EXCEPT !.logsFirst = TRUE])

AddMemberStart(h, author, target, next) ==
    /\ Allowed(author, {"OWNER"})
    /\ Serve(h, MemberChange(target, next))

RemoveMemberStart(h, author, target) ==
    /\ Allowed(author, {"OWNER"})
    /\ author # target
    /\ Serve(h, MemberChange(target, NoRole))

Target(h) == CHOOSE u \in Subject(h) : TRUE
NextRole(h) == call[h].change[Target(h)]

\* ensureOwnerMutationAllowed returns early unless an owner is to lose the role.
ReadMember(h) ==
    LET seen == row[Target(h)] IN
    /\ At(h, "allowed")
    /\ call' = [call EXCEPT
            ![h].pc = IF seen = "OWNER" /\ NextRole(h) # "OWNER" THEN "owner" ELSE "ready",
            ![h].seen = seen]
    /\ UNCHANGED <<slugs, row, log, unsure, served>>

\* Mutant: the last owner may go.
TooFewOwners_OffByOne(n) == n < 1

TooFewOwners(n) == n <= 1

CountOwners(h) ==
    /\ At(h, "owner")
    /\ IF TooFewOwners(Cardinality(Owners))
       THEN Return(h)
       ELSE call' = [call EXCEPT ![h].pc = "ready", ![h].owners = Cardinality(Owners)]
    /\ UNCHANGED <<slugs, row, log, unsure, served>>

\* kbMember.delete raises when the member is gone; an upsert and an update of
\* the knowledge base always find something to do.
IsGone(h) == \E u \in Subject(h) \cap Users : row[u] = NoRole /\ NextRole(h) = NoRole

WriteRow(h) ==
    /\ At(h, IF call[h].logsFirst THEN "half" ELSE "ready")
    /\ IF IsGone(h)
       THEN Return(h) /\ UNCHANGED <<row, unsure>>
       ELSE /\ row' = Apply(call[h].change, row)
            /\ IF call[h].logsFirst THEN Return(h) /\ UNCHANGED unsure
                                    ELSE Half(h) /\ Overtaken(h)
    /\ UNCHANGED <<slugs, log, served>>

\* Mutant: remove() returns after its audit row.
LogAction_Ends(h) ==
    /\ At(h, IF call[h].logsFirst THEN "ready" ELSE "half")
    /\ log' = Apply(call[h].change, log)
    /\ Return(h)
    /\ UNCHANGED <<slugs, row, unsure, served>>

LogAction(h) ==
    /\ At(h, IF call[h].logsFirst THEN "ready" ELSE "half")
    /\ log' = Apply(call[h].change, log)
    /\ IF call[h].logsFirst THEN Half(h) /\ Overtaken(h)
                            ELSE Return(h) /\ UNCHANGED unsure
    /\ UNCHANGED <<slugs, row, served>>

\* The database fails, or the process dies, between two queries.
GiveUp(h) ==
    /\ ~ At(h, "idle")
    /\ Return(h)
    /\ unsure' = IF At(h, "half") THEN unsure \cup Subject(h) ELSE unsure
    /\ UNCHANGED <<slugs, row, log, served>>

Next ==
    \E h \in Handlers :
        \/ \E author, target \in Users :
            \/ RemoveMemberStart(h, author, target)
            \/ \E next \in Roles : AddMemberStart(h, author, target, next)
        \/ \E author \in Users :
            \/ ArchiveStart(h, author)
            \/ \E name \in Names : CreateStart(h, author, name) \/ UpdateStart(h, author, name)
        \/ LookUp(h) \/ Refuse(h) \/ Insert(h)
        \/ ReadMember(h) \/ CountOwners(h)
        \/ WriteRow(h) \/ LogAction(h)
        \/ GiveUp(h)

Spec == Init /\ [][Next]_vars

-----------------------------------------------------------------------------
HasOwner == Owners # {}

\* What the request of h read of its target, and of the owners when it counted
\* them, no longer holds.
Stale(h) ==
    \/ row[Target(h)] # call[h].seen
    \/ call[h].seen = "OWNER" /\ call[h].owners # Cardinality(Owners)

\* The guard is as good as what it reads: the last owner is lost only when
\* another request has changed the memberships between the reads of a request
\* and its write, never by any sequence of requests that do not overlap.
LastOwnerLostOnlyToRace ==
    [][HasOwner /\ ~ HasOwner' =>
        \E h \in Handlers : At(h, "ready") /\ Subject(h) \subseteq Users /\ Stale(h)]_vars

\* The audit log tells the roles, the name and the status as they are, unless a
\* request is between its two writes, was interrupted there, or met another one
\* there: nothing else makes the log miss a change or tell of one that failed.
LogTellsTheState ==
    \A s \in Subjects :
        \/ log[s] = row[s]
        \/ s \in unsure
        \/ \E h \in Handlers : At(h, "half") /\ s \in Subject(h)

\* A creation is refused by the unique index on slug only when a request it
\* overlaps has taken the slug: one after the other, creations always succeed.
CreationRefusedOnlyByRace ==
    \A h \in Handlers : At(h, "free") /\ call[h].slug \in slugs => call[h].slug \in call[h].met

=============================================================================
