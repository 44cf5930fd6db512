--------------------------- MODULE RequestProofs ---------------------------
(***************************************************************************)
(* Proofs about the two parts of the API whose requests meet only each      *)
(* other: KbMembership, for any number of users, handlers, names and        *)
(* requests, and EvalRuns, for any number of requests, cases, cards and     *)
(* faults.                                                                  *)
(***************************************************************************)
EXTENDS KbMembership, EvalRuns, FiniteSetTheorems, TLAPS

-----------------------------------------------------------------------------
(* The inductive invariant                                                 *)

\* A creation has its first owner with it, and knows every slug that was taken
\* since it looked its own up.
Creating(h) ==
    call[h].pc \in {"looking", "free"} =>
        /\ call[h].slug # 0
        /\ \E u \in Users : u \in Subject(h) /\ call[h].change[u] = "OWNER"
        /\ call[h].pc = "free" /\ call[h].slug \in slugs => call[h].slug \in call[h].met

\* Any other request is about one subject; one that takes the role of an owner
\* has counted others.
Single(h) ==
    /\ call[h].pc \in {"allowed", "owner"} => \E u \in Users : Subject(h) = {u}
    /\ call[h].pc = "owner" => call[h].seen = "OWNER"
    /\ call[h].pc = "ready" => \E s \in Subjects : Subject(h) = {s}
    /\ call[h].logsFirst => Subject(h) = {"status"} /\ call[h].pc \in {"ready", "half"}
    /\ \A u \in Users :
        /\ call[h].pc = "ready" /\ call[h].seen = "OWNER"
        /\ Subject(h) = {u} /\ call[h].change[u] # "OWNER"
        => call[h].owners > 1

\* Between its two writes a request has made the first, and no other one is
\* there with the same subject, unless the subject is marked.
Written(h, s) ==
    At(h, "half") /\ s \in Subject(h) =>
        \/ s \in unsure
        \/ /\ (IF call[h].logsFirst THEN log[s] ELSE row[s]) = call[h].change[s]
           /\ \A o \in Handlers \ {h} : ~ (At(o, "half") /\ s \in Subject(o))

\* Before there is the knowledge base, nobody has anything to change about it.
Unborn ==
    1 \notin slugs =>
        /\ row["status"] # "ACTIVE"
        /\ \A h \in Handlers :
            call[h].pc \in {"idle", "looking", "free"} \/ Subject(h) = {}

CallOK(h) == Creating(h) /\ Single(h)

KbIInv ==
    /\ KbTypeOK
    /\ Unborn
    /\ \A h \in Handlers : CallOK(h)
    /\ \A h \in Handlers, s \in Subjects : Written(h, s)
    /\ LogTellsTheState

-----------------------------------------------------------------------------
(* Changes                                                                 *)

\* A change applied to rows.
LEMMA Applied ==
    ASSUME NEW c \in Changes, NEW r \in [Subjects -> Values]
    PROVE  /\ DOMAIN c \subseteq Subjects
           /\ Apply(c, r) \in [Subjects -> Values]
           /\ \A s \in DOMAIN c : Apply(c, r)[s] = c[s]
           /\ \A s \in Subjects \ DOMAIN c : Apply(c, r)[s] = r[s]
<1>1. PICK S \in SUBSET Subjects : c \in [S -> Values]
  BY DEF Changes
<1>2. DOMAIN c = S /\ \A s \in S : c[s] \in Values
  BY <1>1
<1> QED BY <1>2 DEF Apply

\* A change of one subject.
LEMMA OneSubject ==
    ASSUME NEW s \in Subjects, NEW v \in Values
    PROVE  /\ [x \in {s} |-> v] \in Changes
           /\ DOMAIN [x \in {s} |-> v] = {s}
           /\ [x \in {s} |-> v][s] = v
<1>1. [x \in {s} |-> v] \in [{s} -> Values]
  OBVIOUS
<1> QED BY <1>1 DEF Changes

\* The fields of a request.
LEMMA Fields ==
    ASSUME NEW r \in Request
    PROVE  /\ r.pc \in {"idle", "looking", "free", "allowed", "owner", "ready", "half"}
           /\ r.change \in Changes /\ DOMAIN r.change \subseteq Subjects
           /\ r.logsFirst \in BOOLEAN /\ r.slug \in Nat /\ r.met \in SUBSET Nat
           /\ r.seen \in Values /\ r.owners \in Nat
<1>1. r.change \in Changes
  BY DEF Request
<1>2. DOMAIN r.change \subseteq Subjects
  BY <1>1 DEF Changes
<1> QED BY <1>1, <1>2 DEF Request

LEMMA DoingTyped ==
    ASSUME NEW c \in Changes,
           NEW place \in {"idle", "looking", "free", "allowed", "owner", "ready", "half"}
    PROVE  Doing(place, c) \in Request /\ Doing(place, c).change = c
<1>1. NoRole \in Values
  BY DEF Values
<1> QED BY <1>1 DEF Doing, Request

LEMMA IdleTyped == Idle \in Request /\ DOMAIN Nothing = {} /\ Nothing \in Changes
<1>1. Nothing \in [{} -> Values]
  BY DEF Nothing
<1>2. Nothing \in Changes
  BY <1>1 DEF Changes
<1> QED BY <1>1, <1>2, DoingTyped DEF Idle

\* A request that has just begun, for a change of one subject.
LEMMA BegunTyped ==
    ASSUME NEW s \in Subjects, NEW v \in Values
    PROVE  /\ Change(s, v) \in Request /\ DOMAIN Change(s, v).change = {s}
           /\ MemberChange(s, v) \in Request /\ DOMAIN MemberChange(s, v).change = {s}
<1>1. [x \in {s} |-> v] \in Changes /\ DOMAIN [x \in {s} |-> v] = {s}
  BY OneSubject
<1> QED BY <1>1, DoingTyped DEF Change, MemberChange

-----------------------------------------------------------------------------
(* Steps                                                                   *)

\* A step of one request that changes no row, from and to a place that is not
\* between two writes, owes only what it holds itself.
LEMMA OwnCallOnly ==
    ASSUME KbIInv, NEW h \in Handlers, UNCHANGED <<slugs, row, log, unsure>>,
           call' \in [Handlers -> Request], \A o \in Handlers \ {h} : call'[o] = call[o],
           ~At(h, "half"), ~At(h, "half")', served' \in 0..MaxRequests, CallOK(h)',
           \/ 1 \in slugs
           \/ call'[h].pc \in {"idle", "looking", "free"}
    PROVE  KbIInv'
<1>1. KbTypeOK'
  BY DEF KbIInv, KbTypeOK
<1>2. Unborn'
  BY DEF KbIInv, Unborn, Subject
<1>3. \A o \in Handlers : CallOK(o)'
  <2> SUFFICES ASSUME NEW o \in Handlers \ {h}
               PROVE  CallOK(o)'
    OBVIOUS
  <2> QED BY DEF KbIInv, CallOK, Creating, Single, Subject
<1>4. \A o \in Handlers, s \in Subjects : Written(o, s)'
  BY DEF KbIInv, Written, At, Subject
<1>5. LogTellsTheState'
  BY DEF KbIInv, LogTellsTheState, At, Subject
<1> QED BY <1>1, <1>2, <1>3, <1>4, <1>5 DEF KbIInv

\* A request begins: what it is about is known.
LEMMA ServeKeeps ==
    ASSUME KbIInv, NEW h \in Handlers, NEW request \in Request, Serve(h, request),
           request.pc # "half", row["status"] = "ACTIVE" \/ request.pc = "looking",
           request.pc \in {"looking", "allowed", "ready"}, request.met = {},
           request.pc = "looking" =>
                /\ request.slug # 0
                /\ \E u \in Users : u \in DOMAIN request.change /\ request.change[u] = "OWNER",
           request.pc = "allowed" => \E u \in Users : DOMAIN request.change = {u},
           request.pc = "ready" => \E s \in {"name", "status"} : DOMAIN request.change = {s},
           request.logsFirst => request.pc = "ready" /\ DOMAIN request.change = {"status"}
    PROVE  KbIInv'
<1>1. call' \in [Handlers -> Request] /\ call'[h] = request
  BY DEF Serve, KbIInv, KbTypeOK
<1>2. \A o \in Handlers \ {h} : call'[o] = call[o]
  BY DEF Serve, KbIInv, KbTypeOK
<1>3. served' \in 0..MaxRequests
  BY KbAssumption DEF Serve, KbIInv, KbTypeOK
<1>4. Creating(h)'
  BY <1>1 DEF Creating, Subject
<1>5. Single(h)'
  <2>1. \A u \in Users : ~ (call'[h].pc = "ready" /\ Subject(h)' = {u})
    BY <1>1, KbAssumption DEF Subject
  <2>2. {"name", "status"} \cup Users = Subjects
    BY DEF Subjects
  <2> QED BY <1>1, <2>1, <2>2 DEF Single, Subject
<1>6. \/ 1 \in slugs
      \/ call'[h].pc \in {"idle", "looking", "free"}
  BY <1>1 DEF KbIInv, Unborn
<1>7. ~At(h, "half") /\ ~At(h, "half")' /\ UNCHANGED <<slugs, row, log, unsure>>
  BY <1>1 DEF At, Serve
<1> QED BY <1>1, <1>2, <1>3, <1>4, <1>5, <1>6, <1>7, OwnCallOnly DEF CallOK

\* What begins a request: its author may do it while the knowledge base is open.
LEMMA StartsKeep ==
    ASSUME KbIInv, NEW h \in Handlers,
           \/ \E author, target \in Users : RemoveMemberStart(h, author, target)
           \/ \E author, target \in Users, next \in Roles :
                    AddMemberStart(h, author, target, next)
           \/ \E author \in Users : ArchiveStart(h, author)
           \/ \E author \in Users, name \in Names :
                    CreateStart(h, author, name) \/ UpdateStart(h, author, name)
    PROVE  KbIInv'
<1>1. ASSUME NEW u \in Users, NEW next \in Roles \cup {NoRole},
             row["status"] = "ACTIVE", Serve(h, MemberChange(u, next))
      PROVE  KbIInv'
  <2>1. u \in Subjects /\ next \in Values
    BY DEF Subjects, Values
  <2>2. MemberChange(u, next) \in Request /\ DOMAIN MemberChange(u, next).change = {u}
    BY <2>1, BegunTyped
  <2>3. /\ MemberChange(u, next).pc = "allowed" /\ MemberChange(u, next).met = {}
        /\ ~MemberChange(u, next).logsFirst
    BY DEF MemberChange, Doing
  <2> QED BY <1>1, <2>2, <2>3, ServeKeeps
<1>2. ASSUME NEW author \in Users, NEW name \in Names, UpdateStart(h, author, name)
      PROVE  KbIInv'
  <2> DEFINE r == Change("name", name)
  <2>1. "name" \in Subjects /\ name \in Values
    BY DEF Subjects, Values
  <2>2. r \in Request /\ DOMAIN r.change = {"name"}
    BY <2>1, BegunTyped
  <2>3. r.pc = "ready" /\ r.met = {} /\ ~r.logsFirst
    BY DEF Change, Doing
  <2>4. row["status"] = "ACTIVE" /\ Serve(h, r)
    BY <1>2 DEF UpdateStart, Allowed
  <2> QED BY <2>2, <2>3, <2>4, ServeKeeps
<1>3. ASSUME NEW author \in Users, ArchiveStart(h, author)
      PROVE  KbIInv'
  <2> DEFINE r == [Change("status", "ARCHIVED") EXCEPT !.logsFirst = TRUE]
  <2>1. "status" \in Subjects /\ "ARCHIVED" \in Values
    BY DEF Subjects, Values
  <2>2. /\ Change("status", "ARCHIVED") \in Request
        /\ DOMAIN Change("status", "ARCHIVED").change = {"status"}
    BY <2>1, BegunTyped
  <2>3. r \in Request /\ DOMAIN r.change = {"status"}
    BY <2>2 DEF Request
  <2>4. r.pc = "ready" /\ r.met = {}
    BY DEF Change, Doing
  <2>5. row["status"] = "ACTIVE" /\ Serve(h, r)
    BY <1>3 DEF ArchiveStart, Allowed
  <2> QED BY <2>3, <2>4, <2>5, ServeKeeps
<1>4. ASSUME NEW author \in Users, NEW name \in Names, CreateStart(h, author, name)
      PROVE  KbIInv'
  <2> DEFINE c == [s \in {author, "name", "status"} |->
                        CASE s = author -> "OWNER"
                          [] s = "name" -> name
                          [] OTHER      -> "ACTIVE"]
             r == [Doing("looking", c) EXCEPT !.slug = 1]
  <2>1. c \in [{author, "name", "status"} -> Values] /\ c[author] = "OWNER"
    BY KbAssumption DEF Values, Roles
  <2>2. c \in Changes
    <3>1. \A S, d : S \subseteq Subjects /\ d \in [S -> Values] => d \in Changes
      BY DEF Changes
    <3>2. {author, "name", "status"} \subseteq Subjects
      BY DEF Subjects
    <3> HIDE DEF c
    <3> QED BY <2>1, <3>1, <3>2
  <2>3. r \in Request
    <3>1. Doing("looking", c) \in Request
      BY <2>2, DoingTyped
    <3> HIDE DEF c
    <3> QED BY <3>1 DEF Request
  <2>4. /\ r.pc = "looking" /\ r.slug = 1 /\ r.met = {} /\ ~r.logsFirst
        /\ author \in DOMAIN r.change /\ r.change[author] = "OWNER"
    BY <2>1 DEF Doing
  <2>5. Serve(h, r)
    BY <1>4 DEF CreateStart
  <2> HIDE DEF r
  <2> QED BY <2>3, <2>4, <2>5, ServeKeeps
<1> QED BY <1>1, <1>2, <1>3, <1>4
        DEF AddMemberStart, RemoveMemberStart, Allowed

\* A request goes on without writing, or is over.
LEMMA WorkKeeps ==
    ASSUME KbIInv, NEW h \in Handlers, LookUp(h) \/ Refuse(h) \/ ReadMember(h) \/ CountOwners(h)
    PROVE  KbIInv'
<1>1. call \in [Handlers -> Request] /\ call[h] \in Request /\ CallOK(h)
  BY DEF KbIInv, KbTypeOK
<1>2. /\ UNCHANGED <<slugs, row, log, unsure, served>> /\ served \in 0..MaxRequests
      /\ row \in [Subjects -> Values]
  BY DEF LookUp, Refuse, ReadMember, CountOwners, KbIInv, KbTypeOK
<1>3. Cardinality(Owners) \in Nat
  BY KbAssumption, FS_Subset, FS_CardinalityType DEF Owners
<1>4. CASE LookUp(h)
  <2>1. call' \in [Handlers -> Request] /\ \A o \in Handlers \ {h} : call'[o] = call[o]
    BY <1>1, <1>4 DEF LookUp, MoveTo, Request
  <2>2. CallOK(h)' /\ ~At(h, "half") /\ call'[h].pc \in {"looking", "free"}
    BY <1>1, <1>2, <1>4 DEF LookUp, MoveTo, Request, CallOK, Creating, Single, Subject, At
  <2> QED BY <1>2, <2>1, <2>2, OwnCallOnly DEF At
<1>5. ASSUME Return(h), ~At(h, "half")
      PROVE  KbIInv'
  <2>1. call' \in [Handlers -> Request] /\ \A o \in Handlers \ {h} : call'[o] = call[o]
    BY <1>1, <1>5, IdleTyped DEF Return
  <2>2. call'[h].pc = "idle" /\ ~call'[h].logsFirst
    BY <1>1, <1>5 DEF Return, Idle, Doing
  <2>3. CallOK(h)'
    BY <2>2 DEF CallOK, Creating, Single
  <2> QED BY <1>2, <1>5, <2>1, <2>2, <2>3, OwnCallOnly DEF At
<1>6. CASE Refuse(h)
  BY <1>5, <1>6 DEF Refuse, At
<1>7. CASE ReadMember(h)
  <2>1. PICK u \in Users : Subject(h) = {u}
    BY <1>1, <1>7 DEF ReadMember, At, CallOK, Single
  <2>2. Target(h) = u /\ u \in Subjects
    BY <2>1 DEF Target, Subjects
  <2>3. call' \in [Handlers -> Request] /\ \A o \in Handlers \ {h} : call'[o] = call[o]
    BY <1>1, <1>2, <1>7, <2>2 DEF ReadMember, Request
  <2>4. /\ call'[h].pc \in {"owner", "ready"} /\ call'[h].change = call[h].change
        /\ call'[h].seen = row[u] /\ ~call'[h].logsFirst
        /\ call'[h].pc = "ready" /\ row[u] = "OWNER" => call[h].change[u] = "OWNER"
        /\ call'[h].pc = "owner" => row[u] = "OWNER"
    BY <1>1, <1>7, <2>2 DEF ReadMember, At, NextRole, Request, CallOK, Single
  <2>5. CallOK(h)'
    BY <2>1, <2>2, <2>4 DEF CallOK, Creating, Single, Subject
  <2>6. 1 \in slugs
    BY <1>7, <2>1 DEF KbIInv, Unborn, ReadMember, At
  <2> QED BY <1>2, <1>7, <2>3, <2>4, <2>5, <2>6, OwnCallOnly DEF At, ReadMember
<1>8. CASE CountOwners(h)
  <2>1. CASE TooFewOwners(Cardinality(Owners))
    BY <1>5, <1>8, <2>1 DEF CountOwners, At
  <2>2. CASE ~TooFewOwners(Cardinality(Owners))
    <3>1. PICK u \in Users : Subject(h) = {u}
      BY <1>1, <1>8 DEF CountOwners, At, CallOK, Single
    <3>2. call' = [call EXCEPT ![h].pc = "ready", ![h].owners = Cardinality(Owners)]
      BY <1>8, <2>2 DEF CountOwners
    <3>3. call' \in [Handlers -> Request] /\ \A o \in Handlers \ {h} : call'[o] = call[o]
      BY <1>1, <1>3, <3>2 DEF Request
    <3>4. /\ call'[h].pc = "ready" /\ call'[h].change = call[h].change
          /\ call'[h].owners > 1 /\ ~call'[h].logsFirst
      BY <1>1, <1>3, <1>8, <2>2, <3>2
         DEF CountOwners, At, TooFewOwners, Request, CallOK, Single
    <3>5. CallOK(h)'
      BY <3>1, <3>4 DEF CallOK, Creating, Single, Subject, Subjects
    <3>6. 1 \in slugs
      BY <1>8, <3>1 DEF KbIInv, Unborn, CountOwners, At
    <3> QED BY <1>2, <1>8, <3>3, <3>4, <3>5, <3>6, OwnCallOnly DEF At, CountOwners
  <2> QED BY <2>1, <2>2
<1> QED BY <1>4, <1>6, <1>7, <1>8

\* The creation of a knowledge base: with the first slug, of this one.
LEMMA InsertKeeps ==
    ASSUME KbIInv, NEW h \in Handlers, Insert(h)
    PROVE  KbIInv'
<1> DEFINE n == call[h].slug
           change == IF n = 1 THEN call[h].change ELSE Nothing
<1>1. call \in [Handlers -> Request] /\ call[h] \in Request /\ CallOK(h)
  BY DEF KbIInv, KbTypeOK
<1>2. /\ row \in [Subjects -> Values] /\ log \in [Subjects -> Values]
      /\ UNCHANGED <<log, unsure, served>> /\ slugs' = slugs \cup {n} /\ n \notin slugs
      /\ At(h, "free") /\ row' = Apply(change, row)
  BY DEF KbIInv, KbTypeOK, Insert
<1>3. /\ change \in Changes /\ DOMAIN change \subseteq Subjects
      /\ n = 1 => DOMAIN change = Subject(h)
      /\ n # 1 => DOMAIN change = {}
  BY <1>1, IdleTyped, Fields DEF Subject
<1>4. /\ row' \in [Subjects -> Values]
      /\ \A s \in DOMAIN change : row'[s] = change[s]
      /\ \A s \in Subjects \ DOMAIN change : row'[s] = row[s]
  <2> HIDE DEF change
  <2> QED BY <1>2, <1>3, Applied
<1>5. n \in Nat \ {0}
  BY <1>1, <1>2, Fields DEF CallOK, Creating, At
<1>6. call' = [o \in Handlers |->
                    IF o = h THEN Doing("half", change)
                    ELSE IF call[o].slug = 0 THEN call[o]
                    ELSE [call[o] EXCEPT !.met = @ \cup {n}]]
  BY DEF Insert
<1> HIDE DEF n, change
<1>7. /\ call' \in [Handlers -> Request]
      /\ call'[h] = Doing("half", change) /\ call'[h].change = change
      /\ call'[h].pc = "half" /\ ~call'[h].logsFirst
      /\ \A o \in Handlers \ {h} :
            /\ call'[o].pc = call[o].pc /\ call'[o].change = call[o].change
            /\ call'[o].logsFirst = call[o].logsFirst /\ call'[o].slug = call[o].slug
            /\ call'[o].seen = call[o].seen /\ call'[o].owners = call[o].owners
            /\ call'[o].met = IF call[o].slug = 0 THEN call[o].met ELSE call[o].met \cup {n}
  <2>1. ASSUME NEW o \in Handlers \ {h}, call[o].slug # 0
        PROVE  /\ [call[o] EXCEPT !.met = @ \cup {n}] \in Request
               /\ call'[o] = [call[o] EXCEPT !.met = @ \cup {n}]
    BY <1>1, <1>5, <1>6, <2>1 DEF Request
  <2>2. Doing("half", change) \in Request /\ Doing("half", change).change = change
    BY <1>3, DoingTyped
  <2>3. \A o \in Handlers : call'[o] \in Request
    BY <1>1, <1>6, <2>1, <2>2
  <2>4. call' \in [Handlers -> Request] /\ call'[h] = Doing("half", change)
    BY <1>6, <2>3
  <2>5. ASSUME NEW o \in Handlers \ {h}
        PROVE  /\ call'[o].pc = call[o].pc /\ call'[o].change = call[o].change
               /\ call'[o].logsFirst = call[o].logsFirst /\ call'[o].slug = call[o].slug
               /\ call'[o].seen = call[o].seen /\ call'[o].owners = call[o].owners
               /\ call'[o].met = IF call[o].slug = 0 THEN call[o].met
                                                     ELSE call[o].met \cup {n}
    <3>1. call[o] \in Request
      BY <1>1
    <3>2. CASE call[o].slug = 0
      BY <1>6, <3>2
    <3>3. CASE call[o].slug # 0
      BY <2>1, <3>1, <3>3 DEF Request
    <3> QED BY <3>2, <3>3
  <2> QED BY <2>2, <2>4, <2>5 DEF Doing
<1>8. KbTypeOK'
  BY <1>2, <1>4, <1>5, <1>7 DEF KbIInv, KbTypeOK
<1>9. \A o \in Handlers : CallOK(o)'
  <2>1. CallOK(h)'
    BY <1>7 DEF CallOK, Creating, Single
  <2>2. ASSUME NEW o \in Handlers \ {h}
        PROVE  CallOK(o)'
    <3>1. call[o] \in Request /\ Creating(o) /\ Single(o)
      BY <1>1 DEF KbIInv, CallOK
    <3>2. /\ call'[o].pc = call[o].pc /\ call'[o].change = call[o].change
          /\ call'[o].logsFirst = call[o].logsFirst /\ call'[o].slug = call[o].slug
          /\ call'[o].seen = call[o].seen /\ call'[o].owners = call[o].owners
      BY <1>7
    <3>3. /\ call[o].slug # 0 /\ call[o].slug \in slugs' =>
                call[o].slug \in slugs \/ call[o].slug \in call'[o].met
          /\ call[o].met \subseteq call'[o].met
      BY <1>2, <1>7
    <3>4. Creating(o)'
      BY <3>1, <3>2, <3>3 DEF Creating, Subject
    <3>5. Single(o)'
      BY <3>1, <3>2 DEF Single, Subject
    <3> QED BY <3>4, <3>5 DEF CallOK
  <2> QED BY <2>1, <2>2
<1>10. 1 \notin slugs' =>
          /\ n # 1 /\ row' = row
          /\ \A o \in Handlers : Subject(o)' = Subject(o) \/ Subject(o)' = {}
  <2>1. n # 1 => DOMAIN change = {}
    BY <1>3
  <2>2. DOMAIN change = {} => row' = row
    BY <1>2, <1>4
  <2> QED BY <1>2, <1>7, <2>1, <2>2 DEF Subject
<1>11. Unborn'
  <2> SUFFICES ASSUME 1 \notin slugs'
               PROVE  /\ row'["status"] # "ACTIVE"
                      /\ \A o \in Handlers : call'[o].pc \in {"idle", "looking", "free"}
                                            \/ Subject(o)' = {}
    BY DEF Unborn
  <2>1. 1 \notin slugs /\ n # 1 /\ DOMAIN change = {}
    BY <1>2, <1>3, <1>10
  <2> QED BY <1>7, <1>10, <2>1 DEF KbIInv, Unborn, Subject
<1>12. \A o \in Handlers \ {h} : DOMAIN change # {} /\ At(o, "half") => Subject(o) = {}
  BY <1>2, <1>3 DEF KbIInv, Unborn, At
<1>13. \A o \in Handlers, s \in Subjects : Written(o, s)'
  <2>1. \A s \in Subjects : Written(h, s)'
    BY <1>3, <1>4, <1>7, <1>12 DEF Written, At, Subject
  <2>2. ASSUME NEW o \in Handlers \ {h}, NEW s \in Subjects, At(o, "half")', s \in Subject(o)'
        PROVE  Written(o, s)'
    <3>1. At(o, "half") /\ s \in Subject(o) /\ Written(o, s)
      BY <1>7, <2>2 DEF At, Subject, KbIInv
    <3>2. DOMAIN change = {} /\ row' = row
      <4>1. DOMAIN change = {}
        BY <1>12, <3>1
      <4>2. DOMAIN change = {} => row' = row
        BY <1>2, <1>4
      <4> QED BY <4>1, <4>2
    <3>3. /\ Subject(h)' = {}
          /\ \A p \in Handlers \ {h} : /\ At(p, "half")' <=> At(p, "half")
                                       /\ Subject(p)' = Subject(p)
      <4>1. Subject(h)' = {}
        BY <1>7, <3>2 DEF Subject
      <4>2. \A p \in Handlers \ {h} : At(p, "half")' <=> At(p, "half")
        BY <1>7 DEF At
      <4>3. \A p \in Handlers \ {h} : Subject(p)' = Subject(p)
        BY <1>7 DEF Subject
      <4> QED BY <4>1, <4>2, <4>3
    <3>4. call'[o].change = call[o].change /\ call'[o].logsFirst = call[o].logsFirst
      BY <1>7
    <3>5. CASE s \in unsure
      BY <1>2, <3>5 DEF Written
    <3>6. CASE s \notin unsure
      <4>1. (IF call[o].logsFirst THEN log[s] ELSE row[s]) = call[o].change[s]
        BY <3>1, <3>6 DEF Written
      <4>2. \A p \in Handlers \ {o} : ~ (At(p, "half") /\ s \in Subject(p))
        BY <3>1, <3>6 DEF Written
      <4>3. \A p \in Handlers \ {o} : ~ (At(p, "half")' /\ s \in Subject(p)')
        BY <3>3, <4>2
      <4> QED BY <1>2, <3>2, <3>4, <4>1, <4>3 DEF Written
    <3> QED BY <3>5, <3>6
  <2> QED BY <2>1, <2>2 DEF Written
<1>14. LogTellsTheState'
  <2> SUFFICES ASSUME NEW s \in Subjects, s \notin unsure,
                      \A o \in Handlers : ~ (At(o, "half")' /\ s \in Subject(o)')
               PROVE  log[s] = row'[s]
    BY <1>2 DEF LogTellsTheState
  <2>1. s \notin DOMAIN change
    BY <1>7 DEF At, Subject
  <2>2. \A o \in Handlers : ~ (At(o, "half") /\ s \in Subject(o))
    BY <1>2, <1>7 DEF At, Subject
  <2> QED BY <1>4, <2>1, <2>2 DEF KbIInv, LogTellsTheState
<1> QED BY <1>8, <1>9, <1>11, <1>13, <1>14 DEF KbIInv

\* What the first write of a change owes: its subjects get their values, and
\* whoever is between two writes about one of them is found.
LEMMA FirstWrite ==
    ASSUME KbIInv, NEW h \in Handlers, At(h, "ready"), Half(h), Overtaken(h),
           UNCHANGED <<slugs, served>>,
           row' \in [Subjects -> Values], log' \in [Subjects -> Values],
           \A s \in Subjects \ Subject(h) : row'[s] = row[s] /\ log'[s] = log[s],
           \A s \in Subject(h) :
                (IF call[h].logsFirst THEN log'[s] ELSE row'[s]) = call[h].change[s]
    PROVE  KbIInv'
<1>1. call \in [Handlers -> Request] /\ call[h] \in Request /\ Single(h)
  BY DEF KbIInv, KbTypeOK, CallOK
<1>2. /\ call' \in [Handlers -> Request]
      /\ call'[h].pc = "half" /\ call'[h].change = call[h].change
      /\ call'[h].logsFirst = call[h].logsFirst
      /\ \A o \in Handlers \ {h} : call'[o] = call[o]
  <2>1. NoRole \in Values
    BY DEF Values
  <2> QED BY <1>1, <2>1 DEF Half, Request
<1>3. Subject(h) \subseteq Subjects /\ Subject(h)' = Subject(h)
  BY <1>1, <1>2, Fields DEF Subject
<1>4. /\ \A s \in Subjects \ Subject(h) : s \in unsure' <=> s \in unsure
      /\ \A s \in Subject(h), o \in Handlers \ {h} :
            At(o, "half") /\ s \in Subject(o) => s \in unsure'
      /\ unsure' \subseteq unsure \cup Subject(h)
  BY DEF Overtaken
<1>5. KbTypeOK'
  BY <1>2, <1>3, <1>4 DEF KbIInv, KbTypeOK
<1>6. Unborn'
  <2>1. Subject(h) # {}
    BY <1>1 DEF Single, At
  <2> QED BY <2>1 DEF KbIInv, Unborn, At
<1>7. \A o \in Handlers : CallOK(o)'
  <2>1. CallOK(h)'
    BY <1>1, <1>2, <1>3 DEF CallOK, Creating, Single, At
  <2>2. ASSUME NEW o \in Handlers \ {h}
        PROVE  CallOK(o)'
    BY <1>2 DEF KbIInv, CallOK, Creating, Single, Subject
  <2> QED BY <2>1, <2>2
<1>8. \A o \in Handlers \ {h} : (At(o, "half")' <=> At(o, "half")) /\ Subject(o)' = Subject(o)
  BY <1>2 DEF At, Subject
<1>9. \A o \in Handlers, s \in Subjects : Written(o, s)'
  <2>1. ASSUME NEW s \in Subject(h)
        PROVE  Written(h, s)'
    BY <1>2, <1>4, <1>8 DEF Written
  <2>2. ASSUME NEW o \in Handlers \ {h}, NEW s \in Subject(h)
        PROVE  Written(o, s)'
    BY <1>4, <1>8 DEF Written
  <2>3. ASSUME NEW o \in Handlers \ {h}, NEW s \in Subjects \ Subject(h)
        PROVE  Written(o, s)'
    <3>1. Written(o, s)
      BY DEF KbIInv
    <3>2. /\ call'[o] = call[o] /\ (s \in unsure' <=> s \in unsure)
          /\ row'[s] = row[s] /\ log'[s] = log[s]
      BY <1>2, <1>4
    <3>3. \A p \in Handlers \ {o} :
            At(p, "half")' /\ s \in Subject(p)' => At(p, "half") /\ s \in Subject(p)
      BY <1>3, <1>8
    <3> QED BY <1>8, <3>1, <3>2, <3>3 DEF Written
  <2>4. \A s \in Subjects \ Subject(h) : Written(h, s)'
    BY <1>3 DEF Written
  <2> QED BY <2>1, <2>2, <2>3, <2>4
<1>10. LogTellsTheState'
  <2>1. \A s \in Subject(h) : At(h, "half")' /\ s \in Subject(h)'
    BY <1>2, <1>3 DEF At
  <2>2. ASSUME NEW s \in Subjects \ Subject(h)
        PROVE  \/ log'[s] = row'[s]
               \/ s \in unsure'
               \/ \E o \in Handlers : At(o, "half")' /\ s \in Subject(o)'
    <3>1. \/ log[s] = row[s]
          \/ s \in unsure
          \/ \E o \in Handlers \ {h} : At(o, "half") /\ s \in Subject(o)
      BY DEF KbIInv, LogTellsTheState
    <3> QED BY <1>4, <1>8, <3>1
  <2> QED BY <2>1, <2>2 DEF LogTellsTheState
<1> QED BY <1>5, <1>6, <1>7, <1>9, <1>10 DEF KbIInv

\* A request that has ended.
LEMMA KbEnded ==
    ASSUME KbIInv, NEW h \in Handlers, Return(h)
    PROVE  /\ call' \in [Handlers -> Request]
           /\ call'[h].pc = "idle" /\ Subject(h)' = {} /\ CallOK(h)'
           /\ \A o \in Handlers \ {h} : call'[o] = call[o]
<1>1. call \in [Handlers -> Request]
  BY DEF KbIInv, KbTypeOK
<1>2. call'[h] = Idle /\ \A o \in Handlers \ {h} : call'[o] = call[o]
  BY <1>1 DEF Return
<1>3. Idle.pc = "idle" /\ ~Idle.logsFirst /\ DOMAIN Idle.change = {}
  BY DEF Idle, Doing, Nothing
<1>4. call' \in [Handlers -> Request]
  BY <1>1, IdleTyped DEF Return
<1>5. CallOK(h)'
  BY <1>2, <1>3 DEF CallOK, Creating, Single
<1> QED BY <1>2, <1>3, <1>4, <1>5 DEF Subject

\* The end of a request between its two writes: it makes the second, or it
\* leaves its subjects marked.
LEMMA HalfEnds ==
    ASSUME KbIInv, NEW h \in Handlers, At(h, "half"), Return(h),
           UNCHANGED <<slugs, served>>,
           row' \in [Subjects -> Values], log' \in [Subjects -> Values],
           unsure \subseteq unsure', unsure' \subseteq unsure \cup Subject(h),
           \A s \in Subjects \ Subject(h) : row'[s] = row[s] /\ log'[s] = log[s],
           \A s \in Subject(h) : s \in unsure' \/ row'[s] = log'[s]
    PROVE  KbIInv'
<1>1. call \in [Handlers -> Request] /\ call[h] \in Request
  BY DEF KbIInv, KbTypeOK
<1>2. /\ call' \in [Handlers -> Request]
      /\ call'[h].pc = "idle" /\ Subject(h)' = {} /\ CallOK(h)'
      /\ \A o \in Handlers \ {h} : call'[o] = call[o]
  BY KbEnded
<1>3. Subject(h) \subseteq Subjects
  BY <1>1, Fields DEF Subject
<1>4. KbTypeOK'
  BY <1>2, <1>3 DEF KbIInv, KbTypeOK
<1>5. Unborn'
  <2> SUFFICES ASSUME 1 \notin slugs
               PROVE  /\ row'["status"] # "ACTIVE"
                      /\ \A o \in Handlers : call'[o].pc \in {"idle", "looking", "free"}
                                            \/ Subject(o)' = {}
    BY DEF Unborn
  <2>1. Subject(h) = {} /\ row["status"] # "ACTIVE" /\ "status" \in Subjects
    BY DEF KbIInv, Unborn, At, Subjects
  <2> QED BY <1>2, <2>1 DEF KbIInv, Unborn, Subject
<1>6. \A o \in Handlers : CallOK(o)'
  <2>1. ASSUME NEW o \in Handlers \ {h}
        PROVE  CallOK(o)'
    BY <1>2 DEF KbIInv, CallOK, Creating, Single, Subject
  <2> QED BY <1>2, <2>1
<1>7. \A o \in Handlers \ {h} : (At(o, "half")' <=> At(o, "half")) /\ Subject(o)' = Subject(o)
  BY <1>2 DEF At, Subject
<1>8. \A o \in Handlers, s \in Subjects : Written(o, s)'
  <2>1. \A s \in Subjects : Written(h, s)'
    BY <1>2 DEF Written
  <2>2. ASSUME NEW o \in Handlers \ {h}, NEW s \in Subject(h)
        PROVE  Written(o, s)'
    <3>1. Written(o, s)
      BY <1>3 DEF KbIInv
    <3> QED BY <1>7, <3>1 DEF Written
  <2>3. ASSUME NEW o \in Handlers \ {h}, NEW s \in Subjects \ Subject(h)
        PROVE  Written(o, s)'
    <3>1. Written(o, s)
      BY DEF KbIInv
    <3>2. /\ call'[o] = call[o] /\ (s \in unsure' <=> s \in unsure)
          /\ row'[s] = row[s] /\ log'[s] = log[s]
      BY <1>2
    <3>3. \A p \in Handlers \ {o} :
            At(p, "half")' /\ s \in Subject(p)' => At(p, "half") /\ s \in Subject(p)
      BY <1>2, <1>7
    <3> QED BY <1>7, <3>1, <3>2, <3>3 DEF Written
  <2> QED BY <2>1, <2>2, <2>3
<1>9. LogTellsTheState'
  <2>1. ASSUME NEW s \in Subjects \ Subject(h)
        PROVE  \/ log'[s] = row'[s]
               \/ s \in unsure'
               \/ \E o \in Handlers : At(o, "half")' /\ s \in Subject(o)'
    <3>1. \/ log[s] = row[s]
          \/ s \in unsure
          \/ \E o \in Handlers \ {h} : At(o, "half") /\ s \in Subject(o)
      BY DEF KbIInv, LogTellsTheState
    <3> QED BY <1>7, <3>1
  <2> QED BY <2>1 DEF LogTellsTheState
<1> QED BY <1>4, <1>5, <1>6, <1>8, <1>9 DEF KbIInv

\* The rows that a write of a request leaves.
LEMMA WritesItsChange ==
    ASSUME KbIInv, NEW h \in Handlers, NEW r \in [Subjects -> Values]
    PROVE  /\ Apply(call[h].change, r) \in [Subjects -> Values]
           /\ \A s \in Subject(h) : Apply(call[h].change, r)[s] = call[h].change[s]
           /\ \A s \in Subjects \ Subject(h) : Apply(call[h].change, r)[s] = r[s]
<1>1. call[h] \in Request
  BY DEF KbIInv, KbTypeOK
<1> QED BY <1>1, Fields, Applied DEF Subject

\* A request that makes its first write, or its second.
LEMMA WritesKeep ==
    ASSUME KbIInv, NEW h \in Handlers, WriteRow(h) \/ LogAction(h)
    PROVE  KbIInv'
<1>1. /\ call[h] \in Request /\ Single(h)
      /\ row \in [Subjects -> Values] /\ log \in [Subjects -> Values]
  BY DEF KbIInv, KbTypeOK, CallOK
<1>2. call[h].logsFirst \in BOOLEAN
  BY <1>1, Fields
<1>3. \A s \in Subject(h) : Written(h, s) /\ s \in Subjects
  BY <1>1, Fields DEF KbIInv, Subject
<1>4. CASE WriteRow(h) /\ IsGone(h)
  <2>1. Return(h) /\ UNCHANGED <<slugs, row, log, unsure, served>>
    BY <1>4 DEF WriteRow
  <2>2. At(h, "ready")
    BY <1>1, <1>2, <1>4, KbAssumption DEF WriteRow, IsGone, Single, At
  <2>3. /\ call' \in [Handlers -> Request]
        /\ call'[h].pc = "idle" /\ CallOK(h)'
        /\ \A o \in Handlers \ {h} : call'[o] = call[o]
    BY <2>1, KbEnded
  <2>4. ~At(h, "half") /\ ~At(h, "half")' /\ served' \in 0..MaxRequests
    BY <2>1, <2>2, <2>3 DEF At, KbIInv, KbTypeOK
  <2> QED BY <2>1, <2>3, <2>4, OwnCallOnly
<1>5. CASE WriteRow(h) /\ ~IsGone(h)
  <2>1. /\ UNCHANGED <<slugs, log, served>> /\ row' = Apply(call[h].change, row)
        /\ row' \in [Subjects -> Values] /\ log' \in [Subjects -> Values]
        /\ \A s \in Subject(h) : row'[s] = call[h].change[s]
        /\ \A s \in Subjects \ Subject(h) : row'[s] = row[s] /\ log'[s] = log[s]
    BY <1>1, <1>5, WritesItsChange DEF WriteRow
  <2>2. CASE call[h].logsFirst
    <3>1. At(h, "half") /\ Return(h) /\ unsure' = unsure
      BY <1>5, <2>2 DEF WriteRow
    <3>2. \A s \in Subject(h) : s \in unsure' \/ row'[s] = log'[s]
      BY <1>3, <2>1, <2>2, <3>1 DEF Written
    <3> QED BY <2>1, <3>1, <3>2, HalfEnds
  <2>3. CASE ~call[h].logsFirst
    <3>1. At(h, "ready") /\ Half(h) /\ Overtaken(h)
      BY <1>5, <2>3 DEF WriteRow
    <3> QED BY <2>1, <2>3, <3>1, FirstWrite
  <2> QED BY <2>2, <2>3
<1>6. CASE LogAction(h)
  <2>1. /\ UNCHANGED <<slugs, row, served>> /\ log' = Apply(call[h].change, log)
        /\ row' \in [Subjects -> Values] /\ log' \in [Subjects -> Values]
        /\ \A s \in Subject(h) : log'[s] = call[h].change[s]
        /\ \A s \in Subjects \ Subject(h) : row'[s] = row[s] /\ log'[s] = log[s]
    BY <1>1, <1>6, WritesItsChange DEF LogAction
  <2>2. CASE call[h].logsFirst
    <3>1. At(h, "ready") /\ Half(h) /\ Overtaken(h)
      BY <1>6, <2>2 DEF LogAction
    <3> QED BY <2>1, <2>2, <3>1, FirstWrite
  <2>3. CASE ~call[h].logsFirst
    <3>1. At(h, "half") /\ Return(h) /\ unsure' = unsure
      BY <1>6, <2>3 DEF LogAction
    <3>2. \A s \in Subject(h) : s \in unsure' \/ row'[s] = log'[s]
      BY <1>3, <2>1, <2>3, <3>1 DEF Written
    <3> QED BY <2>1, <3>1, <3>2, HalfEnds
  <2> QED BY <2>2, <2>3
<1> QED BY <1>4, <1>5, <1>6

\* A request that fails, wherever it is.
LEMMA GiveUpKeeps ==
    ASSUME KbIInv, NEW h \in Handlers, GiveUp(h)
    PROVE  KbIInv'
<1>1. Return(h) /\ UNCHANGED <<slugs, row, log, served>>
  BY DEF GiveUp
<1>2. CASE At(h, "half")
  <2>1. unsure' = unsure \cup Subject(h)
    BY <1>2 DEF GiveUp
  <2>2. row \in [Subjects -> Values] /\ log \in [Subjects -> Values]
    BY DEF KbIInv, KbTypeOK
  <2> QED BY <1>1, <1>2, <2>1, <2>2, HalfEnds
<1>3. CASE ~At(h, "half")
  <2>1. unsure' = unsure
    BY <1>3 DEF GiveUp
  <2>2. /\ call' \in [Handlers -> Request]
        /\ call'[h].pc = "idle" /\ CallOK(h)'
        /\ \A o \in Handlers \ {h} : call'[o] = call[o]
    BY <1>1, KbEnded
  <2>3. ~At(h, "half")' /\ served' \in 0..MaxRequests
    BY <1>1, <2>2 DEF At, KbIInv, KbTypeOK
  <2> QED BY <1>1, <1>3, <2>1, <2>2, <2>3, OwnCallOnly
<1> QED BY <1>2, <1>3

LEMMA InitKbIInv == Init => KbIInv
<1> SUFFICES ASSUME Init
             PROVE  KbIInv
  OBVIOUS
<1>1. /\ row \in [Subjects -> Values] /\ log = row
      /\ row["status"] = "NONE" /\ "status" \in Subjects
  BY DEF Init, Subjects, Values, NoRole
<1>2. \A h \in Handlers : call[h] = Idle
  BY DEF Init
<1>3. Idle.pc = "idle" /\ ~Idle.logsFirst
  BY DEF Idle, Doing
<1>4. KbTypeOK
  BY <1>1, IdleTyped, KbAssumption DEF Init, KbTypeOK
<1>5. \A h \in Handlers : CallOK(h) /\ ~At(h, "half")
  BY <1>2, <1>3 DEF CallOK, Creating, Single, At
<1> QED BY <1>1, <1>2, <1>3, <1>4, <1>5 DEF KbIInv, Unborn, Written, LogTellsTheState

LEMMA NextKeepsIInv == KbIInv /\ [Next]_vars => KbIInv'
<1> SUFFICES ASSUME KbIInv, [Next]_vars
             PROVE  KbIInv'
  OBVIOUS
<1>1. CASE UNCHANGED vars
  BY <1>1 DEF vars, KbIInv, KbTypeOK, Unborn, CallOK, Creating, Single, Written,
              LogTellsTheState, At, Subject
<1>2. CASE Next
  <2>1. PICK h \in Handlers :
        \/ \E author, target \in Users : RemoveMemberStart(h, author, target)
        \/ \E author, target \in Users, next \in Roles : AddMemberStart(h, author, target, next)
        \/ \E author \in Users : ArchiveStart(h, author)
        \/ \E author \in Users, name \in Names :
                CreateStart(h, author, name) \/ UpdateStart(h, author, name)
        \/ LookUp(h) \/ Refuse(h) \/ ReadMember(h) \/ CountOwners(h)
        \/ Insert(h)
        \/ WriteRow(h) \/ LogAction(h)
        \/ GiveUp(h)
    BY <1>2 DEF Next
  <2> QED BY <2>1, StartsKeep, WorkKeeps, InsertKeeps, WritesKeep, GiveUpKeeps
<1> QED BY <1>1, <1>2

-----------------------------------------------------------------------------
(* Theorems                                                                *)

\* The strengthening holds in every state: what a creation knows of the slugs,
\* what a counted request may do, and who has written what.
THEOREM KbInductive == Spec => []KbIInv
<1> QED BY InitKbIInv, NextKeepsIInv, PTL DEF Spec

\* The rows, the audit rows and the requests keep their types, however many
\* requests overlap.
THEOREM KbTypes == Spec => []KbTypeOK
<1>1. KbIInv => KbTypeOK
  BY DEF KbIInv
<1> QED BY <1>1, KbInductive, PTL

\* The audit log tells the state of every subject unless a request is between
\* its two writes about it, was interrupted there or met another one there.
THEOREM AuditTrail == Spec => []LogTellsTheState
<1>1. KbIInv => LogTellsTheState
  BY DEF KbIInv
<1> QED BY <1>1, KbInductive, PTL

\* The unique index on slug refuses a creation only when another request took
\* the slug after it was looked up.
THEOREM SlugRefusals == Spec => []CreationRefusedOnlyByRace
<1>1. KbIInv => CreationRefusedOnlyByRace
  BY DEF KbIInv, CallOK, Creating, CreationRefusedOnlyByRace, At
<1> QED BY <1>1, KbInductive, PTL

-----------------------------------------------------------------------------
(* Who takes the last owner                                                *)

\* A creation leaves an owner.
LEMMA InsertHasOwner ==
    ASSUME KbIInv, NEW h \in Handlers, Insert(h), HasOwner
    PROVE  HasOwner'
<1> DEFINE n == call[h].slug
           change == IF n = 1 THEN call[h].change ELSE Nothing
<1>1. call[h] \in Request /\ Creating(h) /\ row \in [Subjects -> Values]
  BY DEF KbIInv, KbTypeOK, CallOK
<1>2. change \in Changes /\ row' = Apply(change, row)
  BY <1>1, IdleTyped, Fields DEF Insert
<1>3. n = 1 => \E u \in Users : u \in DOMAIN change /\ change[u] = "OWNER"
  BY <1>1 DEF Creating, Insert, At, Subject
<1>4. n # 1 => DOMAIN change = {}
  BY IdleTyped
<1>5. PICK v \in Users : row[v] = "OWNER"
  BY DEF HasOwner, Owners
<1> HIDE DEF n, change
<1>6. \A s \in DOMAIN change : row'[s] = change[s]
  BY <1>1, <1>2, Applied
<1>7. \A s \in Subjects \ DOMAIN change : row'[s] = row[s]
  BY <1>1, <1>2, Applied
<1>8. CASE n = 1
  BY <1>3, <1>6, <1>8 DEF HasOwner, Owners
<1>9. CASE n # 1
  BY <1>4, <1>5, <1>7, <1>9 DEF HasOwner, Owners, Subjects
<1> QED BY <1>8, <1>9

\* A write takes the last owner only from a request that read another state:
\* had it counted the owners of this one, there would be a second.
LEMMA WriteLosesToRace ==
    ASSUME KbIInv, NEW h \in Handlers, WriteRow(h), HasOwner, ~HasOwner'
    PROVE  At(h, "ready") /\ Subject(h) \subseteq Users /\ Stale(h)
<1>1. /\ call[h] \in Request /\ Single(h) /\ row \in [Subjects -> Values]
      /\ call[h].logsFirst \in BOOLEAN
  BY Fields DEF KbIInv, KbTypeOK, CallOK
<1>2. PICK v \in Users : row[v] = "OWNER"
  BY DEF HasOwner, Owners
<1>3. row'[v] # "OWNER"
  BY DEF HasOwner, Owners
<1>4. row' = Apply(call[h].change, row)
  BY <1>2, <1>3 DEF WriteRow
<1>5. v \in Subject(h) /\ call[h].change[v] # "OWNER"
  BY <1>1, <1>2, <1>3, <1>4, WritesItsChange DEF Subjects
<1>6. ~call[h].logsFirst
  BY <1>1, <1>5, KbAssumption DEF Single
<1>7. At(h, "ready") /\ Subject(h) = {v}
  BY <1>1, <1>5, <1>6 DEF WriteRow, Single, At
<1>8. Target(h) = v
  BY <1>7 DEF Target
<1>9. ASSUME ~Stale(h)
      PROVE  FALSE
  <2>1. call[h].owners = Cardinality(Owners) /\ call[h].seen = "OWNER"
    BY <1>2, <1>8, <1>9 DEF Stale
  <2>2. Cardinality(Owners) > 1
    BY <1>1, <1>5, <1>7, <2>1 DEF Single, At
  <2>3. IsFiniteSet(Owners) /\ v \in Owners
    BY <1>2, KbAssumption, FS_Subset DEF Owners
  <2>4. Owners # {v}
    BY <2>2, FS_Singleton
  <2>5. PICK w \in Owners : w # v
    BY <2>3, <2>4
  <2>6. row'[w] = "OWNER" /\ w \in Users
    BY <1>1, <1>4, <1>7, <2>5, WritesItsChange DEF Owners, Subjects
  <2> QED BY <2>6 DEF HasOwner, Owners
<1> QED BY <1>7, <1>9

\* The last owner is lost only to a request whose reads another one has
\* overtaken, for any number of users and of overlapping requests.
THEOREM OwnersLost == Spec => LastOwnerLostOnlyToRace
<1>1. KbIInv /\ [Next]_vars =>
        [HasOwner /\ ~HasOwner' =>
            \E h \in Handlers : At(h, "ready") /\ Subject(h) \subseteq Users /\ Stale(h)]_vars
  <2> SUFFICES ASSUME KbIInv, [Next]_vars, HasOwner, ~HasOwner'
               PROVE  \E h \in Handlers : At(h, "ready") /\ Subject(h) \subseteq Users /\ Stale(h)
    OBVIOUS
  <2>1. row' = row => FALSE
    BY DEF HasOwner, Owners
  <2>2. PICK h \in Handlers : Insert(h) \/ WriteRow(h)
    BY <2>1 DEF Next, vars, CreateStart, UpdateStart, ArchiveStart, AddMemberStart,
       RemoveMemberStart, Serve, LookUp, Refuse, ReadMember, CountOwners, LogAction, GiveUp
  <2> QED BY <2>2, InsertHasOwner, WriteLosesToRace
<1> QED BY <1>1, KbInductive, PTL DEF Spec, LastOwnerLostOnlyToRace

-----------------------------------------------------------------------------
(***************************************************************************)
(* Evaluation runs.  A request writes its own run only.  What it has read   *)
(* of its baseline stays true because a run that was COMPLETED once never   *)
(* gets or loses an item; and which baseline it may miss is settled when it *)
(* reads its clock: every run with an earlier startedAt is then over or     *)
(* under way.                                                               *)
(***************************************************************************)

FreshPcs == {"idle", "started", "created", "running"}

\* Before the loop there is nothing of the run but its row.
Fresh(r) ==
    pc[r] \in FreshPcs => item[r] = NoItems /\ flagged[r] = {} /\ previous[r] = NoSnapshot

Whole(r) == \A c \in Cases : item[r][c] # NoCard

\* The copy of the baseline is still right, and complete.
SnapshotOK(r) ==
    \/ previous[r] = NoSnapshot
    \/ /\ previous[r].run \in Runs
       /\ previous[r].item = item[previous[r].run]
       /\ Whole(previous[r].run)
       /\ pc[previous[r].run] # "idle"

FlagsOf(items, snapshot) ==
    { c \in Cases :
        /\ items[c] # NoCard
        /\ snapshot.item[c] # NoCard
        /\ ShouldFlagRegression(snapshot.item[c], items[c]) }

FlagsOK(r) == flagged[r] = FlagsOf(item[r], previous[r])

StatusMatches(status, place) ==
    /\ place \in {"idle", "started"} => status = "NONE"
    /\ place \in {"created", "running", "grading"} => status = "RUNNING"
    /\ place \in {"completed", "viewing", "returned", "unviewed"} => status = "COMPLETED"
    /\ place = "threw" => status = "FAILED"
    /\ place = "refused" => status \in {"NONE", "RUNNING"}

SummaryOK(r) ==
    run[r].status = "COMPLETED" =>
        /\ Whole(r)
        /\ run[r].passed = PassedCount(item[r])
        /\ run[r].regressions = Cardinality(flagged[r])
        /\ run[r].baseline = previous[r].run

\* The run r started after b, which was not under way then, so b is over.
StartsOrdered ==
    \A r, b \in Runs :
        /\ pc[r] # "idle" => run[r].started <= clock
        /\ /\ pc[r] # "idle" /\ pc[b] # "idle"
           /\ run[b].started < run[r].started
           /\ b \notin overlaps[r]
           => pc[b] \in Ended

BaselineOK(r) ==
    pc[r] = "grading" \/ run[r].status = "COMPLETED" =>
        \A b \in Earlier(r) :
            \/ b \in overlaps[r]
            \/ previous[r].run # NoRun /\ run[b].started <= run[previous[r].run].started

RunOK(r) ==
    /\ Fresh(r) /\ SnapshotOK(r) /\ FlagsOK(r)
    /\ StatusMatches(run[r].status, pc[r])
    /\ SummaryOK(r) /\ BaselineOK(r)

IInv == TypeOK /\ StartsOrdered /\ \A r \in Runs : RunOK(r)

-----------------------------------------------------------------------------
\* A request that writes its own run only, keeps its startedAt and leaves a
\* complete set of items alone keeps the invariant, if its own run is in order.
LEMMA OwnRunOnly ==
    ASSUME IInv, NEW r \in Runs, UnderWay(r),
           NEW R \in RunRow, run' = [run EXCEPT ![r] = R],
           NEW I \in [Cases -> Results \cup {NoCard}], item' = [item EXCEPT ![r] = I],
           NEW F \in SUBSET Cases, flagged' = [flagged EXCEPT ![r] = F],
           NEW S \in Snapshot, previous' = [previous EXCEPT ![r] = S],
           NEW p \in Pcs \ {"idle"}, pc' = [pc EXCEPT ![r] = p],
           R.started = run[r].started,
           Whole(r) => I = item[r],
           UNCHANGED <<clock, overlaps>>, faults' \in 0..MaxFaults,
           RunOK(r)'
    PROVE  IInv'
<1>1. TypeOK'
  BY DEF IInv, TypeOK
<1>2. pc[r] \notin Ended /\ pc[r] # "idle" /\ pc'[r] # "idle"
  BY DEF IInv, TypeOK, UnderWay
<1>3. \A b \in Runs : run'[b].started = run[b].started /\ (pc'[b] = "idle" <=> pc[b] = "idle")
  BY <1>2 DEF IInv, TypeOK
<1>4. \A b \in Runs \ {r} : /\ run'[b] = run[b] /\ item'[b] = item[b] /\ flagged'[b] = flagged[b]
                            /\ previous'[b] = previous[b] /\ pc'[b] = pc[b]
  BY DEF IInv, TypeOK
<1>5. StartsOrdered'
  BY <1>2, <1>3, <1>4 DEF IInv, StartsOrdered
<1>6. \A b \in Runs : Whole(b) => item'[b] = item[b] /\ Whole(b)'
  BY <1>4 DEF IInv, TypeOK, Whole
<1>7. ASSUME NEW b \in Runs \ {r}
      PROVE  RunOK(b)'
  <2>1. RunOK(b)
    BY DEF IInv
  <2>2. Fresh(b)' /\ FlagsOK(b)' /\ StatusMatches(run[b].status, pc[b])'
    BY <1>4, <2>1 DEF RunOK, Fresh, FlagsOK
  <2>3. SnapshotOK(b)'
    <3>1. CASE previous[b] = NoSnapshot
      BY <1>4, <3>1 DEF SnapshotOK
    <3>2. CASE previous[b] # NoSnapshot
      BY <1>3, <1>4, <1>6, <2>1, <3>2 DEF RunOK, SnapshotOK
    <3> QED BY <3>1, <3>2
  <2>4. SummaryOK(b)'
    <3>1. PassedCount(item[b])' = PassedCount(item[b])
      BY <1>4
    <3> QED BY <1>4, <1>6, <2>1, <3>1 DEF RunOK, SummaryOK
  <2>5. BaselineOK(b)'
    <3> SUFFICES ASSUME pc[b] = "grading" \/ run[b].status = "COMPLETED",
                        NEW a \in Runs, run'[a].status = "COMPLETED",
                        run[a].started < run[b].started, a \notin overlaps[b]
                 PROVE  /\ previous[b].run # NoRun
                        /\ run[a].started <= run'[previous[b].run].started
      BY <1>3, <1>4 DEF BaselineOK, Earlier
    <3>1. pc[b] # "idle"
      BY <2>1 DEF RunOK, StatusMatches
    <3>2. a # r
      BY <1>2, <3>1 DEF IInv, StartsOrdered
    <3>3. a \in Earlier(b)
      BY <1>4, <3>2 DEF Earlier
    <3>4. previous[b].run # NoRun /\ run[a].started <= run[previous[b].run].started
      BY <2>1, <3>3 DEF RunOK, BaselineOK
    <3>5. previous[b].run \in Runs
      BY <2>1, <3>4 DEF RunOK, SnapshotOK, NoSnapshot
    <3> QED BY <1>3, <3>4, <3>5
  <2> QED BY <2>2, <2>3, <2>4, <2>5 DEF RunOK
<1> QED BY <1>1, <1>5, <1>7 DEF IInv

\* The runs that r may be compared with do not depend on r's own status.
LEMMA OwnEarlierKept ==
    ASSUME IInv, NEW r \in Runs, NEW R \in RunRow, run' = [run EXCEPT ![r] = R],
           R.started = run[r].started
    PROVE  Earlier(r)' = Earlier(r)
<1>1. \A b \in Runs \ {r} : run'[b] = run[b]
  BY DEF IInv, TypeOK
<1>2. run'[r].started = run[r].started
  BY DEF IInv, TypeOK
<1>3. run[r].started \in Int
  BY DEF IInv, TypeOK, RunRow
<1> QED BY <1>1, <1>2, <1>3 DEF Earlier

\* A step of a request that writes no row and reads none.
LEMMA OnlyMoves ==
    ASSUME IInv, NEW r \in Runs, UnderWay(r),
           RowsKept, UNCHANGED <<previous, clock, overlaps>>,
           NEW p \in Pcs \ {"idle"}, Goto(r, p), faults' \in 0..MaxFaults,
           StatusMatches(run[r].status, p),
           p \in FreshPcs => pc[r] \in FreshPcs,
           p = "grading" => pc[r] = "grading"
    PROVE  IInv'
<1>1. /\ run' = [run EXCEPT ![r] = run[r]]
      /\ item' = [item EXCEPT ![r] = item[r]]
      /\ flagged' = [flagged EXCEPT ![r] = flagged[r]]
      /\ previous' = [previous EXCEPT ![r] = previous[r]]
  BY DEF IInv, TypeOK, RowsKept
<1>2. /\ run[r] \in RunRow
      /\ item[r] \in [Cases -> Results \cup {NoCard}]
      /\ flagged[r] \in SUBSET Cases
      /\ previous[r] \in Snapshot
  BY DEF IInv, TypeOK
<1>3. pc'[r] = p /\ \A b \in Runs : pc[b] # "idle" => pc'[b] # "idle"
  BY DEF IInv, TypeOK, Goto
<1>4. RunOK(r)'
  <2>1. RunOK(r)
    BY DEF IInv
  <2>2. Fresh(r)' /\ FlagsOK(r)' /\ StatusMatches(run[r].status, pc[r])'
    BY <1>3, <2>1 DEF RunOK, Fresh, FlagsOK, RowsKept
  <2>3. SnapshotOK(r)'
    BY <1>3, <2>1 DEF RunOK, SnapshotOK, RowsKept, Whole
  <2>4. SummaryOK(r)'
    <3>1. PassedCount(item[r])' = PassedCount(item[r])
      BY DEF RowsKept
    <3> QED BY <2>1, <3>1 DEF RunOK, SummaryOK, Whole, RowsKept
  <2>5. BaselineOK(r)'
    BY <1>3, <2>1 DEF RunOK, BaselineOK, Earlier, RowsKept
  <2> QED BY <2>2, <2>3, <2>4, <2>5 DEF RunOK
<1> QED BY <1>1, <1>2, <1>4, OwnRunOnly DEF Goto

\* Faults stay within their bound.
LEMMA FaultBounded ==
    ASSUME IInv, Fault \/ UNCHANGED faults
    PROVE  faults' \in 0..MaxFaults
BY EvalAssumption DEF IInv, TypeOK, Fault

\* Reading the clock: the runs that started earlier are over or under way.
LEMMA StartPreserves ==
    ASSUME IInv, NEW r \in Runs, Start(r)
    PROVE  IInv'
<1> DEFINE t == clock'
<1>1. t \in 0..MaxTime /\ clock <= t /\ clock \in Int /\ pc[r] = "idle"
  BY DEF Start, IInv, TypeOK
<1>2. Row("NONE", t) \in RunRow
  BY <1>1 DEF Row, RunRow
<1>3. /\ run' = [run EXCEPT ![r] = Row("NONE", t)]
      /\ overlaps' = [overlaps EXCEPT ![r] = {b \in Runs : UnderWay(b)}]
      /\ pc' = [pc EXCEPT ![r] = "started"]
      /\ UNCHANGED <<item, flagged, previous, faults>>
  BY DEF Start, Goto
<1>4. TypeOK'
  BY <1>1, <1>2, <1>3 DEF IInv, TypeOK, Pcs
<1>5. /\ run'[r].started = t /\ run'[r].status = "NONE" /\ pc'[r] = "started"
      /\ overlaps'[r] = {b \in Runs : UnderWay(b)}
  BY <1>3 DEF IInv, TypeOK, Row
<1>6. \A b \in Runs \ {r} : run'[b] = run[b] /\ pc'[b] = pc[b] /\ overlaps'[b] = overlaps[b]
  BY <1>3 DEF IInv, TypeOK
<1>7. \A b \in Runs : run[b].started \in Int
  BY DEF IInv, TypeOK, RunRow
<1>8. StartsOrdered'
  <2> SUFFICES ASSUME NEW a \in Runs, NEW b \in Runs, pc'[a] # "idle"
               PROVE  /\ run'[a].started <= t
                      /\ /\ pc'[b] # "idle" /\ run'[b].started < run'[a].started
                         /\ b \notin overlaps'[a]
                         => pc'[b] \in Ended
    BY DEF StartsOrdered
  <2>1. run'[a].started <= t
    BY <1>1, <1>5, <1>6, <1>7 DEF IInv, StartsOrdered
  <2>2. CASE a = r
    BY <1>1, <1>5, <1>6, <2>2 DEF UnderWay
  <2>3. CASE a # r /\ b = r
    <3>1. run'[a].started <= clock /\ run'[b].started = t
      BY <1>5, <1>6, <2>3 DEF IInv, StartsOrdered
    <3>2. ~ (run'[b].started < run'[a].started)
      BY <1>1, <1>6, <1>7, <2>3, <3>1
    <3> QED BY <2>1, <3>2
  <2>4. CASE a # r /\ b # r
    BY <1>6, <2>1, <2>4 DEF IInv, StartsOrdered
  <2> QED BY <2>2, <2>3, <2>4
<1>9. ASSUME NEW b \in Runs
      PROVE  RunOK(b)'
  <2>1. RunOK(b) /\ RunOK(r)
    BY DEF IInv
  <2>2. run[r].status = "NONE" /\ previous[r] = NoSnapshot
    BY <1>1, <2>1 DEF RunOK, StatusMatches, Fresh, FreshPcs
  <2>3. Fresh(b)' /\ FlagsOK(b)'
    BY <1>1, <1>3, <1>5, <1>6, <2>1 DEF RunOK, Fresh, FlagsOK, FreshPcs
  <2>4. StatusMatches(run[b].status, pc[b])'
    <3>1. CASE b = r
      BY <1>5, <3>1 DEF StatusMatches
    <3>2. CASE b # r
      BY <1>6, <2>1, <3>2 DEF RunOK
    <3> QED BY <3>1, <3>2
  <2>5. SnapshotOK(b)'
    <3>1. \A a \in Runs : pc[a] # "idle" => pc'[a] # "idle"
      BY <1>5, <1>6
    <3> QED BY <1>3, <2>1, <3>1 DEF RunOK, SnapshotOK, Whole
  <2>6. SummaryOK(b)'
    <3>1. PassedCount(item[b])' = PassedCount(item[b])
      BY <1>3
    <3> QED BY <1>3, <1>5, <1>6, <2>1, <3>1 DEF RunOK, SummaryOK, Whole
  <2>7. BaselineOK(b)'
    <3>1. CASE b = r
      BY <1>5, <3>1 DEF BaselineOK
    <3>2. CASE b # r
      <4>1. Earlier(b)' = Earlier(b)
        BY <1>5, <1>6, <2>2, <3>2 DEF Earlier
      <4>2. previous[b].run # NoRun => previous[b].run \in Runs \ {r}
        BY <1>1, <2>1 DEF RunOK, SnapshotOK, NoSnapshot
      <4>3. \A a \in Earlier(b) : run'[a] = run[a]
        BY <1>6, <2>2 DEF Earlier
      <4> QED BY <1>3, <1>6, <2>1, <3>2, <4>1, <4>2, <4>3 DEF RunOK, BaselineOK
    <3> QED BY <3>1, <3>2
  <2> QED BY <2>3, <2>4, <2>5, <2>6, <2>7 DEF RunOK
<1> QED BY <1>4, <1>8, <1>9 DEF IInv

\* Creating the row.
LEMMA CreatePreserves ==
    ASSUME IInv, NEW r \in Runs, Create(r)
    PROVE  IInv'
<1> DEFINE R == Row("RUNNING", run[r].started)
<1>1. /\ pc[r] = "started" /\ UnderWay(r)
      /\ run[r] \in RunRow /\ item[r] \in [Cases -> Results \cup {NoCard}]
      /\ flagged[r] \in SUBSET Cases /\ previous[r] \in Snapshot
  BY DEF Create, UnderWay, Ended, IInv, TypeOK
<1>2. R \in RunRow /\ R.started = run[r].started /\ R.status = "RUNNING"
  BY <1>1 DEF Row, RunRow
<1>3. /\ run' = [run EXCEPT ![r] = R]
      /\ item' = [item EXCEPT ![r] = item[r]]
      /\ flagged' = [flagged EXCEPT ![r] = flagged[r]]
      /\ previous' = [previous EXCEPT ![r] = previous[r]]
      /\ pc' = [pc EXCEPT ![r] = "created"]
      /\ UNCHANGED <<item, flagged, previous, clock, faults, overlaps>>
  BY DEF Create, Goto, IInv, TypeOK
<1>4. run'[r] = R /\ pc'[r] = "created"
  BY <1>3 DEF IInv, TypeOK
<1>5. RunOK(r)'
  <2>1. RunOK(r) /\ previous[r] = NoSnapshot
    BY <1>1 DEF IInv, RunOK, Fresh, FreshPcs
  <2>2. Fresh(r)' /\ FlagsOK(r)' /\ SnapshotOK(r)'
    BY <1>1, <1>3, <2>1 DEF RunOK, Fresh, FlagsOK, SnapshotOK, FreshPcs
  <2>3. StatusMatches(run[r].status, pc[r])' /\ SummaryOK(r)' /\ BaselineOK(r)'
    BY <1>2, <1>4 DEF StatusMatches, SummaryOK, BaselineOK
  <2> QED BY <2>2, <2>3 DEF RunOK
<1>6. "created" \in Pcs \ {"idle"} /\ faults' \in 0..MaxFaults
  BY <1>3 DEF Pcs, IInv, TypeOK
<1> QED BY <1>1, <1>2, <1>3, <1>5, <1>6, OwnRunOnly

\* Reading the baseline: it is COMPLETED, hence whole, and starts no earlier
\* than any other candidate.
LEMMA FindBaselinePreserves ==
    ASSUME IInv, NEW r \in Runs, FindBaseline(r)
    PROVE  IInv'
<1>1. /\ pc[r] = "running" /\ UnderWay(r)
      /\ run[r] \in RunRow /\ item[r] \in [Cases -> Results \cup {NoCard}]
      /\ flagged[r] \in SUBSET Cases /\ previous[r] \in Snapshot
  BY DEF FindBaseline, UnderWay, Ended, IInv, TypeOK
<1>2. /\ run' = [run EXCEPT ![r] = run[r]]
      /\ item' = [item EXCEPT ![r] = item[r]]
      /\ flagged' = [flagged EXCEPT ![r] = flagged[r]]
      /\ pc' = [pc EXCEPT ![r] = "grading"]
      /\ UNCHANGED <<run, item, flagged, clock, faults, overlaps>>
  BY DEF FindBaseline, Goto, RowsKept, IInv, TypeOK
<1>3. /\ RunOK(r) /\ item[r] = NoItems /\ flagged[r] = {} /\ previous[r] = NoSnapshot
      /\ run[r].status = "RUNNING"
  BY <1>1 DEF IInv, RunOK, Fresh, FreshPcs, StatusMatches
<1>31. run[r].status # "COMPLETED"
  <2>1. pc[r] = "running" /\ run[r].status \in {"NONE", "RUNNING", "COMPLETED", "FAILED"}
    BY <1>1 DEF RunRow
  <2> QED BY <1>3
<1>4. pc'[r] = "grading" /\ \A b \in Runs : pc[b] # "idle" => pc'[b] # "idle"
  BY <1>2 DEF IInv, TypeOK
<1>5. FlagsOf(NoItems, previous'[r]) = {}
  BY DEF FlagsOf, NoItems
<1>6. Fresh(r)' /\ FlagsOK(r)' /\ SummaryOK(r)' /\ StatusMatches(run[r].status, pc[r])'
  BY <1>2, <1>3, <1>31, <1>4, <1>5 DEF Fresh, FreshPcs, FlagsOK, SummaryOK, StatusMatches
<1>7. "grading" \in Pcs \ {"idle"} /\ faults' \in 0..MaxFaults
  BY <1>2 DEF Pcs, IInv, TypeOK
<1>8. CASE Earlier(r) = {} /\ UNCHANGED previous
  <2>1. previous' = [previous EXCEPT ![r] = previous[r]]
    BY <1>8 DEF IInv, TypeOK
  <2>2. SnapshotOK(r)'
    BY <1>3, <1>8 DEF SnapshotOK
  <2>3. BaselineOK(r)'
    BY <1>2, <1>8 DEF BaselineOK, Earlier
  <2> QED BY <1>1, <1>2, <1>6, <1>7, <2>1, <2>2, <2>3, OwnRunOnly DEF RunOK
<1>9. CASE \E b \in FirstOf(Earlier(r)) :
             previous' = [previous EXCEPT ![r] = [run |-> b, item |-> item[b]]]
  <2>1. PICK b \in FirstOf(Earlier(r)) :
               previous' = [previous EXCEPT ![r] = [run |-> b, item |-> item[b]]]
    BY <1>9
  <2>2. /\ b \in Runs /\ b # NoRun /\ run[b].status = "COMPLETED"
        /\ \A o \in Earlier(r) : run[o].started <= run[b].started
    BY <2>1, EvalAssumption DEF FirstOf, Earlier
  <2>3. [run |-> b, item |-> item[b]] \in Snapshot
    BY <2>2 DEF Snapshot, IInv, TypeOK
  <2>4. previous'[r].run = b /\ previous'[r].item = item[b]
    BY <2>1 DEF IInv, TypeOK
  <2>5. Whole(b) /\ pc[b] # "idle"
    <3>1. RunOK(b)
      BY <2>2 DEF IInv
    <3> QED BY <2>2, <3>1 DEF RunOK, SummaryOK, StatusMatches
  <2>6. SnapshotOK(r)'
    BY <1>2, <1>4, <2>2, <2>4, <2>5 DEF SnapshotOK, Whole
  <2>7. BaselineOK(r)'
    BY <1>2, <2>2, <2>4 DEF BaselineOK, Earlier
  <2> QED BY <1>1, <1>2, <1>6, <1>7, <2>1, <2>3, <2>6, <2>7, OwnRunOnly DEF RunOK
<1> QED BY <1>8, <1>9 DEF FindBaseline

\* Inserting the item of a case that has none, with its flag.
LEMMA WriteItemPreserves ==
    ASSUME IInv, NEW r \in Runs, pc[r] = "grading",
           NEW c \in Cases, NEW card \in Results,
           item[r][c] = NoCard, WriteItem(r, c, card),
           NEW p \in {"grading", "raised"}, Goto(r, p),
           UNCHANGED <<previous, clock, overlaps>>, faults' \in 0..MaxFaults
    PROVE  IInv'
<1> DEFINE I == [item[r] EXCEPT ![c] = card]
           F == IF Flag(r, c, card) THEN flagged[r] \cup {c} ELSE flagged[r]
<1>1. /\ run[r] \in RunRow /\ item[r] \in [Cases -> Results \cup {NoCard}]
      /\ flagged[r] \in SUBSET Cases /\ previous[r] \in Snapshot /\ UnderWay(r)
  BY DEF UnderWay, Ended, IInv, TypeOK
<1>2. I \in [Cases -> Results \cup {NoCard}] /\ F \in SUBSET Cases
  BY <1>1
<1>3. /\ run' = [run EXCEPT ![r] = run[r]]
      /\ item' = [item EXCEPT ![r] = I]
      /\ flagged' = [flagged EXCEPT ![r] = F]
      /\ previous' = [previous EXCEPT ![r] = previous[r]]
      /\ pc' = [pc EXCEPT ![r] = p]
      /\ UNCHANGED run
  BY DEF WriteItem, Goto, IInv, TypeOK
<1>4. item'[r] = I /\ flagged'[r] = F /\ pc'[r] = p
  BY <1>3 DEF IInv, TypeOK
<1>5. /\ RunOK(r) /\ run[r].status = "RUNNING" /\ run[r].status # "COMPLETED"
      /\ ~ Whole(r)
  <2>1. RunOK(r) /\ run[r].status = "RUNNING"
    BY DEF IInv, RunOK, StatusMatches
  <2> QED BY <2>1 DEF Whole
<1>6. Fresh(r)' /\ StatusMatches(run[r].status, pc[r])' /\ SummaryOK(r)'
  BY <1>3, <1>4, <1>5 DEF Fresh, FreshPcs, StatusMatches, SummaryOK
<1>7. SnapshotOK(r)'
  <2>1. CASE previous[r] = NoSnapshot
    BY <2>1 DEF SnapshotOK
  <2>2. CASE previous[r] # NoSnapshot
    <3>1. /\ previous[r].run \in Runs /\ previous[r].item = item[previous[r].run]
          /\ Whole(previous[r].run) /\ pc[previous[r].run] # "idle"
      BY <1>5, <2>2 DEF RunOK, SnapshotOK
    <3>2. previous[r].run # r
      BY <1>5, <3>1
    <3>3. item'[previous[r].run] = item[previous[r].run]
          /\ pc'[previous[r].run] = pc[previous[r].run]
      BY <1>3, <3>1, <3>2 DEF IInv, TypeOK
    <3> QED BY <3>1, <3>3 DEF SnapshotOK, Whole
  <2> QED BY <2>1, <2>2
<1>8. FlagsOK(r)'
  <2>1. card # NoCard
    <3>1. FailedCard \in Scorecard
      BY DEF FailedCard, Scorecard
    <3>2. card \in Scorecard
      BY <3>1, EvalAssumption DEF Results
    <3> QED BY <3>2, EvalAssumption
  <2>2. flagged[r] = FlagsOf(item[r], previous[r])
    BY <1>5 DEF RunOK, FlagsOK
  <2>3. \A d \in Cases : I[d] = IF d = c THEN card ELSE item[r][d]
    BY <1>1
  <2>4. F = FlagsOf(I, previous[r])
    BY <2>1, <2>2, <2>3 DEF FlagsOf, Flag
  <2> QED BY <1>4, <2>4 DEF FlagsOK
<1>9. BaselineOK(r)'
  <2>1. Earlier(r)' = Earlier(r)
    BY <1>3 DEF Earlier
  <2> QED BY <1>3, <1>5, <2>1 DEF RunOK, BaselineOK
<1>10. p \in Pcs \ {"idle"}
  BY DEF Pcs
<1>11. RunOK(r)'
  BY <1>6, <1>7, <1>8, <1>9 DEF RunOK
<1> QED BY <1>1, <1>2, <1>3, <1>5, <1>10, <1>11, OwnRunOnly

\* Counting the items of a run.
LEMMA CountsAreNat ==
    ASSUME IInv, NEW r \in Runs
    PROVE  PassedCount(item[r]) \in Nat /\ Cardinality(flagged[r]) \in Nat
<1>1. {c \in Cases : item[r][c] # NoCard /\ Passed(item[r][c])} \in SUBSET Cases
  OBVIOUS
<1>2. flagged[r] \in SUBSET Cases
  BY DEF IInv, TypeOK
<1> QED BY <1>1, <1>2, EvalAssumption, FS_Subset, FS_CardinalityType DEF PassedCount

\* Completing a run whose cases are all graded.
LEMMA TxCompletePreserves ==
    ASSUME IInv, NEW r \in Runs, pc[r] = "grading", AllGraded(r), TxComplete(r),
           NEW p \in {"completed", "raised"}, Goto(r, p),
           UNCHANGED <<previous, clock, overlaps>>, faults' \in 0..MaxFaults
    PROVE  IInv'
<1> DEFINE R == Summary(r)
<1>1. /\ run[r] \in RunRow /\ item[r] \in [Cases -> Results \cup {NoCard}]
      /\ flagged[r] \in SUBSET Cases /\ previous[r] \in Snapshot /\ UnderWay(r)
  BY DEF UnderWay, Ended, IInv, TypeOK
<1>2. /\ R.status = "COMPLETED" /\ R.started = run[r].started
      /\ R.passed = PassedCount(item[r]) /\ R.regressions = Cardinality(flagged[r])
      /\ R.baseline = previous[r].run
  BY DEF Summary
<1>3. R \in RunRow
  <2>1. PassedCount(item[r]) \in Nat /\ Cardinality(flagged[r]) \in Nat
    BY CountsAreNat
  <2> QED BY <1>1, <2>1 DEF Summary, RunRow, Snapshot
<1> HIDE DEF R
<1>4. /\ run' = [run EXCEPT ![r] = R]
      /\ item' = [item EXCEPT ![r] = item[r]]
      /\ flagged' = [flagged EXCEPT ![r] = flagged[r]]
      /\ previous' = [previous EXCEPT ![r] = previous[r]]
      /\ pc' = [pc EXCEPT ![r] = p]
      /\ UNCHANGED <<item, flagged>>
  BY DEF TxComplete, Goto, R, IInv, TypeOK
<1>5. run'[r] = R /\ pc'[r] = p /\ \A b \in Runs : pc[b] # "idle" => pc'[b] # "idle"
  BY <1>4 DEF IInv, TypeOK
<1>6. RunOK(r)
  BY DEF IInv
<1>7. Fresh(r)' /\ FlagsOK(r)' /\ StatusMatches(run[r].status, pc[r])'
  BY <1>2, <1>4, <1>5, <1>6 DEF Fresh, FreshPcs, FlagsOK, StatusMatches, RunOK
<1>8. SnapshotOK(r)'
  BY <1>4, <1>5, <1>6 DEF RunOK, SnapshotOK, Whole
<1>9. SummaryOK(r)'
  <2>1. PassedCount(item[r])' = PassedCount(item[r])
    BY <1>4
  <2>2. Whole(r)'
    BY <1>4 DEF AllGraded, Whole
  <2> QED BY <1>2, <1>4, <1>5, <2>1, <2>2 DEF SummaryOK
<1>10. BaselineOK(r)'
  <2>1. Earlier(r)' = Earlier(r)
    BY <1>2, <1>3, <1>4, OwnEarlierKept
  <2>2. \A b \in Runs : run'[b].started = run[b].started
    BY <1>2, <1>4 DEF IInv, TypeOK
  <2>3. previous[r].run # NoRun => previous[r].run \in Runs
    BY <1>1 DEF Snapshot
  <2> QED BY <1>6, <2>1, <2>2, <2>3 DEF RunOK, BaselineOK, Earlier
<1>11. p \in Pcs \ {"idle"} /\ RunOK(r)'
  BY <1>7, <1>8, <1>9, <1>10 DEF Pcs, RunOK
<1> QED BY <1>1, <1>2, <1>3, <1>4, <1>11, OwnRunOnly

\* The catch block, also over a run that was COMPLETED.
LEMMA CatchPreserves ==
    ASSUME IInv, NEW r \in Runs, Catch(r)
    PROVE  IInv'
<1> DEFINE R == Row("FAILED", run[r].started)
<1>1. /\ pc[r] = "raised" /\ UnderWay(r)
      /\ run[r] \in RunRow /\ item[r] \in [Cases -> Results \cup {NoCard}]
      /\ flagged[r] \in SUBSET Cases /\ previous[r] \in Snapshot
  BY DEF Catch, UnderWay, Ended, IInv, TypeOK
<1>2. R \in RunRow /\ R.started = run[r].started /\ R.status = "FAILED"
  BY <1>1 DEF Row, RunRow
<1>3. /\ run' = [run EXCEPT ![r] = R]
      /\ item' = [item EXCEPT ![r] = item[r]]
      /\ flagged' = [flagged EXCEPT ![r] = flagged[r]]
      /\ previous' = [previous EXCEPT ![r] = previous[r]]
      /\ pc' = [pc EXCEPT ![r] = "threw"]
      /\ UNCHANGED <<item, flagged, previous, clock, faults, overlaps>>
  BY DEF Catch, Goto, IInv, TypeOK
<1>4. run'[r] = R /\ pc'[r] = "threw" /\ \A b \in Runs : pc[b] # "idle" => pc'[b] # "idle"
  BY <1>3 DEF IInv, TypeOK
<1>5. RunOK(r)'
  <2>1. RunOK(r)
    BY DEF IInv
  <2>2. FlagsOK(r)' /\ SnapshotOK(r)'
    BY <1>3, <1>4, <2>1 DEF RunOK, FlagsOK, SnapshotOK, Whole
  <2>3. Fresh(r)' /\ StatusMatches(run[r].status, pc[r])' /\ SummaryOK(r)' /\ BaselineOK(r)'
    BY <1>2, <1>4 DEF Fresh, FreshPcs, StatusMatches, SummaryOK, BaselineOK
  <2> QED BY <2>2, <2>3 DEF RunOK
<1>6. "threw" \in Pcs \ {"idle"} /\ faults' \in 0..MaxFaults
  BY <1>3 DEF Pcs, IInv, TypeOK
<1> QED BY <1>1, <1>2, <1>3, <1>5, <1>6, OwnRunOnly

-----------------------------------------------------------------------------
\* Before a request starts, the invariant holds of its run.
LEMMA InitIInv == EvalInit => IInv
<1> SUFFICES ASSUME EvalInit PROVE IInv
  OBVIOUS
<1>1. NoItems \in [Cases -> Results \cup {NoCard}]
  BY DEF NoItems
<1>2. NoSnapshot \in Snapshot
  BY <1>1 DEF NoSnapshot, Snapshot
<1>3. Row("NONE", 0) \in RunRow
  BY EvalAssumption DEF Row, RunRow
<1>4. TypeOK
  BY <1>1, <1>2, <1>3, EvalAssumption DEF EvalInit, TypeOK, Pcs
<1>5. StartsOrdered
  BY DEF EvalInit, StartsOrdered
<1>6. ASSUME NEW r \in Runs
      PROVE  RunOK(r)
  <2>1. /\ pc[r] = "idle" /\ run[r] = Row("NONE", 0) /\ run[r].status = "NONE"
        /\ item[r] = NoItems /\ flagged[r] = {} /\ previous[r] = NoSnapshot
    BY DEF EvalInit, Row
  <2>2. FlagsOf(NoItems, NoSnapshot) = {}
    BY DEF FlagsOf, NoItems
  <2> QED
    BY <2>1, <2>2
    DEF RunOK, Fresh, SnapshotOK, FlagsOK, StatusMatches, SummaryOK, BaselineOK
<1> QED BY <1>4, <1>5, <1>6 DEF IInv

\* The error paths of a request that write nothing, and the audits.
LEMMA QuietPreserves ==
    ASSUME IInv, NEW r \in Runs,
           AuditStart(r) \/ BeforeTryFails(r) \/ AuditComplete(r) \/ CatchFails(r)
             \/ View(r) \/ Crash(r) \/ (TryFails(r) /\ RowsKept)
    PROVE  IInv'
<1>1. RunOK(r)
  BY DEF IInv
<1>2. RowsKept /\ UNCHANGED <<previous, clock, overlaps>> /\ faults' \in 0..MaxFaults
  <2>1. Fault \/ UNCHANGED faults
    BY DEF AuditStart, BeforeTryFails, AuditComplete, CatchFails, View, Crash, TryFails
  <2> QED
    BY <2>1, FaultBounded
    DEF AuditStart, BeforeTryFails, AuditComplete, CatchFails, View, Crash, TryFails
<1>3. CASE AuditStart(r)
  <2>1. /\ pc[r] = "created" /\ UnderWay(r) /\ "running" \in Pcs \ {"idle"}
        /\ Goto(r, "running") /\ pc[r] \in FreshPcs
    BY <1>3 DEF AuditStart, UnderWay, Ended, Pcs, FreshPcs
  <2>2. StatusMatches(run[r].status, "running")
    BY <1>1, <2>1 DEF RunOK, StatusMatches
  <2> QED BY <1>2, <2>1, <2>2, OnlyMoves
<1>4. CASE BeforeTryFails(r)
  <2>1. /\ pc[r] \in {"started", "created"} /\ UnderWay(r) /\ "refused" \in Pcs \ {"idle"}
        /\ Goto(r, "refused") /\ "refused" \notin FreshPcs
    BY <1>4 DEF BeforeTryFails, UnderWay, Ended, Pcs, FreshPcs
  <2>2. StatusMatches(run[r].status, "refused")
    BY <1>1, <2>1 DEF RunOK, StatusMatches
  <2> QED BY <1>2, <2>1, <2>2, OnlyMoves
<1>5. CASE AuditComplete(r)
  <2>1. /\ pc[r] = "completed" /\ UnderWay(r) /\ "viewing" \in Pcs \ {"idle"}
        /\ Goto(r, "viewing") /\ "viewing" \notin FreshPcs
    BY <1>5 DEF AuditComplete, UnderWay, Ended, Pcs, FreshPcs
  <2>2. StatusMatches(run[r].status, "viewing")
    BY <1>1, <2>1 DEF RunOK, StatusMatches
  <2> QED BY <1>2, <2>1, <2>2, OnlyMoves
<1>6. CASE View(r)
  <2>1. /\ pc[r] = "viewing" /\ UnderWay(r)
        /\ {"returned", "unviewed"} \subseteq Pcs \ ({"idle"} \cup FreshPcs)
    BY <1>6 DEF View, UnderWay, Ended, Pcs, FreshPcs
  <2>2. \A p \in {"returned", "unviewed"} : StatusMatches(run[r].status, p)
    BY <1>1, <2>1 DEF RunOK, StatusMatches
  <2>3. PICK p \in {"returned", "unviewed"} : Goto(r, p)
    BY <1>6 DEF View
  <2>4. StatusMatches(run[r].status, p) /\ p \in Pcs \ {"idle"} /\ p \notin FreshPcs /\ p # "grading"
    BY <2>1, <2>2
  <2> QED BY <1>2, <2>1, <2>3, <2>4, OnlyMoves
<1>7. CASE CatchFails(r) \/ Crash(r) \/ (TryFails(r) /\ RowsKept)
  <2>1. UnderWay(r) /\ \E p \in {"uncaught", "died", "raised"} : Goto(r, p)
    BY <1>7 DEF CatchFails, Crash, TryFails, UnderWay, Ended
  <2>2. PICK p \in {"uncaught", "died", "raised"} : Goto(r, p)
    BY <2>1
  <2>3. StatusMatches(run[r].status, p) /\ p \in Pcs \ {"idle"} /\ p \notin FreshPcs /\ p # "grading"
    BY DEF StatusMatches, Pcs, FreshPcs
  <2> QED BY <1>2, <2>1, <2>2, <2>3, OnlyMoves
<1> QED BY <1>3, <1>4, <1>5, <1>6, <1>7

\* Every step keeps the invariant.
LEMMA NextIInv == IInv /\ [EvalNext]_evalVars => IInv'
<1> SUFFICES ASSUME IInv, [EvalNext]_evalVars PROVE IInv'
  OBVIOUS
<1>1. CASE UNCHANGED evalVars
  <2>1. \A r \in Runs : PassedCount(item[r])' = PassedCount(item[r])
    BY <1>1 DEF evalVars
  <2> QED
    BY <1>1, <2>1
    DEF evalVars, IInv, TypeOK, StartsOrdered, RunOK, Fresh, SnapshotOK, FlagsOK,
        SummaryOK, BaselineOK, Earlier, Whole, UnderWay
<1>2. ASSUME NEW r \in Runs, Start(r) \/ Create(r) \/ FindBaseline(r) \/ Catch(r)
      PROVE  IInv'
  BY <1>2, StartPreserves, CreatePreserves, FindBaselinePreserves, CatchPreserves
<1>3. ASSUME NEW r \in Runs,
             AuditStart(r) \/ BeforeTryFails(r) \/ AuditComplete(r) \/ CatchFails(r)
               \/ View(r) \/ Crash(r)
      PROVE  IInv'
  BY <1>3, QuietPreserves
<1>4. ASSUME NEW r \in Runs, NEW c \in Cases, NEW card \in Results, GradeCase(r, c, card)
      PROVE  IInv'
  <2>1. /\ pc[r] = "grading" /\ item[r][c] = NoCard /\ WriteItem(r, c, card)
        /\ Goto(r, "grading") /\ UNCHANGED <<previous, clock, overlaps>>
        /\ faults' \in 0..MaxFaults
    BY <1>4 DEF GradeCase, Goto, IInv, TypeOK
  <2> QED BY <2>1, WriteItemPreserves
<1>5. ASSUME NEW r \in Runs, Complete(r)
      PROVE  IInv'
  <2>1. /\ pc[r] = "grading" /\ AllGraded(r) /\ TxComplete(r)
        /\ Goto(r, "completed") /\ UNCHANGED <<previous, clock, overlaps>>
        /\ faults' \in 0..MaxFaults
    BY <1>5 DEF Complete, IInv, TypeOK
  <2> QED BY <2>1, TxCompletePreserves
<1>6. ASSUME NEW r \in Runs, TryFails(r)
      PROVE  IInv'
  <2>1. /\ Goto(r, "raised") /\ UNCHANGED <<previous, clock, overlaps>>
        /\ faults' \in 0..MaxFaults
    BY <1>6, FaultBounded DEF TryFails
  <2>2. CASE RowsKept
    BY <1>6, <2>2, QuietPreserves
  <2>3. CASE /\ pc[r] = "grading"
             /\ \E c \in Cases, card \in Results : item[r][c] = NoCard /\ WriteItem(r, c, card)
    BY <2>1, <2>3, WriteItemPreserves
  <2>4. CASE pc[r] = "grading" /\ AllGraded(r) /\ TxComplete(r)
    BY <2>1, <2>4, TxCompletePreserves
  <2> QED BY <1>6, <2>2, <2>3, <2>4 DEF TryFails
<1> QED BY <1>1, <1>2, <1>3, <1>4, <1>5, <1>6 DEF EvalNext

\* The inductive invariant holds in every reachable state.
LEMMA Inductive == EvalSpec => []IInv
BY InitIInv, NextIInv, PTL DEF EvalSpec

-----------------------------------------------------------------------------
\* Rows, items and snapshots keep their types.
THEOREM EvalTypes == EvalSpec => []TypeOK
<1>1. IInv => TypeOK
  BY DEF IInv
<1> QED BY <1>1, Inductive, PTL

\* A COMPLETED run has every item, and its summary counts them (504-539).
THEOREM CompletedRunsAreWhole == EvalSpec => []CompletedIsWhole
<1>1. IInv => CompletedIsWhole
  BY DEF IInv, RunOK, SummaryOK, Whole, CompletedIsWhole
<1> QED BY <1>1, Inductive, PTL

\* The regression flags of a COMPLETED run agree with its baseline's items,
\* whatever requests were under way beside it (428-444).
THEOREM FlagsAreRight == EvalSpec => []FlagsMatchBaseline
<1>1. IInv => FlagsMatchBaseline
  <2> SUFFICES ASSUME IInv PROVE FlagsMatchBaseline
    OBVIOUS
  <2> SUFFICES ASSUME NEW r \in Runs, run[r].status = "COMPLETED"
               PROVE  flagged[r] =
                        IF run[r].baseline = NoRun THEN {}
                        ELSE {c \in Cases :
                                /\ item[run[r].baseline][c] # NoCard
                                /\ ShouldFlagRegression(item[run[r].baseline][c], item[r][c])}
    BY DEF FlagsMatchBaseline
  <2>1. /\ \A c \in Cases : item[r][c] # NoCard
        /\ run[r].baseline = previous[r].run
        /\ flagged[r] = FlagsOf(item[r], previous[r])
        /\ SnapshotOK(r)
    BY DEF IInv, RunOK, SummaryOK, Whole, FlagsOK
  <2>2. CASE previous[r] = NoSnapshot
    BY <2>1, <2>2 DEF NoSnapshot, NoItems, FlagsOf
  <2>3. CASE previous[r] # NoSnapshot
    BY <2>1, <2>3, EvalAssumption DEF SnapshotOK, FlagsOf
  <2> QED BY <2>2, <2>3
<1> QED BY <1>1, Inductive, PTL

\* Only a run whose request was under way at the start may be missed as the
\* baseline (275-279).
THEOREM BaselineIsTheLast == EvalSpec => []BaselineMissesOnlyOverlaps
<1>1. IInv => BaselineMissesOnlyOverlaps
  <2> SUFFICES ASSUME IInv PROVE BaselineMissesOnlyOverlaps
    OBVIOUS
  <2> SUFFICES ASSUME NEW r \in Runs, NEW b \in Earlier(r), run[r].status = "COMPLETED",
                      run[r].baseline = NoRun \/ run[run[r].baseline].started < run[b].started
               PROVE  b \in overlaps[r]
    BY DEF BaselineMissesOnlyOverlaps
  <2>1. /\ run[r].baseline = previous[r].run
        /\ b \in overlaps[r]
              \/ (previous[r].run # NoRun /\ run[b].started <= run[previous[r].run].started)
    BY DEF IInv, RunOK, SummaryOK, BaselineOK
  <2>2. CASE previous[r].run = NoRun
    BY <2>1, <2>2
  <2>3. CASE previous[r].run # NoRun
    <3>1. previous[r].run \in Runs
      BY <2>3 DEF IInv, TypeOK, Snapshot
    <3>2. b \in Runs
      BY DEF Earlier
    <3>3. run[b].started \in Int /\ run[previous[r].run].started \in Int
      BY <3>1, <3>2 DEF IInv, TypeOK, RunRow
    <3> QED BY <2>1, <2>3, <3>3
  <2> QED BY <2>2, <2>3
<1> QED BY <1>1, Inductive, PTL

\* What the operator is told agrees with the row (565-582).
THEOREM EvalAnswersAgree == EvalSpec => []AnswersAgree
<1>1. IInv => AnswersAgree
  <2> SUFFICES ASSUME IInv PROVE AnswersAgree
    OBVIOUS
  <2> SUFFICES ASSUME NEW r \in Runs
               PROVE  /\ pc[r] \in {"returned", "unviewed"} => run[r].status = "COMPLETED"
                      /\ pc[r] = "threw" => run[r].status = "FAILED"
                      /\ run[r].status = "RUNNING" =>
                            UnderWay(r) \/ pc[r] \in {"refused", "uncaught", "died"}
    BY DEF AnswersAgree
  <2>1. StatusMatches(run[r].status, pc[r]) /\ pc[r] \in Pcs
    BY DEF IInv, RunOK, TypeOK
  <2> QED BY <2>1 DEF StatusMatches, Pcs, UnderWay, Ended
<1> QED BY <1>1, Inductive, PTL

=============================================================================
