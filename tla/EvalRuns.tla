------------------------------ MODULE EvalRuns ------------------------------
(***************************************************************************)
(* EvalsService.runEvalSet: a request creates a run of an evaluation set,   *)
(* looks for the run to compare with, grades the cases one by one, writes   *)
(* the summary and answers with getEvalRun.  Each run has a request of its  *)
(* own; requests overlap, and each await ends a step.                       *)
(*                                                                         *)
(* All runs are of one set.  Its cases never change, as nothing but         *)
(* createEvalSet writes them.  startedAt is the clock of the API in         *)
(* milliseconds, so two runs may share it.                                  *)
(***************************************************************************)
EXTENDS EvalScoring

CONSTANTS
    Runs,       \* the requests, and the runs they create
    Cases,      \* the active cases of the set
    Cards,      \* the score cards that executions may earn
    NoRun,      \* no baseline
    NoCard,     \* a case without an item
    MaxTime,    \* bound: milliseconds
    MaxFaults   \* bound: faults in a behaviour

ASSUME EvalAssumption ==
    /\ NoRun \notin Runs
    /\ IsFiniteSet(Cases)
    /\ Cards \subseteq Scorecard
    /\ NoCard \notin Scorecard
    /\ MaxTime \in Nat
    /\ MaxFaults \in Nat

VARIABLES
    run,       \* the EvalRun rows
    item,      \* the cards of the EvalItem rows
    flagged,   \* the cases whose item has regressionFlag
    pc,        \* where the request of a run is
    previous,  \* what the request read of its baseline
    clock,
    faults,
    overlaps   \* history: the requests under way when a run read its clock

evalVars == <<run, item, flagged, pc, previous, clock, faults, overlaps>>

Results == Cards \cup {FailedCard}

RunRow ==
    [ status      : {"NONE", "RUNNING", "COMPLETED", "FAILED"},
      started     : 0..MaxTime,
      passed      : Nat,
      regressions : Nat,
      baseline    : Runs \cup {NoRun},
      worse       : BOOLEAN ]   \* pass_rate among the meaningful changes, regressed

Snapshot == [run : Runs \cup {NoRun}, item : [Cases -> Results \cup {NoCard}]]

NoItems == [c \in Cases |-> NoCard]
NoSnapshot == [run |-> NoRun, item |-> NoItems]
Row(status, started) ==
    [ status |-> status, started |-> started, passed |-> 0, regressions |-> 0,
      baseline |-> NoRun, worse |-> FALSE ]

Pcs ==
    { "idle",        \* no request yet
      "started",     \* startedAt is read, the row is to be created
      "created",     \* the row is there, its audit is next
      "running",     \* inside the try: the baseline is next
      "grading",     \* the cases
      "completed",   \* COMPLETED is written, its audit is next
      "viewing",     \* getEvalRun, after the try
      "raised",      \* the catch block
      "returned",    \* over: 200
      "threw",       \* over: the error of the try, after the catch block
      "unviewed",    \* over: getEvalRun raised
      "refused",     \* over: an error before the try
      "uncaught",    \* over: the catch block raised itself
      "died" }       \* over: the process

Ended == {"returned", "threw", "unviewed", "refused", "uncaught", "died"}
UnderWay(r) == pc[r] \notin Ended \cup {"idle"}

EvalInit ==
    /\ run = [r \in Runs |-> Row("NONE", 0)]
    /\ item = [r \in Runs |-> NoItems]
    /\ flagged = [r \in Runs |-> {}]
    /\ pc = [r \in Runs |-> "idle"]
    /\ previous = [r \in Runs |-> NoSnapshot]
    /\ clock = 0
    /\ faults = 0
    /\ overlaps = [r \in Runs |-> {}]

Goto(r, place) == pc' = [pc EXCEPT ![r] = place]
Fault == faults < MaxFaults /\ faults' = faults + 1
RowsKept == UNCHANGED <<run, item, flagged>>

-----------------------------------------------------------------------------
Start(r) ==
    /\ pc[r] = "idle"
    /\ clock' \in {clock, clock + 1} \cap 0..MaxTime
    /\ run' = [run EXCEPT ![r] = Row("NONE", clock')]
    /\ overlaps' = [overlaps EXCEPT ![r] = {b \in Runs : UnderWay(b)}]
    /\ Goto(r, "started")
    /\ UNCHANGED <<item, flagged, previous, faults>>

Create(r) ==
    /\ pc[r] = "started"
    /\ run' = [run EXCEPT ![r] = Row("RUNNING", @.started)]
    /\ Goto(r, "created")
    /\ UNCHANGED <<item, flagged, previous, clock, faults, overlaps>>

AuditStart(r) ==
    /\ pc[r] = "created"
    /\ Goto(r, "running")
    /\ RowsKept
    /\ UNCHANGED <<previous, clock, faults, overlaps>>

\* An error of the create or of the audit row is not caught.
BeforeTryFails(r) ==
    /\ pc[r] \in {"started", "created"}
    /\ Fault
    /\ Goto(r, "refused")
    /\ RowsKept
    /\ UNCHANGED <<previous, clock, overlaps>>

\* Mutant: runs of any status.
Earlier_AnyStatus(r) ==
    {b \in Runs : run[b].status # "NONE" /\ run[b].started < run[r].started}

\* status: COMPLETED, startedAt: { lt: startedAt }
Earlier(r) ==
    {b \in Runs : run[b].status = "COMPLETED" /\ run[b].started < run[r].started}

\* Mutant: the order is ascending.
FirstOf_Oldest(candidates) ==
    {b \in candidates : \A o \in candidates : run[b].started <= run[o].started}

\* orderBy startedAt desc; any of those that share the last millisecond.
FirstOf(candidates) ==
    {b \in candidates : \A o \in candidates : run[o].started <= run[b].started}

FindBaseline(r) ==
    /\ pc[r] = "running"
    /\ \/ Earlier(r) = {} /\ UNCHANGED previous
       \/ \E b \in FirstOf(Earlier(r)) :
            previous' = [previous EXCEPT ![r] = [run |-> b, item |-> item[b]]]
    /\ Goto(r, "grading")
    /\ RowsKept
    /\ UNCHANGED <<clock, faults, overlaps>>

\* The regressionFlag of a card, against the item read with the baseline.
Flag(r, c, card) ==
    /\ previous[r].item[c] # NoCard
    /\ ShouldFlagRegression(previous[r].item[c], card)

WriteItem(r, c, card) ==
    /\ item' = [item EXCEPT ![r] = [@ EXCEPT ![c] = card]]
    /\ flagged' = [flagged EXCEPT ![r] = IF Flag(r, c, card) THEN @ \cup {c} ELSE @]
    /\ UNCHANGED run

\* One round of the loop: execute, score, compare, insert the item.  The cases
\* share their createdAt, so any order may be the ascending one.
GradeCase(r, c, card) ==
    /\ pc[r] = "grading"
    /\ item[r][c] = NoCard
    /\ WriteItem(r, c, card)
    /\ UNCHANGED <<pc, previous, clock, faults, overlaps>>

PassedCount(items) ==
    Cardinality({c \in Cases : items[c] # NoCard /\ Passed(items[c])})

\* Mutant: the last case does not count.
AllGraded_OneShort(r) == Cardinality({c \in Cases : item[r][c] = NoCard}) <= 1

AllGraded(r) == \A c \in Cases : item[r][c] # NoCard

\* buildRunSummary, with the comparison when there is a baseline.
Summary(r) ==
    LET total == Cardinality(Cases)
        rate == Rate(PassedCount(item[r]), total)
        before == Rate(PassedCount(previous[r].item), total)
    IN  [ status      |-> "COMPLETED",
          started     |-> run[r].started,
          passed      |-> PassedCount(item[r]),
          regressions |-> Cardinality(flagged[r]),
          baseline    |-> previous[r].run,
          worse       |-> /\ previous[r].run # NoRun
                          /\ RateRegressed(rate, before, RateThreshold(total, total)) ]

TxComplete(r) ==
    /\ run' = [run EXCEPT ![r] = Summary(r)]
    /\ UNCHANGED <<item, flagged>>

Complete(r) ==
    /\ pc[r] = "grading"
    /\ AllGraded(r)
    /\ TxComplete(r)
    /\ Goto(r, "completed")
    /\ UNCHANGED <<previous, clock, faults, overlaps>>

AuditComplete(r) ==
    /\ pc[r] = "completed"
    /\ Goto(r, "viewing")
    /\ RowsKept
    /\ UNCHANGED <<previous, clock, faults, overlaps>>

\* The read of the baseline, an insert, the completion or its audit raises,
\* having been committed or not.
TryFails(r) ==
    /\ pc[r] \in {"running", "grading", "completed"}
    /\ Fault
    /\ \/ RowsKept
       \/ /\ pc[r] = "grading"
          /\ \/ \E c \in Cases, card \in Results :
                    item[r][c] = NoCard /\ WriteItem(r, c, card)
             \/ AllGraded(r) /\ TxComplete(r)
    /\ Goto(r, "raised")
    /\ UNCHANGED <<previous, clock, overlaps>>

\* Mutant: the error is only rethrown.
Catch_Rethrow(r) ==
    /\ pc[r] = "raised"
    /\ Goto(r, "threw")
    /\ RowsKept
    /\ UNCHANGED <<previous, clock, faults, overlaps>>

Catch(r) ==
    /\ pc[r] = "raised"
    /\ run' = [run EXCEPT ![r] = Row("FAILED", @.started)]
    /\ Goto(r, "threw")
    /\ UNCHANGED <<item, flagged, previous, clock, faults, overlaps>>

CatchFails(r) ==
    /\ pc[r] = "raised"
    /\ Fault
    /\ Goto(r, "uncaught")
    /\ RowsKept
    /\ UNCHANGED <<previous, clock, overlaps>>

\* The promise of getEvalRun is returned, not awaited: the catch block never
\* sees its error.
View(r) ==
    /\ pc[r] = "viewing"
    /\ \/ Goto(r, "returned") /\ UNCHANGED faults
       \/ Goto(r, "unviewed") /\ Fault
    /\ RowsKept
    /\ UNCHANGED <<previous, clock, overlaps>>

Crash(r) ==
    /\ UnderWay(r)
    /\ Fault
    /\ Goto(r, "died")
    /\ RowsKept
    /\ UNCHANGED <<previous, clock, overlaps>>

EvalNext ==
    \E r \in Runs :
        \/ Start(r) \/ Create(r) \/ AuditStart(r) \/ BeforeTryFails(r)
        \/ FindBaseline(r)
        \/ \E c \in Cases, card \in Results : GradeCase(r, c, card)
        \/ Complete(r) \/ AuditComplete(r) \/ View(r)
        \/ TryFails(r) \/ Catch(r) \/ CatchFails(r) \/ Crash(r)

EvalSpec == EvalInit /\ [][EvalNext]_evalVars

-----------------------------------------------------------------------------
\* Rows, items, requests and snapshots keep their types.
TypeOK ==
    /\ run \in [Runs -> RunRow]
    /\ item \in [Runs -> [Cases -> Results \cup {NoCard}]]
    /\ flagged \in [Runs -> SUBSET Cases]
    /\ pc \in [Runs -> Pcs]
    /\ previous \in [Runs -> Snapshot]
    /\ clock \in 0..MaxTime
    /\ faults \in 0..MaxFaults
    /\ overlaps \in [Runs -> SUBSET Runs]

\* A COMPLETED run has an item for every case, and its summary counts them,
\* whatever failed or crashed beside it.
CompletedIsWhole ==
    \A r \in Runs :
        run[r].status = "COMPLETED" =>
            /\ \A c \in Cases : item[r][c] # NoCard
            /\ run[r].passed = PassedCount(item[r])
            /\ run[r].regressions = Cardinality(flagged[r])

\* The flags of a COMPLETED run are right against the items that its baseline
\* has now, although they were decided against a copy, case by case, while
\* other runs were under way.
FlagsMatchBaseline ==
    \A r \in Runs :
        run[r].status = "COMPLETED" =>
            flagged[r] =
                IF run[r].baseline = NoRun THEN {}
                ELSE {c \in Cases :
                        /\ item[run[r].baseline][c] # NoCard
                        /\ ShouldFlagRegression(item[run[r].baseline][c], item[r][c])}

\* A run is compared with the last COMPLETED run that started before it;
\* a later one is missed only if its request was under way when this run began.
BaselineMissesOnlyOverlaps ==
    \A r, b \in Runs :
        /\ run[r].status = "COMPLETED" /\ b \in Earlier(r)
        /\ run[r].baseline = NoRun \/ run[run[r].baseline].started < run[b].started
        => b \in overlaps[r]

\* What the operator is told agrees with the row: an answer means COMPLETED,
\* also when only the view failed, the error of a run FAILED; a run is left
\* RUNNING only by a crash, a failed catch block or an error before the try.
AnswersAgree ==
    \A r \in Runs :
        /\ pc[r] \in {"returned", "unviewed"} => run[r].status = "COMPLETED"
        /\ pc[r] = "threw" => run[r].status = "FAILED"
        /\ run[r].status = "RUNNING" =>
                UnderWay(r) \/ pc[r] \in {"refused", "uncaught", "died"}

=============================================================================
