----------------------------- MODULE ChunkStore -----------------------------
(***************************************************************************)
(* Indexer.persist_chunks statement by statement, for the writers that a    *)
(* redelivered job or two jobs of one version bring together.  PostgreSQL   *)
(* runs the transaction at READ COMMITTED:                                  *)
(*   - the UPDATE sees the rows active when it starts, waits for a row that *)
(*     another open transaction has superseded, and looks at it again when  *)
(*     that transaction is over;                                            *)
(*   - every INSERT has to pass the partial unique index on                 *)
(*     (documentVersionId, chunkNo) WHERE supersededAt IS NULL, which waits *)
(*     for open transactions and refuses what a committed row has taken.    *)
(* A refused writer raises a retryable error and comes back with another    *)
(* run; the number of its chunks may differ from run to run.                *)
(***************************************************************************)
EXTENDS Naturals, FiniteSets

CONSTANTS
    Writers,     \* worker slots that persist chunks of the one version
    None,        \* no writer, no generation
    MaxRuns,     \* bound: transactions of one writer
    MaxChunks    \* bound: chunks of one run

ASSUME ChunkAssumption ==
    /\ None \notin Writers
    /\ MaxRuns \in Nat
    /\ MaxChunks \in Nat \ {0}

VARIABLES
    active,   \* committed rows with supersededAt IS NULL
    size,     \* per generation, the number of its chunks; 0 before its run
    retired,  \* generations superseded for good
    tx        \* per writer: its open transaction

storeVars == <<active, size, retired, tx>>

Earlier == [writer |-> None, run |-> 0]   \* what an earlier ingestion left
Generations == [writer : Writers, run : 1..MaxRuns] \cup {Earlier}

Row == [gen : Generations, no : 1..MaxChunks]
Chunks(g, n) == {[gen |-> g, no |-> i] : i \in 1..n}

Tx ==
    [ pc       : {"idle", "superseding", "inserting"},
      run      : 0..MaxRuns,
      todo     : SUBSET Row,     \* rows the UPDATE has still to visit
      marked   : SUBSET Row,     \* rows it has superseded, uncommitted
      inserted : SUBSET Row ]    \* rows inserted, uncommitted

Idle(run) ==
    [pc |-> "idle", run |-> run, todo |-> {}, marked |-> {}, inserted |-> {}]

GenerationOf(w) == [writer |-> w, run |-> tx[w].run]

\* Rows, generations and open transactions keep their types.
StoreTypeOK ==
    /\ active \subseteq Row
    /\ size \in [Generations -> 0..MaxChunks]
    /\ retired \subseteq Generations
    /\ tx \in [Writers -> Tx]

StoreInit ==
    /\ \E n \in 0..MaxChunks :
        /\ active = Chunks(Earlier, n)
        /\ size = [g \in Generations |-> IF g = Earlier THEN n ELSE 0]
    /\ retired = {}
    /\ tx = [w \in Writers |-> Idle(0)]

-----------------------------------------------------------------------------
\* The transaction starts and its UPDATE takes its snapshot.
StartUpdate(w) ==
    /\ tx[w].pc = "idle"
    /\ tx[w].run < MaxRuns
    /\ \E n \in 1..MaxChunks :
        size' = [size EXCEPT ![[writer |-> w, run |-> tx[w].run + 1]] = n]
    /\ tx' = [tx EXCEPT ![w] = [Idle(@.run + 1) EXCEPT !.pc = "superseding",
                                                       !.todo = active]]
    /\ UNCHANGED <<active, retired>>

LockedByOther(w, r) == \E v \in Writers \ {w} : r \in tx[v].marked

\* The UPDATE reaches a row nobody else holds; a row that meanwhile is
\* superseded for good no longer matches its WHERE clause.
SupersedeRow(w, r) ==
    /\ tx[w].pc = "superseding"
    /\ r \in tx[w].todo
    /\ ~ LockedByOther(w, r)
    /\ tx' = [tx EXCEPT ![w].todo = @ \ {r},
                        ![w].marked = IF r \in active THEN @ \cup {r} ELSE @]
    /\ UNCHANGED <<active, size, retired>>

EndUpdate(w) ==
    /\ tx[w].pc = "superseding"
    /\ tx[w].todo = {}
    /\ tx' = [tx EXCEPT ![w].pc = "inserting"]
    /\ UNCHANGED <<active, size, retired>>

\* Mutant: the index is not there.
Taken_NoIndex(w, n) == {}

\* Committed rows the unique index holds against an INSERT of chunk n.
Taken(w, n) == {r \in active : r.no = n} \ tx[w].marked

\* Another open transaction has inserted chunk n, or superseded a row with it.
Undecided(w, n) ==
    \/ \E v \in Writers \ {w} : \E r \in tx[v].inserted : r.no = n
    \/ \E r \in Taken(w, n) : LockedByOther(w, r)

NextNo(w) == Cardinality(tx[w].inserted) + 1

AllInserted(w) == NextNo(w) > size[GenerationOf(w)]

InsertChunk(w) ==
    LET n == NextNo(w) IN
    /\ tx[w].pc = "inserting"
    /\ ~ AllInserted(w)
    /\ ~ Undecided(w, n)
    /\ Taken(w, n) = {}
    /\ tx' = [tx EXCEPT ![w].inserted = @ \cup {[gen |-> GenerationOf(w), no |-> n]}]
    /\ UNCHANGED <<active, size, retired>>

\* UniqueViolation: a PostgresError, so a retryable IngestionError.
InsertRefused(w) ==
    LET n == NextNo(w) IN
    /\ tx[w].pc = "inserting"
    /\ ~ AllInserted(w)
    /\ ~ Undecided(w, n)
    /\ Taken(w, n) # {}
    /\ tx' = [tx EXCEPT ![w] = Idle(@.run)]
    /\ UNCHANGED <<active, size, retired>>

CommittedRows(w) == (active \ tx[w].marked) \cup tx[w].inserted

Commit(w) ==
    /\ tx[w].pc = "inserting"
    /\ AllInserted(w)
    /\ active' = CommittedRows(w)
    /\ retired' = retired \cup {r.gen : r \in active}
    /\ tx' = [tx EXCEPT ![w] = Idle(@.run)]
    /\ UNCHANGED size

\* The connection breaks, the process dies, or PostgreSQL picks the
\* transaction as the victim of a deadlock.
Rollback(w) ==
    /\ tx[w].pc # "idle"
    /\ tx' = [tx EXCEPT ![w] = Idle(@.run)]
    /\ UNCHANGED <<active, size, retired>>

StoreNext ==
    \E w \in Writers :
        \/ StartUpdate(w) \/ EndUpdate(w)
        \/ \E r \in tx[w].todo : SupersedeRow(w, r)
        \/ InsertChunk(w) \/ InsertRefused(w) \/ Commit(w) \/ Rollback(w)

StoreSpec == StoreInit /\ [][StoreNext]_storeVars

-----------------------------------------------------------------------------
\* The generation retrieval finds for the version. A mixture of two, or a part
\* of one, is no generation, and no state the abstract specification knows.
Mixture == [writer |-> None, run |-> 1]

ASSUME GenerationAssumption == None \notin Generations \cup {Mixture}

Whole(g) == active = Chunks(g, size[g])

CurrentGeneration ==
    IF active = {} THEN None
    ELSE IF \E g \in Generations : Whole(g) THEN CHOOSE g \in Generations : Whole(g)
    ELSE Mixture

Replacing == INSTANCE ChunkReplace WITH current <- CurrentGeneration

\* A commit replaces all chunks of one generation by all chunks of a new one,
\* whatever ran beside it, and no generation that was replaced comes back.
ReplacesAtomically == Replacing!Spec

=============================================================================
