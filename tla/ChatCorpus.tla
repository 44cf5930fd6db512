----------------------------- MODULE ChatCorpus -----------------------------
(***************************************************************************)
(* The chunks of one knowledge base as chat reads them, and the pure part   *)
(* of retrieval and citation: which selections and citations the scores and *)
(* texts may lead to.                                                       *)
(*                                                                         *)
(* Ingestion changes the chunks under the reader's feet.  It appears here   *)
(* as the steps that a query can see; Ingestion and ChunkStore have them in *)
(* detail.  Scores, texts and vectors are not modelled: any ranking of the  *)
(* candidates, and any verdict on the support of a citation, may happen.    *)
(***************************************************************************)
EXTENDS Naturals, FiniteSets

CONSTANTS
    Documents,
    Texts,            \* what a chunk may say, with its titles and pages
    Passages,         \* chunks of a generation
    MaxGenerations,   \* bound: generations of a document
    CandidateLimit,   \* CHAT_RETRIEVAL_CANDIDATE_LIMIT
    RerankLimit,      \* CHAT_RETRIEVAL_RERANK_LIMIT
    GroundingLimit,   \* OPENAI_GROUNDED_CHAT_MAX_CHUNKS
    CitationLimit     \* CHAT_CITATION_LIMIT

ASSUME CorpusAssumption ==
    /\ IsFiniteSet(Documents)
    /\ Passages \in Nat
    /\ MaxGenerations \in Nat \ {0}
    /\ {CandidateLimit, RerankLimit, GroundingLimit, CitationLimit} \subseteq Nat \ {0}

VARIABLES
    open,         \* the knowledge base is ACTIVE and the user a member
    indexed,      \* the documents with both statuses INDEXED
    generation,   \* the generation whose chunks have supersededAt IS NULL
    chunks        \* the rows, superseded ones included

corpusVars == <<open, indexed, generation, chunks>>

\* The checksum is that of the text: neither the document nor the generation
\* is in it.
Chunk ==
    [ doc        : Documents,
      generation : 1..MaxGenerations,
      no         : 1..Passages,
      text       : Texts ]

NewChunks(d, g, text) ==
    {[doc |-> d, generation |-> g, no |-> n, text |-> text[n]] : n \in 1..Passages}

\* Documents have been indexed once, or wait for their first job.
CorpusInit ==
    /\ open = TRUE
    /\ indexed \in SUBSET Documents
    /\ generation = [d \in Documents |-> IF d \in indexed THEN 1 ELSE 0]
    /\ \E texts \in [indexed -> [1..Passages -> Texts]] :
            chunks = UNION {NewChunks(d, 1, texts[d]) : d \in indexed}

CloseKb ==
    /\ open
    /\ open' = FALSE
    /\ UNCHANGED <<indexed, generation, chunks>>

Requeue(d) ==
    /\ d \in indexed
    /\ indexed' = indexed \ {d}
    /\ UNCHANGED <<open, generation, chunks>>

\* Texts change when the normalizer or the settings of the chunker have changed.
\* A second live job may replace the chunks of a document that is INDEXED.
Replace(d) ==
    /\ generation[d] < MaxGenerations
    /\ generation' = [generation EXCEPT ![d] = @ + 1]
    /\ \E text \in [1..Passages -> Texts] :
            chunks' = chunks \cup NewChunks(d, generation[d] + 1, text)
    /\ UNCHANGED <<open, indexed>>

\* By the job that replaced the chunks, or by another one that was still live.
MarkIndexed(d) ==
    /\ d \notin indexed
    /\ generation[d] > 0
    /\ indexed' = indexed \cup {d}
    /\ UNCHANGED <<open, generation, chunks>>

CorpusNext ==
    \/ CloseKb
    \/ \E d \in Documents : Requeue(d) \/ Replace(d) \/ MarkIndexed(d)

-----------------------------------------------------------------------------
\* supersededAt IS NULL, both statuses INDEXED
IndexedChunks ==
    {c \in chunks : c.doc \in indexed /\ c.generation = generation[c.doc]}

\* What a candidate query sees: it joins the knowledge base and the member.
Readable == IF open THEN IndexedChunks ELSE {}

\* ORDER BY a score LIMIT n
TopOf(S, n) ==
    {T \in SUBSET S : Cardinality(T) = IF Cardinality(S) < n THEN Cardinality(S) ELSE n}

\* Without an embedding of its own a generation has no semantic candidates.
SemanticCandidates == TopOf(Readable, CandidateLimit) \cup {{}}

\* Mutant: supersededAt is not looked at.
LexicalCandidates_Superseded ==
    UNION {TopOf(matching, CandidateLimit) :
                matching \in SUBSET {c \in chunks : open /\ c.doc \in indexed}}

\* Those that match the question.
LexicalCandidates ==
    UNION {TopOf(matching, CandidateLimit) : matching \in SUBSET Readable}

\* Mutant: duplicates are found by id only.
Identical_ById(c, e) == c = e

\* dedupReason: the same id, or the same checksum
Identical(c, e) == c = e \/ c.text = e.text

\* dedupReason: neighbours of one version, which may overlap enough
Neighbours(c, e) == c.doc = e.doc /\ c.no <= e.no + 1 /\ e.no <= c.no + 1

\* What may remain of a pool of candidates, going through it in the order of
\* the scores, without duplicates and up to the grounding limit.
SelectionsOf(pool) ==
    {S \in SUBSET pool :
        /\ Cardinality(S) <= GroundingLimit
        /\ \A c, e \in S : Identical(c, e) => c = e
        /\ \/ Cardinality(S) = GroundingLimit
           \/ \A c \in pool \ S : \E e \in S : Identical(c, e) \/ Neighbours(c, e)}

\* mergeAndScore, suppressDuplicates and slice
Selections(found) == UNION {SelectionsOf(pool) : pool \in TopOf(found, RerankLimit)}

\* Mutant: ids are not looked up in the grounding set.
CitationsFrom_Unchecked(used, selected) ==
    {C \in SUBSET used : Cardinality(C) <= CitationLimit}

\* assemble: ids outside the grounding set are rejected, as are chunks without
\* a snippet, with weak support, that repeat another, or above the limit.
CitationsFrom(used, selected) ==
    {C \in SUBSET (used \cap selected) : Cardinality(C) <= CitationLimit}

=============================================================================
