------------------------------ MODULE Evidence ------------------------------
(***************************************************************************)
(* From the question to the final answer, for the two callers of retrieval: *)
(* ChatService.ask and the execution of an evaluation case.  Both search,   *)
(* refuse below a threshold, let a model answer and assemble citations; only *)
(* chat has the local substitute, the lower threshold and a filter.         *)
(*                                                                         *)
(* ChatAsk has the interleaving of requests and leaves scores and texts     *)
(* open; here one request runs and the scores and texts decide.  Distances, *)
(* lexical ranks and ages come from the database, the answer from the model. *)
(***************************************************************************)
EXTENDS EvalGrading

CONSTANTS
    Corpora,       \* the sets of indexed chunks, after filters
    Questions,     \* records of tokens, phrases, fresh, asks, filters and blank
    Distances,     \* bound: cosine distances in hundredths
    Ranks,         \* bound: ts_rank_cd in hundredths
    Answers,       \* bound: the sets of terms of the answers of a model
    UnknownId,     \* a chunk id that a model makes up
    EvalCases      \* the cases that an execution is graded for

\* Words of some length.
IsText(text) ==
    /\ text \in Seq(ToSet(text))
    /\ \A word \in ToSet(text) :
        word.len \in Nat /\ (word.term # Stop => word.term \in word.prefixes)

IsChunk(c) ==
    /\ c.id \in Nat \ {NoId} /\ c.no \in Nat /\ c.age \in Nat
    /\ IsText(c.text) /\ c.text # <<>> /\ IsText(c.section) /\ IsText(c.title) /\ IsText(c.tags)

\* A chunk has an id, and its place in its version, to itself.
ASSUME EvidenceAssumption ==
    /\ \A rows \in Corpora :
        /\ IsFiniteSet(rows)
        /\ \A c \in rows : IsChunk(c)
        /\ \A c, e \in rows :
            c.id = e.id \/ (c.version = e.version /\ c.no = e.no) => c = e
    /\ \A asked \in Questions :
        /\ IsFiniteSet(asked.tokens) /\ IsFiniteSet(asked.phrases) /\ asked.filters \in Nat
        /\ \A phrase \in asked.phrases : Len(phrase) \in Nat \ {0}
    /\ \A terms \in Answers : IsFiniteSet(terms)
    /\ \A case \in EvalCases : case.minDocuments \in Nat
    /\ Distances \subseteq 0..200 /\ Ranks \subseteq Nat

Callers == {"chat", "eval"}
Statuses == {"grounded", "insufficient_data", "out_of_scope"}

VARIABLES
    pc,          \* the step that is next
    caller,
    question,
    corpus,
    semantic,    \* the rows of the semantic query
    lexical,     \* the rows of the lexical query
    ranked,      \* rankedCandidates
    selected,    \* selectedChunks
    local,       \* the answer is that of the local substitute
    used,        \* usedChunkIds
    answer,      \* the terms of the answer
    status,
    citations,
    rejected     \* citationDebug.rejectedChunkIds

searchVars == <<caller, question, corpus, semantic, lexical, ranked, selected>>
replyVars == <<local, used, answer, status, citations, rejected>>
evidenceVars == <<pc, searchVars, replyVars>>

EvidenceInit ==
    /\ pc = "embedding"
    /\ caller \in Callers
    /\ question \in Questions
    /\ corpus \in Corpora
    /\ semantic = {} /\ lexical = {}
    /\ ranked = <<>> /\ selected = <<>>
    /\ local = FALSE
    /\ used = {} /\ answer = {}
    /\ status = "undecided"
    /\ citations = <<>> /\ rejected = {}

Goto(place) == pc' = place

-----------------------------------------------------------------------------
(* RetrievalService.retrieve                                               *)

\* emptyResult
SkipEmpty ==
    /\ pc = "embedding"
    /\ question.blank
    /\ Goto("retrieved")
    /\ UNCHANGED <<searchVars, replyVars>>

\* No rows when the embedding failed or is disabled.  Chunks without an
\* embedding of the configured model are left out.
FetchSemantic ==
    /\ pc = "embedding"
    /\ ~ question.blank
    /\ \/ UNCHANGED semantic
       \/ \E distance \in [{c \in corpus : c.embedded} -> Distances] :
            semantic' = {SemanticRow(c, distance[c], c.age) : c \in DOMAIN distance}
    /\ Goto("fetching")
    /\ UNCHANGED <<caller, question, corpus, lexical, ranked, selected, replyVars>>

\* A document may have been marked INDEXED again since the semantic query.
FetchLexical ==
    /\ pc = "fetching"
    /\ \E rank \in [{c \in corpus : FoundBy(question, c)} -> Ranks], renewed \in BOOLEAN :
            lexical' = {LexicalRow(c, rank[c], IF renewed THEN 0 ELSE c.age) : c \in DOMAIN rank}
    /\ Goto("fetched")
    /\ UNCHANGED <<caller, question, corpus, semantic, ranked, selected, replyVars>>

Rank ==
    /\ pc = "fetched"
    /\ ranked' = Ranked(semantic, lexical, question)
    /\ selected' = Grounding(ranked')
    /\ Goto("retrieved")
    /\ UNCHANGED <<caller, question, corpus, semantic, lexical, replyVars>>

-----------------------------------------------------------------------------
(* The caller                                                              *)

TopScore == IF selected = <<>> THEN 0 ELSE selected[1].hybrid

\* resolveLowEvidenceThreshold; an evaluation always asks for the upper one.
Threshold ==
    IF caller = "chat" /\ semantic = {} /\ lexical # {}
    THEN Weighted(2, One) ELSE Weighted(10, One)

TooWeak == selected = <<>> \/ TopScore < Threshold

\* An answer without the model; an evaluation reports no sources with it.
Refuse(verdict) ==
    /\ status' = verdict
    /\ Goto("done")
    /\ UNCHANGED <<searchVars, local, used, answer, citations, rejected>>

RefuseUnindexed ==
    /\ pc = "retrieved"
    /\ corpus = {}
    /\ Refuse("insufficient_data")

RefuseWeak ==
    /\ pc = "retrieved"
    /\ corpus # {}
    /\ TooWeak
    /\ Refuse("out_of_scope")

\* finalizeAnswer
Finalized(given, cited) ==
    IF given = "grounded" /\ cited = <<>> THEN "insufficient_data" ELSE given

\* assemble and finalizeAnswer, for an answer that claims to be grounded.  The
\* text of a refusal has no terms here.
Finish(ids, terms, assembled) ==
    /\ used' = ids
    /\ answer' = IF assembled.citations = <<>> THEN {} ELSE terms
    /\ citations' = assembled.citations
    /\ rejected' = assembled.rejected
    /\ status' = Finalized("grounded", assembled.citations)
    /\ Goto("done")
    /\ UNCHANGED searchVars

Cite(ids, terms) == Finish(ids, terms, Assemble(ids, selected, terms, question))

Enough ==
    /\ pc = "retrieved"
    /\ corpus # {}
    /\ ~ TooWeak

\* The ids are cut to the citation limit.
ModelAnswers ==
    /\ Enough
    /\ \E ids \in SUBSET ({c.id : c \in corpus} \cup {UnknownId}), terms \in Answers :
            /\ Cardinality(ids) <= CitationLimit
            /\ Cite(ids, terms)
    /\ UNCHANGED local

ModelRefuses ==
    /\ Enough
    /\ \E verdict \in Statuses \ {"grounded"}, terms \in Answers :
            /\ status' = verdict
            /\ answer' = terms
    /\ Goto("done")
    /\ UNCHANGED <<searchVars, local, used, citations, rejected>>

\* Without a model only chat can answer; an evaluation raises.
LocalAnswers ==
    /\ Enough
    /\ caller = "chat"
    /\ \E given \in {LocalAnswer(selected, question)} : Cite(given.used, given.answer)
    /\ local' = TRUE

EvidenceNext ==
    \/ SkipEmpty \/ FetchSemantic \/ FetchLexical \/ Rank
    \/ RefuseUnindexed \/ RefuseWeak
    \/ ModelAnswers \/ ModelRefuses \/ LocalAnswers

EvidenceSpec == EvidenceInit /\ [][EvidenceNext]_evidenceVars

-----------------------------------------------------------------------------
Done == pc = "done"
FoundChunks == {r.chunk : r \in semantic \cup lexical}

\* ChatCorpus without scores and texts: a version is a document of one
\* generation there, a checksum a text.
AsChunk(c) == [doc |-> c.version, generation |-> 1, no |-> c.no, text |-> c.checksum]
AsChunks(S) == {AsChunk(c) : c \in S}

Corpus == INSTANCE ChatCorpus WITH
    Documents <- {c.version : c \in UNION Corpora},
    Texts <- {c.checksum : c \in UNION Corpora},
    Passages <- 9, MaxGenerations <- 1, CandidateLimit <- 9,
    open <- TRUE,
    indexed <- {c.version : c \in corpus},
    generation <- [d \in {c.version : c \in UNION Corpora} |-> 1],
    chunks <- AsChunks(corpus)

\* The grounding set is one that ChatCorpus allows for what was found, and of
\* those the one of the best: what is left out is worse than all of it, or
\* repeats something better in it.  Being found by both queries never makes a
\* chunk worse.
IsBest(inSet, scored) ==
    /\ \A c \in scored \ inSet :
        \/ \E e \in inSet : Better(e, c) /\ Repeats(e, c)
        \/ /\ Cardinality(inSet) = GroundingLimit \/ Len(ranked) = RerankLimit
           /\ \A e \in inSet : Better(e, c)
    /\ \A c \in scored, r \in semantic \cup lexical :
        r.chunk = c.chunk => c.hybrid >= Scored(r, question).hybrid

GroundingIsBest ==
    /\ pc \in {"retrieved", "done"} /\ ~ question.blank =>
        /\ AsChunks({c.chunk : c \in ToSet(selected)}) \in
                Corpus!Selections(AsChunks(FoundChunks))
        /\ IsBest(ToSet(selected), {Scored(r, question) : r \in Union(semantic, lexical)})

\* Every id that an answer names is cited or rejected, once; a rejection names
\* a citation that stands and makes it redundant, or the limit when there was
\* none; no two citations repeat each other.  The citations are some that
\* ChatCorpus allows, and an answer is grounded exactly when it has any.
ReasonHolds(r, cited) ==
    CASE r.why = "redundant_with" ->
            \E c \in ToSet(selected), e \in cited :
                c.chunk.id = r.id /\ e.id = r.of /\ Redundant(e, c.chunk)
      [] r.why = "citation_limit_exceeded" ->
            /\ Cardinality(cited) = CitationLimit
            /\ \A c \in ToSet(selected), e \in cited :
                c.chunk.id = r.id => ~ Redundant(e, c.chunk)
      [] r.why = "not_in_grounding_set" -> \A c \in ToSet(selected) : c.chunk.id # r.id
      [] OTHER -> \E c \in ToSet(selected) : c.chunk.id = r.id

CitationsAccounted ==
    Done =>
        LET cited == {c.chunk : c \in ToSet(citations)}
            inSet == {c.chunk : c \in ToSet(selected)}
        IN  /\ {e.id : e \in cited} \cup {r.id : r \in rejected} = used
            /\ Len(citations) + Cardinality(rejected) = Cardinality(used)
            /\ AsChunks(cited) \in
                    Corpus!CitationsFrom(AsChunks({e \in inSet : e.id \in used}), AsChunks(inSet))
            /\ \A d, e \in cited : d # e => ~ Redundant(d, e)
            /\ \A r \in rejected : ReasonHolds(r, cited)
            /\ status = "grounded" <=> citations # <<>>

\* The local substitute answers from excerpts alone, and its answer is never
\* withdrawn for the lack of citations, however weak the evidence was.
LocalAnswerIsCited == Done /\ local => status = "grounded"

\* The corpora on which it is proved: three chunks are quoted at most, as in the
\* code, and no excerpt has stop words alone.
ShortAndWorded ==
    /\ LocalLimit <= 3
    /\ \A rows \in Corpora, asked \in Questions :
            \A c \in rows : LocalTerms(c.text, asked) # {}

\* The excerpt of a citation has a term of the answer or of the question, or
\* the place of a phrase, whenever its chunk has such a term, and is not longer
\* than the limit and the words that the limit cuts.
SnippetShowsTheMatch ==
    \A i \in DOMAIN citations :
        LET text == citations[i].chunk.text
            terms == answer \cup question.tokens
            snippet == citations[i].snippet
        IN  /\ TermsOf(text) \cap terms # {} =>
                    \/ Anchors(text, snippet, terms) # {}
                    \/ \E k \in snippet[1]..snippet[2] :
                            k \in PhrasesAt(text, <<1, Len(text)>>, question.phrases)
            /\ LengthOf(text, snippet) <=
                    SnippetLimit + text[snippet[1]].len + text[snippet[2]].len

\* What the grader is given; a refusal before the model has no sources.
Execution ==
    [ status      |-> status,
      answer      |-> answer,
      refusalLike |-> answer = {},
      citations   |-> citations,
      sources     |-> IF TooWeak THEN <<>> ELSE [i \in DOMAIN selected |-> selected[i].chunk],
      top         |-> TopScore ]

\* A case passes only with what its category asks for: a grounded answer with
\* citations, from the expected document and enough others, or a clean refusal
\* in an expected mode.  What the pipeline returns as grounded never loses a
\* point for its citations.
GradeIsEarned ==
    Done /\ caller = "eval" =>
        \A case \in EvalCases :
            LET card == CardOf(case, Execution) IN
            /\ Passed(card) =>
                IF case.outcome = "refusal" THEN status \in case.statuses /\ citations = <<>>
                ELSE /\ status = "grounded" /\ citations # <<>>
                     /\ case.doc # NoDocument =>
                            case.doc \in {c.chunk.doc : c \in ToSet(selected)}
                     /\ case.mustCite /\ case.doc # NoDocument =>
                            case.doc \in {c.chunk.doc : c \in ToSet(citations)}
                     /\ Cardinality({c.chunk.doc : c \in ToSet(citations)}) >= case.minDocuments
            /\ status = "grounded" /\ case.outcome = "grounded_answer" => card.cite = 2

=============================================================================
