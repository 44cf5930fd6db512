------------------------------ MODULE Relevance ------------------------------
(***************************************************************************)
(* How retrieval ranks the chunks that the two candidate queries found, and *)
(* which of them remain as the grounding set.                               *)
(*                                                                         *)
(* A text is a sequence of words; a word has                                *)
(*   term      what matching makes of it, Stop for a stop word              *)
(*   prefixes  the terms that it begins with, its own among them            *)
(*   longer    the terms that begin with it                                 *)
(*   inner     the terms that occur elsewhere in it                         *)
(*   len, ends its length, and whether it ends a sentence                   *)
(* A chunk has its text, its titles and the facts that scores are made of;  *)
(* content and searchText are not told apart.  Scores are kept in units of  *)
(* 1/One and rounded down, where the code keeps six digits.                 *)
(***************************************************************************)
EXTENDS Integers, FiniteSets, SequencesExt

CONSTANTS
    Stop,             \* the term of a stop word
    RerankLimit,      \* CHAT_RETRIEVAL_RERANK_LIMIT
    GroundingLimit    \* OPENAI_GROUNDED_CHAT_MAX_CHUNKS

ASSUME RelevanceAssumption ==
    {RerankLimit, GroundingLimit} \subseteq Nat \ {0}

One == 120000
Larger(m, n) == IF m >= n THEN m ELSE n
Share(part, whole) == (One * part) \div whole
Weighted(percent, score) == (percent * score) \div 100

\* extractMatchingTerms
TermsOf(text) == {w.term : w \in ToSet(text)} \ {Stop}

TokenCoverage(text, tokens) ==
    IF tokens = {} THEN 0
    ELSE Share(Cardinality(tokens \cap TermsOf(text)), Cardinality(tokens))

\* The terms of a phrase follow each other in the text.
Occurs(phrase, text) ==
    \E i \in 0..(Len(text) - Len(phrase)) :
        \A j \in 1..Len(phrase) : text[i + j].term = phrase[j]

PhraseCoverage(text, phrases) ==
    IF phrases = {} THEN 0
    ELSE Share(Cardinality({p \in phrases : Occurs(p, text)}), Cardinality(phrases))

\* Of a question in a text: its tokens or its phrases.
Coverage(text, question) ==
    Larger(TokenCoverage(text, question.tokens), PhraseCoverage(text, question.phrases))

\* computeJaccard(left, right) >= percent / 100
Overlap(left, right, percent) ==
    LET a == TermsOf(left)
        b == TermsOf(right)
    IN  /\ a # {} /\ b # {}
        /\ 100 * Cardinality(a \cap b) >= percent * Cardinality(a \cup b)

Adjacent(c, e) == c.version = e.version /\ c.no <= e.no + 1 /\ e.no <= c.no + 1

-----------------------------------------------------------------------------
(* Candidates                                                              *)

\* buildLexicalTsQuery and to_tsquery: a phrase without its stop words, whose
\* terms begin words that follow each other, or a term outside the phrases that
\* begins a word.
FoundBy(question, chunk) ==
    LET words == chunk.text \o chunk.section \o chunk.title
        Kept(phrase) == SelectSeq(phrase, LAMBDA t : t # Stop)
        inPhrases == UNION {ToSet(Kept(p)) : p \in question.phrases}
    IN  \/ \E p \in question.phrases : \E i \in 0..(Len(words) - Len(Kept(p))) :
                /\ Kept(p) # <<>>
                /\ \A j \in 1..Len(Kept(p)) : Kept(p)[j] \in words[i + j].prefixes
        \/ \E t \in question.tokens \ inPhrases, w \in ToSet(words) : t \in w.prefixes

\* A row of the semantic query has a score, one of the lexical query a rank; a
\* rank that a row lacks is NoValue, a score 0.  The two queries may see
\* different dates of one chunk.
NoValue == -1

\* The distance in hundredths, 0 to 200.
SemanticRow(chunk, distance, age) ==
    [chunk |-> chunk, semantic |-> One - (One * distance) \div 200, rank |-> NoValue, age |-> age]

LexicalRow(chunk, rank, age) ==
    [chunk |-> chunk, semantic |-> 0, rank |-> rank, age |-> age]

\* mergeCandidate: the best of both, the newer date.
Merged(left, right) ==
    [left EXCEPT !.semantic = Larger(left.semantic, right.semantic),
                 !.rank = Larger(left.rank, right.rank),
                 !.age = IF right.age < left.age THEN right.age ELSE left.age]

RowsOfChunk(rows, chunk) == {r \in rows : r.chunk = chunk}

\* upsert: the semantic rows come first.
Union(semanticRows, lexicalRows) ==
    {r \in semanticRows : RowsOfChunk(lexicalRows, r.chunk) = {}}
    \cup {r \in lexicalRows : RowsOfChunk(semanticRows, r.chunk) = {}}
    \cup {Merged(pair[1], pair[2]) : pair \in
            {p \in semanticRows \X lexicalRows : p[1].chunk = p[2].chunk}}

\* normalizeLexicalRank: rank / (rank + 1), of a rank in hundredths.
FtsScore(rank) == IF rank <= 0 THEN 0 ELSE Share(rank, rank + 100)

LexicalScore(row, question) ==
    Weighted(55, FtsScore(row.rank))
        + Weighted(25, TokenCoverage(row.chunk.text, question.tokens))
        + Weighted(20, PhraseCoverage(row.chunk.text, question.phrases))

\* computeMetadataScore: the mean of one point per filter, which every row has
\* passed, and the coverage of the tags.
MetadataScore(row, question) ==
    LET tagged == row.chunk.tags # <<>> /\ (question.tokens # {} \/ question.phrases # {})
        points == One * question.filters
                    + IF tagged THEN Coverage(row.chunk.tags, question) ELSE 0
        signals == question.filters + IF tagged THEN 1 ELSE 0
    IN  IF signals = 0 THEN 0 ELSE points \div signals

RecencyScore(row, question) ==
    IF question.fresh THEN Share(180, 180 + row.age) ELSE 0

StructuralScore(row, question) ==
    Weighted(55, Coverage(row.chunk.section, question))
        + Weighted(30, Coverage(row.chunk.title, question))
        + IF question.asks /\ row.chunk.faq THEN Weighted(15, One) ELSE 0

\* scoreCandidate, with HYBRID_SCORE_WEIGHTS .4, .4, .1, .03 and .07
Scored(row, question) ==
    LET lexical == LexicalScore(row, question)
        metadata == MetadataScore(row, question)
        structural == StructuralScore(row, question)
    IN  [ chunk      |-> row.chunk,
          semantic   |-> row.semantic,
          lexical    |-> lexical,
          metadata   |-> metadata,
          structural |-> structural,
          phrase     |-> PhraseCoverage(row.chunk.text, question.phrases),
          age        |-> row.age,
          hybrid     |-> Weighted(40, row.semantic) + Weighted(40, lexical)
                            + Weighted(10, metadata)
                            + Weighted(3, RecencyScore(row, question))
                            + Weighted(7, structural) ]

SortKey(c) ==
    <<c.hybrid, c.semantic, c.lexical, c.metadata, c.structural, - c.age, - c.chunk.id>>

\* Of two sequences, the one that is larger where they first differ.
Precedes(left, right) ==
    \E i \in 1..Len(left) :
        left[i] > right[i] /\ \A j \in 1..(i - 1) : left[j] = right[j]

\* compareCandidates
Better(c, e) == Precedes(SortKey(c), SortKey(e))

\* A set in the order of a total order.
InOrder(S, Before(_, _)) ==
    [ i \in 1..Cardinality(S) |->
        CHOOSE c \in S : Cardinality({e \in S : Before(e, c)}) = i - 1 ]

FirstOf(seq, n) == SubSeq(seq, 1, IF Len(seq) < n THEN Len(seq) ELSE n)

\* mergeAndScore
Ranked(semanticRows, lexicalRows, question) ==
    LET candidates == {Scored(r, question) : r \in Union(semanticRows, lexicalRows)}
    IN  FirstOf(InOrder(candidates, Better), RerankLimit)

-----------------------------------------------------------------------------
(* The grounding set                                                       *)

\* dedupReason(left, right): right is left out for left.  A new phrase or a
\* better matching title saves a neighbour; that the section must have changed
\* for it is asked and then not needed.
Repeats(left, right) ==
    \/ left.chunk.id = right.chunk.id
    \/ left.chunk.checksum = right.chunk.checksum
    \/ /\ Adjacent(left.chunk, right.chunk)
       /\ Overlap(left.chunk.text, right.chunk.text, 88)
       /\ right.phrase <= left.phrase
       /\ right.structural <= left.structural + Weighted(10, One)

\* Mutant: only the candidate before it is looked at.
SuppressDuplicates_OfPrevious(ranked) ==
    FoldLeft(LAMBDA kept, c :
                IF kept # <<>> /\ Repeats(kept[Len(kept)], c) THEN kept ELSE Append(kept, c),
             <<>>, ranked)

SuppressDuplicates(ranked) ==
    FoldLeft(LAMBDA kept, c :
                IF \E e \in ToSet(kept) : Repeats(e, c) THEN kept ELSE Append(kept, c),
             <<>>, ranked)

Grounding(ranked) == FirstOf(SuppressDuplicates(ranked), GroundingLimit)

=============================================================================
