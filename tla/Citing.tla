------------------------------- MODULE Citing -------------------------------
(***************************************************************************)
(* What is made of the grounding set: the excerpt of a chunk, the extractive *)
(* answer of the local substitute, and the citations of an answer.          *)
(*                                                                         *)
(* An answer is the set of its terms.  Positions count characters from 0,   *)
(* with one blank between words; an excerpt is a range of words.            *)
(***************************************************************************)
EXTENDS Relevance

CONSTANTS
    SnippetLimit,     \* MAX_CITATION_SNIPPET_LENGTH
    CitationLimit,    \* CHAT_CITATION_LIMIT
    LocalLimit        \* MAX_LOCAL_GROUNDED_CHUNKS

ASSUME CitingAssumption ==
    {SnippetLimit, CitationLimit, LocalLimit} \subseteq Nat \ {0}

MinSupport == Weighted(10, One)           \* MIN_CITATION_SUPPORT_SCORE
MinFollowOnScore == Weighted(8, One)      \* MIN_FOLLOW_ON_CHUNK_SCORE

-----------------------------------------------------------------------------
(* Excerpts                                                                *)

StartOf(text, i) == FoldLeft(LAMBDA n, w : n + w.len + 1, 0, SubSeq(text, 1, i - 1))
EndOf(text, i) == StartOf(text, i) + text[i].len

\* The word at a position, or the one that ends there.
WordAt(text, position) ==
    CHOOSE i \in 1..Len(text) : position \in StartOf(text, i)..EndOf(text, i)

LengthOf(text, window) == EndOf(text, window[2]) - StartOf(text, window[1])
Within(text, window) == SubSeq(text, window[1], window[2])

\* buildCandidateWindows: the sentences, and two in a row unless they are long.
Sentences(text) ==
    LET Ends(i) == text[i].ends \/ i = Len(text) IN
    { window \in (1..Len(text)) \X (1..Len(text)) :
        /\ window[1] <= window[2]
        /\ window[1] = 1 \/ Ends(window[1] - 1)
        /\ Ends(window[2])
        /\ \A i \in window[1]..(window[2] - 1) : ~ Ends(i) }

Windows(text) ==
    Sentences(text) \cup
    { window \in { <<s[1], t[2]>> : s, t \in Sentences(text) } :
        /\ <<window[1], window[2]>> \notin Sentences(text)
        /\ \E s, t \in Sentences(text) :
                s[1] = window[1] /\ t[2] = window[2] /\ t[1] = s[2] + 1
        /\ 2 * LengthOf(text, window) <= 3 * SnippetLimit }

\* The shares of the answer, the tokens and the phrases, weighted .5, .3 and .2,
\* over one denominator for all windows of a text: this score is not rounded.
WindowScore(text, window, answer, question) ==
    LET words == Within(text, window)
        Size(S) == Larger(1, Cardinality(S))
        a == Cardinality(answer \cap TermsOf(words))
        t == Cardinality(question.tokens \cap TermsOf(words))
        p == Cardinality({phrase \in question.phrases : Occurs(phrase, words)})
    IN  5 * a * Size(question.tokens) * Size(question.phrases)
            + 3 * t * Size(answer) * Size(question.phrases)
            + 2 * p * Size(answer) * Size(question.tokens)

\* The best score, then the earlier start, then the shorter one.
BestOf(key) ==
    CHOOSE w \in DOMAIN key : \A v \in DOMAIN key \ {w} : Precedes(key[w], key[v])

BestWindow(text, answer, question) ==
    BestOf([ w \in Windows(text) |->
                << WindowScore(text, w, answer, question),
                   - StartOf(text, w[1]), - LengthOf(text, w) >> ])

\* findBestAnchorIndex: the first place of any term, in another word too, or of
\* a phrase, which may begin with a stop word.
Anchors(text, window, terms) ==
    {i \in window[1]..window[2] :
        (text[i].prefixes \cup text[i].inner) \cap terms # {}}

PhrasesAt(text, window, phrases) ==
    {i \in window[1]..window[2] :
        \E p \in phrases : /\ i + Len(p) - 1 <= window[2]
                          /\ \A j \in 1..Len(p) : text[i + j - 1].term = p[j]}

FirstAnchor(window, anchors) ==
    IF anchors = {} THEN window[1] ELSE CHOOSE i \in anchors : \A j \in anchors : i <= j

FirstPlace(text, window, terms, phrases) ==
    FirstAnchor(window, Anchors(text, window, terms) \cup PhrasesAt(text, window, phrases))

\* Mutant: the place in the window is taken for one in the text.
AnchorStart_InWindow(text, window, terms, phrases) ==
    StartOf(text, FirstPlace(text, window, terms, phrases)) - StartOf(text, window[1])

AnchorStart(text, window, terms, phrases) ==
    StartOf(text, FirstPlace(text, window, terms, phrases))

\* trimExcerpt: whole words, from the one at the start to the one at the end.
TrimExcerpt(text, start, end) ==
    << WordAt(text, start), WordAt(text, IF end < EndOf(text, Len(text)) THEN end
                                         ELSE EndOf(text, Len(text))) >>

\* A window that is too long is cut around a position.
CutWindow(text, window, from) ==
    TrimExcerpt(text, from, IF from + SnippetLimit < EndOf(text, window[2])
                            THEN from + SnippetLimit ELSE EndOf(text, window[2]))

Excerpt(text, window, score, terms, phrases) ==
    IF score = 0 THEN TrimExcerpt(text, 0, SnippetLimit)
    ELSE IF LengthOf(text, window) <= SnippetLimit THEN window
    ELSE CutWindow(text, window,
                   Larger(StartOf(text, window[1]),
                          AnchorStart(text, window, terms, phrases) - SnippetLimit \div 3))

\* buildSnippet
SnippetOf(text, window, answer, question) ==
    Excerpt(text, window, WindowScore(text, window, answer, question),
            answer \cup question.tokens, question.phrases)

Snippet(text, answer, question) ==
    SnippetOf(text, BestWindow(text, answer, question), answer, question)

-----------------------------------------------------------------------------
(* The local answer                                                        *)

\* termsMatch: equal, or one begins with the other.
Matched(text, tokens) ==
    {t \in tokens : \E w \in ToSet(text) : t \in w.prefixes \cup w.longer}

\* Mutant: a share of the top score is enough for another chunk.
StrongEnough_ShareOnly(c, top) == 4 * c.hybrid >= 3 * top

StrongEnough(c, top) == 4 * c.hybrid >= 3 * top /\ c.hybrid >= MinFollowOnScore

\* selectChunks: the first one, and those that are strong and add a term.
SelectChunks(selected, tokens) ==
    FoldLeft(LAMBDA chosen, c :
                LET covered == UNION {Matched(e.chunk.text, tokens) : e \in ToSet(chosen)} IN
                IF \/ chosen = <<>>
                   \/ /\ Len(chosen) < LocalLimit
                      /\ StrongEnough(c, selected[1].hybrid)
                      /\ Matched(c.chunk.text, tokens) \ covered # {}
                THEN Append(chosen, c) ELSE chosen,
             <<>>, selected)

\* createGroundedAnswer: the ids and the terms of the joined excerpts.
LocalTerms(text, question) == TermsOf(Within(text, Snippet(text, question.tokens, question)))

LocalAnswerFrom(chosen, question) ==
    [ used   |-> {c.chunk.id : c \in chosen},
      answer |-> UNION {LocalTerms(c.chunk.text, question) : c \in chosen} ]

LocalAnswer(selected, question) ==
    LocalAnswerFrom(ToSet(SelectChunks(selected, question.tokens)), question)

-----------------------------------------------------------------------------
(* Citations                                                               *)

\* prepareCandidate
PreparedAs(c, rank, answerCoverage, queryCoverage, snippet) ==
    [ chunk   |-> c.chunk,
      hybrid  |-> c.hybrid,
      answer  |-> answerCoverage,
      query   |-> queryCoverage,
      rank    |-> rank,
      support |-> (75 * c.hybrid + 15 * answerCoverage + 10 * queryCoverage) \div 100,
      snippet |-> snippet ]

Prepared(c, rank, answer, question) ==
    PreparedAs(c, rank, TokenCoverage(c.chunk.text, answer), Coverage(c.chunk.text, question),
               Snippet(c.chunk.text, answer, question))

\* comparePreparedCandidates; ranks are unique, so the page is never asked for.
Supported(c, e) ==
    Precedes(<<c.support, c.hybrid, c.answer, c.query, - c.rank>>,
             <<e.support, e.hybrid, e.answer, e.query, - e.rank>>)

\* findRedundantReason, of two chunks; page 0 is none.
Redundant(e, d) ==
    /\ e.doc = d.doc
    /\ \/ Adjacent(e, d) /\ Overlap(e.text, d.text, 90)
       \/ /\ e.section = d.section
          /\ (e.page # 0 /\ e.page = d.page) \/ Adjacent(e, d)
          /\ Overlap(e.text, d.text, 82)

\* Mutant: only the citation before it is looked at.
RedundantWith_Last(citations, c) ==
    {i \in {Len(citations)} \ {0} : Redundant(citations[i].chunk, c.chunk)}

\* The places of the citations so far that make a candidate redundant.
RedundantWith(citations, c) ==
    {i \in DOMAIN citations : Redundant(citations[i].chunk, c.chunk)}

\* A rejected id, why, and the citation that it repeats, if any.
NoId == 0
Rejected(id, why, of) == [id |-> id, why |-> why, of |-> of]

\* A round over the sorted candidates, and what it makes of one.
Judged(result, c, repeated) ==
    IF repeated # {}
    THEN [result EXCEPT !.rejected =
            @ \cup {Rejected(c.chunk.id, "redundant_with",
                             result.citations[Min(repeated)].chunk.id)}]
    ELSE IF Len(result.citations) >= CitationLimit
    THEN [result EXCEPT !.rejected =
            @ \cup {Rejected(c.chunk.id, "citation_limit_exceeded", NoId)}]
    ELSE [result EXCEPT !.citations = Append(@, c)]

Consider(result, c) == Judged(result, c, RedundantWith(result.citations, c))

\* The candidates that are no citations from the start.
Refused(used, prepared) ==
    {Rejected(id, "not_in_grounding_set", NoId) : id \in used \ {c.chunk.id : c \in prepared}}
    \cup {Rejected(c.chunk.id, "support_too_weak", NoId) :
            c \in {c \in prepared : c.support < MinSupport}}

Cited(used, prepared) ==
    FoldLeft(Consider, [citations |-> <<>>, rejected |-> Refused(used, prepared)],
             InOrder({c \in prepared : c.support >= MinSupport}, Supported))

\* assemble.  A text without any character would be rejected for its snippet;
\* the chunker never writes one.
Assemble(used, selected, answer, question) ==
    Cited(used, {Prepared(selected[i], i, answer, question) :
                    i \in {i \in 1..Len(selected) : selected[i].chunk.id \in used}})

=============================================================================
