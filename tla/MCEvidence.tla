----------------------------- MODULE MCEvidence -----------------------------
(* Retrieval, citation and grading on a few hand-made texts.               *)
EXTENDS Evidence

Word(term) ==
    [term |-> term, prefixes |-> {term}, longer |-> {}, inner |-> {}, len |-> 3, ends |-> FALSE]

\* A longer word that begins with a term.
Long(term) == [Word(term \o "long") EXCEPT !.prefixes = @ \cup {term}, !.len = 7]

Plain(terms) == [i \in DOMAIN terms |-> Word(terms[i])]
Sentence(text) == [text EXCEPT ![Len(text)].ends = TRUE]

Chunk(id, doc, no, checksum, text) ==
    [ id |-> id, doc |-> doc, version |-> doc, no |-> no, page |-> 1, checksum |-> checksum,
      text |-> text, section |-> <<>>, title |-> <<>>, tags |-> <<>>, faq |-> FALSE,
      embedded |-> TRUE, age |-> 180 ]

Common == Plain(<<"m", "n", "o", "p", "q", "r", "s", "t">>)

\* One document under two names, and a neighbour that nearly repeats it.
Copies ==
    { Chunk(1, "d1", 1, "k1", Sentence(<<Word("a")>> \o Common)),
      [Chunk(2, "d1", 2, "k2", Sentence(Common)) EXCEPT !.section = Plain(<<"a", "b">>)],
      Chunk(3, "d2", 1, "k1", Sentence(<<Word("a")>> \o Common)),
      [Chunk(4, "d2", 2, "k3", Sentence(Plain(<<"b", "u">>))) EXCEPT
            !.tags = Plain(<<"a">>), !.faq = TRUE, !.embedded = FALSE] }

\* Three documents that each answer a part, with words that are not the terms.
Parts ==
    { Chunk(5, "d3", 1, "k5", Sentence(<<Long("a"), Word("u")>>)),
      Chunk(6, "d4", 1, "k6", Sentence(<<Long("b"), Word("v")>>)),
      Chunk(7, "d5", 1, "k7", Sentence(<<Long("c"), Word("w")>>)) }

\* Two chunks of a section that say the same but for a word, and a third one;
\* one has a short sentence before a long one with the match near its end.
Section ==
    { Chunk(8, "d6", 1, "k8",
            Sentence(Plain(<<"x", "y", "z", "x", "y">>)) \o Sentence(Common \o Plain(<<"a">>))),
      Chunk(9, "d6", 2, "k9",
            Sentence(Plain(<<"x", "y", "z">>)) \o Sentence(Common \o Plain(<<"c">>))),
      Chunk(10, "d6", 5, "k10", Sentence(Plain(<<"b", "u">>))) }

SmallCorpora == {{}, Copies, Parts, Section}

Ask(tokens, phrases) ==
    [ tokens |-> tokens, phrases |-> phrases, fresh |-> FALSE, asks |-> FALSE,
      filters |-> 0, blank |-> FALSE ]

SmallQuestions ==
    { [Ask({}, {}) EXCEPT !.blank = TRUE],
      Ask({}, {}),
      Ask({"a", "b", "c"}, {}),
      [Ask({"a", "b"}, {<<"a", "b">>}) EXCEPT !.fresh = TRUE, !.asks = TRUE, !.filters = 1] }

SmallAnswers == {{}, {"a", "m", "n"}, {"u"}}

Case(outcome) ==
    [ outcome |-> outcome, statuses |-> {}, minDocuments |-> 0, mustCite |-> FALSE,
      doc |-> NoDocument, hint |-> {}, answer |-> {} ]

SmallCases ==
    { Case("grounded_answer"),
      [Case("grounded_answer") EXCEPT !.minDocuments = 2, !.hint = {"a", "b"}],
      [Case("grounded_answer") EXCEPT !.mustCite = TRUE, !.doc = "d2", !.answer = {"a", "m"}],
      [Case("grounded_answer") EXCEPT !.mustCite = TRUE, !.hint = {"u"}],
      [Case("refusal") EXCEPT !.statuses = {"out_of_scope"}],
      [Case("refusal") EXCEPT !.statuses = {"out_of_scope", "insufficient_data"}] }

\* What LocalIsCited supposes is true of these corpora.
ASSUME Quotable == ShortAndWorded

=============================================================================
