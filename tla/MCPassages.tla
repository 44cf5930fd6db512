----------------------------- MODULE MCPassages -----------------------------
(***************************************************************************)
(* Files for the parsers and the chunker: every sequence of a few lines of  *)
(* every shape, longer ones of the shapes that make sections, and paged     *)
(* files whose lines may repeat.                                            *)
(***************************************************************************)
EXTENDS Passages

Word(tok) == [tok |-> tok, ends |-> FALSE]
Stop(tok) == [tok |-> tok, ends |-> TRUE]

Plain(kind, words) ==
    [kind |-> kind, level |-> 0, label |-> "", words |-> words, key |-> NoKey, noise |-> FALSE]

BlankLine == Plain("blank", <<>>)
Heading(n) == [Plain("heading", <<Word(4)>>) EXCEPT !.level = n]
Rule == [Heading(1) EXCEPT !.noise = TRUE, !.words = <<Word(2)>>]
\* Too long to pass for a heading.
Dots == [Plain("text", <<Stop(2)>>) EXCEPT !.noise = TRUE]
Short == Plain("text", <<Stop(7)>>)
Medium == Plain("text", <<Word(10), Stop(10)>>)
Sentences == Plain("text", <<Word(18), Stop(18), Stop(18)>>)
Overlong == Plain("text", <<Word(30), Word(30)>>)
Question == [Plain("qa_pair", <<Stop(12)>>) EXCEPT !.label = "Q"]
Answer == [Plain("qa_pair", <<Stop(9), Stop(9)>>) EXCEPT !.label = "A"]
Item == Plain("list_item", <<Word(8)>>)

Shapes == { BlankLine, Heading(1), Heading(2), Rule, Dots, Short, Medium, Sentences, Overlong,
            Question, Answer, Item }

SectionShapes == { Heading(1), Heading(2), Heading(3), Medium, Item }

\* A line that is a margin when pages repeat it, and one that may be.
Footer == [Plain("text", <<Word(5)>>) EXCEPT !.key = "footer"]
Repeat == [Short EXCEPT !.key = "repeat"]

PageShapes == { Footer, Repeat, Short, BlankLine }

\* Sections and questions that go on over a page break.
BreakShapes == { Heading(1), Question, Answer, Medium }

Pages(n) == UNION { [1..k -> PageShapes] : k \in 1..n }

MCFiles ==
    { <<lines>> : lines \in UNION { [1..k -> Shapes] : k \in 0..3 } \cup [1..6 -> SectionShapes] }
    \cup [1..2 -> Pages(2)]
    \cup [1..2 -> UNION { [1..k -> BreakShapes] : k \in 1..2 }]
    \cup { <<a, b, c>> : a, b \in Pages(1), c \in Pages(3) }

=============================================================================
