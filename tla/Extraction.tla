----------------------------- MODULE Extraction -----------------------------
(***************************************************************************)
(* From the lines of a file to its blocks: the text and PDF parsers and the *)
(* normalizer of the worker.  What the regular expressions make of a line   *)
(* (its kind, its heading level, the Q or A of a FAQ) comes with the line;  *)
(* a text file is one page, so nothing of it is a repeated margin.          *)
(*                                                                         *)
(* A word knows its place in the file, its tokens, whether it ends a        *)
(* sentence, the line break that comes before it, and whether its line is   *)
(* noise.                                                                   *)
(***************************************************************************)
EXTENDS Naturals, FiniteSets, SequencesExt

NoKey == "none"    \* a line too short, too long or too bare to be a margin

\* What the parsers make of the lines of a file.
LineKinds == {"blank", "text", "heading", "qa_pair", "list_item", "table_row"}

Line(keys) ==
    [ kind  : LineKinds,
      level : Nat,                 \* of a heading, 1 for the highest
      label : {"", "Q", "A"},
      words : Seq([tok : Nat \ {0}, ends : BOOLEAN]),
      key   : keys \cup {NoKey},
      noise : BOOLEAN ]

Total(numbers) == FoldLeft(LAMBDA n, m : n + m, 0, numbers)

\* The elements of s at the places I, in order.
At(s, I) ==
    FoldLeftDomain(LAMBDA acc, i : IF i \in I THEN Append(acc, s[i]) ELSE acc, <<>>, s)

Tokens(words) == Total([i \in DOMAIN words |-> words[i].tok])

\* The lines of each page, every word with its place.
ExtractPageLines(pages) ==
    [p \in DOMAIN pages |->
        [l \in DOMAIN pages[p] |->
            [pages[p][l] EXCEPT !.words =
                [i \in DOMAIN @ |-> [ at   |-> <<p, l, i>>,
                                      tok  |-> @[i].tok,
                                      ends |-> @[i].ends,
                                      br   |-> "none",
                                      noise |-> pages[p][l].noise ]]]]]

-----------------------------------------------------------------------------
(* Margins that repeat from page to page.                                  *)

Blank(line) == line.kind = "blank"

\* The keys of the first two and the last two lines of a page that are not blank.
MarginCandidates(lines) ==
    LET nonempty == At(lines, { l \in DOMAIN lines : ~Blank(lines[l]) })
    IN  { nonempty[i].key : i \in { j \in DOMAIN nonempty :
                                      j <= 2 \/ j + 2 > Len(nonempty) } } \ {NoKey}

DetectRepeatedMarginKeys(pages) ==
    LET threshold == Max({2, (7 * Len(pages) + 9) \div 10})
        PagesWith(k) == { p \in DOMAIN pages : k \in MarginCandidates(pages[p]) }
    IN  { k \in UNION { MarginCandidates(pages[p]) : p \in DOMAIN pages } :
            Len(pages) >= 2 /\ Cardinality(PagesWith(k)) >= threshold }

DropLeading(s, Test(_)) ==
    LET i == SelectInSeq(s, LAMBDA x : ~Test(x))
    IN  IF i = 0 THEN <<>> ELSE SubSeq(s, i, Len(s))

DropTrailing(s, Test(_)) == SubSeq(s, 1, SelectLastInSeq(s, LAMBDA x : ~Test(x)))

StripRepeatedMarginLines(lines, keys) ==
    LET Repeated(line) == ~Blank(line) /\ line.key \in keys
        inner == DropTrailing(DropLeading(lines, Blank), Blank)
    IN  IF keys = {} THEN lines
        ELSE DropTrailing(DropLeading(inner, Repeated), Repeated)

-----------------------------------------------------------------------------
(* Blocks.                                                                 *)

Block(kind, level, label, words) ==
    [kind |-> kind, level |-> level, label |-> label, words |-> words]

\* page_number: the parser goes page by page, so a block is of one page.
PageOf(block) == block.words[1].at[1]

FlushParagraph(acc) ==
    IF acc.paragraph = <<>> THEN acc
    ELSE [ blocks    |-> Append(acc.blocks, Block("paragraph", 0, "", acc.paragraph)),
           paragraph |-> <<>> ]

AddLine(acc, line) ==
    CASE line.kind = "blank" -> FlushParagraph(acc)
      [] line.kind = "text"  -> [acc EXCEPT !.paragraph = @ \o line.words]
      [] OTHER -> [FlushParagraph(acc) EXCEPT !.blocks =
                      Append(@, Block(line.kind, line.level, line.label, line.words))]

NoBlocks == [blocks |-> <<>>, paragraph |-> <<>>]

\* Mutant: a file that ends in a paragraph loses it.
BuildBlocksFromLines_NoLastFlush(lines) == FoldLeft(AddLine, NoBlocks, lines).blocks

\* Lines of plain text run together until a blank line or a line with a
\* structure of its own; every structured line is a block.
BuildBlocksFromLines(lines) == FlushParagraph(FoldLeft(AddLine, NoBlocks, lines)).blocks

Parse(pages) ==
    LET keys == DetectRepeatedMarginKeys(pages)
        PageBlocks(p) == BuildBlocksFromLines(StripRepeatedMarginLines(pages[p], keys))
    IN  FlattenSeq([p \in DOMAIN pages |-> PageBlocks(p)])

-----------------------------------------------------------------------------
(* Normalization drops the lines that are nothing but punctuation, and the  *)
(* blocks that become empty.  The soft wraps of a paragraph become spaces,  *)
(* so its words follow each other.                                          *)

NormalizeBlocks(blocks) ==
    LET Cleaned(b) == [b EXCEPT !.words = At(@, { i \in DOMAIN @ : ~@[i].noise })]
        cleaned == [k \in DOMAIN blocks |-> Cleaned(blocks[k])]
    IN  At(cleaned, { k \in DOMAIN cleaned : cleaned[k].words # <<>> })

\* Fewer than twenty letters and digits, four to a token.
Empty(blocks) == 4 * Total([k \in DOMAIN blocks |-> Tokens(blocks[k].words)]) < 20

=============================================================================
