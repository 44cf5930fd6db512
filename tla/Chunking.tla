------------------------------ MODULE Chunking ------------------------------
(***************************************************************************)
(* The worker's chunker: blocks to sections, small sections merged, the     *)
(* texts of a section to units, units packed into chunks that overlap.      *)
(* The tokens of a text are those of its words: the tokens that joining     *)
(* adds or saves are left out.                                              *)
(***************************************************************************)
EXTENDS Extraction

CONSTANTS
    Target,    \* chunk_target_tokens
    Overlap    \* chunk_overlap_tokens

ASSUME SettingsAssumption ==
    /\ Target \in Nat /\ Target >= 20
    /\ Overlap \in Nat /\ Overlap < Target

NoTitle == <<>>    \* the title of the text before the first heading

BlocksTokens(blocks) == Total([k \in DOMAIN blocks |-> Tokens(blocks[k].words)])

-----------------------------------------------------------------------------
(* Sections.  A heading closes the section before it, if that has text, and *)
(* takes its place below as many headings as its level allows.              *)

CloseSection(acc) ==
    IF acc.blocks = <<>> THEN acc
    ELSE [acc EXCEPT !.sections = Append(@, [ title  |-> acc.title,
                                              path   |-> acc.path,
                                              blocks |-> acc.blocks ]),
                     !.blocks = <<>>]

\* Mutant: a heading stands below the last one of its own level.
OpenSection_KeepsSibling(acc, heading) ==
    LET above == SubSeq(acc.path, 1, Min({Len(acc.path), heading.level}))
    IN  [CloseSection(acc) EXCEPT !.title = heading.words,
                                  !.path = Append(above, heading.words)]

OpenSection(acc, heading) ==
    LET above == SubSeq(acc.path, 1, Min({Len(acc.path), heading.level - 1}))
    IN  [CloseSection(acc) EXCEPT !.title = heading.words,
                                  !.path = Append(above, heading.words)]

\* A block of a section knows its index in the document.
AddBlock(acc, b, k) ==
    IF b.kind = "heading" THEN OpenSection(acc, b)
    ELSE [acc EXCEPT !.blocks =
            Append(@, [index |-> k, kind |-> b.kind, label |-> b.label, words |-> b.words])]

NoSections == [sections |-> <<>>, title |-> NoTitle, path |-> <<>>, blocks |-> <<>>]

BuildSections(blocks) ==
    CloseSection(FoldLeftDomain(LAMBDA acc, k : AddBlock(acc, blocks[k], k),
                                NoSections, blocks)).sections

-----------------------------------------------------------------------------
(* Small sections join the next ones while they fit; one that stays alone   *)
(* joins the group before it.                                               *)

MinimumSectionTokens == Max({20, Min({100, Target \div 4})})

SectionTokens(section) == Tokens(section.title) + BlocksTokens(section.blocks)

GroupTokens(group) == Total([k \in DOMAIN group |-> SectionTokens(group[k])])

CloseGroup(acc) ==
    LET last == Len(acc.merged)
        joins == /\ Len(acc.group) = 1
                 /\ GroupTokens(acc.group) < MinimumSectionTokens
                 /\ last > 0
                 /\ GroupTokens(acc.merged[last]) + GroupTokens(acc.group) <= Target
    IN  CASE acc.group = <<>> -> acc.merged
          [] joins -> [acc.merged EXCEPT ![last] = @ \o acc.group]
          [] OTHER -> Append(acc.merged, acc.group)

AddSection(acc, s) ==
    IF /\ acc.group # <<>>
       /\ GroupTokens(acc.group) < MinimumSectionTokens
       /\ GroupTokens(acc.group) + SectionTokens(s) <= Target
    THEN [acc EXCEPT !.group = Append(@, s)]
    ELSE [merged |-> CloseGroup(acc), group |-> <<s>>]

MergeSmallSections(sections) ==
    CloseGroup(FoldLeft(AddSection, [merged |-> <<>>, group |-> <<>>], sections))

-----------------------------------------------------------------------------
(* Units: a text that fits, or the parts of one that does not.              *)

RunsOn(texts, b) ==
    /\ b.kind = "qa_pair"
    /\ texts # <<>>
    /\ Last(texts).kind = "qa_pair"
    /\ ~(b.label = "Q" /\ Last(texts).answered)

RunOn(text, b) ==
    LET break == IF b.label = "Q" THEN "question" ELSE "line"
    IN  [ kind     |-> text.kind,
          words    |-> text.words \o [b.words EXCEPT ![1].br = break],
          from     |-> text.from \cup {b.index},
          answered |-> text.answered \/ b.label = "A" ]

AddText(texts, b) ==
    IF RunsOn(texts, b) THEN [texts EXCEPT ![Len(texts)] = RunOn(@, b)]
    ELSE Append(texts, [ kind     |-> b.kind,
                         words    |-> b.words,
                         from     |-> {b.index},
                         answered |-> b.label = "A" ])

\* The texts of a section: each block, but questions and answers run on
\* until the next question after an answer.
SectionTexts(blocks) == FoldLeft(AddText, <<>>, blocks)

\* The parts of a text, a new one at each of the places.
SplitAt(words, places) ==
    LET starts == At([i \in DOMAIN words |-> i], {1} \cup places)
        End(k) == IF k = Len(starts) THEN Len(words) ELSE starts[k + 1] - 1
    IN  [k \in DOMAIN starts |-> SubSeq(words, starts[k], End(k))]

PackPart(acc, part, max) ==
    IF acc.current # <<>> /\ Tokens(acc.current) + Tokens(part) > max
    THEN [packed |-> Append(acc.packed, acc.current), current |-> part]
    ELSE [acc EXCEPT !.current = @ \o part]

\* _pack_parts and _split_by_words: the parts in order, as many as fit.
PackParts(parts, max) ==
    LET end == FoldLeft(LAMBDA acc, part : PackPart(acc, part, max),
                        [packed |-> <<>>, current |-> <<>>], parts)
    IN  Append(end.packed, end.current)

\* The ways to split a text, in the order in which they are tried.
Splits(text) ==
    LET w == text.words
        questions  == SplitAt(w, { i \in DOMAIN w : w[i].br = "question" })
        lines      == SplitAt(w, { i \in DOMAIN w : w[i].br # "none" })
        paragraphs == SplitAt(w, { i \in DOMAIN w : w[i].br = "blank" })
        sentences  == SplitAt(w, { i \in 2..Len(w) : w[i - 1].ends })
        structured == CASE text.kind = "qa_pair" -> questions
                        [] text.kind \in {"list_item", "table_row"} -> lines
                        [] OTHER -> <<w>>
    IN  <<structured, paragraphs, sentences, lines, [i \in DOMAIN w |-> <<w[i]>>]>>

\* The first way that splits at all: a part of it that is too large stays whole.
SplitLargeText(text, max) ==
    LET ways == Splits(text)
        first == SelectInSeq(ways, LAMBDA parts : Len(parts) > 1)
    IN  PackParts(ways[IF first = 0 THEN Len(ways) ELSE first], max)

SplitUnitText(text, max) ==
    IF Tokens(text.words) <= max THEN <<text.words>> ELSE SplitLargeText(text, max)

\* A unit knows its section's title and the blocks it was made from.
TitleUnit(title, from) == [words |-> title, heading |-> TRUE, title |-> title, from |-> from]

\* Mutant: the heading is not counted.
RoomBeside_WholeTarget(title) == Target

RoomBeside(title) == Max({1, Target - Tokens(title)})

BuildUnits(section) ==
    LET texts == SectionTexts(section.blocks)
        Units(text) == LET parts == SplitUnitText(text, RoomBeside(section.title)) IN
            [k \in DOMAIN parts |-> [ words   |-> parts[k],
                                     heading |-> FALSE,
                                     title   |-> section.title,
                                     from    |-> text.from ]]
    IN  FlattenSeq([k \in DOMAIN texts |-> Units(texts[k])])

BuildGroupUnits(group) ==
    LET Sources(section) == { b.index : b \in Range(section.blocks) }
        Titled(section) == IF section.title = NoTitle THEN <<>>
                           ELSE <<TitleUnit(section.title, Sources(section))>>
    IN  FlattenSeq([k \in DOMAIN group |-> Titled(group[k]) \o BuildUnits(group[k])])

-----------------------------------------------------------------------------
(* Chunks.                                                                 *)

UnitsTokens(units) == Total([k \in DOMAIN units |-> Tokens(units[k].words)])

\* The units of a chunk that are not its headings.
BodyUnits(units) == At(units, { k \in DOMAIN units : ~units[k].heading })

\* The last units that reach the overlap, one at least, and of them as many
\* as leave room for the next unit.
BuildOverlap(units, room) ==
    LET body == BodyUnits(units)
        From(i) == UnitsTokens(SubSeq(body, i, Len(body)))
        reach == Max({1} \cup { i \in DOMAIN body : From(i) >= Overlap })
        kept == { i \in reach..Len(body) : From(i) <= room }
    IN  IF kept = {} THEN <<>> ELSE SubSeq(body, Min(kept), Len(body))

ApplyStickyHeading(units, title) ==
    IF title = NoTitle THEN units
    ELSE <<TitleUnit(title, {Min(units[1].from)})>> \o units

AddUnit(acc, u, title) ==
    LET limit == RoomBeside(title)
    IN  CASE acc.current = <<>> -> [acc EXCEPT !.current = <<u>>]
          [] UnitsTokens(Append(acc.current, u)) <= limit ->
                [acc EXCEPT !.current = Append(@, u)]
          [] OTHER ->
                [ grouped |-> Append(acc.grouped, ApplyStickyHeading(acc.current, title)),
                  current |-> Append(BuildOverlap(acc.current, limit - Tokens(u.words)), u) ]

GroupUnits(units, title) ==
    LET end == FoldLeft(LAMBDA acc, u : AddUnit(acc, u, title),
                        [grouped |-> <<>>, current |-> <<>>], units)
    IN  IF end.current = <<>> THEN end.grouped
        ELSE Append(end.grouped, ApplyStickyHeading(end.current, title))

ChunksOfGroup(group) ==
    IF Len(group) = 1 THEN GroupUnits(BuildUnits(group[1]), group[1].title)
    ELSE GroupUnits(BuildGroupUnits(group), NoTitle)

\* The chunks of a document, each the sequence of its units; none is an error.
ChunkDocument(blocks) ==
    LET groups == MergeSmallSections(BuildSections(blocks))
    IN  FlattenSeq([g \in DOMAIN groups |-> ChunksOfGroup(groups[g])])

\* What _make_chunk says of a chunk: the blocks and pages it is from, its page
\* (the first of them) and the title it is shown with.
SourceBlocks(chunk) == UNION { u.from : u \in Range(chunk) }

PageNumber(blocks, chunk) == Min({ PageOf(blocks[k]) : k \in SourceBlocks(chunk) })

SectionTitle(chunk) ==
    LET k == SelectInSeq(chunk, LAMBDA u : u.title # NoTitle)
    IN  IF k = 0 THEN NoTitle ELSE chunk[k].title

Content(chunk) == FlattenSeq([k \in DOMAIN chunk |-> chunk[k].words])

=============================================================================
