--------------------------- MODULE PassagesProofs ---------------------------
(***************************************************************************)
(* Proofs about Passages: of the text of every file nothing is lost on its  *)
(* way through lines, blocks and chunks; chunks fit their limits and lead   *)
(* to where their text stands; and every chunk gets its own vector.         *)
(***************************************************************************)
EXTENDS ChunkingProofs

-----------------------------------------------------------------------------
(* The lines of a file                                                     *)

\* A line whose words have their places.
PlacedLine ==
    [ kind : LineKinds, level : Nat, label : Labels, words : Seq(Word),
      key : Keys \cup {NoKey}, noise : BOOLEAN ]

NoBreaks(w) == \A i \in 1..Len(w) : w[i].br = "none"

Kept(w) == { w[i].at : i \in { j \in 1..Len(w) : ~w[j].noise } }

LineOK(line) ==
    /\ line \in PlacedLine
    /\ line.words = <<>> <=> line.kind = "blank"
    /\ line.kind = "heading" => line.level >= 1
    /\ InOrder(line.words) /\ NoBreaks(line.words)
    /\ ~line.noise => \A i \in 1..Len(line.words) : ~line.words[i].noise

LinesOK(t) ==
    /\ t \in Seq(PlacedLine)
    /\ \A i \in 1..Len(t) : LineOK(t[i])
    /\ \A i, j \in 1..Len(t) : i < j => Precede(t[i].words, t[j].words)

PagesOK(pg) ==
    /\ pg \in Seq(Seq(PlacedLine))
    /\ \A p \in 1..Len(pg) :
         /\ LinesOK(pg[p])
         /\ \A l \in 1..Len(pg[p]) : \A a \in Places(pg[p][l].words) : a[1] = p

PlacedWord(w, p, l, i, noise) ==
    [at |-> <<p, l, i>>, tok |-> w.tok, ends |-> w.ends, br |-> "none", noise |-> noise]

Placed(line, p, l) ==
    [line EXCEPT !.words = [i \in DOMAIN @ |-> PlacedWord(@[i], p, l, i, line.noise)]]

\* A word of a file, and a line of them.
FileWord == [tok : Nat \ {0}, ends : BOOLEAN]

FileLine ==
    [ kind : LineKinds, level : Nat, label : Labels, words : Seq(FileWord),
      key : Keys \cup {NoKey}, noise : BOOLEAN ]

LEMMA FileLineIs == Line(Keys) = FileLine
  BY DEF Line, FileLine, FileWord, Labels

LEMMA FileLineFields ==
    ASSUME NEW line \in FileLine
    PROVE  /\ line.words \in Seq(FileWord) /\ DOMAIN line.words = 1..Len(line.words)
           /\ Len(line.words) \in Nat
           /\ line.kind \in LineKinds /\ line.level \in Nat /\ line.label \in Labels
           /\ line.key \in Keys \cup {NoKey} /\ line.noise \in BOOLEAN
           /\ \A i \in 1..Len(line.words) : line.words[i] \in FileWord
           /\ \A vs : [line EXCEPT !.words = vs] =
                         [ kind |-> line.kind, level |-> line.level, label |-> line.label,
                           words |-> vs, key |-> line.key, noise |-> line.noise ]
<1>1. line.words \in Seq(FileWord)
  BY DEF FileLine
<1>2. DOMAIN line.words = 1..Len(line.words) /\ Len(line.words) \in Nat
  BY <1>1
<1>3. \A i \in 1..Len(line.words) : line.words[i] \in FileWord
  BY <1>1
<1>4. /\ line.kind \in LineKinds /\ line.level \in Nat /\ line.label \in Labels
      /\ line.key \in Keys \cup {NoKey} /\ line.noise \in BOOLEAN
  BY DEF FileLine
<1>5. ASSUME NEW vs
      PROVE  [line EXCEPT !.words = vs] =
                         [ kind |-> line.kind, level |-> line.level, label |-> line.label,
                           words |-> vs, key |-> line.key, noise |-> line.noise ]
  BY DEF FileLine
<1> QED BY <1>1, <1>2, <1>3, <1>4, <1>5

\* A line of a file, as it is read.
LEMMA PlacedOK ==
    ASSUME NEW line \in Line(Keys), line.words = <<>> <=> line.kind = "blank",
           line.kind = "heading" => line.level \in 1..6,
           NEW p \in Nat, NEW l \in Nat
    PROVE  /\ LineOK(Placed(line, p, l))
           /\ \A a \in Places(Placed(line, p, l).words) : a[1] = p /\ a[2] = l /\ a \in Place
<1> DEFINE ws == line.words
           vs == [i \in 1..Len(ws) |-> PlacedWord(ws[i], p, l, i, line.noise)]
           t == Placed(line, p, l)
<1>1. /\ ws \in Seq(FileWord) /\ DOMAIN ws = 1..Len(ws) /\ Len(ws) \in Nat
      /\ line.kind \in LineKinds /\ line.level \in Nat /\ line.label \in Labels
      /\ line.key \in Keys \cup {NoKey} /\ line.noise \in BOOLEAN
      /\ \A i \in 1..Len(ws) : ws[i] \in FileWord
  BY FileLineIs, FileLineFields
<1>2. /\ t.words = vs /\ t.kind = line.kind /\ t.level = line.level /\ t.label = line.label
      /\ t.key = line.key /\ t.noise = line.noise
      /\ t = [ kind |-> line.kind, level |-> line.level, label |-> line.label, words |-> vs,
               key |-> line.key, noise |-> line.noise ]
  <2>1. t = [line EXCEPT !.words = vs]
    BY <1>1 DEF Placed
  <2> HIDE DEF t, vs
  <2>2. [line EXCEPT !.words = vs] =
           [ kind |-> line.kind, level |-> line.level, label |-> line.label, words |-> vs,
             key |-> line.key, noise |-> line.noise ]
    BY FileLineIs, FileLineFields
  <2> QED BY <2>1, <2>2
<1> HIDE DEF t
<1>3. Len(ws) \in Nat /\ DOMAIN vs = 1..Len(ws)
  BY <1>1
<1>4. ASSUME NEW i \in 1..Len(ws)
      PROVE  /\ vs[i] \in Word /\ vs[i].at = <<p, l, i>> /\ vs[i].br = "none"
             /\ vs[i].noise = line.noise
  <2>1. ws[i].tok \in Nat \ {0} /\ ws[i].ends \in BOOLEAN /\ i \in Nat
    BY <1>1 DEF FileWord
  <2>2. vs[i] = [at |-> <<p, l, i>>, tok |-> ws[i].tok, ends |-> ws[i].ends, br |-> "none", noise |-> line.noise]
    BY DEF PlacedWord
  <2>3. <<p, l, i>> \in Place
    BY <2>1 DEF Place
  <2> HIDE DEF vs
  <2> QED BY <1>1, <2>1, <2>2, <2>3 DEF Word
<1>5. vs \in Seq(Word) /\ Len(vs) = Len(ws)
  <2> DEFINE n == Len(ws)
             F(i) == PlacedWord(ws[i], p, l, i, line.noise)
  <2>1. \A i \in 1..n : F(i) \in Word
    BY <1>4
  <2>2. n \in Nat
    BY <1>3
  <2> HIDE DEF n, F
  <2>3. [i \in 1..n |-> F(i)] \in Seq(Word) /\ Len([i \in 1..n |-> F(i)]) = n
    BY <2>1, <2>2
  <2> QED BY <2>3 DEF n, F
<1> HIDE DEF vs
<1>6. t \in PlacedLine
  BY <1>1, <1>2, <1>5 DEF PlacedLine
<1>7. vs = <<>> <=> ws = <<>>
  BY <1>1, <1>5
<1>8. InOrder(vs)
  <2> SUFFICES ASSUME NEW i \in 1..Len(vs), NEW j \in 1..Len(vs), i < j
               PROVE  Before(vs[i].at, vs[j].at)
    BY DEF InOrder
  <2>1. vs[i].at = <<p, l, i>> /\ vs[j].at = <<p, l, j>> /\ i \in Nat /\ j \in Nat
    BY <1>3, <1>4, <1>5
  <2>2. <<p, l, i>> \in Place /\ <<p, l, j>> \in Place
    BY <2>1 DEF Place
  <2> QED BY <2>1, <2>2, BeforeIs
<1>9. Places(vs) = { <<p, l, i>> : i \in 1..Len(vs) } /\ Places(vs) \subseteq Place
  <2>1. Places(vs) = { vs[i].at : i \in 1..Len(vs) } /\ Places(vs) \subseteq Place
    BY <1>5, PlacesAre
  <2> QED BY <1>4, <1>5, <2>1
<1>10. \A a \in Places(vs) : a[1] = p /\ a[2] = l /\ a \in Place
  BY <1>9
<1>11. NoBreaks(vs) /\ (~line.noise => \A i \in 1..Len(vs) : ~vs[i].noise)
  BY <1>4, <1>5 DEF NoBreaks
<1> QED BY <1>2, <1>6, <1>7, <1>8, <1>10, <1>11 DEF LineOK, t

LEMMA ExtractOK ==
    ASSUME NEW file \in Files
    PROVE  PagesOK(ExtractPageLines(file))
<1> DEFINE pg == ExtractPageLines(file)
           n == Len(file)
<1>1. file \in Seq(Seq(Line(Keys))) /\ n \in Nat /\ DOMAIN file = 1..n
  BY FilesAssumption
<1>2. ASSUME NEW p \in 1..n
      PROVE  /\ file[p] \in Seq(Line(Keys)) /\ DOMAIN file[p] = 1..Len(file[p]) /\ Len(file[p]) \in Nat
             /\ \A l \in 1..Len(file[p]) :
                  /\ file[p][l] \in Line(Keys)
                  /\ file[p][l].words = <<>> <=> file[p][l].kind = "blank"
                  /\ file[p][l].kind = "heading" => file[p][l].level \in 1..6
  <2>1. file[p] \in Seq(Line(Keys))
    BY <1>1
  <2>2. DOMAIN file[p] = 1..Len(file[p]) /\ Len(file[p]) \in Nat
    BY <2>1
  <2>3. \A l \in 1..Len(file[p]) : /\ file[p][l].words = <<>> <=> file[p][l].kind = "blank"
                                   /\ file[p][l].kind = "heading" => file[p][l].level \in 1..6
    BY <1>1, <2>2, FilesAssumption DEF Blank
  <2>4. \A l \in 1..Len(file[p]) : file[p][l] \in Line(Keys)
    BY <2>1
  <2> QED BY <2>1, <2>2, <2>3, <2>4
<1>3. pg = [p \in 1..n |-> [l \in 1..Len(file[p]) |-> Placed(file[p][l], p, l)]]
  BY <1>1, <1>2 DEF ExtractPageLines, Placed, PlacedWord
<1> HIDE DEF pg
<1>4. ASSUME NEW p \in 1..n
      PROVE  /\ pg[p] \in Seq(PlacedLine) /\ LinesOK(pg[p])
             /\ \A l \in 1..Len(pg[p]) : \A a \in Places(pg[p][l].words) : a[1] = p
  <2> DEFINE lines == file[p]
             m == Len(lines)
             t == [l \in 1..m |-> Placed(lines[l], p, l)]
  <2>1. pg[p] = t /\ p \in Nat /\ m \in Nat
    BY <1>2, <1>3
  <2>2. ASSUME NEW l \in 1..m
        PROVE  /\ LineOK(t[l]) /\ t[l] \in PlacedLine
               /\ \A a \in Places(t[l].words) : a[1] = p /\ a[2] = l /\ a \in Place
    <3>1. lines[l] \in Line(Keys) /\ (lines[l].words = <<>> <=> lines[l].kind = "blank") /\ (lines[l].kind = "heading" => lines[l].level \in 1..6) /\ l \in Nat
      BY <1>2
    <3>2. /\ LineOK(Placed(lines[l], p, l))
          /\ \A a \in Places(Placed(lines[l], p, l).words) : a[1] = p /\ a[2] = l /\ a \in Place
      BY <2>1, <3>1, PlacedOK
    <3> QED BY <3>2 DEF LineOK
  <2>3. t \in Seq(PlacedLine) /\ Len(t) = m
    <3>1. \A l \in 1..m : Placed(lines[l], p, l) \in PlacedLine
      BY <2>2
    <3> HIDE DEF lines, m
    <3> QED BY <2>1, <3>1
  <2> HIDE DEF t, m, lines
  <2>4. ASSUME NEW i \in 1..m, NEW j \in 1..m, i < j
        PROVE  Precede(t[i].words, t[j].words)
    <3> SUFFICES ASSUME NEW a \in Places(t[i].words), NEW b \in Places(t[j].words)
                 PROVE  Before(a, b)
      BY DEF Precede
    <3>1. a[1] = p /\ a[2] = i /\ a \in Place
      BY <2>2
    <3>2. b[1] = p /\ b[2] = j /\ b \in Place
      BY <2>2
    <3> QED BY <2>4, <3>1, <3>2, BeforeIs
  <2>5. LinesOK(t)
    BY <2>2, <2>3, <2>4 DEF LinesOK
  <2> QED BY <2>1, <2>2, <2>3, <2>5
<1>5. pg \in Seq(Seq(PlacedLine)) /\ Len(pg) = n
  <2>1. DOMAIN pg = 1..n
    BY <1>3
  <2>2. pg = [p \in 1..n |-> pg[p]]
    BY <1>3
  <2>3. \A p \in 1..n : pg[p] \in Seq(PlacedLine)
    BY <1>4
  <2> HIDE DEF n
  <2> DEFINE F(p) == pg[p]
  <2>4. \A p \in 1..n : F(p) \in Seq(PlacedLine)
    BY <2>3
  <2>5. pg = [p \in 1..n |-> F(p)]
    BY <2>2
  <2> HIDE DEF F
  <2>6. [p \in 1..n |-> F(p)] \in Seq(Seq(PlacedLine)) /\ Len([p \in 1..n |-> F(p)]) = n
    BY <1>1, <2>4
  <2> QED BY <2>5, <2>6
<1> QED BY <1>4, <1>5 DEF PagesOK, pg

-----------------------------------------------------------------------------
(* Lines to blocks                                                         *)

\* What the parser makes, and the lines it makes it of.
BlockOK(b) ==
    /\ b \in DocBlock
    /\ b.words # <<>> /\ InOrder(b.words) /\ NoBreaks(b.words)
    /\ b.kind = "heading" => b.level >= 1

Parsing == [blocks : Seq(DocBlock), paragraph : Seq(Word)]

LinePlaces(t, k) == UNION { Places(t[i].words) : i \in 1..k }

\* The block has the words of the line that are no noise; a heading has that line alone.
Holds(b, line) ==
    /\ Kept(line.words) \subseteq Kept(b.words)
    /\ b.kind = "heading" => line.kind = "heading" \/ Kept(line.words) = {}
    /\ line.kind = "heading" => b.words = line.words

Arranged(x) ==
    /\ x \in Seq(DocBlock)
    /\ \A k \in 1..Len(x) : BlockOK(x[k])
    /\ \A k, l \in 1..Len(x) : k < l => Precede(x[k].words, x[l].words)

ParsedTo(acc, t, k) ==
    /\ Arranged(acc.blocks)
    /\ InOrder(acc.paragraph) /\ NoBreaks(acc.paragraph)
    /\ Places(acc.paragraph) \subseteq LinePlaces(t, k)
    /\ \A j \in 1..Len(acc.blocks) : /\ Places(acc.blocks[j].words) \subseteq LinePlaces(t, k)
                                     /\ Precede(acc.blocks[j].words, acc.paragraph)
    /\ \A i \in 1..k : t[i].kind # "blank" =>
         \/ t[i].kind # "heading" /\ Kept(t[i].words) \subseteq Kept(acc.paragraph)
         \/ \E j \in 1..Len(acc.blocks) : Holds(acc.blocks[j], t[i])

LEMMA KeptConcat ==
    ASSUME NEW u \in Seq(Word), NEW w \in Seq(Word)
    PROVE  Kept(u \o w) = Kept(u) \cup Kept(w)
<1>1. Len(u) \in Nat /\ Len(w) \in Nat /\ Len(u \o w) = Len(u) + Len(w)
  BY ConcatProperties
<1>2. \A i \in 1..Len(u) : (u \o w)[i] = u[i] /\ i \in 1..Len(u \o w)
  BY <1>1, ConcatProperties
<1>3. \A i \in 1..Len(w) : (u \o w)[Len(u) + i] = w[i] /\ Len(u) + i \in 1..Len(u \o w)
  BY <1>1, ConcatProperties
<1>4. ASSUME NEW a \in Kept(u \o w)
      PROVE  a \in Kept(u) \cup Kept(w)
  <2>1. PICK i \in 1..Len(u \o w) : ~(u \o w)[i].noise /\ a = (u \o w)[i].at
    BY DEF Kept
  <2>2. CASE i \in 1..Len(u)
    <3>1. (u \o w)[i] = u[i]
      BY <1>2, <2>2
    <3> QED BY <2>1, <2>2, <3>1 DEF Kept
  <2>3. CASE i \notin 1..Len(u)
    <3>1. i - Len(u) \in 1..Len(w) /\ i = Len(u) + (i - Len(u))
      BY <1>1, <2>1, <2>3
    <3>2. (u \o w)[i] = w[i - Len(u)]
      BY <1>3, <3>1
    <3> QED BY <2>1, <3>1, <3>2 DEF Kept
  <2> QED BY <2>2, <2>3
<1>5. ASSUME NEW a \in Kept(u)
      PROVE  a \in Kept(u \o w)
  <2>1. PICK i \in 1..Len(u) : ~u[i].noise /\ a = u[i].at
    BY DEF Kept
  <2> QED BY <1>2, <2>1 DEF Kept
<1>6. ASSUME NEW a \in Kept(w)
      PROVE  a \in Kept(u \o w)
  <2>1. PICK i \in 1..Len(w) : ~w[i].noise /\ a = w[i].at
    BY DEF Kept
  <2> QED BY <1>3, <2>1 DEF Kept
<1> QED BY <1>4, <1>5, <1>6

LEMMA NoBreaksConcat ==
    ASSUME NEW u \in Seq(Word), NEW w \in Seq(Word), NoBreaks(u), NoBreaks(w)
    PROVE  NoBreaks(u \o w)
<1>1. Len(u) \in Nat /\ Len(w) \in Nat /\ Len(u \o w) = Len(u) + Len(w)
  BY ConcatProperties
<1> SUFFICES ASSUME NEW i \in 1..Len(u \o w)
             PROVE  (u \o w)[i].br = "none"
  BY DEF NoBreaks
<1>2. CASE i \in 1..Len(u)
  <2>1. (u \o w)[i] = u[i]
    BY <1>2, ConcatProperties
  <2> QED BY <1>2, <2>1 DEF NoBreaks
<1>3. CASE i \notin 1..Len(u)
  <2>1. i - Len(u) \in 1..Len(w)
    BY <1>1, <1>3
  <2>2. (u \o w)[i] = w[i - Len(u)]
    BY <1>1, <1>3, ConcatProperties
  <2> QED BY <2>1, <2>2 DEF NoBreaks
<1> QED BY <1>2, <1>3

LEMMA ArrangedNext ==
    ASSUME NEW x, Arranged(x), NEW b, BlockOK(b), \A j \in 1..Len(x) : Precede(x[j].words, b.words)
    PROVE  /\ Arranged(Append(x, b)) /\ Len(Append(x, b)) = Len(x) + 1
           /\ \A j \in 1..Len(x) : Append(x, b)[j] = x[j]
           /\ Append(x, b)[Len(x) + 1] = b
<1> DEFINE y == Append(x, b)
           n == Len(x)
<1>1. x \in Seq(DocBlock) /\ b \in DocBlock
  BY DEF Arranged, BlockOK
<1>2. n \in Nat /\ y \in Seq(DocBlock) /\ Len(y) = n + 1 /\ (\A j \in 1..n : y[j] = x[j]) /\ y[n + 1] = b
  BY <1>1
<1> HIDE DEF y, n
<1>3. \A k \in 1..Len(y) : k \in 1..n \/ k = n + 1
  BY <1>2
<1>4. \A k \in 1..Len(y) : BlockOK(y[k])
  BY <1>2, <1>3 DEF Arranged, n
<1>5. ASSUME NEW k \in 1..Len(y), NEW l \in 1..Len(y), k < l
      PROVE  Precede(y[k].words, y[l].words)
  <2>1. k \in 1..n
    BY <1>2, <1>5
  <2>2. CASE l \in 1..n
    <3>1. y[k] = x[k] /\ y[l] = x[l]
      BY <1>2, <2>1, <2>2
    <3> QED BY <1>5, <2>1, <2>2, <3>1 DEF Arranged, n
  <2>3. CASE l = n + 1
    BY <1>2, <2>1, <2>3 DEF n
  <2> QED BY <1>3, <2>2, <2>3
<1> QED BY <1>2, <1>4, <1>5 DEF Arranged, y, n

\* Closing a paragraph keeps what was parsed.
LEMMA FlushKeeps ==
    ASSUME NEW acc \in Parsing, NEW t, NEW k, ParsedTo(acc, t, k)
    PROVE  /\ FlushParagraph(acc) \in Parsing /\ ParsedTo(FlushParagraph(acc), t, k)
           /\ FlushParagraph(acc).paragraph = <<>>
<1>1. CASE acc.paragraph = <<>>
  BY <1>1 DEF FlushParagraph
<1>2. CASE acc.paragraph # <<>>
  <2> DEFINE b == Block("paragraph", 0, "", acc.paragraph)
             x == acc.blocks
             y == Append(x, b)
             n == Len(x)
             f == FlushParagraph(acc)
  <2>1. x \in Seq(DocBlock) /\ acc.paragraph \in Seq(Word)
    BY DEF Parsing
  <2>2. b \in DocBlock /\ b.words = acc.paragraph /\ b.kind = "paragraph"
    <3> DEFINE w == acc.paragraph
    <3>1. b = [kind |-> "paragraph", level |-> 0, label |-> "", words |-> w]
      BY DEF Block
    <3> HIDE DEF w, b
    <3>2. [kind |-> "paragraph", level |-> 0, label |-> "", words |-> w] \in DocBlock
      <4>1. w \in Seq(Word)
        BY <2>1 DEF w
      <4>2. "" \in Labels
        BY DEF Labels
      <4>3. 0 \in Nat
        OBVIOUS
      <4>4. "paragraph" \in Kinds
        BY DEF Kinds
      <4> QED BY <4>1, <4>2, <4>3, <4>4 DEF DocBlock
    <3> QED BY <3>1, <3>2 DEF w
  <2>3. BlockOK(b)
    BY <1>2, <2>2 DEF BlockOK, ParsedTo
  <2>4. f.blocks = y /\ f.paragraph = <<>> /\ f = [blocks |-> y, paragraph |-> <<>>]
    BY <1>2 DEF FlushParagraph
  <2> HIDE DEF b, f
  <2>5. /\ Arranged(y) /\ Len(y) = n + 1 /\ (\A j \in 1..n : y[j] = x[j]) /\ y[n + 1] = b
        /\ n \in Nat
    BY <2>1, <2>2, <2>3, ArrangedNext DEF ParsedTo
  <2> HIDE DEF x, y, n
  <2>6. f \in Parsing
    <3>1. y \in Seq(DocBlock)
      BY <2>5 DEF Arranged
    <3>2. <<>> \in Seq(Word)
      OBVIOUS
    <3> QED BY <2>4, <3>1, <3>2 DEF Parsing
  <2>7. InOrder(<<>>) /\ NoBreaks(<<>>) /\ Places(<<>>) = {} /\ Kept(<<>>) = {}
    BY DEF InOrder, NoBreaks, Places, Kept
  <2>8. \A j \in 1..Len(y) : /\ Places(y[j].words) \subseteq LinePlaces(t, k)
                             /\ Precede(y[j].words, <<>>)
    <3> SUFFICES ASSUME NEW j \in 1..Len(y)
                 PROVE  Places(y[j].words) \subseteq LinePlaces(t, k)
      BY <2>7 DEF Precede
    <3>1. CASE j \in 1..n
      BY <2>5, <3>1 DEF ParsedTo, x, n
    <3>2. CASE j = n + 1
      BY <2>2, <2>5, <3>2 DEF ParsedTo
    <3> QED BY <2>5, <3>1, <3>2
  <2>9. ASSUME NEW i \in 1..k, t[i].kind # "blank"
        PROVE  \E j \in 1..Len(y) : Holds(y[j], t[i])
    <3>1. CASE t[i].kind # "heading" /\ Kept(t[i].words) \subseteq Kept(acc.paragraph)
      <4>1. Holds(b, t[i])
        BY <2>2, <3>1 DEF Holds
      <4>2. n + 1 \in 1..Len(y)
        BY <2>5
      <4> QED BY <2>5, <4>1, <4>2
    <3>2. CASE \E j \in 1..n : Holds(x[j], t[i])
      <4>1. PICK j \in 1..n : Holds(x[j], t[i])
        BY <3>2
      <4>2. j \in 1..Len(y) /\ y[j] = x[j]
        BY <2>5, <4>1
      <4> QED BY <4>1, <4>2
    <3> QED BY <2>9, <3>1, <3>2 DEF ParsedTo, x, n
  <2>10. ParsedTo(f, t, k)
    <3>1. Arranged(f.blocks) /\ InOrder(f.paragraph) /\ NoBreaks(f.paragraph)
      BY <2>4, <2>5, <2>7
    <3>2. Places(f.paragraph) \subseteq LinePlaces(t, k)
      BY <2>4, <2>7
    <3>3. \A j \in 1..Len(f.blocks) : /\ Places(f.blocks[j].words) \subseteq LinePlaces(t, k)
                                      /\ Precede(f.blocks[j].words, f.paragraph)
      BY <2>4, <2>8
    <3>4. \A i \in 1..k : t[i].kind # "blank" => \E j \in 1..Len(f.blocks) : Holds(f.blocks[j], t[i])
      BY <2>4, <2>9
    <3> QED BY <3>1, <3>2, <3>3, <3>4 DEF ParsedTo
  <2> QED BY <2>4, <2>6, <2>10 DEF f
<1> QED BY <1>1, <1>2

LEMMA LineFields ==
    ASSUME NEW line \in PlacedLine
    PROVE  /\ line.kind \in LineKinds /\ line.level \in Nat /\ line.label \in Labels
           /\ line.words \in Seq(Word) /\ line.key \in Keys \cup {NoKey} /\ line.noise \in BOOLEAN
  BY DEF PlacedLine

LEMMA LineBlock ==
    ASSUME NEW line, LineOK(line), line.kind # "blank", NEW b,
           b = Block(line.kind, line.level, line.label, line.words)
    PROVE  BlockOK(b) /\ b.words = line.words /\ Holds(b, line)
<1>1. line \in PlacedLine
  BY DEF LineOK
<1>2. b = [kind |-> line.kind, level |-> line.level, label |-> line.label, words |-> line.words]
  BY DEF Block
<1>3. line.kind \in Kinds /\ line.level \in Nat /\ line.label \in Labels /\ line.words \in Seq(Word)
  BY <1>1, LineFields DEF Kinds
<1>4. b \in DocBlock /\ b.words = line.words /\ b.kind = line.kind /\ b.level = line.level
  BY <1>2, <1>3 DEF DocBlock
<1> QED BY <1>4 DEF BlockOK, Holds, LineOK

LEMMA FlushTyped ==
    ASSUME NEW acc \in Parsing
    PROVE  FlushParagraph(acc) \in Parsing
<1>1. CASE acc.paragraph = <<>>
  BY <1>1 DEF FlushParagraph
<1>2. CASE acc.paragraph # <<>>
  <2> DEFINE w == acc.paragraph
             b == [kind |-> "paragraph", level |-> 0, label |-> "", words |-> w]
  <2>1. acc.blocks \in Seq(DocBlock) /\ w \in Seq(Word)
    BY DEF Parsing
  <2>2. FlushParagraph(acc) = [blocks |-> Append(acc.blocks, b), paragraph |-> <<>>]
    BY <1>2 DEF FlushParagraph, Block
  <2>3. b \in DocBlock
    <3> HIDE DEF w
    <3>1. "" \in Labels
      BY DEF Labels
    <3>2. "paragraph" \in Kinds
      BY DEF Kinds
    <3>3. 0 \in Nat
      OBVIOUS
    <3> QED BY <2>1, <3>1, <3>2, <3>3 DEF DocBlock
  <2> HIDE DEF b
  <2>4. Append(acc.blocks, b) \in Seq(DocBlock) /\ <<>> \in Seq(Word)
    BY <2>1, <2>3
  <2> QED BY <2>2, <2>4 DEF Parsing
<1> QED BY <1>1, <1>2

\* What a line makes of the blocks so far.
LEMMA AddLineIs ==
    ASSUME NEW acc \in Parsing, NEW line, LineOK(line)
    PROVE  /\ AddLine(acc, line) \in Parsing
           /\ \/ line.kind = "blank" /\ AddLine(acc, line) = FlushParagraph(acc)
              \/ /\ line.kind = "text"
                 /\ AddLine(acc, line).blocks = acc.blocks
                 /\ AddLine(acc, line).paragraph = acc.paragraph \o line.words
              \/ /\ line.kind \notin {"blank", "text"}
                 /\ AddLine(acc, line).paragraph = FlushParagraph(acc).paragraph
                 /\ \E b : /\ b = Block(line.kind, line.level, line.label, line.words)
                           /\ AddLine(acc, line).blocks = Append(FlushParagraph(acc).blocks, b)
<1>1. line \in PlacedLine /\ line.words \in Seq(Word)
  BY LineFields DEF LineOK
<1>2. acc = [blocks |-> acc.blocks, paragraph |-> acc.paragraph]
      /\ acc.blocks \in Seq(DocBlock) /\ acc.paragraph \in Seq(Word)
  BY DEF Parsing
<1>3. CASE line.kind = "blank"
  <2>1. AddLine(acc, line) = FlushParagraph(acc)
    BY <1>3 DEF AddLine
  <2> QED BY <1>3, <2>1, FlushTyped
<1>4. CASE line.kind = "text"
  <2> DEFINE w == acc.paragraph \o line.words
             f == AddLine(acc, line)
  <2>1. f = [acc EXCEPT !.paragraph = w]
    BY <1>4 DEF AddLine
  <2>2. w \in Seq(Word)
    BY <1>1, <1>2, ConcatProperties
  <2> HIDE DEF w, f
  <2>3. f \in Parsing /\ f.blocks = acc.blocks /\ f.paragraph = w
    BY <1>2, <2>1, <2>2 DEF Parsing
  <2> QED BY <1>4, <2>3 DEF w, f
<1>5. CASE line.kind \notin {"blank", "text"}
  <2> DEFINE f == AddLine(acc, line)
             g == FlushParagraph(acc)
             b == Block(line.kind, line.level, line.label, line.words)
             y == Append(g.blocks, b)
  <2>1. f = [g EXCEPT !.blocks = y]
    BY <1>5 DEF AddLine
  <2>2. g \in Parsing
    BY FlushTyped
  <2>3. b \in DocBlock
    BY <1>5, LineBlock DEF BlockOK
  <2> HIDE DEF f, g, b
  <2>4. g.blocks \in Seq(DocBlock) /\ g.paragraph \in Seq(Word)
    BY <2>2 DEF Parsing
  <2>5. y \in Seq(DocBlock)
    BY <2>3, <2>4
  <2> HIDE DEF y
  <2>6. f \in Parsing /\ f.blocks = y /\ f.paragraph = g.paragraph
    BY <2>1, <2>2, <2>4, <2>5 DEF Parsing
  <2> QED BY <1>5, <2>6 DEF f, g, b, y
<1> QED BY <1>3, <1>4, <1>5

LEMMA LinePlacesNext ==
    ASSUME NEW t, LinesOK(t), NEW k \in 1..Len(t)
    PROVE  /\ LinePlaces(t, k) = LinePlaces(t, k - 1) \cup Places(t[k].words)
           /\ \A w : Places(w) \subseteq LinePlaces(t, k - 1) => Precede(w, t[k].words)
<1>1. k \in Nat /\ 1..k = 1..(k - 1) \cup {k} /\ \A i \in 1..(k - 1) : i \in 1..Len(t) /\ i < k
  <2>1. Len(t) \in Nat
    BY DEF LinesOK
  <2> QED BY <2>1
<1>2. LinePlaces(t, k) = LinePlaces(t, k - 1) \cup Places(t[k].words)
  BY <1>1 DEF LinePlaces
<1>3. ASSUME NEW w, Places(w) \subseteq LinePlaces(t, k - 1)
      PROVE  Precede(w, t[k].words)
  <2> SUFFICES ASSUME NEW a \in Places(w), NEW b \in Places(t[k].words)
               PROVE  Before(a, b)
    BY DEF Precede
  <2>1. PICK i \in 1..(k - 1) : a \in Places(t[i].words)
    BY <1>3 DEF LinePlaces
  <2>2. Precede(t[i].words, t[k].words)
    BY <1>1, <2>1 DEF LinesOK
  <2> QED BY <2>1, <2>2 DEF Precede
<1> QED BY <1>2, <1>3

LEMMA AddLineKeeps ==
    ASSUME NEW t, LinesOK(t), NEW acc \in Parsing, NEW k \in 1..Len(t), ParsedTo(acc, t, k - 1)
    PROVE  ParsedTo(AddLine(acc, t[k]), t, k)
<1> DEFINE line == t[k]
           f == AddLine(acc, line)
           g == FlushParagraph(acc)
           P == LinePlaces(t, k - 1)
           Q == LinePlaces(t, k)
<1>1. LineOK(line) /\ k \in Nat /\ \A i \in 1..k : i \in 1..(k - 1) \/ i = k
  BY DEF LinesOK
<1>2. Q = P \cup Places(line.words) /\ \A w : Places(w) \subseteq P => Precede(w, line.words)
  BY LinePlacesNext
<1>3. g \in Parsing /\ ParsedTo(g, t, k - 1) /\ g.paragraph = <<>>
  BY FlushKeeps
<1>4. line.words \in Seq(Word) /\ InOrder(line.words) /\ NoBreaks(line.words)
  BY <1>1, LineFields DEF LineOK
<1> HIDE DEF line, f, g, P, Q
<1>5. CASE line.kind = "blank"
  <2>1. f = g
    BY <1>1, <1>5, AddLineIs DEF f, g
  <2>2. \A j \in 1..Len(g.blocks) : /\ Places(g.blocks[j].words) \subseteq Q
                                    /\ Precede(g.blocks[j].words, g.paragraph)
    BY <1>2, <1>3 DEF ParsedTo, P
  <2>3. Places(g.paragraph) \subseteq Q
    BY <1>2, <1>3 DEF ParsedTo, P
  <2>4. \A i \in 1..k : t[i].kind # "blank" =>
         \/ t[i].kind # "heading" /\ Kept(t[i].words) \subseteq Kept(g.paragraph)
         \/ \E j \in 1..Len(g.blocks) : Holds(g.blocks[j], t[i])
    BY <1>1, <1>3, <1>5 DEF ParsedTo, line
  <2>5. ParsedTo(g, t, k)
    BY <1>3, <2>2, <2>3, <2>4 DEF ParsedTo, Q
  <2> QED BY <2>1, <2>5 DEF f, line
<1>6. CASE line.kind = "text"
  <2> DEFINE u == acc.paragraph
             w == line.words
             x == acc.blocks
  <2>1. f.blocks = x /\ f.paragraph = u \o w
    <3>1. line.kind # "blank" /\ line.kind \in {"blank", "text"}
      BY <1>6
    <3> QED BY <1>1, <3>1, AddLineIs DEF f
  <2>2. u \in Seq(Word) /\ x \in Seq(DocBlock)
    BY DEF Parsing
  <2>3. /\ Arranged(x) /\ InOrder(u) /\ NoBreaks(u) /\ Places(u) \subseteq P
        /\ \A j \in 1..Len(x) : Places(x[j].words) \subseteq P /\ Precede(x[j].words, u)
    BY DEF ParsedTo, P
  <2> HIDE DEF u, w, x
  <2>4. Precede(u, w)
    BY <1>2, <2>3 DEF w
  <2>5. Places(u \o w) = Places(u) \cup Places(w) /\ InOrder(u \o w)
    BY <1>4, <2>2, <2>3, <2>4, PlacesConcat DEF w
  <2>6. NoBreaks(u \o w)
    BY <1>4, <2>2, <2>3, NoBreaksConcat DEF w
  <2>7. Places(u \o w) \subseteq Q
    BY <1>2, <2>3, <2>5 DEF w
  <2>8. \A j \in 1..Len(x) : Places(x[j].words) \subseteq Q /\ Precede(x[j].words, u \o w)
    <3> SUFFICES ASSUME NEW j \in 1..Len(x)
                 PROVE  Places(x[j].words) \subseteq Q /\ Precede(x[j].words, u \o w)
      OBVIOUS
    <3>1. Precede(x[j].words, u) /\ Precede(x[j].words, w) /\ Places(x[j].words) \subseteq P
      BY <1>2, <2>3 DEF w
    <3> QED BY <1>2, <2>5, <3>1 DEF Precede
  <2>9. Kept(u \o w) = Kept(u) \cup Kept(w)
    BY <1>4, <2>2, KeptConcat DEF w
  <2>10. \A i \in 1..k : t[i].kind # "blank" =>
         \/ t[i].kind # "heading" /\ Kept(t[i].words) \subseteq Kept(u \o w)
         \/ \E j \in 1..Len(x) : Holds(x[j], t[i])
    <3> SUFFICES ASSUME NEW i \in 1..k, t[i].kind # "blank"
                 PROVE  \/ t[i].kind # "heading" /\ Kept(t[i].words) \subseteq Kept(u \o w)
                        \/ \E j \in 1..Len(x) : Holds(x[j], t[i])
      OBVIOUS
    <3>1. CASE i = k
      BY <1>6, <2>9, <3>1 DEF line, w
    <3>2. CASE i \in 1..(k - 1)
      <4>1. \/ t[i].kind # "heading" /\ Kept(t[i].words) \subseteq Kept(u)
            \/ \E j \in 1..Len(x) : Holds(x[j], t[i])
        BY <3>2 DEF ParsedTo, u, x
      <4> QED BY <2>9, <4>1
    <3> QED BY <1>1, <3>1, <3>2
  <2>11. ParsedTo(f, t, k)
    BY <2>1, <2>3, <2>5, <2>6, <2>7, <2>8, <2>10 DEF ParsedTo, Q
  <2> QED BY <2>11 DEF f, line
<1>7. CASE line.kind \notin {"blank", "text"}
  <2> DEFINE x == g.blocks
             b == Block(line.kind, line.level, line.label, line.words)
             y == Append(x, b)
             n == Len(x)
  <2>1. f.blocks = y /\ f.paragraph = <<>>
    BY <1>1, <1>3, <1>7, AddLineIs DEF f, g
  <2>2. /\ Arranged(x) /\ InOrder(<<>>) /\ NoBreaks(<<>>) /\ Places(<<>>) \subseteq P
        /\ \A j \in 1..Len(x) : Places(x[j].words) \subseteq P
    BY <1>3 DEF ParsedTo, P
  <2>3. BlockOK(b) /\ b.words = line.words /\ Holds(b, line)
    BY <1>1, <1>7, LineBlock
  <2> HIDE DEF x, b
  <2>4. \A j \in 1..n : Precede(x[j].words, b.words)
    BY <1>2, <2>2, <2>3
  <2>5. /\ Arranged(y) /\ Len(y) = n + 1 /\ (\A j \in 1..n : y[j] = x[j]) /\ y[n + 1] = b
    BY <2>2, <2>3, <2>4, ArrangedNext
  <2>6. n \in Nat
    BY <2>2 DEF Arranged
  <2> HIDE DEF y, n
  <2>7. \A j \in 1..Len(y) : Places(y[j].words) \subseteq Q /\ Precede(y[j].words, <<>>)
    <3> SUFFICES ASSUME NEW j \in 1..Len(y)
                 PROVE  Places(y[j].words) \subseteq Q /\ Precede(y[j].words, <<>>)
      OBVIOUS
    <3>1. Precede(y[j].words, <<>>)
      BY DEF Precede, Places
    <3>2. CASE j \in 1..n
      BY <1>2, <2>2, <2>5, <3>1, <3>2 DEF n
    <3>3. CASE j = n + 1
      BY <1>2, <2>3, <2>5, <3>1, <3>3
    <3> QED BY <2>5, <2>6, <3>2, <3>3
  <2>8. \A i \in 1..k : t[i].kind # "blank" => \E j \in 1..Len(y) : Holds(y[j], t[i])
    <3> SUFFICES ASSUME NEW i \in 1..k, t[i].kind # "blank"
                 PROVE  \E j \in 1..Len(y) : Holds(y[j], t[i])
      OBVIOUS
    <3>1. CASE i = k
      <4>1. n + 1 \in 1..Len(y)
        BY <2>5, <2>6
      <4> QED BY <2>3, <2>5, <3>1, <4>1 DEF line
    <3>2. CASE i \in 1..(k - 1)
      <4>1. \/ t[i].kind # "heading" /\ Kept(t[i].words) \subseteq {}
            \/ \E j \in 1..n : Holds(x[j], t[i])
        <5>1. Kept(<<>>) = {}
          BY DEF Kept
        <5> QED BY <1>3, <3>2, <5>1 DEF ParsedTo, x, n
      <4>2. CASE t[i].kind # "heading" /\ Kept(t[i].words) = {}
        <5>1. Holds(b, t[i])
          BY <4>2 DEF Holds
        <5>2. n + 1 \in 1..Len(y)
          BY <2>5, <2>6
        <5> QED BY <2>5, <5>1, <5>2
      <4>3. CASE \E j \in 1..n : Holds(x[j], t[i])
        <5>1. PICK j \in 1..n : Holds(x[j], t[i])
          BY <4>3
        <5>2. j \in 1..Len(y) /\ y[j] = x[j]
          BY <2>5, <2>6, <5>1
        <5> QED BY <5>1, <5>2
      <4> QED BY <4>1, <4>2, <4>3
    <3> QED BY <1>1, <3>1, <3>2
  <2>9. Places(<<>>) \subseteq Q
    BY <1>2, <2>2
  <2>10. ParsedTo(f, t, k)
    BY <2>1, <2>2, <2>5, <2>7, <2>8, <2>9 DEF ParsedTo, Q
  <2> QED BY <2>10 DEF f, line
<1> QED BY <1>5, <1>6, <1>7

\* The blocks of some lines have the words of every line.
Blocked(x, t) ==
    /\ Arranged(x)
    /\ \A j \in 1..Len(x) : Places(x[j].words) \subseteq LinePlaces(t, Len(t))
    /\ \A i \in 1..Len(t) : t[i].kind # "blank" /\ Kept(t[i].words) # {} =>
                             \E j \in 1..Len(x) : Holds(x[j], t[i])

LEMMA BlocksFromLines ==
    ASSUME NEW t, LinesOK(t)
    PROVE  Blocked(BuildBlocksFromLines(t), t)
<1> DEFINE n == Len(t)
<1>1. t \in Seq(PlacedLine) /\ n \in Nat
  BY DEF LinesOK
<1>2. NoBlocks \in Parsing
  <2>1. <<>> \in Seq(DocBlock) /\ <<>> \in Seq(Word)
    OBVIOUS
  <2> QED BY <2>1 DEF NoBlocks, Parsing
<1>3. \A acc \in Parsing : \A k \in 1..n : AddLine(acc, t[k]) \in Parsing
  BY AddLineIs DEF LinesOK
<1>4. PICK r \in [0..n -> Parsing] :
        /\ r[0] = NoBlocks
        /\ \A k \in 1..n : r[k] = AddLine(r[k - 1], t[k])
        /\ BuildBlocksFromLines(t) = FlushParagraph(r[n]).blocks
  BY <1>1, <1>2, <1>3, LineSteps
<1> DEFINE T == { k \in 0..n : ParsedTo(r[k], t, k) }
<1>5. 0 \in T
  <2>1. r[0].blocks = <<>> /\ r[0].paragraph = <<>>
    BY <1>4 DEF NoBlocks
  <2>2. InOrder(<<>>) /\ NoBreaks(<<>>) /\ Places(<<>>) = {} /\ Len(<<>>) = 0
    BY DEF InOrder, NoBreaks, Places
  <2>3. Arranged(<<>>)
    <3>1. <<>> \in Seq(DocBlock)
      OBVIOUS
    <3> QED BY <2>2, <3>1 DEF Arranged
  <2>4. ParsedTo(r[0], t, 0)
    BY <2>1, <2>2, <2>3 DEF ParsedTo
  <2> QED BY <1>1, <2>4
<1>6. ASSUME NEW k \in 1..n, k - 1 \in T
      PROVE  k \in T
  <2>1. r[k - 1] \in Parsing /\ ParsedTo(r[k - 1], t, k - 1) /\ r[k] = AddLine(r[k - 1], t[k])
    BY <1>1, <1>4, <1>6
  <2>2. ParsedTo(r[k], t, k)
    BY <2>1, AddLineKeeps
  <2> QED BY <1>1, <2>2
<1>7. n \in T
  <2> HIDE DEF T, n
  <2> QED BY <1>1, <1>5, <1>6, Reaches
<1>8. r[n] \in Parsing /\ ParsedTo(r[n], t, n)
  BY <1>1, <1>4, <1>7
<1> DEFINE f == FlushParagraph(r[n])
<1>9. ParsedTo(f, t, n) /\ f.paragraph = <<>> /\ f \in Parsing
  BY <1>8, FlushKeeps
<1> HIDE DEF f, n
<1>10. ASSUME NEW i \in 1..n, t[i].kind # "blank", Kept(t[i].words) # {}
       PROVE  \E j \in 1..Len(f.blocks) : Holds(f.blocks[j], t[i])
  <2>1. \/ t[i].kind # "heading" /\ Kept(t[i].words) \subseteq Kept(f.paragraph)
        \/ \E j \in 1..Len(f.blocks) : Holds(f.blocks[j], t[i])
    BY <1>9, <1>10 DEF ParsedTo
  <2>2. CASE t[i].kind # "heading" /\ Kept(t[i].words) \subseteq Kept(f.paragraph)
    <3>1. Kept(<<>>) = {}
      BY DEF Kept
    <3>2. Kept(t[i].words) = {}
      BY <1>9, <2>2, <3>1
    <3> QED BY <1>10, <3>2
  <2> QED BY <2>1, <2>2
<1> QED BY <1>4, <1>9, <1>10 DEF ParsedTo, Blocked, f, n

-----------------------------------------------------------------------------
(* Margins                                                                 *)

\* A stretch of lines that leaves out lines of D at both ends.
Stripped(u, s, D) ==
    \E a \in 1..(Len(s) + 1), b \in 0..Len(s) :
        /\ a <= b + 1
        /\ u = SubSeq(s, a, b)
        /\ \A i \in 1..(a - 1) : s[i] \in D
        /\ \A i \in (b + 1)..Len(s) : s[i] \in D

LEMMA StrippedOf ==
    ASSUME NEW C, NEW s \in Seq(C), NEW a \in 1..(Len(s) + 1), NEW b \in 0..Len(s), a <= b + 1
    PROVE  /\ SubSeq(s, a, b) \in Seq(C) /\ Len(SubSeq(s, a, b)) = b - a + 1
           /\ \A i \in 1..(b - a + 1) : SubSeq(s, a, b)[i] = s[a + i - 1] /\ a + i - 1 \in 1..Len(s)
<1>1. Len(s) \in Nat
  OBVIOUS
<1>2. CASE a <= b
  <2>1. Len(SubSeq(s, a, b)) = b - a + 1 /\ \A i \in 1..(b - a + 1) : SubSeq(s, a, b)[i] = s[a + i - 1]
    BY <1>1, <1>2, SubSeqProperties
  <2>2. SubSeq(s, a, b) \in Seq(C)
    BY <1>1, <1>2, SubSeqProperties
  <2> QED BY <1>1, <1>2, <2>1, <2>2
<1>3. CASE a = b + 1
  <2>1. SubSeq(s, a, b) = <<>>
    BY <1>1, <1>3, SubSeqProperties
  <2> QED BY <1>1, <1>3, <2>1
<1> QED BY <1>1, <1>2, <1>3

LEMMA StrippedTwice ==
    ASSUME NEW C, NEW s \in Seq(C), NEW D, NEW u, Stripped(u, s, D), NEW w, Stripped(w, u, D)
    PROVE  Stripped(w, s, D)
<1>1. PICK a \in 1..(Len(s) + 1), b \in 0..Len(s) :
        /\ a <= b + 1
        /\ u = SubSeq(s, a, b)
        /\ \A i \in 1..(a - 1) : s[i] \in D
        /\ \A i \in (b + 1)..Len(s) : s[i] \in D
  BY DEF Stripped
<1>2. PICK c \in 1..(Len(u) + 1), d \in 0..Len(u) :
        /\ c <= d + 1
        /\ w = SubSeq(u, c, d)
        /\ \A i \in 1..(c - 1) : u[i] \in D
        /\ \A i \in (d + 1)..Len(u) : u[i] \in D
  BY DEF Stripped
<1>3. /\ u \in Seq(C) /\ Len(u) = b - a + 1 /\ Len(s) \in Nat
      /\ \A i \in 1..(b - a + 1) : u[i] = s[a + i - 1] /\ a + i - 1 \in 1..Len(s)
  BY <1>1, StrippedOf
<1> DEFINE e == a + c - 1
           f == a + d - 1
<1>4. e \in 1..(Len(s) + 1) /\ f \in 0..Len(s) /\ e <= f + 1
  BY <1>1, <1>2, <1>3
<1>5. /\ w \in Seq(C) /\ Len(w) = d - c + 1
      /\ \A i \in 1..(d - c + 1) : w[i] = u[c + i - 1] /\ c + i - 1 \in 1..Len(u)
  BY <1>2, <1>3, StrippedOf
<1>6. /\ SubSeq(s, e, f) \in Seq(C) /\ Len(SubSeq(s, e, f)) = f - e + 1
      /\ \A i \in 1..(f - e + 1) : SubSeq(s, e, f)[i] = s[e + i - 1] /\ e + i - 1 \in 1..Len(s)
  <2> HIDE DEF e, f
  <2> QED BY <1>4, StrippedOf
<1>7. f - e = d - c
  BY <1>1, <1>2
<1>8. w = SubSeq(s, e, f)
  <2>1. Len(w) = Len(SubSeq(s, e, f))
    BY <1>5, <1>6, <1>7
  <2>2. ASSUME NEW i \in 1..Len(w)
        PROVE  w[i] = SubSeq(s, e, f)[i]
    <3>1. i \in 1..(d - c + 1) /\ i \in 1..(f - e + 1)
      BY <1>5, <1>7
    <3>2. w[i] = u[c + i - 1] /\ c + i - 1 \in 1..Len(u)
      BY <1>5, <3>1
    <3> DEFINE m == c + i - 1
    <3>3. m \in 1..(b - a + 1)
      BY <1>3, <3>2
    <3> HIDE DEF m
    <3>4. u[m] = s[a + m - 1]
      BY <1>3, <3>3
    <3>5. a + m - 1 = e + i - 1
      BY <1>1, <1>2, <3>1 DEF m
    <3> HIDE DEF e, f
    <3> QED BY <1>6, <3>1, <3>2, <3>4, <3>5 DEF m
  <2> HIDE DEF e, f
  <2> QED BY <1>5, <1>6, <2>1, <2>2, SeqEqual
<1>9. \A i \in 1..(e - 1) : s[i] \in D
  <2> SUFFICES ASSUME NEW i \in 1..(e - 1) PROVE s[i] \in D
    OBVIOUS
  <2>1. CASE i <= a - 1
    BY <1>1, <2>1
  <2>2. CASE i > a - 1
    <3> DEFINE m == i - a + 1
    <3>1. m \in 1..(c - 1) /\ m \in 1..(b - a + 1)
      BY <1>1, <1>2, <1>3, <2>2
    <3>2. a + m - 1 = i
      BY <1>1
    <3> HIDE DEF m
    <3> QED BY <1>2, <1>3, <3>1, <3>2
  <2> QED BY <1>1, <2>1, <2>2
<1>10. \A i \in (f + 1)..Len(s) : s[i] \in D
  <2> SUFFICES ASSUME NEW i \in (f + 1)..Len(s) PROVE s[i] \in D
    OBVIOUS
  <2>1. CASE i >= b + 1
    BY <1>1, <1>3, <2>1
  <2>2. CASE i < b + 1
    <3> DEFINE m == i - a + 1
    <3>1. m \in (d + 1)..Len(u) /\ m \in 1..(b - a + 1)
      BY <1>1, <1>2, <1>3, <2>2
    <3>2. a + m - 1 = i
      BY <1>1
    <3> HIDE DEF m
    <3> QED BY <1>2, <1>3, <3>1, <3>2
  <2> QED BY <1>1, <1>3, <2>1, <2>2
<1> HIDE DEF e, f
<1> QED BY <1>4, <1>8, <1>9, <1>10 DEF Stripped

LEMMA StrippedMore ==
    ASSUME NEW u, NEW s, NEW D, NEW E, D \subseteq E, Stripped(u, s, D)
    PROVE  Stripped(u, s, E)
BY DEF Stripped

LEMMA DropLead ==
    ASSUME NEW C, NEW s \in Seq(C), NEW D, NEW I, I = { i \in 1..Len(s) : s[i] \notin D }
    PROVE  Stripped(IF I = {} THEN <<>> ELSE SubSeq(s, Min(I), Len(s)), s, D)
<1>1. Len(s) \in Nat
  OBVIOUS
<1>2. CASE I = {}
  <2>1. SubSeq(s, Len(s) + 1, Len(s)) = <<>>
    BY <1>1, SubSeqProperties
  <2>2. \A i \in 1..Len(s) : s[i] \in D
    BY <1>2
  <2>3. Stripped(<<>>, s, D)
    <3> DEFINE a == Len(s) + 1
               b == Len(s)
    <3>1. a \in 1..(Len(s) + 1) /\ b \in 0..Len(s) /\ a <= b + 1 /\ <<>> = SubSeq(s, a, b)
      BY <1>1, <2>1
    <3>2. (\A i \in 1..(a - 1) : s[i] \in D) /\ (\A i \in (b + 1)..Len(s) : s[i] \in D)
      BY <1>1, <2>2
    <3> QED BY <3>1, <3>2 DEF Stripped
  <2> QED BY <1>2, <2>3
<1>3. CASE I # {}
  <2> DEFINE a == Min(I)
  <2>1. a \in I /\ \A y \in I : a <= y
    <3>1. I \subseteq Nat
      BY <1>1
    <3> QED BY <1>3, <3>1, MinOf
  <2> HIDE DEF a
  <2>2. a \in 1..Len(s) /\ a \in 1..(Len(s) + 1) /\ Len(s) \in 0..Len(s) /\ a <= Len(s) + 1
    BY <1>1, <2>1
  <2>3. \A i \in 1..(a - 1) : s[i] \in D
    BY <1>1, <2>1, <2>2
  <2>4. \A i \in (Len(s) + 1)..Len(s) : s[i] \in D
    BY <1>1
  <2>5. Stripped(SubSeq(s, a, Len(s)), s, D)
    BY <2>2, <2>3, <2>4 DEF Stripped
  <2> QED BY <1>3, <2>5 DEF a
<1> QED BY <1>2, <1>3

LEMMA DropTrail ==
    ASSUME NEW C, NEW s \in Seq(C), NEW D, NEW I, I = { i \in 1..Len(s) : s[i] \notin D }
    PROVE  Stripped(SubSeq(s, 1, IF I = {} THEN 0 ELSE Max(I)), s, D)
<1> DEFINE b == IF I = {} THEN 0 ELSE Max(I)
<1>1. Len(s) \in Nat
  OBVIOUS
<1>2. I # {} => Max(I) \in I /\ \A y \in I : Max(I) >= y
  <2>1. I \in SUBSET (1..Len(s))
    OBVIOUS
  <2> QED BY <1>1, <2>1, MaxOf
<1>3. b \in 0..Len(s) /\ \A i \in (b + 1)..Len(s) : i \notin I
  <2>1. CASE I = {}
    BY <1>1, <2>1
  <2>2. CASE I # {}
    <3> DEFINE m == Max(I)
    <3>1. b = m
      BY <2>2
    <3>2. m \in I /\ \A y \in I : m >= y
      BY <1>2, <2>2
    <3> HIDE DEF m, b
    <3>3. m \in 1..Len(s)
      BY <3>2
    <3>4. ASSUME NEW i \in (m + 1)..Len(s)
          PROVE  i \notin I
      BY <1>1, <3>2, <3>3
    <3> QED BY <1>1, <3>1, <3>3, <3>4
  <2> QED BY <2>1, <2>2
<1> HIDE DEF b
<1>4. \A i \in (b + 1)..Len(s) : s[i] \in D
  BY <1>1, <1>3
<1>5. 1 \in 1..(Len(s) + 1) /\ 1 <= b + 1 /\ \A i \in 1..(1 - 1) : s[i] \in D
  BY <1>1, <1>3
<1>6. Stripped(SubSeq(s, 1, b), s, D)
  BY <1>3, <1>4, <1>5 DEF Stripped
<1> QED BY <1>6 DEF b

\* What the parser takes for a margin that repeats.
Margin(keys) == { line \in PlacedLine : line.kind = "blank" \/ line.key \in keys }

Blanks == { line \in PlacedLine : line.kind = "blank" }

KeyLines(keys) == { line \in PlacedLine : line.kind # "blank" /\ line.key \in keys }

LEMMA StrippedTyped ==
    ASSUME NEW C, NEW s \in Seq(C), NEW D, NEW u, Stripped(u, s, D)
    PROVE  u \in Seq(C)
BY StrippedOf DEF Stripped

LEMMA BlankLead ==
    ASSUME NEW s \in Seq(PlacedLine)
    PROVE  Stripped(DropLeading(s, Blank), s, Blanks)
<1> DEFINE I == { i \in 1..Len(s) : s[i] \notin Blanks }
           J == { i \in 1..Len(s) : ~Blank(s[i]) }
<1>1. I = J
  <2>1. \A i \in 1..Len(s) : s[i] \in PlacedLine
    OBVIOUS
  <2> QED BY <2>1 DEF Blanks, Blank
<1>2. DropLeading(s, Blank) = IF J = {} THEN <<>> ELSE SubSeq(s, Min(J), Len(s))
  <2>1. CASE J = {}
    BY <2>1 DEF DropLeading, SelectInSeq
  <2>2. CASE J # {}
    <3>1. SelectInSeq(s, LAMBDA x : ~Blank(x)) = Min(J)
      BY <2>2 DEF SelectInSeq
    <3>2. Min(J) # 0
      <4>1. J \subseteq Nat /\ 0 \notin J
        OBVIOUS
      <4> HIDE DEF J
      <4> QED BY <2>2, <4>1, MinOf
    <3> HIDE DEF J
    <3> QED BY <2>2, <3>1, <3>2 DEF DropLeading
  <2> QED BY <2>1, <2>2
<1> HIDE DEF J
<1>3. Stripped(IF I = {} THEN <<>> ELSE SubSeq(s, Min(I), Len(s)), s, Blanks)
  BY DropLead
<1> QED BY <1>1, <1>2, <1>3

LEMMA BlankTrail ==
    ASSUME NEW s \in Seq(PlacedLine)
    PROVE  Stripped(DropTrailing(s, Blank), s, Blanks)
<1> DEFINE I == { i \in 1..Len(s) : s[i] \notin Blanks }
           J == { i \in 1..Len(s) : ~Blank(s[i]) }
<1>1. I = J
  <2>1. \A i \in 1..Len(s) : s[i] \in PlacedLine
    OBVIOUS
  <2> QED BY <2>1 DEF Blanks, Blank
<1>2. DropTrailing(s, Blank) = SubSeq(s, 1, IF J = {} THEN 0 ELSE Max(J))
  BY DEF DropTrailing, SelectLastInSeq
<1> HIDE DEF J
<1>3. Stripped(SubSeq(s, 1, IF I = {} THEN 0 ELSE Max(I)), s, Blanks)
  BY DropTrail
<1> QED BY <1>1, <1>2, <1>3

LEMMA KeyLead ==
    ASSUME NEW s \in Seq(PlacedLine), NEW keys
    PROVE  Stripped(DropLeading(s, LAMBDA line : ~Blank(line) /\ line.key \in keys), s, KeyLines(keys))
<1> DEFINE I == { i \in 1..Len(s) : s[i] \notin KeyLines(keys) }
           J == { i \in 1..Len(s) : ~(~Blank(s[i]) /\ s[i].key \in keys) }
<1>1. I = J
  <2>1. \A i \in 1..Len(s) : s[i] \in PlacedLine
    OBVIOUS
  <2> QED BY <2>1 DEF KeyLines, Blank
<1>2. DropLeading(s, LAMBDA line : ~Blank(line) /\ line.key \in keys)
        = IF J = {} THEN <<>> ELSE SubSeq(s, Min(J), Len(s))
  <2>1. CASE J = {}
    BY <2>1 DEF DropLeading, SelectInSeq
  <2>2. CASE J # {}
    <3>1. SelectInSeq(s, LAMBDA x : ~(~Blank(x) /\ x.key \in keys)) = Min(J)
      BY <2>2 DEF SelectInSeq
    <3>2. Min(J) # 0
      <4>1. J \subseteq Nat /\ 0 \notin J
        OBVIOUS
      <4> HIDE DEF J
      <4> QED BY <2>2, <4>1, MinOf
    <3> HIDE DEF J
    <3> QED BY <2>2, <3>1, <3>2 DEF DropLeading
  <2> QED BY <2>1, <2>2
<1> HIDE DEF J
<1>3. Stripped(IF I = {} THEN <<>> ELSE SubSeq(s, Min(I), Len(s)), s, KeyLines(keys))
  BY DropLead
<1> QED BY <1>1, <1>2, <1>3

LEMMA KeyTrail ==
    ASSUME NEW s \in Seq(PlacedLine), NEW keys
    PROVE  Stripped(DropTrailing(s, LAMBDA line : ~Blank(line) /\ line.key \in keys), s, KeyLines(keys))
<1> DEFINE I == { i \in 1..Len(s) : s[i] \notin KeyLines(keys) }
           J == { i \in 1..Len(s) : ~(~Blank(s[i]) /\ s[i].key \in keys) }
<1>1. I = J
  <2>1. \A i \in 1..Len(s) : s[i] \in PlacedLine
    OBVIOUS
  <2> QED BY <2>1 DEF KeyLines, Blank
<1>2. DropTrailing(s, LAMBDA line : ~Blank(line) /\ line.key \in keys)
        = SubSeq(s, 1, IF J = {} THEN 0 ELSE Max(J))
  BY DEF DropTrailing, SelectLastInSeq
<1> HIDE DEF J
<1>3. Stripped(SubSeq(s, 1, IF I = {} THEN 0 ELSE Max(I)), s, KeyLines(keys))
  BY DropTrail
<1> QED BY <1>1, <1>2, <1>3

\* Only margins are stripped.
LEMMA StripIs ==
    ASSUME NEW s \in Seq(PlacedLine), NEW keys
    PROVE  Stripped(StripRepeatedMarginLines(s, keys), s, Margin(keys))
<1>1. CASE keys = {}
  <2>1. Len(s) \in Nat /\ SubSeq(s, 1, Len(s)) = s
    BY SubSeqProperties
  <2>2. Stripped(s, s, Margin(keys))
    <3> DEFINE n == Len(s)
    <3>1. 1 \in 1..(n + 1) /\ n \in 0..n /\ 1 <= n + 1
      BY <2>1
    <3>2. (\A i \in 1..(1 - 1) : s[i] \in Margin(keys)) /\ (\A i \in (n + 1)..n : s[i] \in Margin(keys))
      BY <2>1
    <3> QED BY <2>1, <3>1, <3>2 DEF Stripped
  <2> QED BY <1>1, <2>2 DEF StripRepeatedMarginLines
<1>2. CASE keys # {}
  <2> DEFINE Repeated(line) == ~Blank(line) /\ line.key \in keys
             a == DropLeading(s, Blank)
             b == DropTrailing(a, Blank)
             c == DropLeading(b, Repeated)
             d == DropTrailing(c, Repeated)
             M == Margin(keys)
  <2>1. StripRepeatedMarginLines(s, keys) = d
    BY <1>2 DEF StripRepeatedMarginLines
  <2>2. Blanks \subseteq M /\ KeyLines(keys) \subseteq M
    BY DEF Blanks, KeyLines, Margin
  <2>3. Stripped(a, s, Blanks)
    BY BlankLead
  <2> HIDE DEF M
  <2>4. a \in Seq(PlacedLine) /\ Stripped(a, s, M)
    BY <2>2, <2>3, StrippedTyped, StrippedMore
  <2> HIDE DEF a
  <2>5. Stripped(b, a, Blanks)
    BY <2>4, BlankTrail
  <2>6. b \in Seq(PlacedLine) /\ Stripped(b, a, M)
    BY <2>2, <2>4, <2>5, StrippedTyped, StrippedMore
  <2> HIDE DEF b
  <2>7. Stripped(c, b, KeyLines(keys))
    BY <2>6, KeyLead
  <2>8. c \in Seq(PlacedLine) /\ Stripped(c, b, M)
    BY <2>2, <2>6, <2>7, StrippedTyped, StrippedMore
  <2> HIDE DEF c
  <2>9. Stripped(d, c, KeyLines(keys))
    BY <2>8, KeyTrail
  <2>10. Stripped(d, c, M)
    BY <2>2, <2>9, StrippedMore
  <2> HIDE DEF d
  <2>11. Stripped(d, b, M)
    BY <2>6, <2>8, <2>10, StrippedTwice
  <2>12. Stripped(d, a, M)
    BY <2>4, <2>6, <2>11, StrippedTwice
  <2>13. Stripped(d, s, M)
    BY <2>4, <2>12, StrippedTwice
  <2> QED BY <2>1, <2>13 DEF M
<1> QED BY <1>1, <1>2

-----------------------------------------------------------------------------
(* Pages to blocks                                                         *)

LEMMA StrippedLines ==
    ASSUME NEW t, LinesOK(t), NEW D, NEW u, Stripped(u, t, D)
    PROVE  /\ LinesOK(u)
           /\ LinePlaces(u, Len(u)) \subseteq LinePlaces(t, Len(t))
           /\ \A l \in 1..Len(t) : \/ \E i \in 1..Len(u) : u[i] = t[l]
                                   \/ \A m \in 1..l : t[m] \in D
                                   \/ \A m \in l..Len(t) : t[m] \in D
<1>0. t \in Seq(PlacedLine) /\ Len(t) \in Nat
  BY DEF LinesOK
<1>1. PICK a \in 1..(Len(t) + 1), b \in 0..Len(t) :
        /\ a <= b + 1
        /\ u = SubSeq(t, a, b)
        /\ \A i \in 1..(a - 1) : t[i] \in D
        /\ \A i \in (b + 1)..Len(t) : t[i] \in D
  BY DEF Stripped
<1>2. /\ u \in Seq(PlacedLine) /\ Len(u) = b - a + 1
      /\ \A i \in 1..(b - a + 1) : u[i] = t[a + i - 1] /\ a + i - 1 \in 1..Len(t)
  BY <1>0, <1>1, StrippedOf
<1>3. \A i \in 1..Len(u) : u[i] = t[a + i - 1] /\ a + i - 1 \in 1..Len(t)
  BY <1>2
<1>4. \A i \in 1..Len(u) : LineOK(u[i])
  BY <1>3 DEF LinesOK
<1>5. ASSUME NEW i \in 1..Len(u), NEW j \in 1..Len(u), i < j
      PROVE  Precede(u[i].words, u[j].words)
  <2> DEFINE k == a + i - 1
             l == a + j - 1
  <2>1. k \in 1..Len(t) /\ l \in 1..Len(t) /\ u[i] = t[k] /\ u[j] = t[l]
    BY <1>3
  <2>2. k < l
    BY <1>1, <1>2, <1>5
  <2> HIDE DEF k, l
  <2> QED BY <2>1, <2>2 DEF LinesOK
<1>6. LinesOK(u)
  BY <1>2, <1>4, <1>5 DEF LinesOK
<1>7. LinePlaces(u, Len(u)) \subseteq LinePlaces(t, Len(t))
  <2> SUFFICES ASSUME NEW i \in 1..Len(u), NEW p \in Places(u[i].words)
               PROVE  p \in LinePlaces(t, Len(t))
    BY DEF LinePlaces
  <2>1. p \in Places(t[a + i - 1].words) /\ a + i - 1 \in 1..Len(t)
    BY <1>3
  <2> QED BY <2>1 DEF LinePlaces
<1>8. ASSUME NEW l \in 1..Len(t)
      PROVE  \/ \E i \in 1..Len(u) : u[i] = t[l]
             \/ \A m \in 1..l : t[m] \in D
             \/ \A m \in l..Len(t) : t[m] \in D
  <2>1. CASE l <= a - 1
    BY <1>0, <1>1, <2>1
  <2>2. CASE l >= b + 1
    BY <1>0, <1>1, <2>2
  <2>3. CASE l > a - 1 /\ l < b + 1
    <3> DEFINE i == l - a + 1
    <3>1. i \in 1..Len(u) /\ a + i - 1 = l
      BY <1>0, <1>1, <1>2, <2>3
    <3> HIDE DEF i
    <3>2. u[i] = t[l]
      BY <1>3, <3>1
    <3> QED BY <3>1, <3>2
  <2>4. l <= a - 1 \/ l >= b + 1 \/ (l > a - 1 /\ l < b + 1)
    BY <1>0, <1>1
  <2> QED BY <2>1, <2>2, <2>3, <2>4
<1> QED BY <1>6, <1>7, <1>8

\* Blocks one part after the other.
LEMMA ArrangedFlatten ==
    ASSUME NEW parts \in Seq(Seq(DocBlock)), \A p \in 1..Len(parts) : Arranged(parts[p]),
           \A p, q \in 1..Len(parts) : p < q =>
              \A i \in 1..Len(parts[p]), j \in 1..Len(parts[q]) :
                 Precede(parts[p][i].words, parts[q][j].words)
    PROVE  Arranged(FlattenSeq(parts)) /\ SameElements(parts, FlattenSeq(parts))
<1> DEFINE x == FlattenSeq(parts)
<1>1. x \in Seq(DocBlock) /\ \E c : Cuts(c, parts, x)
  BY FlattenCuts
<1> HIDE DEF x
<1>2. PICK c : Cuts(c, parts, x)
  BY <1>1
<1>3. SameElements(parts, x)
  BY <1>1, <1>2, CutsElements
<1>4. ASSUME NEW k \in 1..Len(x)
      PROVE  BlockOK(x[k])
  <2>1. PICK p \in 1..Len(parts) : \E j \in 1..Len(parts[p]) : x[k] = parts[p][j]
    BY <1>3 DEF SameElements
  <2>2. PICK j \in 1..Len(parts[p]) : x[k] = parts[p][j]
    BY <2>1
  <2>3. Arranged(parts[p])
    BY <2>1
  <2> QED BY <2>2, <2>3 DEF Arranged
<1>5. \A p \in 1..Len(parts) : Ordered(parts[p])
  BY DEF Ordered, Arranged
<1>6. Ordered(x)
  BY <1>1, <1>2, <1>5, CutsOrdered
<1>7. Arranged(x)
  BY <1>1, <1>4, <1>6 DEF Ordered, Arranged
<1> QED BY <1>3, <1>7 DEF x

InMargin(pg, p, l) ==
    LET M == Margin(DetectRepeatedMarginKeys(pg))
    IN  \/ \A m \in 1..l : pg[p][m] \in M
        \/ \A m \in l..Len(pg[p]) : pg[p][m] \in M

\* Every line is in the margin of its page or held by a block.
Parsed(x, pg) ==
    /\ Arranged(x)
    /\ \A p \in 1..Len(pg) : \A l \in 1..Len(pg[p]) :
         pg[p][l].kind # "blank" /\ Kept(pg[p][l].words) # {} =>
            InMargin(pg, p, l) \/ \E k \in 1..Len(x) : Holds(x[k], pg[p][l])

LEMMA ParseIs ==
    ASSUME NEW pg, PagesOK(pg)
    PROVE  Parsed(Parse(pg), pg)
<1> DEFINE keys == DetectRepeatedMarginKeys(pg)
           n == Len(pg)
           strip(p) == StripRepeatedMarginLines(pg[p], keys)
           B == [p \in 1..n |-> BuildBlocksFromLines(strip(p))]
           x == Parse(pg)
<1>1. pg \in Seq(Seq(PlacedLine)) /\ n \in Nat /\ DOMAIN pg = 1..n
  BY DEF PagesOK
<1>2. x = FlattenSeq(B)
  BY <1>1 DEF Parse
<1> HIDE DEF x
<1>3. ASSUME NEW p \in 1..n
      PROVE  /\ LinesOK(pg[p]) /\ LinesOK(strip(p))
             /\ Blocked(B[p], strip(p))
             /\ LinePlaces(strip(p), Len(strip(p))) \subseteq LinePlaces(pg[p], Len(pg[p]))
             /\ \A l \in 1..Len(pg[p]) : \/ \E i \in 1..Len(strip(p)) : strip(p)[i] = pg[p][l]
                                         \/ InMargin(pg, p, l)
  <2>1. LinesOK(pg[p]) /\ pg[p] \in Seq(PlacedLine)
    BY DEF PagesOK, LinesOK
  <2> DEFINE u == strip(p)
             D == Margin(keys)
  <2>2. Stripped(u, pg[p], D)
    BY <2>1, StripIs
  <2>3. B[p] = BuildBlocksFromLines(u)
    OBVIOUS
  <2> HIDE DEF u, B, D
  <2>4. /\ LinesOK(u)
        /\ LinePlaces(u, Len(u)) \subseteq LinePlaces(pg[p], Len(pg[p]))
        /\ \A l \in 1..Len(pg[p]) : \/ \E i \in 1..Len(u) : u[i] = pg[p][l]
                                    \/ \A m \in 1..l : pg[p][m] \in D
                                    \/ \A m \in l..Len(pg[p]) : pg[p][m] \in D
    BY <2>1, <2>2, StrippedLines
  <2>5. Blocked(B[p], u)
    BY <2>3, <2>4, BlocksFromLines
  <2>6. \A l \in 1..Len(pg[p]) : (\A m \in 1..l : pg[p][m] \in D) \/ (\A m \in l..Len(pg[p]) : pg[p][m] \in D)
                                   => InMargin(pg, p, l)
    BY DEF InMargin, D
  <2> QED BY <2>1, <2>4, <2>5, <2>6 DEF u
<1> HIDE DEF strip
<1>4. B \in Seq(Seq(DocBlock)) /\ Len(B) = n
  <2>1. \A p \in 1..n : B[p] \in Seq(DocBlock)
    BY <1>3 DEF Blocked, Arranged
  <2>2. \A p \in 1..n : BuildBlocksFromLines(strip(p)) \in Seq(DocBlock)
    BY <2>1
  <2> QED BY <1>1, <2>2
<1> HIDE DEF B
<1>5. \A p \in 1..Len(B) : Arranged(B[p])
  BY <1>3, <1>4 DEF Blocked
<1>6. ASSUME NEW p \in 1..n, NEW i \in 1..Len(B[p]), NEW a \in Places(B[p][i].words)
      PROVE  a \in Place /\ a[1] = p
  <2>1. a \in LinePlaces(pg[p], Len(pg[p]))
    BY <1>3 DEF Blocked
  <2>2. PICK l \in 1..Len(pg[p]) : a \in Places(pg[p][l].words)
    BY <2>1 DEF LinePlaces
  <2>3. a[1] = p
    BY <2>2 DEF PagesOK
  <2>4. B[p][i] \in DocBlock
    BY <1>3 DEF Blocked, Arranged
  <2>5. B[p][i].words \in Seq(Word)
    BY <2>4 DEF DocBlock
  <2> QED BY <2>3, <2>5, PlacesAre
<1>7. ASSUME NEW p \in 1..Len(B), NEW q \in 1..Len(B), p < q,
             NEW i \in 1..Len(B[p]), NEW j \in 1..Len(B[q])
      PROVE  Precede(B[p][i].words, B[q][j].words)
  <2> SUFFICES ASSUME NEW a \in Places(B[p][i].words), NEW b \in Places(B[q][j].words)
               PROVE  Before(a, b)
    BY DEF Precede
  <2>1. a \in Place /\ a[1] = p
    BY <1>4, <1>6
  <2>2. b \in Place /\ b[1] = q
    BY <1>4, <1>6
  <2> QED BY <1>7, <2>1, <2>2, BeforeIs
<1>8. Arranged(x) /\ SameElements(B, x)
  BY <1>2, <1>4, <1>5, <1>7, ArrangedFlatten
<1>9. ASSUME NEW p \in 1..n, NEW l \in 1..Len(pg[p]),
             pg[p][l].kind # "blank", Kept(pg[p][l].words) # {}, ~InMargin(pg, p, l)
      PROVE  \E k \in 1..Len(x) : Holds(x[k], pg[p][l])
  <2>1. PICK i \in 1..Len(strip(p)) : strip(p)[i] = pg[p][l]
    BY <1>3, <1>9
  <2>2. PICK j \in 1..Len(B[p]) : Holds(B[p][j], pg[p][l])
    BY <1>3, <1>9, <2>1 DEF Blocked
  <2>3. PICK k \in 1..Len(x) : x[k] = B[p][j]
    BY <1>4, <1>8, <2>2 DEF SameElements
  <2> QED BY <2>2, <2>3
<1> QED BY <1>8, <1>9 DEF Parsed, x, n

-----------------------------------------------------------------------------
(* Normalization                                                           *)

Noiseless(w) == At(w, { i \in DOMAIN w : ~w[i].noise })

CleanBlock(b) == [b EXCEPT !.words = Noiseless(@)]

LEMMA NoiselessIs ==
    ASSUME NEW w \in Seq(Word), InOrder(w), NoBreaks(w)
    PROVE  /\ Noiseless(w) \in Seq(Word)
           /\ InOrder(Noiseless(w)) /\ NoBreaks(Noiseless(w))
           /\ Places(Noiseless(w)) = Kept(w)
           /\ Places(Noiseless(w)) \subseteq Places(w)
           /\ (\A i \in 1..Len(w) : ~w[i].noise) => Noiseless(w) = w
<1> DEFINE I == { i \in DOMAIN w : ~w[i].noise }
           v == Noiseless(w)
           n == Len(v)
<1>1. DOMAIN w = 1..Len(w) /\ Len(w) \in Nat /\ v = At(w, I)
  BY DEF Noiseless
<1> HIDE DEF v
<1>2. v \in Seq(Word) /\ \E e : Picks(e, v, w, I, Len(w))
  <2> HIDE DEF I
  <2> QED BY <1>1, AtPicks
<1>3. PICK e : Picks(e, v, w, I, Len(w))
  BY <1>2
<1>4. /\ e \in [1..n -> 1..Len(w)]
      /\ \A k, l \in 1..n : k < l => e[k] < e[l]
      /\ \A k \in 1..n : e[k] \in I /\ v[k] = w[e[k]]
      /\ \A i \in 1..Len(w) : i \in I => \E k \in 1..n : e[k] = i
  BY <1>3 DEF Picks, Ascends
<1> HIDE DEF n
<1>5. \A k \in 1..n : e[k] \in 1..Len(w) /\ v[k] = w[e[k]]
  BY <1>4
<1>6. InOrder(v)
  <2> SUFFICES ASSUME NEW k \in 1..n, NEW l \in 1..n, k < l
               PROVE  Before(v[k].at, v[l].at)
    BY DEF InOrder, n
  <2>1. e[k] < e[l] /\ e[k] \in 1..Len(w) /\ e[l] \in 1..Len(w) /\ v[k] = w[e[k]] /\ v[l] = w[e[l]]
    BY <1>4
  <2> QED BY <2>1 DEF InOrder
<1>7. NoBreaks(v)
  BY <1>5 DEF NoBreaks, n
<1>8. Places(v) = { v[k].at : k \in 1..n } /\ Places(w) = { w[i].at : i \in 1..Len(w) }
  BY <1>2, PlacesAre DEF n
<1>9. Places(v) = Kept(w)
  <2>1. ASSUME NEW a \in Places(v)
        PROVE  a \in Kept(w)
    <3>1. PICK k \in 1..n : a = v[k].at
      BY <1>8
    <3>2. e[k] \in I /\ a = w[e[k]].at
      BY <1>4, <3>1
    <3> QED BY <1>1, <3>2 DEF Kept
  <2>2. ASSUME NEW a \in Kept(w)
        PROVE  a \in Places(v)
    <3>1. PICK i \in 1..Len(w) : ~w[i].noise /\ a = w[i].at
      BY DEF Kept
    <3>2. PICK k \in 1..n : e[k] = i
      BY <1>1, <1>4, <3>1
    <3> QED BY <1>4, <1>8, <3>1, <3>2
  <2> QED BY <2>1, <2>2
<1>10. Places(v) \subseteq Places(w)
  BY <1>8, <1>9 DEF Kept
<1>11. ASSUME \A i \in 1..Len(w) : ~w[i].noise
       PROVE  v = w
  <2>1. I \cap 1..Len(w) = 1..Len(w) /\ Len(w) \in 0..Len(w)
    BY <1>1, <1>11
  <2>2. At(w, I) = SubSeq(w, 1, Len(w))
    <3> HIDE DEF I
    <3> QED BY <2>1, AtFirst
  <2> QED BY <1>1, <2>2, SubNone
<1> QED BY <1>2, <1>6, <1>7, <1>9, <1>10, <1>11 DEF v

LEMMA CleanBlockIs ==
    ASSUME NEW b, BlockOK(b)
    PROVE  LET c == CleanBlock(b)
           IN  /\ c \in DocBlock
               /\ c.words # <<>> => BlockOK(c)
               /\ Places(c.words) = Kept(b.words) /\ Places(c.words) \subseteq Places(b.words)
               /\ c.kind = b.kind
               /\ (\A i \in 1..Len(b.words) : ~b.words[i].noise) => c.words = b.words
<1> DEFINE c == CleanBlock(b)
           w == b.words
           v == Noiseless(w)
<1>1. b \in DocBlock /\ w \in Seq(Word) /\ InOrder(w) /\ NoBreaks(w)
  BY DEF BlockOK, DocBlock
<1>2. c = [b EXCEPT !.words = v]
  BY DEF CleanBlock
<1> HIDE DEF c
<1>3. /\ v \in Seq(Word) /\ InOrder(v) /\ NoBreaks(v)
      /\ Places(v) = Kept(w) /\ Places(v) \subseteq Places(w)
      /\ (\A i \in 1..Len(w) : ~w[i].noise) => v = w
  BY <1>1, NoiselessIs
<1> HIDE DEF v
<1>4. c \in DocBlock /\ c.words = v /\ c.kind = b.kind /\ c.level = b.level
  BY <1>1, <1>2, <1>3 DEF DocBlock
<1> QED BY <1>3, <1>4 DEF BlockOK, c

\* Every line that is no noise is in the margin of its page or held by a block.
Normalized(x, pg) ==
    /\ BlocksOK(x)
    /\ \A p \in 1..Len(pg) : \A l \in 1..Len(pg[p]) :
         LET line == pg[p][l]
         IN  line.kind # "blank" /\ ~line.noise =>
               \/ InMargin(pg, p, l)
               \/ \E k \in 1..Len(x) :
                    /\ Places(line.words) \subseteq Places(x[k].words)
                    /\ x[k].kind = "heading" => x[k].words = line.words

\* What normalization makes of a block.
LEMMA CleanedIs ==
    ASSUME NEW x \in Seq(DocBlock)
    PROVE  NormalizeBlocks(x) = At([k \in 1..Len(x) |-> CleanBlock(x[k])],
                                   { k \in 1..Len(x) : CleanBlock(x[k]).words # <<>> })
<1> DEFINE y == [k \in 1..Len(x) |-> CleanBlock(x[k])]
           I == { k \in DOMAIN y : y[k].words # <<>> }
           J == { k \in 1..Len(x) : CleanBlock(x[k]).words # <<>> }
<1>1. DOMAIN x = 1..Len(x)
  OBVIOUS
<1>2. NormalizeBlocks(x) = At(y, I)
  BY <1>1 DEF NormalizeBlocks, CleanBlock, Noiseless
<1>3. I = J
  OBVIOUS
<1> QED BY <1>2, <1>3

LEMMA NormalizeIs ==
    ASSUME NEW pg, PagesOK(pg), NEW x, Parsed(x, pg)
    PROVE  Normalized(NormalizeBlocks(x), pg)
<1> DEFINE n == Len(x)
           y == [k \in 1..n |-> CleanBlock(x[k])]
           J == { k \in 1..n : CleanBlock(x[k]).words # <<>> }
           z == NormalizeBlocks(x)
           m == Len(z)
<1>1. /\ x \in Seq(DocBlock) /\ n \in Nat
      /\ \A k \in 1..n : BlockOK(x[k])
      /\ \A k, l \in 1..n : k < l => Precede(x[k].words, x[l].words)
  BY DEF Parsed, Arranged
<1>2. ASSUME NEW k \in 1..n
      PROVE  LET c == CleanBlock(x[k])
             IN  /\ c \in DocBlock
                 /\ c.words # <<>> => BlockOK(c)
                 /\ Places(c.words) = Kept(x[k].words) /\ Places(c.words) \subseteq Places(x[k].words)
                 /\ c.kind = x[k].kind
                 /\ (\A i \in 1..Len(x[k].words) : ~x[k].words[i].noise) => c.words = x[k].words
  BY <1>1, CleanBlockIs
<1>3. y \in Seq(DocBlock) /\ Len(y) = n /\ \A k \in 1..n : y[k] = CleanBlock(x[k])
  <2>1. \A k \in 1..n : CleanBlock(x[k]) \in DocBlock
    BY <1>2
  <2> QED BY <1>1, <2>1
<1>4. z = At(y, J)
  BY <1>1, CleanedIs
<1> HIDE DEF y, z
<1>5. z \in Seq(DocBlock) /\ \E e : Picks(e, z, y, J, Len(y))
  <2> HIDE DEF J
  <2> QED BY <1>3, <1>4, AtPicks
<1>6. PICK e : Picks(e, z, y, J, Len(y))
  BY <1>5
<1>7. /\ e \in [1..m -> 1..n]
      /\ \A k, l \in 1..m : k < l => e[k] < e[l]
      /\ \A k \in 1..m : e[k] \in J /\ z[k] = y[e[k]]
      /\ \A i \in 1..n : i \in J => \E k \in 1..m : e[k] = i
  BY <1>3, <1>6 DEF Picks, Ascends
<1> HIDE DEF m
<1>8. ASSUME NEW k \in 1..m
      PROVE  /\ e[k] \in 1..n /\ z[k] = CleanBlock(x[e[k]])
             /\ BlockOK(z[k])
             /\ Places(z[k].words) \subseteq Places(x[e[k]].words)
  <2>1. e[k] \in 1..n /\ e[k] \in J /\ z[k] = CleanBlock(x[e[k]])
    BY <1>3, <1>7
  <2> QED BY <1>2, <2>1
<1>9. ASSUME NEW k \in 1..m, NEW l \in 1..m, k < l
      PROVE  Precede(z[k].words, z[l].words)
  <2>1. e[k] < e[l]
    BY <1>7, <1>9
  <2>2. Precede(x[e[k]].words, x[e[l]].words)
    BY <1>1, <1>8, <2>1
  <2>3. Places(z[k].words) \subseteq Places(x[e[k]].words)
    BY <1>8
  <2>4. Places(z[l].words) \subseteq Places(x[e[l]].words)
    BY <1>8
  <2> QED BY ONLY <2>2, <2>3, <2>4, UnitsPrecede
<1>10. BlocksOK(z)
  BY <1>5, <1>8, <1>9 DEF BlocksOK, BlockOK, NoBreaks, m
<1>11. ASSUME NEW p \in 1..Len(pg), NEW l \in 1..Len(pg[p]),
              pg[p][l].kind # "blank", ~pg[p][l].noise, ~InMargin(pg, p, l)
       PROVE  \E k \in 1..m : /\ Places(pg[p][l].words) \subseteq Places(z[k].words)
                              /\ z[k].kind = "heading" => z[k].words = pg[p][l].words
  <2> DEFINE line == pg[p][l]
             w == line.words
  <2>1. LineOK(line)
    BY DEF PagesOK, LinesOK
  <2>2. w \in Seq(Word) /\ w # <<>> /\ \A i \in 1..Len(w) : ~w[i].noise
    BY <1>11, <2>1 DEF LineOK, PlacedLine
  <2>3. Kept(w) = Places(w) /\ Places(w) # {}
    <3>1. Places(w) = { w[i].at : i \in 1..Len(w) } /\ Places(w) # {}
      <4> HIDE DEF w
      <4> QED BY <2>2, PlacesAre
    <3> QED BY <2>2, <3>1 DEF Kept
  <2>4. PICK j \in 1..n : Holds(x[j], line)
    BY <1>11, <2>3 DEF Parsed
  <2>5. Places(w) \subseteq Places(CleanBlock(x[j]).words)
    BY <1>2, <2>3, <2>4 DEF Holds
  <2>6. CleanBlock(x[j]).words # <<>>
    <3>1. Places(<<>>) = {}
      BY DEF Places
    <3> QED BY <2>3, <2>5, <3>1
  <2>7. PICK k \in 1..m : e[k] = j
    BY <1>7, <2>4, <2>6
  <2>8. z[k] = CleanBlock(x[j])
    BY <1>8, <2>7
  <2>9. z[k].kind = "heading" => z[k].words = w
    <3>1. x[j].kind = "heading" => x[j].words = w
      BY <2>3, <2>4 DEF Holds
    <3> QED BY <1>2, <2>2, <2>4, <2>8, <3>1
  <2> QED BY <2>5, <2>7, <2>8, <2>9
<1> QED BY <1>10, <1>11 DEF Normalized, z, m

\* The blocks of a file.
LEMMA DocumentIs ==
    ASSUME NEW file \in Files
    PROVE  LET pg == ExtractPageLines(file)
           IN  PagesOK(pg) /\ Normalized(NormalizeBlocks(Parse(pg)), pg)
BY ExtractOK, ParseIs, NormalizeIs

-----------------------------------------------------------------------------
(* The pipeline                                                            *)

LEMMA BatchesStay ==
    ASSUME chunks' = chunks
    PROVE  BuildBatches' = BuildBatches
BY SMT DEF BuildBatches, AddToBatch, Size, FoldLeftDomain, FoldLeft, MapThenFoldSet

FromFile == \E file \in Files : pages = ExtractPageLines(file)

\* Before there are chunks.
Unchunked ==
    /\ pc \in {"parse", "normalize", "chunk", "failed"}
    /\ chunks = <<>> /\ batch = 1 /\ attempt = 0
    /\ pc = "normalize" => blocks = Parse(pages)
    /\ pc = "chunk" => blocks = NormalizeBlocks(Parse(pages))
    /\ pc = "failed" => error \notin RetriedErrors

Made ==
    /\ blocks = NormalizeBlocks(Parse(pages))
    /\ chunks = ChunkDocument(blocks)
    /\ chunks # <<>>

\* What was sent and answered before a batch, of it and after it.
Sent(n) ==
    \A b \in 1..Len(BuildBatches) : Contains(BuildBatches[b], n) =>
        IF b < batch
        THEN vectors[n] = n /\ asked[n] \in 1..(MaxRetries + 1)
        ELSE vectors[n] = 0 /\ asked[n] = IF b = batch THEN attempt ELSE 0

Embedding ==
    /\ Made
    /\ asked \in [Nos -> Nat] /\ vectors \in [Nos -> Nat]
    /\ batch \in 1..(Len(BuildBatches) + 1)
    /\ attempt \in 0..(MaxRetries + 1)
    /\ \A n \in Nos : Sent(n)
    /\ \/ pc = "embed" /\ attempt <= MaxRetries /\ batch <= Len(BuildBatches)
       \/ pc = "answer" /\ attempt >= 1 /\ batch <= Len(BuildBatches)
       \/ pc = "done" /\ batch = Len(BuildBatches) + 1
       \/ /\ pc = "failed" /\ batch <= Len(BuildBatches)
          /\ error \in RetriedErrors => attempt = MaxRetries + 1

IInv == FromFile /\ (Unchunked \/ Embedding)

\* The chunks that were made.
LEMMA MadeChunks ==
    ASSUME FromFile, Made
    PROVE  /\ PagesOK(pages) /\ Normalized(blocks, pages) /\ BlocksOK(blocks)
           /\ chunks \in Seq(Seq(Unit)) /\ DOMAIN chunks = Nos /\ Len(chunks) \in Nat
<1>1. PICK file \in Files : pages = ExtractPageLines(file)
  BY DEF FromFile
<1>2. PagesOK(pages) /\ Normalized(blocks, pages)
  BY <1>1, DocumentIs DEF Made
<1>3. BlocksOK(blocks)
  BY <1>2 DEF Normalized
<1>4. chunks \in Seq(Seq(Unit))
  BY <1>3, ChunksTyped DEF Made
<1> QED BY <1>2, <1>3, <1>4 DEF Nos

LEMMA InitIInv == Init => IInv
<1> SUFFICES ASSUME Init PROVE IInv
  OBVIOUS
<1>1. FromFile
  BY DEF Init, FromFile
<1>2. Unchunked
  BY DEF Init, Unchunked
<1> QED BY <1>1, <1>2 DEF IInv

LEMMA NextKeepsIInv == IInv /\ [Next]_vars => IInv'
<1> SUFFICES ASSUME IInv, [Next]_vars PROVE IInv'
  OBVIOUS
<1>1. FromFile'
  <2>1. pages' = pages
    BY DEF Next, vars, ParseDocument, ParseFails, NormalizeDocument, ChunkBlocks, SendBatch,
           BatchEmbedded, CallEnds, CallIsRetried, Finished
  <2> QED BY <2>1 DEF IInv, FromFile
<1>2. ASSUME ParseDocument PROVE (Unchunked)'
  <2>1. Unchunked
    BY <1>2 DEF IInv, Embedding, ParseDocument
  <2>2. blocks' = Parse(pages) /\ pages' = pages /\ chunks' = <<>> /\ batch' = 1 /\ attempt' = 0
    BY <1>2, <2>1 DEF ParseDocument, Unchunked
  <2>3. (pc' = "failed" /\ error' = "EMPTY_DOCUMENT") \/ pc' = "normalize"
    BY <1>2 DEF ParseDocument, Fail, Proceed
  <2>4. blocks' = Parse(pages')
    BY <2>2
  <2> QED BY <2>2, <2>3, <2>4 DEF Unchunked, RetriedErrors
<1>3. ASSUME ParseFails PROVE (Unchunked)'
  <2>1. Unchunked
    BY <1>3 DEF IInv, Embedding, ParseFails
  <2> QED BY <1>3, <2>1 DEF ParseFails, Fail, Unchunked, RetriedErrors
<1>4. ASSUME NormalizeDocument PROVE (Unchunked)'
  <2>1. Unchunked /\ pc = "normalize"
    BY <1>4 DEF IInv, Embedding, NormalizeDocument
  <2>2. blocks' = NormalizeBlocks(Parse(pages)) /\ pages' = pages /\ chunks' = <<>> /\ batch' = 1 /\ attempt' = 0
    BY <1>4, <2>1 DEF NormalizeDocument, Unchunked
  <2>3. (pc' = "failed" /\ error' = "EMPTY_DOCUMENT") \/ pc' = "chunk"
    BY <1>4 DEF NormalizeDocument, Fail, Proceed
  <2>4. blocks' = NormalizeBlocks(Parse(pages'))
    BY <2>2
  <2> QED BY <2>2, <2>3, <2>4 DEF Unchunked, RetriedErrors
<1>5. ASSUME ChunkBlocks PROVE (Unchunked \/ Embedding)'
  <2>1. Unchunked /\ pc = "chunk"
    BY <1>5 DEF IInv, Embedding, ChunkBlocks
  <2>2. blocks = NormalizeBlocks(Parse(pages)) /\ pages' = pages /\ blocks' = blocks /\ batch' = 1 /\ attempt' = 0
    BY <1>5, <2>1 DEF ChunkBlocks, Unchunked
  <2>3. /\ chunks' = ChunkDocument(blocks)
        /\ asked' = [n \in DOMAIN chunks' |-> 0] /\ vectors' = [n \in DOMAIN chunks' |-> 0]
    BY <1>5 DEF ChunkBlocks
  <2>4. CASE chunks' = <<>>
    <3>1. pc' = "failed" /\ error' = "CHUNKING_FAILED"
      BY <1>5, <2>4 DEF ChunkBlocks, Fail
    <3> QED BY <2>2, <2>4, <3>1 DEF Unchunked, RetriedErrors
  <2>5. CASE chunks' # <<>>
    <3>1. pc' = "embed"
      BY <1>5, <2>5 DEF ChunkBlocks, Proceed
    <3>2. blocks' = NormalizeBlocks(Parse(pages')) /\ chunks' = ChunkDocument(blocks')
      BY <2>2, <2>3
    <3>3. Made'
      BY <2>5, <3>2 DEF Made
    <3>4. (chunks \in Seq(Seq(Unit)) /\ DOMAIN chunks = Nos /\ Len(chunks) \in Nat)'
      BY <1>1, <3>3, MadeChunks, PTL
    <3>5. (BuildBatches \in Seq(Seq(Nos)) /\ Len(BuildBatches) > 0)'
      <4>1. (chunks \in Seq(Seq(Unit)))' /\ (chunks # <<>>)'
        BY <2>5, <3>4
      <4> QED BY <4>1, BatchesAre, PTL
    <3>6. (\A n \in Nos : Sent(n))'
      BY <2>2, <2>3, <3>4, <3>5 DEF Sent
    <3>7. asked' \in [Nos' -> Nat] /\ vectors' \in [Nos' -> Nat]
      BY <2>3, <3>4
    <3>8. batch' \in 1..(Len(BuildBatches') + 1) /\ attempt' \in 0..(MaxRetries + 1) /\ attempt' <= MaxRetries /\ batch' <= Len(BuildBatches')
      BY <2>2, <3>5, PassagesAssumption
    <3> QED BY <3>1, <3>3, <3>6, <3>7, <3>8 DEF Embedding
  <2> QED BY <2>4, <2>5
<1>6. ASSUME SendBatch PROVE Embedding'
  <2>1. Embedding /\ pc = "embed"
    BY <1>6 DEF IInv, Unchunked, SendBatch
  <2>2. /\ pages' = pages /\ blocks' = blocks /\ chunks' = chunks /\ batch' = batch /\ vectors' = vectors
        /\ attempt' = attempt + 1 /\ pc' = "answer"
        /\ asked' = [n \in DOMAIN asked |-> IF Contains(Texts, n) THEN asked[n] + 1 ELSE asked[n]]
    BY <1>6 DEF SendBatch, Proceed
  <2>3. BuildBatches' = BuildBatches /\ Nos' = Nos /\ Made' /\ Made
    BY <2>1, <2>2, BatchesStay DEF Nos, Made, Embedding
  <2>4. chunks \in Seq(Seq(Unit)) /\ chunks # <<>> /\ DOMAIN chunks = Nos
    BY <2>1, MadeChunks DEF IInv, Embedding, Made
  <2> DEFINE B == BuildBatches
  <2>5. /\ asked \in [Nos -> Nat] /\ vectors \in [Nos -> Nat]
        /\ batch \in 1..(Len(B) + 1) /\ attempt \in 0..(MaxRetries + 1) /\ attempt <= MaxRetries
        /\ batch <= Len(B)
    BY <2>1 DEF Embedding
  <2>6. Len(B) \in Nat /\ batch \in 1..Len(B) /\ MaxRetries \in Nat /\ Texts = B[batch]
    <3>1. Len(B) \in Nat
      BY <2>4, BatchesAre
    <3> QED BY <2>5, <3>1, PassagesAssumption DEF Texts
  <2>7. \A n \in Nos : \A k, l \in 1..Len(B) : Contains(B[k], n) /\ Contains(B[l], n) => k = l
    BY <2>4, InBatches
  <2> HIDE DEF B
  <2>8. ASSUME NEW n \in Nos
        PROVE  Sent(n)'
    <3> SUFFICES ASSUME NEW b \in 1..Len(B), Contains(B[b], n)
                 PROVE  IF b < batch
                        THEN vectors[n] = n /\ asked'[n] \in 1..(MaxRetries + 1)
                        ELSE vectors[n] = 0 /\ asked'[n] = IF b = batch THEN attempt + 1 ELSE 0
      BY <2>2, <2>3 DEF Sent, B
    <3>1. IF b < batch
          THEN vectors[n] = n /\ asked[n] \in 1..(MaxRetries + 1)
          ELSE vectors[n] = 0 /\ asked[n] = IF b = batch THEN attempt ELSE 0
      BY <2>1 DEF Embedding, Sent, B
    <3>2. Contains(Texts, n) <=> b = batch
      BY <2>6, <2>7
    <3>3. asked'[n] = IF b = batch THEN asked[n] + 1 ELSE asked[n]
      BY <2>2, <2>5, <3>2
    <3> QED BY <2>5, <2>6, <3>1, <3>3
  <2>9. asked' \in [Nos -> Nat]
    BY <2>2, <2>5
  <2>10. attempt' \in 0..(MaxRetries + 1) /\ attempt' >= 1
    BY <2>2, <2>5, <2>6
  <2> QED BY <2>2, <2>3, <2>5, <2>8, <2>9, <2>10 DEF Embedding, B
<1>7. ASSUME BatchEmbedded PROVE Embedding'
  <2>1. Embedding /\ pc = "answer"
    BY <1>7 DEF IInv, Unchunked, BatchEmbedded
  <2>2. /\ pages' = pages /\ blocks' = blocks /\ chunks' = chunks /\ asked' = asked
        /\ batch' = batch + 1 /\ attempt' = 0
        /\ pc' = IF batch = Len(BuildBatches) THEN "done" ELSE "embed"
        /\ vectors' = [n \in DOMAIN vectors |->
                        IF Contains(Texts, n)
                        THEN Texts[SelectInSeq(Texts, LAMBDA m : m = n)] ELSE vectors[n]]
    BY <1>7 DEF BatchEmbedded, Proceed
  <2>3. BuildBatches' = BuildBatches /\ Nos' = Nos /\ Made' /\ Made
    BY <2>1, <2>2, BatchesStay DEF Nos, Made, Embedding
  <2>4. chunks \in Seq(Seq(Unit)) /\ chunks # <<>> /\ DOMAIN chunks = Nos
    BY <2>1, MadeChunks DEF IInv, Embedding, Made
  <2> DEFINE B == BuildBatches
  <2>5. /\ asked \in [Nos -> Nat] /\ vectors \in [Nos -> Nat]
        /\ batch \in 1..(Len(B) + 1) /\ attempt \in 0..(MaxRetries + 1) /\ attempt >= 1
        /\ batch <= Len(B)
    BY <2>1 DEF Embedding
  <2>6. Len(B) \in Nat /\ batch \in 1..Len(B) /\ MaxRetries \in Nat /\ Texts = B[batch]
    <3>1. Len(B) \in Nat
      BY <2>4, BatchesAre
    <3> QED BY <2>5, <3>1, PassagesAssumption DEF Texts
  <2>7. \A n \in Nos : \A k, l \in 1..Len(B) : Contains(B[k], n) /\ Contains(B[l], n) => k = l
    BY <2>4, InBatches
  <2>8. \A n \in Nos : Contains(Texts, n) => Texts[SelectInSeq(Texts, LAMBDA m : m = n)] = n
    BY <2>4, <2>6, InBatches
  <2> HIDE DEF B
  <2>9. \A n \in Nos : vectors'[n] = IF Contains(Texts, n) THEN n ELSE vectors[n]
    BY <2>2, <2>5, <2>8
  <2>10. vectors' \in [Nos -> Nat]
    <3>1. vectors' = [n \in Nos |-> vectors'[n]]
      BY <2>2, <2>5
    <3>2. \A n \in Nos : vectors'[n] \in Nat
      <4>1. \A n \in Nos : n \in Nat
        BY DEF Nos
      <4> QED BY <2>5, <2>9, <4>1
    <3> QED BY <3>1, <3>2
  <2>11. ASSUME NEW n \in Nos
         PROVE  Sent(n)'
    <3> SUFFICES ASSUME NEW b \in 1..Len(B), Contains(B[b], n)
                 PROVE  IF b < batch + 1
                        THEN vectors'[n] = n /\ asked[n] \in 1..(MaxRetries + 1)
                        ELSE vectors'[n] = 0 /\ asked[n] = IF b = batch + 1 THEN 0 ELSE 0
      BY <2>2, <2>3 DEF Sent, B
    <3>1. IF b < batch
          THEN vectors[n] = n /\ asked[n] \in 1..(MaxRetries + 1)
          ELSE vectors[n] = 0 /\ asked[n] = IF b = batch THEN attempt ELSE 0
      BY <2>1 DEF Embedding, Sent, B
    <3>2. Contains(Texts, n) <=> b = batch
      BY <2>6, <2>7
    <3> QED BY <2>5, <2>6, <2>9, <3>1, <3>2
  <2>12. batch' \in 1..(Len(B) + 1) /\ attempt' \in 0..(MaxRetries + 1) /\ attempt' <= MaxRetries
         /\ \/ pc' = "done" /\ batch' = Len(B) + 1
            \/ pc' = "embed" /\ batch' <= Len(B)
    BY <2>2, <2>6 DEF B
  <2> QED BY <2>2, <2>3, <2>5, <2>10, <2>11, <2>12 DEF Embedding, B
<1>8. ASSUME NEW code \in FinalErrors \cup RetriedErrors, CallEnds(code) PROVE Embedding'
  <2>1. Embedding /\ pc = "answer"
    BY <1>8 DEF IInv, Unchunked, CallEnds
  <2>2. /\ pages' = pages /\ blocks' = blocks /\ chunks' = chunks /\ asked' = asked /\ vectors' = vectors
        /\ batch' = batch /\ attempt' = attempt /\ pc' = "failed" /\ error' = code
        /\ code \in FinalErrors \/ attempt >= MaxRetries + 1
    BY <1>8 DEF CallEnds, Fail
  <2>3. BuildBatches' = BuildBatches /\ Nos' = Nos /\ Made'
    BY <2>1, <2>2, BatchesStay DEF Nos, Made, Embedding
  <2>4. \A n \in Nos : Sent(n)'
    BY <2>1, <2>2, <2>3 DEF Embedding, Sent
  <2>5. error' \in RetriedErrors => attempt' = MaxRetries + 1
    <3>1. FinalErrors \cap RetriedErrors = {}
      BY DEF FinalErrors, RetriedErrors
    <3>2. attempt \in 0..(MaxRetries + 1) /\ MaxRetries \in Nat
      BY <2>1, PassagesAssumption DEF Embedding
    <3> QED BY <2>2, <3>1, <3>2
  <2> QED BY <2>1, <2>2, <2>3, <2>4, <2>5 DEF Embedding
<1>9. ASSUME NEW code \in FinalErrors \cup RetriedErrors, CallIsRetried(code) PROVE Embedding'
  <2>1. Embedding /\ pc = "answer"
    BY <1>9 DEF IInv, Unchunked, CallIsRetried
  <2>2. /\ pages' = pages /\ blocks' = blocks /\ chunks' = chunks /\ asked' = asked /\ vectors' = vectors
        /\ batch' = batch /\ attempt' = attempt /\ pc' = "embed"
        /\ attempt < MaxRetries + 1
    BY <1>9 DEF CallIsRetried, Proceed
  <2>3. BuildBatches' = BuildBatches /\ Nos' = Nos /\ Made'
    BY <2>1, <2>2, BatchesStay DEF Nos, Made, Embedding
  <2>4. \A n \in Nos : Sent(n)'
    BY <2>1, <2>2, <2>3 DEF Embedding, Sent
  <2>5. attempt <= MaxRetries
    <3>1. attempt \in 0..(MaxRetries + 1) /\ MaxRetries \in Nat
      BY <2>1, PassagesAssumption DEF Embedding
    <3> QED BY <2>2, <3>1
  <2> QED BY <2>1, <2>2, <2>3, <2>4, <2>5 DEF Embedding
<1>10. ASSUME UNCHANGED vars PROVE (Unchunked \/ Embedding)'
  <2>1. /\ pages' = pages /\ blocks' = blocks /\ chunks' = chunks /\ pc' = pc /\ error' = error
        /\ batch' = batch /\ attempt' = attempt /\ asked' = asked /\ vectors' = vectors
    BY <1>10 DEF vars
  <2>2. CASE Unchunked
    BY <2>1, <2>2 DEF Unchunked
  <2>3. CASE Embedding
    <3>1. BuildBatches' = BuildBatches /\ Nos' = Nos /\ Made'
      BY <2>1, <2>3, BatchesStay DEF Nos, Made, Embedding
    <3>2. \A n \in Nos : Sent(n)'
      BY <2>1, <2>3, <3>1 DEF Embedding, Sent
    <3> QED BY <2>1, <2>3, <3>1, <3>2 DEF Embedding
  <2> QED BY <2>2, <2>3 DEF IInv
<1>11. ASSUME Finished PROVE (Unchunked \/ Embedding)'
  BY <1>10, <1>11 DEF Finished
<1> QED BY <1>1, <1>2, <1>3, <1>4, <1>5, <1>6, <1>7, <1>8, <1>9, <1>10, <1>11 DEF IInv, Next

LEMMA EmbeddedOnceHolds == IInv => EmbeddedOnce
<1> SUFFICES ASSUME IInv PROVE EmbeddedOnce
  OBVIOUS
<1>1. CASE Unchunked
  <2>1. DOMAIN chunks = {} /\ pc # "done" /\ ~ JustChunked /\ ~(pc = "failed" /\ error \in RetriedErrors)
    BY <1>1 DEF Unchunked, JustChunked
  <2> QED BY <2>1 DEF EmbeddedOnce
<1>2. CASE Embedding
  <2> DEFINE B == BuildBatches
  <2>1. chunks \in Seq(Seq(Unit)) /\ chunks # <<>> /\ DOMAIN chunks = Nos
    BY <1>2, MadeChunks DEF IInv, Embedding, Made
  <2>2. /\ batch \in 1..(Len(B) + 1) /\ attempt \in 0..(MaxRetries + 1) /\ MaxRetries \in Nat
        /\ \A n \in Nos : Sent(n)
    BY <1>2, PassagesAssumption DEF Embedding
  <2>3. /\ \A n \in Nos : \E k \in 1..Len(B) : Contains(B[k], n)
        /\ \A k \in 1..Len(B) : \E n \in Nos : Contains(B[k], n)
    BY <2>1, InBatches
  <2>4. B \in Seq(Seq(Nos)) /\ Len(B) \in Nat /\ DOMAIN B = 1..Len(B)
        /\ (\E c : Cuts(c, B, Numbers)) /\ \A k \in 1..Len(B) : BatchOK(B[k])
    BY <2>1, BatchesAre
  <2>5. \A n \in Nos : \E k \in 1..Len(B) :
           /\ Contains(B[k], n)
           /\ k < batch => vectors[n] = n /\ asked[n] \in 1..(MaxRetries + 1)
           /\ ~(k < batch) => vectors[n] = 0 /\ asked[n] = IF k = batch THEN attempt ELSE 0
    BY <2>2, <2>3 DEF Sent
  <2> HIDE DEF B
  <2>6. pc = "done" => \A n \in DOMAIN chunks : vectors[n] = n
    <3>1. pc = "done" => batch = Len(B) + 1
      BY <1>2 DEF Embedding, B
    <3> QED BY <2>1, <2>4, <2>5, <3>1
  <2>7. \A n \in DOMAIN chunks : /\ asked[n] <= MaxRetries + 1
                                 /\ vectors[n] # 0 => asked[n] > 0
    BY <2>1, <2>2, <2>5
  <2>8. pc = "failed" /\ error \in RetriedErrors =>
           \E n \in DOMAIN chunks : vectors[n] = 0 /\ asked[n] = MaxRetries + 1
    <3> SUFFICES ASSUME pc = "failed", error \in RetriedErrors
                 PROVE  \E n \in Nos : vectors[n] = 0 /\ asked[n] = MaxRetries + 1
      BY <2>1
    <3>1. attempt = MaxRetries + 1 /\ batch <= Len(B)
      BY <1>2 DEF Embedding, B
    <3>2. batch \in 1..Len(B)
      BY <2>2, <2>4, <3>1
    <3>3. PICK n \in Nos : Contains(B[batch], n)
      BY <2>3, <3>2
    <3>4. vectors[n] = 0 /\ asked[n] = attempt
      BY <2>2, <3>2, <3>3 DEF Sent, B
    <3> QED BY <3>1, <3>3, <3>4
  <2>9. /\ FlattenSeq(B) = [n \in DOMAIN chunks |-> n]
        /\ \A b \in Range(B) : /\ Len(b) \in 1..BatchSize
                               /\ Size(b) <= BatchTokenLimit \/ Len(b) = 1
    <3>1. PICK c : Cuts(c, B, Numbers)
      BY <2>4
    <3>2. Numbers \in Seq(Nos)
      <4>1. Len(chunks) \in Nat
        BY <2>1
      <4> QED BY <4>1 DEF Numbers, Nos
    <3>3. FlattenSeq(B) = Numbers
      BY <2>4, <3>1, <3>2, FlattenIs
    <3>4. \A b \in Range(B) : BatchOK(b)
      BY <2>4 DEF Range
    <3> QED BY <2>1, <3>3, <3>4 DEF Numbers, BatchOK
  <2> QED BY <2>6, <2>7, <2>8, <2>9 DEF EmbeddedOnce, B
<1> QED BY <1>1, <1>2 DEF IInv

\* Until the chunks are made, lines, blocks and chunks are those of a file, stage
\* by stage; from then on the chunks stand, the batches answered so far have
\* their vectors, and each text was sent as often as its batch was tried.
THEOREM PassagesInductive == Spec => []IInv
  BY InitIInv, NextKeepsIInv, PTL DEF Spec

\* Batches of texts cover the chunks in order and within both limits, a text is
\* sent once per attempt and never after its batch was answered, and what is done
\* has every chunk with the vector of its own text
\* (openai_embedding_client.py:59-185).
THEOREM EmbeddedOnceAlways == Spec => []EmbeddedOnce
  BY PassagesInductive, EmbeddedOnceHolds, PTL

-----------------------------------------------------------------------------
(* Chunks fit                                                              *)

LEMMA UnitsTokensCount ==
    ASSUME NEW us \in Seq(Unit), \A i \in 1..Len(us) : us[i].words # <<>>
    PROVE  UnitsTokens(us) >= Len(us)
<1> DEFINE ts == [k \in 1..Len(us) |-> Tokens(us[k].words)]
<1>1. UnitsTokens(us) = Total(ts)
  BY UnitsTokensAre
<1>2. ASSUME NEW i \in 1..Len(us)
      PROVE  Tokens(us[i].words) \in Nat \ {0}
  <2>1. us[i].words \in Seq(Word) /\ us[i].words # <<>>
    BY UnitFields
  <2>2. Tokens(us[i].words) \in Nat /\ Tokens(us[i].words) >= Len(us[i].words)
    BY <2>1, TokensAre
  <2>3. Len(us[i].words) \in Nat /\ Len(us[i].words) > 0
    BY <2>1
  <2> QED BY <2>2, <2>3
<1>3. ts \in Seq(Nat \ {0}) /\ Len(ts) = Len(us)
  <2>1. Len(us) \in Nat
    OBVIOUS
  <2> QED BY <1>2, <2>1
<1> HIDE DEF ts
<1>4. Total(ts) >= Len(ts)
  BY <1>3, TotalCounts
<1> QED BY <1>1, <1>3, <1>4

\* A chunk of one section fits, or is one part that was too large.
FitsOrWhole(ch, x) ==
    LET body == BodyUnits(ch)
    IN  \/ UnitsTokens(ch) <= Target
        \/ /\ Len(body) = 1
           /\ \E title \in Titles(ch) \cup {NoTitle} :
                \/ Len(body[1].words) = 1
                \/ \E s \in Range(BuildSections(x)) :
                     /\ s.title = title
                     /\ \E text \in Range(SectionTexts(s.blocks)) :
                          \E way \in Range(Splits(text)) : Len(way) > 1 /\ body[1].words \in Range(way)

LEMMA StickyTitle ==
    ASSUME NEW us \in Seq(SourcedUnit), us # <<>>, NEW title \in Seq(Word), title # NoTitle
    PROVE  /\ ApplyStickyHeading(us, title)[1] = TitleUnit(title, {Min(us[1].from)})
           /\ ApplyStickyHeading(us, title) = <<TitleUnit(title, {Min(us[1].from)})>> \o us
           /\ 1 \in DOMAIN ApplyStickyHeading(us, title)
           /\ title \in Titles(ApplyStickyHeading(us, title))
<1> DEFINE t == TitleUnit(title, {Min(us[1].from)})
           ch == ApplyStickyHeading(us, title)
<1>1. ch = <<t>> \o us
  BY DEF ApplyStickyHeading
<1>2. t \in SourcedUnit /\ t.heading = TRUE /\ t.words = title
  <2>1. t \in SourcedUnit
    BY StickyTyped
  <2> QED BY <2>1 DEF TitleUnit
<1> HIDE DEF t, ch
<1>3. <<t>> \o us \in Seq(SourcedUnit) /\ Len(<<t>> \o us) = 1 + Len(us) /\ (<<t>> \o us)[1] = t
  <2>1. <<t>> \in Seq(SourcedUnit) /\ Len(<<t>>) = 1 /\ <<t>>[1] = t
    BY <1>2
  <2> QED BY <2>1, ConcatProperties
<1>4. ch[1] = t /\ 1 \in DOMAIN ch
  BY <1>1, <1>3
<1>5. title \in Titles(ch)
  BY <1>2, <1>4 DEF Titles
<1> QED BY <1>1, <1>4, <1>5 DEF ch, t

LEMMA SectionChunkFits ==
    ASSUME NEW x, NEW s \in Section, s \in Range(BuildSections(x)), NEW ch, OfSection(ch, s)
    PROVE  FitsOrWhole(ch, x)
<1>1. PICK us \in Seq(SourcedUnit) :
        /\ us # <<>>
        /\ \A i \in 1..Len(us) : UnitFrom(us[i], s)
        /\ Len(us) = 1 \/ UnitsTokens(us) <= RoomBeside(s.title)
        /\ ch = ApplyStickyHeading(us, s.title)
  BY DEF OfSection
<1> DEFINE title == s.title
           room == RoomBeside(title)
<1>2. title \in Seq(Word)
  BY SectionFields
<1>3. /\ room \in Nat /\ room >= 1
      /\ room + Tokens(title) <= Target \/ room = 1
  BY <1>2, RoomTyped
<1>4. Plain(us) /\ us \in Seq(Unit) /\ Len(us) \in Nat /\ Len(us) > 0
  <2>1. us \in Seq(Unit)
    BY SourcedTyped
  <2> QED BY <1>1, <2>1 DEF Plain, UnitFrom
<1>5. BodyUnits(ch) = us /\ UnitsTokens(ch) = Tokens(title) + UnitsTokens(us)
  BY <1>1, <1>2, <1>4, StickyBody
<1>6. UnitsTokens(us) \in Nat /\ Tokens(title) \in Nat /\ Target \in Nat
  BY <1>2, <1>4, UnitsTokensAre, TokensAre, SettingsAssumption
<1>7. \A i \in 1..Len(us) : us[i].words # <<>>
  BY <1>1 DEF UnitFrom, PartOK
<1>8. UnitsTokens(us) >= Len(us)
  BY <1>4, <1>7, UnitsTokensCount
<1>9. title \in Titles(ch) \cup {NoTitle}
  BY <1>1, <1>2, StickyTitle
<1> HIDE DEF room, title
<1>10. CASE UnitsTokens(us) <= room /\ room + Tokens(title) <= Target
  <2>1. UnitsTokens(ch) <= Target
    BY <1>3, <1>5, <1>6, <1>10
  <2> QED BY <2>1 DEF FitsOrWhole
<1>11. CASE Len(us) = 1 /\ (Len(us[1].words) = 1
                            \/ \E text \in Range(SectionTexts(s.blocks)) :
                                 \E way \in Range(Splits(text)) : Len(way) > 1 /\ us[1].words \in Range(way))
  BY <1>5, <1>9, <1>11 DEF FitsOrWhole, title
<1>12. CASE UnitsTokens(us) <= room /\ room = 1
  <2>1. Len(us) = 1 /\ UnitsTokens(us) = 1
    <3> DEFINE m == Len(us)
               t == UnitsTokens(us)
    <3>1. m \in Nat /\ m > 0 /\ t \in Nat /\ t >= m /\ t <= room /\ room = 1
      BY <1>4, <1>6, <1>8, <1>12
    <3> HIDE DEF m, t
    <3>2. m = 1 /\ t = 1
      BY <3>1
    <3> QED BY <3>2 DEF m, t
  <2> DEFINE w == us[1].words
  <2>2. 1 \in 1..Len(us)
    BY <2>1
  <2>3. w \in Seq(Word) /\ w # <<>> /\ Tokens(w) <= UnitsTokens(us)
    BY <1>4, <1>7, <2>2, UnitFields, UnitsTokensAre
  <2> HIDE DEF w
  <2>4. Tokens(w) >= Len(w) /\ Tokens(w) \in Nat /\ Len(w) \in Nat /\ Len(w) > 0
    <3>1. Tokens(w) >= Len(w) /\ Tokens(w) \in Nat
      BY <2>3, TokensAre
    <3>2. Len(w) \in Nat /\ Len(w) > 0
      BY <2>3
    <3> QED BY <3>1, <3>2
  <2>5. Len(w) = 1
    BY <2>1, <2>3, <2>4
  <2> QED BY <1>11, <2>1, <2>5 DEF w
<1>13. CASE Len(us) = 1
  <2> DEFINE w == us[1].words
  <2>1. 1 \in 1..Len(us)
    BY <1>13
  <2>2. PICK text \in Range(SectionTexts(s.blocks)) : PartOK(w, text, room)
    BY <1>1, <2>1 DEF UnitFrom, room, title
  <2>3. us[1] \in Unit /\ us = <<us[1]>>
    BY <1>4, <1>13, SMTT(30)
  <2>4. UnitsTokens(us) = Tokens(w)
    BY <2>3, UnitsTokensOne
  <2>5. CASE Tokens(w) <= room
    BY <1>3, <1>10, <1>12, <2>4, <2>5
  <2>6. CASE Len(w) = 1
    BY <1>11, <1>13, <2>6
  <2>7. CASE \E way \in Range(Splits(text)) : Len(way) > 1 /\ w \in Range(way)
    BY <1>11, <1>13, <2>2, <2>7
  <2> HIDE DEF w
  <2> QED BY <2>2, <2>5, <2>6, <2>7 DEF PartOK
<1>14. Len(us) = 1 \/ UnitsTokens(us) <= room
  BY <1>1 DEF room, title
<1> QED BY <1>3, <1>10, <1>12, <1>13, <1>14

LEMMA ChunkFits ==
    ASSUME NEW x, BlocksOK(x), NEW n \in 1..Len(ChunkDocument(x))
    PROVE  FitsOrWhole(ChunkDocument(x)[n], x)
<1> DEFINE ch == ChunkDocument(x)[n]
           gs == DocGroups(x)
           S == BuildSections(x)
<1>1. PICK g \in 1..Len(gs) : ChunkOf(ch, gs[g])
  BY ChunksAre DEF Chunked
<1>2. Groups(gs, S, x)
  BY GroupsFit DEF DocGroups
<1> HIDE DEF ch, gs, S
<1>3. gs \in Seq(Seq(Section)) /\ S \in Seq(Section) /\ gs[g] \in Seq(Section)
  BY <1>1, <1>2 DEF Groups
<1>4. CASE Len(gs[g]) # 1
  BY <1>1, <1>4 DEF ChunkOf, FitsOrWhole, ch
<1>5. CASE Len(gs[g]) = 1
  <2>1. 1 \in 1..Len(gs[g])
    BY <1>5
  <2>2. PICK c : Cuts(c, gs, S)
    BY <1>2 DEF Groups
  <2>3. SameElements(gs, S)
    BY <1>3, <2>2, CutsElements
  <2>4. PICK i \in 1..Len(S) : S[i] = gs[g][1]
    BY <1>1, <2>1, <2>3 DEF SameElements
  <2>5. gs[g][1] \in Range(S) /\ gs[g][1] \in Section
    BY <1>3, <2>1, <2>4 DEF Range
  <2>6. OfSection(ch, gs[g][1])
    BY <1>1, <1>5 DEF ChunkOf
  <2> QED BY <2>5, <2>6, SectionChunkFits DEF ch, S
<1> QED BY <1>4, <1>5

-----------------------------------------------------------------------------
(* What neighbours share                                                   *)

Share(before, after) == At(after, { k \in DOMAIN after : Contains(before, after[k]) })

Distinct(U) == \A i, j \in 1..Len(U) : U[i] = U[j] => i = j

LEMMA SpanIs ==
    ASSUME NEW C, NEW U \in Seq(C), NEW a \in 1..(Len(U) + 1), NEW b \in (a - 1)..Len(U)
    PROVE  /\ SubSeq(U, a, b) \in Seq(C)
           /\ Len(SubSeq(U, a, b)) = (b - a) + 1
           /\ \A k \in 1..((b - a) + 1) : SubSeq(U, a, b)[k] = U[(a + k) - 1]
<1>1. a \in Nat /\ b \in Nat /\ Len(U) \in Nat /\ a >= 1 /\ b <= Len(U) /\ a <= b + 1
  OBVIOUS
<1>2. /\ SubSeq(U, a, b) \in Seq(C)
      /\ Len(SubSeq(U, a, b)) = (b - a) + 1
  BY <1>1, SubSeqProperties
<1>3. \A k \in 1..((b - a) + 1) : SubSeq(U, a, b)[k] = U[(a + k) - 1]
  BY <1>1, SubSeqProperties
<1> QED BY <1>2, <1>3

LEMMA SharedIs ==
    ASSUME NEW C, NEW U \in Seq(C), Distinct(U),
           NEW c \in 1..Len(U), NEW d \in c..Len(U), NEW a \in c..(d + 1), NEW b \in (d + 1)..Len(U)
    PROVE  Share(SubSeq(U, c, d), SubSeq(U, a, b)) = SubSeq(U, a, d)
<1> DEFINE before == SubSeq(U, c, d)
           after == SubSeq(U, a, b)
           m == (d - a) + 1
           I == { k \in DOMAIN after : Contains(before, after[k]) }
<1>1. /\ a \in Nat /\ b \in Nat /\ c \in Nat /\ d \in Nat /\ Len(U) \in Nat
      /\ 1 <= c /\ c <= a /\ a <= d + 1 /\ d + 1 <= b /\ b <= Len(U) /\ c <= d
  OBVIOUS
<1>2. /\ before \in Seq(C) /\ Len(before) = (d - c) + 1
      /\ \A k \in 1..((d - c) + 1) : before[k] = U[(c + k) - 1]
  <2>1. c \in 1..(Len(U) + 1) /\ d \in (c - 1)..Len(U)
    BY <1>1
  <2> QED BY <2>1, SpanIs
<1>3. /\ after \in Seq(C) /\ Len(after) = (b - a) + 1
      /\ \A k \in 1..((b - a) + 1) : after[k] = U[(a + k) - 1]
  <2>1. a \in 1..(Len(U) + 1) /\ b \in (a - 1)..Len(U)
    BY <1>1
  <2> QED BY <2>1, SpanIs
<1>4. m \in Nat /\ m < (b - a) + 1 /\ m \in 0..Len(after)
  BY <1>1, <1>3
<1> HIDE DEF before, after
<1>5. ASSUME NEW k \in 1..Len(after)
      PROVE  Contains(before, after[k]) <=> k <= m
  <2>1. k \in Nat /\ k >= 1 /\ k <= (b - a) + 1
    BY <1>1, <1>3
  <2>2. after[k] = U[(a + k) - 1] /\ (a + k) - 1 \in 1..Len(U)
    BY <1>1, <1>3, <2>1
  <2>3. ASSUME k <= m
        PROVE  Contains(before, after[k])
    <3> DEFINE j == (a + k) - c
    <3>1. j \in 1..((d - c) + 1) /\ (c + j) - 1 = (a + k) - 1
      BY <1>1, <2>1, <2>3
    <3> HIDE DEF j
    <3>2. before[j] = after[k] /\ j \in 1..Len(before)
      BY <1>2, <2>2, <3>1
    <3> QED BY <3>2 DEF Contains
  <2>4. ASSUME Contains(before, after[k])
        PROVE  k <= m
    <3>1. PICK j \in 1..Len(before) : before[j] = after[k]
      BY <2>4 DEF Contains
    <3>2. j \in 1..((d - c) + 1) /\ j \in Nat
      BY <1>1, <1>2, <3>1
    <3>3. (c + j) - 1 \in 1..Len(U) /\ (c + j) - 1 <= d
      BY <1>1, <3>2
    <3>4. U[(c + j) - 1] = U[(a + k) - 1]
      BY <1>2, <2>2, <3>1, <3>2
    <3>5. (c + j) - 1 = (a + k) - 1
      BY <2>2, <3>3, <3>4 DEF Distinct
    <3> QED BY <1>1, <2>1, <3>3, <3>5
  <2> QED BY <2>3, <2>4
<1>6. DOMAIN after = 1..Len(after) /\ Len(after) \in Nat
  BY <1>3
<1> HIDE DEF m
<1>7. I \cap 1..Len(after) = 1..m
  BY <1>4, <1>5, <1>6
<1> HIDE DEF I
<1>8. At(after, I) = SubSeq(after, 1, m)
  BY <1>3, <1>4, <1>7, AtFirst
<1>9. SubSeq(after, 1, m) = SubSeq(U, a, d)
  <2> DEFINE s == SubSeq(after, 1, m)
             t == SubSeq(U, a, d)
  <2>1. s \in Seq(C) /\ Len(s) = m /\ \A k \in 1..m : s[k] = after[k]
    BY <1>3, <1>4, SubSeqProperties
  <2>2. /\ t \in Seq(C) /\ Len(t) = m
        /\ \A k \in 1..m : t[k] = U[(a + k) - 1]
    <3>1. a \in 1..(Len(U) + 1) /\ d \in (a - 1)..Len(U)
      BY <1>1
    <3> QED BY <3>1, SpanIs DEF m
  <2>3. \A k \in 1..m : after[k] = U[(a + k) - 1]
    <3>1. \A k \in 1..m : k \in 1..((b - a) + 1)
      BY <1>1, <1>4
    <3> QED BY <1>3, <3>1
  <2> HIDE DEF s, t
  <2>4. \A k \in 1..Len(s) : s[k] = t[k]
    BY <2>1, <2>2, <2>3
  <2>5. s = t
    BY <2>1, <2>2, <2>4, SeqEqual
  <2> QED BY <2>5 DEF s, t
<1> QED BY <1>8, <1>9 DEF Share, before, after, I

LEMMA ReverseIs ==
    ASSUME NEW C, NEW s \in Seq(C), NEW n, n = Len(s)
    PROVE  /\ Reverse(s) \in Seq(C) /\ Len(Reverse(s)) = n
           /\ \A k \in 1..n : Reverse(s)[k] = s[(n - k) + 1]
<1>1. n \in Nat /\ \A k \in 1..n : s[(n - k) + 1] \in C
  <2>1. n \in Nat
    OBVIOUS
  <2>2. \A k \in 1..n : (n - k) + 1 \in 1..n
    BY <2>1
  <2> QED BY <2>1, <2>2
<1>2. Reverse(s) = [k \in 1..n |-> s[(n - k) + 1]]
  BY DEF Reverse
<1> QED BY <1>1, <1>2

LEMMA SharedEnds ==
    ASSUME NEW C, NEW U \in Seq(C),
           NEW c \in 1..Len(U), NEW d \in c..Len(U), NEW a \in c..(d + 1), NEW b \in (d + 1)..Len(U)
    PROVE  /\ IsPrefix(SubSeq(U, a, d), SubSeq(U, a, b))
           /\ SubSeq(U, a, d) # SubSeq(U, a, b)
           /\ IsSuffix(SubSeq(U, a, d), SubSeq(U, c, d))
           /\ Len(SubSeq(U, a, d)) = (d - a) + 1
<1> DEFINE s == SubSeq(U, a, d)
           before == SubSeq(U, c, d)
           after == SubSeq(U, a, b)
           m == (d - a) + 1
<1>1. /\ a \in Nat /\ b \in Nat /\ c \in Nat /\ d \in Nat /\ Len(U) \in Nat
      /\ 1 <= c /\ c <= a /\ a <= d + 1 /\ d + 1 <= b /\ b <= Len(U) /\ c <= d
  OBVIOUS
<1>2. /\ before \in Seq(C) /\ Len(before) = (d - c) + 1
      /\ \A k \in 1..((d - c) + 1) : before[k] = U[(c + k) - 1]
  <2>1. c \in 1..(Len(U) + 1) /\ d \in (c - 1)..Len(U)
    BY <1>1
  <2> QED BY <2>1, SpanIs
<1>3. /\ after \in Seq(C) /\ Len(after) = (b - a) + 1
      /\ \A k \in 1..((b - a) + 1) : after[k] = U[(a + k) - 1]
  <2>1. a \in 1..(Len(U) + 1) /\ b \in (a - 1)..Len(U)
    BY <1>1
  <2> QED BY <2>1, SpanIs
<1>4. /\ s \in Seq(C) /\ Len(s) = (d - a) + 1
      /\ \A k \in 1..((d - a) + 1) : s[k] = U[(a + k) - 1]
  <2>1. a \in 1..(Len(U) + 1) /\ d \in (a - 1)..Len(U)
    BY <1>1
  <2> QED BY <2>1, SpanIs
<1>5. m \in Nat /\ m < (b - a) + 1 /\ m <= (d - c) + 1
  BY <1>1
<1>6. \A k \in 1..m : k \in 1..((b - a) + 1) /\ s[k] = after[k]
  <2>1. \A k \in 1..m : k \in 1..((b - a) + 1)
    BY <1>1
  <2> QED BY <1>3, <1>4, <2>1
<1>7. ASSUME NEW k \in 1..m
      PROVE  s[(m - k) + 1] = before[(((d - c) + 1) - k) + 1]
  <2> DEFINE i == (m - k) + 1
             j == (((d - c) + 1) - k) + 1
  <2>1. i \in 1..((d - a) + 1) /\ j \in 1..((d - c) + 1) /\ (a + i) - 1 = (c + j) - 1
    BY <1>1
  <2> HIDE DEF i, j
  <2>2. s[i] = U[(a + i) - 1] /\ before[j] = U[(c + j) - 1]
    BY <1>2, <1>4, <2>1
  <2>3. s[i] = before[j]
    BY <2>1, <2>2
  <2> QED BY <2>3 DEF i, j
<1>8. Len(s) = m
  BY <1>4
<1> DEFINE h == (d - c) + 1
<1>9. h \in Nat /\ Len(before) = h /\ m <= h
  BY <1>1, <1>2, <1>5
<1>10. \A k \in 1..m : s[(m - k) + 1] = before[(h - k) + 1]
  BY <1>7
<1> HIDE DEF s, before, after, m, h
<1>11. IsPrefix(s, after) /\ s # after
  <2>1. Len(s) <= Len(after) /\ Len(s) # Len(after)
    BY <1>1, <1>3, <1>5, <1>8
  <2>2. SubSeq(s, 1, Len(s)) = SubSeq(after, 1, Len(s))
    <3>1. \A k \in 1..m : s[k] = after[k]
      BY <1>6
    <3>2. m \in Nat /\ m <= Len(s) /\ m <= Len(after)
      BY <1>5, <1>8, <2>1
    <3>3. s \in Seq(C) /\ after \in Seq(C)
      BY <1>3, <1>4
    <3>4. SubSeq(s, 1, m) = SubSeq(after, 1, m)
      BY ONLY <3>1, <3>2, <3>3, SubSeqAlike
    <3> QED BY <1>8, <3>4
  <2> QED BY <2>1, <2>2 DEF IsPrefix
<1>12. IsSuffix(s, before)
  <2> DEFINE rs == Reverse(s)
             rb == Reverse(before)
  <2>1. rs \in Seq(C) /\ Len(rs) = m /\ \A k \in 1..m : rs[k] = s[(m - k) + 1]
    BY <1>4, <1>8, <1>5, ReverseIs, SMTT(30)
  <2>2. rb \in Seq(C) /\ Len(rb) = h /\ \A k \in 1..h : rb[k] = before[(h - k) + 1]
    BY <1>2, <1>9, ReverseIs, ZenonT(40)
  <2> HIDE DEF rs, rb
  <2>3. \A k \in 1..m : k \in 1..h
    BY <1>5, <1>9
  <2>4. \A k \in 1..m : rs[k] = rb[k]
    BY <1>10, <2>1, <2>2, <2>3
  <2>5. SubSeq(rs, 1, m) = SubSeq(rb, 1, m)
    BY <1>5, <1>9, <2>1, <2>2, <2>4, SubSeqAlike
  <2>6. IsPrefix(rs, rb)
    BY <1>9, <2>1, <2>2, <2>5 DEF IsPrefix
  <2> QED BY <2>6 DEF IsSuffix, rs, rb
<1>13. Len(s) = (d - a) + 1
  BY <1>4
<1> QED BY <1>11, <1>12, <1>13 DEF s, before, after

LEMMA DocUnitFrom ==
    ASSUME NEW x, BlocksOK(x), NEW i \in 1..Len(DocUnits(x))
    PROVE  \E j \in 1..Len(BuildSections(x)) : UnitFrom(DocUnits(x)[i], BuildSections(x)[j])
<1> DEFINE gs == DocGroups(x)
           S == BuildSections(x)
           BS == [g \in 1..Len(gs) |-> BodyOfGroup(gs[g])]
           W == DocUnits(x)
<1>1. Groups(gs, S, x)
  BY GroupsFit DEF DocGroups
<1>2. W \in Seq(SourcedUnit) /\ BS \in Seq(Seq(SourcedUnit)) /\ Len(BS) = Len(gs)
  BY DocUnitsAre
<1>3. PICK d : Cuts(d, BS, W)
  BY DocUnitsAre
<1>4. \A g \in 1..Len(gs) : BS[g] = BodyOfGroup(gs[g])
  OBVIOUS
<1>5. i \in 1..Len(W)
  OBVIOUS
<1> HIDE DEF gs, S, BS, W
<1>6. SameElements(BS, W)
  BY <1>2, <1>3, CutsElements
<1>7. PICK g \in 1..Len(gs) : \E m \in 1..Len(BS[g]) : W[i] = BS[g][m]
  BY <1>2, <1>5, <1>6 DEF SameElements
<1>8. PICK m \in 1..Len(BodyOfGroup(gs[g])) : W[i] = BodyOfGroup(gs[g])[m]
  BY <1>4, <1>7
<1>9. gs \in Seq(Seq(Section)) /\ S \in Seq(Section) /\ \A k \in 1..Len(gs[g]) : SectionFit(gs[g][k])
  BY <1>1, <1>7 DEF Groups
<1>10. gs[g] \in Seq(Section)
  BY <1>7, <1>9
<1>11. \E k \in 1..Len(gs[g]) : UnitFrom(BodyOfGroup(gs[g])[m], gs[g][k])
  BY <1>8, <1>9, <1>10, GroupUnitFrom
<1>12. PICK k \in 1..Len(gs[g]) : UnitFrom(BodyOfGroup(gs[g])[m], gs[g][k])
  BY <1>11
<1>13. PICK c : Cuts(c, gs, S)
  BY <1>1 DEF Groups
<1>14. SameElements(gs, S)
  BY <1>9, <1>13, CutsElements
<1>15. PICK j \in 1..Len(S) : S[j] = gs[g][k]
  BY <1>7, <1>12, <1>14 DEF SameElements
<1>16. UnitFrom(W[i], S[j])
  BY <1>8, <1>12, <1>15
<1> QED BY <1>15, <1>16 DEF W, S

LEMMA DocUnitsDistinct ==
    ASSUME NEW x, BlocksOK(x)
    PROVE  Distinct(DocUnits(x))
<1> DEFINE W == DocUnits(x)
<1>1. W \in Seq(Unit) /\ Ordered(W)
  BY DocUnitsAre
<1>2. ASSUME NEW i \in 1..Len(W)
      PROVE  \E p \in Places(W[i].words) : p \in Place
  <2>1. PICK j \in 1..Len(BuildSections(x)) : UnitFrom(W[i], BuildSections(x)[j])
    BY DocUnitFrom
  <2>2. W[i].words # <<>>
    BY <2>1 DEF UnitFrom, PartOK
  <2>3. W[i].words \in Seq(Word)
    BY <1>1, UnitFields
  <2> QED BY <2>2, <2>3, PlacesAre
<1> HIDE DEF W
<1>3. ASSUME NEW i \in 1..Len(W), NEW j \in 1..Len(W), W[i] = W[j], i < j
      PROVE  FALSE
  <2>1. Precede(W[i].words, W[i].words)
    BY <1>1, <1>3 DEF Ordered
  <2>2. PICK p \in Places(W[i].words) : p \in Place
    BY <1>2
  <2>3. Before(p, p)
    BY <2>1, <2>2 DEF Precede
  <2> QED BY <2>2, <2>3, NotBefore
<1>4. ASSUME NEW i \in 1..Len(W), NEW j \in 1..Len(W), W[i] = W[j]
      PROVE  i = j
  <2>1. i \in Nat /\ j \in Nat
    BY <1>1
  <2>2. ~ (i < j) /\ ~ (j < i)
    BY <1>3, <1>4
  <2> QED BY <2>1, <2>2
<1> QED BY <1>4 DEF Distinct, W

\* What the two neighbours m - 1 and m of the chunks chs share.
SharesLittle(before, after) ==
    LET shared == Share(before, after)
    IN  /\ IsPrefix(shared, after) /\ shared # after
        /\ IsSuffix(shared, before)
        /\ Len(shared) > 1 => UnitsTokens(Tail(shared)) < Overlap

LEMMA NeighboursShare ==
    ASSUME NEW chs, NEW U \in Seq(Unit), Distinct(U), Bodies(chs, U),
           NEW m \in 2..Len(chs), Len(chs) \in Nat
    PROVE  SharesLittle(BodyUnits(chs[m - 1]), BodyUnits(chs[m]))
<1>1. PICK ws : /\ WindowsTo(ws, Len(U)) /\ Overlaps(ws, U)
                /\ Len(ws) = Len(chs)
                /\ \A i \in 1..Len(chs) : BodyUnits(chs[i]) = Win(U, ws[i])
  BY DEF Bodies
<1> DEFINE c == ws[m - 1].lo
           d == ws[m - 1].hi
           a == ws[m].lo
           b == ws[m].hi
           before == BodyUnits(chs[m - 1])
           after == BodyUnits(chs[m])
           s == Share(before, after)
<1>2. m \in 1..Len(ws) /\ m - 1 \in 1..Len(ws) /\ m \in 2..Len(ws)
  BY <1>1
<1>3. before = SubSeq(U, c, d) /\ after = SubSeq(U, a, b)
  BY <1>1, <1>2 DEF Win
<1>4. c <= a /\ a <= d + 1 /\ d < b
  BY <1>1, <1>2 DEF WindowsTo
<1>5. c \in 1..Len(U) /\ d \in c..Len(U)
  BY <1>1, <1>2, WinTyped
<1>6. a \in 1..Len(U) /\ b \in a..Len(U)
  BY <1>1, <1>2, WinTyped
<1>7. a < d => UnitsTokens(SubSeq(U, a + 1, d)) < Overlap
  BY <1>1, <1>2 DEF Overlaps
<1> HIDE DEF a, b, c, d
<1>8. /\ a \in c..(d + 1) /\ b \in (d + 1)..Len(U)
      /\ a \in Nat /\ d \in Nat /\ d <= Len(U) /\ a >= 1
  BY <1>4, <1>5, <1>6
<1>9. Share(SubSeq(U, c, d), SubSeq(U, a, b)) = SubSeq(U, a, d)
  BY <1>5, <1>8, SharedIs
<1>10. /\ IsPrefix(SubSeq(U, a, d), SubSeq(U, a, b))
       /\ SubSeq(U, a, d) # SubSeq(U, a, b)
       /\ IsSuffix(SubSeq(U, a, d), SubSeq(U, c, d))
       /\ Len(SubSeq(U, a, d)) = (d - a) + 1
  BY <1>5, <1>8, SharedEnds
<1> HIDE DEF before, after
<1>11. s = SubSeq(U, a, d)
  BY <1>3, <1>9
<1> HIDE DEF s
<1>12. IsPrefix(s, after) /\ s # after /\ IsSuffix(s, before) /\ Len(s) = (d - a) + 1
  BY <1>3, <1>10, <1>11
<1>13. ASSUME Len(s) > 1
       PROVE  UnitsTokens(Tail(s)) < Overlap
  <2>1. a < d
    BY <1>8, <1>12, <1>13
  <2>2. Tail(s) = SubSeq(U, a + 1, d)
    <3> DEFINE t == SubSeq(U, a, d)
               v == SubSeq(U, a + 1, d)
               tl == Tail(t)
    <3>1. /\ t \in Seq(Unit) /\ Len(t) = (d - a) + 1
          /\ \A k \in 1..((d - a) + 1) : t[k] = U[(a + k) - 1]
      <4>1. a \in 1..(Len(U) + 1) /\ d \in (a - 1)..Len(U)
        BY <1>8, <2>1
      <4> QED BY <4>1, SpanIs
    <3>2. /\ v \in Seq(Unit) /\ Len(v) = (d - (a + 1)) + 1
          /\ \A k \in 1..((d - (a + 1)) + 1) : v[k] = U[((a + 1) + k) - 1]
      <4>1. a + 1 \in 1..(Len(U) + 1) /\ d \in ((a + 1) - 1)..Len(U)
        BY <1>8, <2>1
      <4> QED BY <4>1, SpanIs
    <3> HIDE DEF t, v
    <3>3. t # <<>> /\ Len(t) \in Nat /\ Len(t) > 1
      BY <1>8, <2>1, <3>1
    <3>4. tl \in Seq(Unit) /\ Len(tl) = d - a /\ \A k \in 1..(d - a) : tl[k] = t[k + 1]
      <4>1. tl \in Seq(Unit) /\ Len(tl) = Len(t) - 1
        BY <3>1, <3>3
      <4>2. \A k \in 1..(Len(t) - 1) : tl[k] = t[k + 1]
        BY <3>1, <3>3
      <4>3. Len(t) - 1 = d - a
        BY <1>8, <3>1
      <4> QED BY <4>1, <4>2, <4>3
    <3> HIDE DEF tl
    <3>5. Len(v) = d - a
      BY <1>8, <3>2
    <3>6. \A k \in 1..(d - a) : tl[k] = v[k]
      <4> SUFFICES ASSUME NEW k \in 1..(d - a) PROVE tl[k] = v[k]
        OBVIOUS
      <4>1. k + 1 \in 1..((d - a) + 1) /\ (a + (k + 1)) - 1 = ((a + 1) + k) - 1
            /\ k \in 1..((d - (a + 1)) + 1)
        BY <1>8
      <4>2. tl[k] = t[k + 1]
        BY <3>4
      <4>3. t[k + 1] = U[(a + (k + 1)) - 1]
        BY <3>1, <4>1
      <4>4. v[k] = U[((a + 1) + k) - 1]
        BY <3>2, <4>1
      <4> QED BY <4>1, <4>2, <4>3, <4>4
    <3>7. tl = v
      BY <3>2, <3>4, <3>5, <3>6, SeqEqual
    <3> QED BY <1>11, <3>7 DEF tl, t, v
  <2> QED BY <1>7, <2>1, <2>2
<1> QED BY <1>12, <1>13 DEF SharesLittle, s, before, after

LEMMA ChunksFitHolds ==
    ASSUME IInv
    PROVE  ChunksFit
<1> SUFFICES ASSUME JustChunked PROVE ChunksFit
  BY DEF ChunksFit
<1>1. BlocksOK(blocks) /\ chunks = ChunkDocument(blocks)
  <2>1. FromFile /\ Made
    BY DEF IInv, JustChunked, Embedding, Unchunked
  <2>2. BlocksOK(blocks)
    BY <2>1, MadeChunks
  <2> QED BY <2>1, <2>2 DEF Made
<1>2. chunks \in Seq(Seq(Unit)) /\ DOMAIN chunks = 1..Len(chunks) /\ Len(chunks) \in Nat
  BY <1>1, ChunksTyped
<1>3. ASSUME NEW n \in DOMAIN chunks
      PROVE  FitsOrWhole(chunks[n], blocks)
  BY <1>1, <1>2, ChunkFits
<1>4. ASSUME NEW n \in 2..Len(chunks)
      PROVE  SharesLittle(BodyUnits(chunks[n - 1]), BodyUnits(chunks[n]))
  <2> DEFINE W == DocUnits(blocks)
  <2>1. W \in Seq(Unit)
    BY <1>1, DocUnitsAre
  <2>2. Distinct(W)
    BY <1>1, DocUnitsDistinct
  <2>3. Bodies(chunks, W)
    BY <1>1, ChunksAre
  <2> HIDE DEF W
  <2> QED BY <1>2, <2>1, <2>2, <2>3, NeighboursShare
<1> QED BY <1>3, <1>4 DEF ChunksFit, FitsOrWhole, WholePart, SharesLittle, Share

\* No chunk is over the target but for one part that could not be divided, and
\* neighbours share the end of the one and the beginning of the other, less than
\* the overlap but for its first unit (chunker.py:321-397).
THEOREM ChunksFitAlways == Spec => []ChunksFit
<1>1. IInv => ChunksFit
  BY ChunksFitHolds
<1> QED BY <1>1, PassagesInductive, PTL

-----------------------------------------------------------------------------
(* The words of chunks                                                     *)

LEMMA PlacesJoined ==
    ASSUME NEW parts \in Seq(Seq(Word)), NEW whole \in Seq(Word), NEW c, Cuts(c, parts, whole)
    PROVE  \A p : p \in Places(whole) <=> \E k \in 1..Len(parts) : p \in Places(parts[k])
<1>1. SameElements(parts, whole)
  BY CutsElements
<1>2. \A k \in 1..Len(parts) : parts[k] \in Seq(Word)
  OBVIOUS
<1>3. Places(whole) = { whole[i].at : i \in 1..Len(whole) }
  BY PlacesAre
<1>4. \A k \in 1..Len(parts) : Places(parts[k]) = { parts[k][i].at : i \in 1..Len(parts[k]) }
  BY <1>2, PlacesAre
<1>5. ASSUME NEW p, p \in Places(whole)
      PROVE  \E k \in 1..Len(parts) : p \in Places(parts[k])
  <2>1. PICK i \in 1..Len(whole) : p = whole[i].at
    BY <1>3, <1>5
  <2>2. PICK k \in 1..Len(parts) : \E j \in 1..Len(parts[k]) : whole[i] = parts[k][j]
    BY <1>1, <2>1 DEF SameElements
  <2> QED BY <1>4, <2>1, <2>2
<1>6. ASSUME NEW k \in 1..Len(parts), NEW p, p \in Places(parts[k])
      PROVE  p \in Places(whole)
  <2>1. PICK j \in 1..Len(parts[k]) : p = parts[k][j].at
    BY <1>4, <1>6
  <2>2. PICK i \in 1..Len(whole) : whole[i] = parts[k][j]
    BY <1>1, <1>6, <2>1 DEF SameElements
  <2> QED BY <1>3, <2>1, <2>2
<1> QED BY <1>5, <1>6

LEMMA OrderJoined ==
    ASSUME NEW parts \in Seq(Seq(Word)), NEW whole \in Seq(Word), NEW c, Cuts(c, parts, whole),
           \A k \in 1..Len(parts) : InOrder(parts[k]),
           \A k, l \in 1..Len(parts) : k < l => Precede(parts[k], parts[l])
    PROVE  InOrder(whole)
<1> SUFFICES ASSUME NEW i \in 1..Len(whole), NEW j \in 1..Len(whole), i < j
             PROVE  Before(whole[i].at, whole[j].at)
  BY DEF InOrder
<1>1. PICK k \in 1..Len(parts) : i - c[k - 1] \in 1..Len(parts[k]) /\ parts[k][i - c[k - 1]] = whole[i]
  <2>1. \E k \in 1..Len(parts) : /\ i - c[k - 1] \in 1..Len(parts[k])
                                 /\ parts[k][i - c[k - 1]] = whole[i]
    <3>1. Found(c, parts, whole, i)
      BY CutsFrom
    <3> QED BY <3>1 DEF Found
  <2> QED BY <2>1
<1>2. PICK l \in 1..Len(parts) : j - c[l - 1] \in 1..Len(parts[l]) /\ parts[l][j - c[l - 1]] = whole[j]
  <2>1. \E l \in 1..Len(parts) : /\ j - c[l - 1] \in 1..Len(parts[l])
                                 /\ parts[l][j - c[l - 1]] = whole[j]
    <3>1. Found(c, parts, whole, j)
      BY CutsFrom
    <3> QED BY <3>1 DEF Found
  <2> QED BY <2>1
<1>3. k <= l
  BY <1>1, <1>2, CutsOrder
<1>4. CASE k < l
  <2>1. parts[k] \in Seq(Word) /\ parts[l] \in Seq(Word)
    BY <1>1, <1>2
  <2>2. whole[i].at \in Places(parts[k])
    BY <1>1, <2>1, PlacesAre
  <2>3. whole[j].at \in Places(parts[l])
    BY <1>2, <2>1, PlacesAre
  <2>4. Precede(parts[k], parts[l])
    BY <1>1, <1>2, <1>4
  <2> QED BY <2>2, <2>3, <2>4 DEF Precede
<1>5. CASE k = l
  <2> DEFINE e == c[k - 1]
             a == i - e
             b == j - e
  <2>1. e \in 0..Len(whole) /\ Len(whole) \in Nat
    <3>1. c[k - 1] \in 0..Len(whole)
      BY CutsInto DEF Into
    <3> QED BY <3>1
  <2>2. a \in 1..Len(parts[k]) /\ b \in 1..Len(parts[k])
        /\ parts[k][a] = whole[i] /\ parts[k][b] = whole[j]
    BY <1>1, <1>2, <1>5
  <2>3. a < b
    <3> HIDE DEF e
    <3> QED BY <2>1
  <2> HIDE DEF a, b, e
  <2>4. InOrder(parts[k])
    BY <1>1
  <2>5. Before(parts[k][a].at, parts[k][b].at)
    BY <2>2, <2>3, <2>4 DEF InOrder
  <2> QED BY <2>2, <2>5
<1>6. k \in Nat /\ l \in Nat
  BY <1>1, <1>2
<1> QED BY <1>3, <1>4, <1>5, <1>6

\* What is said in units, and in what order.
LEMMA ContentIs ==
    ASSUME NEW us \in Seq(Unit)
    PROVE  /\ Content(us) \in Seq(Word)
           /\ \A p : p \in Places(Content(us)) <=> \E k \in 1..Len(us) : p \in Places(us[k].words)
           /\ Ordered(us) /\ (\A k \in 1..Len(us) : InOrder(us[k].words)) => InOrder(Content(us))
<1> DEFINE ps == [k \in 1..Len(us) |-> us[k].words]
           w == Content(us)
<1>1. w \in Seq(Word) /\ ps \in Seq(Seq(Word))
  BY ContentTyped
<1>2. PICK c : Cuts(c, ps, w)
  BY ContentTyped
<1>3. Len(ps) = Len(us) /\ \A k \in 1..Len(us) : ps[k] = us[k].words
  <2>1. Len(us) \in Nat
    OBVIOUS
  <2> QED BY <2>1
<1> HIDE DEF ps, w
<1>4. \A p : p \in Places(w) <=> \E k \in 1..Len(ps) : p \in Places(ps[k])
  BY <1>1, <1>2, PlacesJoined
<1>5. ASSUME Ordered(us), \A k \in 1..Len(us) : InOrder(us[k].words)
      PROVE  InOrder(w)
  <2>1. \A k \in 1..Len(ps) : InOrder(ps[k])
    BY <1>3, <1>5
  <2>2. \A k, l \in 1..Len(ps) : k < l => Precede(ps[k], ps[l])
    BY <1>3, <1>5 DEF Ordered
  <2> QED BY <1>1, <1>2, <2>1, <2>2, OrderJoined
<1>6. \A p : p \in Places(w) <=> \E k \in 1..Len(us) : p \in Places(us[k].words)
  BY <1>3, <1>4
<1> QED BY <1>1, <1>5, <1>6 DEF w

LEMMA BodyWithin ==
    ASSUME NEW us \in Seq(SourcedUnit)
    PROVE  /\ Body(us) \in Seq(Word)
           /\ Places(Body(us)) \subseteq Places(Content(us))
           /\ \A k \in 1..Len(BodyUnits(us)) : \E i \in 1..Len(us) : BodyUnits(us)[k] = us[i] /\ ~us[i].heading
<1> DEFINE I == { k \in DOMAIN us : ~us[k].heading }
           b == BodyUnits(us)
<1>1. b \in Seq(SourcedUnit) /\ us \in Seq(Unit)
  BY BodyTyped, SourcedTyped
<1>2. b \in Seq(Unit)
  BY <1>1, SourcedTyped
<1>3. \E e : Picks(e, b, us, I, Len(us))
  <2>1. b = At(us, I)
    BY DEF BodyUnits
  <2> HIDE DEF I, b
  <2> QED BY <2>1, AtPicks
<1>4. PICK e : Picks(e, b, us, I, Len(us))
  BY <1>3
<1> HIDE DEF b
<1>5. ASSUME NEW k \in 1..Len(b)
      PROVE  \E i \in 1..Len(us) : b[k] = us[i] /\ ~us[i].heading
  <2>1. e[k] \in 1..Len(us) /\ e[k] \in I /\ b[k] = us[e[k]]
    <3> HIDE DEF I
    <3> QED BY <1>4, <1>5 DEF Picks
  <2> QED BY <2>1
<1>6. Content(b) \in Seq(Word)
  BY <1>2, ContentIs
<1>7. ASSUME NEW p \in Places(Content(b))
      PROVE  p \in Places(Content(us))
  <2>1. PICK k \in 1..Len(b) : p \in Places(b[k].words)
    BY <1>2, <1>7, ContentIs
  <2>2. PICK i \in 1..Len(us) : b[k] = us[i]
    BY <1>5, <2>1
  <2> QED BY <1>1, <2>1, <2>2, ContentIs
<1> QED BY <1>5, <1>6, <1>7 DEF Body, b

LEMMA WindowNats ==
    ASSUME NEW n, NEW ws, WindowsTo(ws, n), NEW i \in 1..Len(ws)
    PROVE  ws[i].lo \in Nat /\ ws[i].hi \in Nat
<1>1. ws \in Seq(Window)
  BY DEF WindowsTo
<1>2. ws[i].lo \in Nat
  BY <1>1, WindowFields
<1>3. ws[i].hi \in Nat
  BY <1>1, WindowFields
<1> QED BY <1>2, <1>3

\* A window ends no later than the ones after it.
LEMMA WindowsMove ==
    ASSUME NEW n \in Nat, NEW ws, WindowsTo(ws, n), NEW j \in 1..Len(ws), NEW i \in 1..j
    PROVE  ws[i].hi <= ws[j].hi
<1> DEFINE T == {k \in 0..Len(ws) : k >= i => ws[i].hi <= ws[k].hi}
<1>1. Len(ws) \in Nat /\ i \in Nat /\ i >= 1 /\ i \in 1..Len(ws) /\ j >= i
  BY DEF WindowsTo
<1>2. 0 \in T
  BY <1>1
<1>3. ASSUME NEW k \in 1..Len(ws), k - 1 \in T
      PROVE  k \in T
  <2>1. CASE k < i
    BY <1>1, <2>1
  <2>2. CASE k = i
    <3>1. ws[i].hi \in Nat
      BY <1>1, WindowNats
    <3> QED BY <1>1, <2>2, <3>1
  <2>3. CASE k > i
    <3>1. k \in 2..Len(ws) /\ k - 1 \in 1..Len(ws) /\ k - 1 >= i
      BY <1>1, <2>3
    <3>2. ws[k - 1].hi < ws[k].hi
      BY <3>1 DEF WindowsTo
    <3>3. ws[i].hi <= ws[k - 1].hi
      BY <1>3, <3>1
    <3>4. ws[i].hi \in Nat
      BY <1>1, WindowNats
    <3>5. ws[k].hi \in Nat
      BY WindowNats
    <3>6. ws[k - 1].hi \in Nat
      BY <3>1, WindowNats
    <3>7. ws[i].hi <= ws[k].hi
      <4> DEFINE a == ws[i].hi
                 b == ws[k - 1].hi
                 c == ws[k].hi
      <4>1. a \in Nat /\ b \in Nat /\ c \in Nat /\ a <= b /\ b < c
        BY <3>2, <3>3, <3>4, <3>5, <3>6
      <4> HIDE DEF a, b, c
      <4>2. a <= c
        BY <4>1
      <4> QED BY <4>2 DEF a, c
    <3> QED BY <3>7
  <2> QED BY <1>1, <2>1, <2>2, <2>3
<1> HIDE DEF T
<1>4. 0..Len(ws) \subseteq T
  BY <1>1, <1>2, <1>3, UpTo
<1>5. j \in T
  BY <1>1, <1>4
<1> QED BY <1>1, <1>5 DEF T

\* No unit is left out.
LEMMA WindowsCover ==
    ASSUME NEW n \in Nat, NEW ws, WindowsTo(ws, n), NEW i \in 1..n
    PROVE  \E m \in 1..Len(ws) : ws[m].lo <= i /\ i <= ws[m].hi
<1> DEFINE T == {m \in 1..Len(ws) : i <= ws[m].hi}
<1>1. Len(ws) \in Nat /\ Len(ws) > 0 /\ ws[1].lo = 1 /\ ws[Len(ws)].hi = n
  <2>1. Len(ws) \in Nat
    BY DEF WindowsTo
  <2>2. n # 0
    OBVIOUS
  <2>3. Len(ws) # 0
    BY <2>2 DEF WindowsTo
  <2> QED BY <2>1, <2>3 DEF WindowsTo
<1>2. T \subseteq Nat /\ T # {}
  <2>1. Len(ws) \in T
    BY <1>1
  <2> QED BY <2>1
<1>3. PICK m \in T : \A k \in T : m <= k
  BY <1>2, Least
<1>4. m \in 1..Len(ws) /\ i <= ws[m].hi
  BY <1>3
<1>5. CASE m = 1
  BY <1>1, <1>4, <1>5
<1>6. CASE m > 1
  <2>1. m \in 2..Len(ws) /\ m - 1 \in 1..Len(ws)
    BY <1>1, <1>4, <1>6
  <2>2. ws[m].lo <= ws[m - 1].hi + 1
    BY <2>1 DEF WindowsTo
  <2>3. ws[m].lo \in Nat
    BY <1>4, WindowNats
  <2>4. ws[m - 1].hi \in Nat
    BY <2>1, WindowNats
  <2>5. m - 1 \notin T
    BY <1>2, <1>3, <1>4
  <2> DEFINE a == ws[m - 1].hi
             b == ws[m].lo
  <2>6. ~ (i <= a)
    BY <2>1, <2>5
  <2> HIDE DEF a, b
  <2>7. a \in Nat /\ b \in Nat /\ b <= a + 1
    BY <2>2, <2>3, <2>4 DEF a, b
  <2>8. b <= i
    BY <2>6, <2>7
  <2> QED BY <1>4, <2>8 DEF b
<1> QED BY <1>4, <1>5, <1>6

LEMMA WinOrdered ==
    ASSUME NEW W \in Seq(Unit), Ordered(W), \A k \in 1..Len(W) : InOrder(W[k].words),
           NEW ws, WindowsTo(ws, Len(W)), NEW m \in 1..Len(ws)
    PROVE  /\ Win(W, ws[m]) \in Seq(Unit)
           /\ InOrder(Content(Win(W, ws[m])))
           /\ \A p : p \in Places(Content(Win(W, ws[m]))) <=>
                       \E g \in ws[m].lo..ws[m].hi : p \in Places(W[g].words)
<1> DEFINE a == ws[m].lo
           b == ws[m].hi
           v == Win(W, ws[m])
<1>1. /\ a \in 1..Len(W) /\ b \in a..Len(W)
      /\ v \in Seq(Unit) /\ Len(v) = b - a + 1
      /\ \A i \in 1..Len(v) : /\ a + i - 1 \in a..b /\ a + i - 1 \in 1..Len(W)
                              /\ v[i] = W[a + i - 1]
  BY WinTyped
<1> HIDE DEF a, b, v
<1>2. a \in Nat /\ b \in Nat /\ Len(W) \in Nat /\ Len(v) \in Nat
  BY <1>1
<1>3. Ordered(v)
  <2> SUFFICES ASSUME NEW i \in 1..Len(v), NEW j \in 1..Len(v), i < j
               PROVE  Precede(v[i].words, v[j].words)
    BY DEF Ordered
  <2>1. a + i - 1 \in 1..Len(W) /\ a + j - 1 \in 1..Len(W) /\ v[i] = W[a + i - 1] /\ v[j] = W[a + j - 1]
    BY <1>1
  <2>2. a + i - 1 < a + j - 1
    BY <1>2
  <2>3. Precede(W[a + i - 1].words, W[a + j - 1].words)
    BY <2>1, <2>2 DEF Ordered
  <2> QED BY <2>1, <2>3
<1>4. \A k \in 1..Len(v) : InOrder(v[k].words)
  BY <1>1
<1>5. InOrder(Content(v))
  BY <1>1, <1>3, <1>4, ContentIs
<1>6. ASSUME NEW p
      PROVE  p \in Places(Content(v)) <=> \E g \in a..b : p \in Places(W[g].words)
  <2>1. p \in Places(Content(v)) <=> \E k \in 1..Len(v) : p \in Places(v[k].words)
    BY <1>1, ContentIs
  <2>2. ASSUME NEW k \in 1..Len(v), p \in Places(v[k].words)
        PROVE  \E g \in a..b : p \in Places(W[g].words)
    BY <1>1, <2>2
  <2>3. ASSUME NEW g \in a..b, p \in Places(W[g].words)
        PROVE  \E k \in 1..Len(v) : p \in Places(v[k].words)
    <3> DEFINE k == (g - a) + 1
    <3>1. k \in 1..Len(v) /\ a + k - 1 = g
      BY <1>1, <1>2
    <3> HIDE DEF k
    <3>2. v[k] = W[g]
      BY <1>1, <3>1
    <3> QED BY <2>3, <3>1, <3>2
  <2> QED BY <2>1, <2>2, <2>3
<1> QED BY <1>1, <1>5, <1>6 DEF a, b, v

\* The words of the bodies, each where it is first.
LEMMA FirstOrdered ==
    ASSUME NEW W \in Seq(Unit), Ordered(W), \A k \in 1..Len(W) : InOrder(W[k].words),
           NEW ws, WindowsTo(ws, Len(W)),
           NEW bs \in Seq(Seq(Word)), Len(bs) = Len(ws),
           \A m \in 1..Len(ws) : bs[m] = Content(Win(W, ws[m])),
           NEW words \in Seq(Word), NEW c, Cuts(c, bs, words),
           NEW i \in 1..Len(words), \A j \in 1..(i - 1) : words[j].at # words[i].at,
           NEW j \in 1..(i - 1)
    PROVE  Before(words[j].at, words[i].at)
<1>1. j \in 1..Len(words) /\ j < i /\ Len(words) \in Nat /\ i \in Nat
  OBVIOUS
<1>2. PICK n \in 1..Len(bs) : i - c[n - 1] \in 1..Len(bs[n]) /\ bs[n][i - c[n - 1]] = words[i]
  <2>1. \E n \in 1..Len(bs) : /\ i - c[n - 1] \in 1..Len(bs[n])
                              /\ bs[n][i - c[n - 1]] = words[i]
    <3>1. Found(c, bs, words, i)
      BY CutsFrom
    <3> QED BY <3>1 DEF Found
  <2> QED BY <2>1
<1>3. PICK m \in 1..Len(bs) : j - c[m - 1] \in 1..Len(bs[m]) /\ bs[m][j - c[m - 1]] = words[j]
  <2>1. \E m \in 1..Len(bs) : /\ j - c[m - 1] \in 1..Len(bs[m])
                              /\ bs[m][j - c[m - 1]] = words[j]
    <3>1. Found(c, bs, words, j)
      BY <1>1, CutsFrom
    <3> QED BY <3>1 DEF Found
  <2> QED BY <2>1
<1>4. m <= n /\ m \in Nat /\ n \in Nat
  <2>1. m <= n
    BY <1>1, <1>2, <1>3, CutsOrder
  <2> QED BY <2>1
<1>5. /\ bs[n] \in Seq(Word) /\ bs[m] \in Seq(Word)
      /\ words[i].at \in Places(bs[n]) /\ words[j].at \in Places(bs[m])
  <2>1. bs[n] \in Seq(Word) /\ bs[m] \in Seq(Word)
    OBVIOUS
  <2>2. words[i].at \in Places(bs[n])
    BY <1>2, <2>1, PlacesAre
  <2>3. words[j].at \in Places(bs[m])
    BY <1>3, <2>1, PlacesAre
  <2> QED BY <2>1, <2>2, <2>3
<1>6. \A k \in 1..Len(ws) :
        /\ InOrder(bs[k])
        /\ \A p : p \in Places(bs[k]) <=> \E g \in ws[k].lo..ws[k].hi : p \in Places(W[g].words)
  <2> SUFFICES ASSUME NEW k \in 1..Len(ws)
               PROVE  /\ InOrder(bs[k])
                      /\ \A p : p \in Places(bs[k]) <=> \E g \in ws[k].lo..ws[k].hi : p \in Places(W[g].words)
    OBVIOUS
  <2> QED BY WinOrdered
<1>7. CASE m = n
  <2> DEFINE e == c[n - 1]
             a == j - e
             b == i - e
  <2>1. e \in 0..Len(words)
    <3>1. c[n - 1] \in 0..Len(words)
      BY CutsInto DEF Into
    <3> QED BY <3>1
  <2>2. a \in 1..Len(bs[n]) /\ b \in 1..Len(bs[n])
        /\ bs[n][a] = words[j] /\ bs[n][b] = words[i]
    BY <1>2, <1>3, <1>7
  <2>3. a < b
    <3> HIDE DEF e
    <3> QED BY <1>1, <2>1
  <2> HIDE DEF a, b, e
  <2>4. InOrder(bs[n])
    BY <1>2, <1>6
  <2>5. Before(bs[n][a].at, bs[n][b].at)
    BY <2>2, <2>3, <2>4 DEF InOrder
  <2> QED BY <2>2, <2>5
<1>8. CASE m < n
  <2> DEFINE q == n - 1
  <2>1. q \in 1..Len(ws) /\ m \in 1..q /\ n \in 2..Len(ws)
    BY <1>2, <1>3, <1>4, <1>8
  <2>2. PICK g \in ws[n].lo..ws[n].hi : words[i].at \in Places(W[g].words)
    BY <1>2, <1>5, <1>6
  <2>3. PICK h \in ws[m].lo..ws[m].hi : words[j].at \in Places(W[h].words)
    BY <1>3, <1>5, <1>6
  <2>4. ws[m].hi <= ws[q].hi
    <3>1. Len(W) \in Nat
      OBVIOUS
    <3> QED BY <2>1, <3>1, WindowsMove
  <2>5. ws[q].lo <= ws[n].lo
    BY <2>1 DEF WindowsTo
  <2>6. /\ ws[n].lo \in 1..Len(W) /\ ws[n].hi \in ws[n].lo..Len(W)
        /\ ws[m].lo \in 1..Len(W) /\ ws[m].hi \in ws[m].lo..Len(W)
        /\ ws[q].lo \in 1..Len(W) /\ ws[q].hi \in ws[q].lo..Len(W)
    <3>1. ws[n].lo \in 1..Len(W) /\ ws[n].hi \in ws[n].lo..Len(W)
      BY <1>2, WinTyped
    <3>2. ws[m].lo \in 1..Len(W) /\ ws[m].hi \in ws[m].lo..Len(W)
      BY <1>3, WinTyped
    <3>3. ws[q].lo \in 1..Len(W) /\ ws[q].hi \in ws[q].lo..Len(W)
      BY <2>1, WinTyped
    <3> QED BY <3>1, <3>2, <3>3
  <2> DEFINE ln == ws[n].lo
             hn == ws[n].hi
             lm == ws[m].lo
             hm == ws[m].hi
             lq == ws[q].lo
             hq == ws[q].hi
  <2>7. /\ ln \in 1..Len(W) /\ hn \in ln..Len(W) /\ lm \in 1..Len(W) /\ hm \in lm..Len(W)
        /\ lq \in 1..Len(W) /\ hq \in lq..Len(W) /\ lq <= ln /\ hm <= hq
        /\ g \in ln..hn /\ h \in lm..hm
    BY <2>2, <2>3, <2>4, <2>5, <2>6
  <2> HIDE DEF ln, hn, lm, hm, lq, hq
  <2>8. g \in 1..Len(W) /\ h \in 1..Len(W) /\ (g <= h => g \in lq..hq)
    BY <2>7, SMTT(30)
  <2>9. CASE h < g
    <3>1. Precede(W[h].words, W[g].words)
      BY <2>8, <2>9 DEF Ordered
    <3> QED BY <2>2, <2>3, <3>1 DEF Precede
  <2>10. CASE g <= h
    <3>1. words[i].at \in Places(bs[q])
      BY <1>6, <2>1, <2>2, <2>8, <2>10 DEF lq, hq
    <3> HIDE DEF q
    <3>2. q \in 1..Len(bs) /\ bs[q] \in Seq(Word)
      BY <2>1
    <3>3. PICK t \in 1..Len(bs[q]) : words[i].at = bs[q][t].at
      <4>1. Places(bs[q]) = { bs[q][k].at : k \in 1..Len(bs[q]) }
        BY <3>2, PlacesAre
      <4> QED BY <3>1, <4>1
    <3>4. c[q - 1] + t \in 1..Len(words) /\ bs[q][t] = words[c[q - 1] + t]
      <4>1. \A k \in 1..Len(bs[q]) : c[q - 1] + k \in 1..Len(words) /\ bs[q][k] = words[c[q - 1] + k]
        <5>1. Into(c, bs, words, q)
          BY <3>2, CutsInto
        <5> QED BY <5>1 DEF Into
      <4> QED BY <3>3, <4>1
    <3>5. c[q - 1] + t < c[n - 1] + (i - c[n - 1])
      <4>1. q < n
        BY <1>4, <2>1 DEF q
      <4> QED BY <1>2, <3>2, <3>3, <4>1, CutsApart
    <3>6. c[n - 1] + (i - c[n - 1]) = i
      <4>1. c[n - 1] \in 0..Len(words)
        BY <1>2, CutsInto DEF Into
      <4> QED BY <1>1, <4>1
    <3> DEFINE y == c[q - 1] + t
    <3>7. y \in 1..(i - 1) /\ words[y].at = words[i].at
      <4>1. y < i /\ y \in 1..Len(words)
        BY <3>4, <3>5, <3>6
      <4>2. words[y].at = words[i].at
        BY <3>3, <3>4
      <4> HIDE DEF y
      <4> QED BY <1>1, <4>1, <4>2
    <3> QED BY <3>7
  <2>11. g \in Nat /\ h \in Nat
    BY <2>7
  <2> QED BY <2>9, <2>10, <2>11
<1> QED BY <1>4, <1>7, <1>8

-----------------------------------------------------------------------------
(* Margins that repeat                                                     *)

LEMMA CandidatesAre ==
    ASSUME NEW lines \in Seq(PlacedLine), NEW k \in MarginCandidates(lines)
    PROVE  k # NoKey /\ \E l \in 1..Len(lines) : ~Blank(lines[l]) /\ lines[l].key = k
<1> DEFINE I == { l \in DOMAIN lines : ~Blank(lines[l]) }
           s == At(lines, I)
           J == { j \in DOMAIN s : j <= 2 \/ j + 2 > Len(s) }
<1>1. k \in { s[i].key : i \in J } \ {NoKey}
  BY DEF MarginCandidates
<1>2. PICK i \in J : k = s[i].key
  BY <1>1
<1>3. s \in Seq(PlacedLine) /\ \E e : Picks(e, s, lines, I, Len(lines))
  <2> HIDE DEF I
  <2> QED BY AtPicks
<1>4. PICK e : Picks(e, s, lines, I, Len(lines))
  BY <1>3
<1>5. i \in 1..Len(s)
  <2> HIDE DEF s
  <2> QED BY <1>2, <1>3
<1>6. e[i] \in 1..Len(lines) /\ e[i] \in I /\ s[i] = lines[e[i]]
  <2> HIDE DEF I, s
  <2> QED BY <1>4, <1>5 DEF Picks
<1>7. ~Blank(lines[e[i]])
  BY <1>6
<1> HIDE DEF s, I
<1> QED BY <1>1, <1>2, <1>6, <1>7

LEMMA ThresholdIs ==
    ASSUME NEW n \in Nat, n >= 2
    PROVE  /\ Max({2, (7 * n + 9) \div 10}) \in Nat
           /\ Max({2, (7 * n + 9) \div 10}) >= 2
           /\ 10 * Max({2, (7 * n + 9) \div 10}) >= 7 * n
<1> DEFINE t == (7 * n + 9) \div 10
           m == Max({2, t})
<1>1. t \in Nat /\ 10 * t >= 7 * n
  OBVIOUS
<1> HIDE DEF t
<1>2. t \in 1..(t + 2) /\ 2 \in 1..(t + 2) /\ t + 2 \in Nat
  BY <1>1
<1>3. {2, t} \in SUBSET (1..(t + 2)) /\ {2, t} # {}
  BY <1>2
<1>4. m \in {2, t} /\ \A y \in {2, t} : m >= y
  BY <1>2, <1>3, MaxOf
<1> HIDE DEF m
<1>5. m \in Nat /\ m >= 2 /\ m >= t
  BY <1>1, <1>4
<1>6. 10 * m >= 7 * n
  BY <1>1, <1>5
<1> QED BY <1>5, <1>6 DEF m, t

LEMMA RepeatedIs ==
    ASSUME PagesOK(pages), NEW line \in PlacedLine, line.key \in DetectRepeatedMarginKeys(pages)
    PROVE  OnMostPages(line)
<1> DEFINE k == line.key
           n == Len(pages)
           t == Max({2, (7 * n + 9) \div 10})
           PW == { p \in DOMAIN pages : k \in MarginCandidates(pages[p]) }
           having == { p \in DOMAIN pages : \E l \in DOMAIN pages[p] :
                        ~Blank(pages[p][l]) /\ pages[p][l].key = line.key }
<1>1. pages \in Seq(Seq(PlacedLine)) /\ n \in Nat /\ DOMAIN pages = 1..n
  BY DEF PagesOK
<1>2. /\ k \in UNION { MarginCandidates(pages[p]) : p \in DOMAIN pages }
      /\ n >= 2 /\ Cardinality(PW) >= t
  BY DEF DetectRepeatedMarginKeys
<1>3. \A p \in 1..n : pages[p] \in Seq(PlacedLine) /\ DOMAIN pages[p] = 1..Len(pages[p])
  BY <1>1
<1>4. k # NoKey
  <2>1. PICK p \in DOMAIN pages : k \in MarginCandidates(pages[p])
    BY <1>2
  <2>2. pages[p] \in Seq(PlacedLine)
    BY <1>1, <1>3, <2>1
  <2> QED BY <2>1, <2>2, CandidatesAre
<1>5. PW \subseteq having
  <2> SUFFICES ASSUME NEW p \in PW PROVE p \in having
    OBVIOUS
  <2>1. p \in 1..n /\ k \in MarginCandidates(pages[p])
    BY <1>1
  <2>2. pages[p] \in Seq(PlacedLine) /\ DOMAIN pages[p] = 1..Len(pages[p])
    BY <1>3, <2>1
  <2>3. \E l \in 1..Len(pages[p]) : ~Blank(pages[p][l]) /\ pages[p][l].key = k
    BY <2>1, <2>2, CandidatesAre
  <2> QED BY <1>1, <2>1, <2>2, <2>3
<1>6. having \subseteq 1..n
  BY <1>1
<1> HIDE DEF having, PW
<1>7. IsFiniteSet(having) /\ Cardinality(PW) <= Cardinality(having)
      /\ Cardinality(having) \in Nat /\ Cardinality(PW) \in Nat
  <2>1. IsFiniteSet(1..n)
    BY <1>1, FS_Interval
  <2>2. IsFiniteSet(having)
    BY <1>6, <2>1, FS_Subset
  <2>3. IsFiniteSet(PW) /\ Cardinality(PW) <= Cardinality(having)
    BY <1>5, <2>2, FS_Subset
  <2> QED BY <2>2, <2>3, FS_CardinalityType
<1>8. t \in Nat /\ t >= 2 /\ 10 * t >= 7 * n
  <2> HIDE DEF n
  <2> QED BY <1>1, <1>2, ThresholdIs
<1> HIDE DEF t
<1>9. Cardinality(having) >= 2 /\ 10 * Cardinality(having) >= 7 * n
  <2> DEFINE a == Cardinality(PW)
             b == Cardinality(having)
  <2>1. a \in Nat /\ b \in Nat /\ a <= b /\ a >= t
    BY <1>2, <1>7
  <2> HIDE DEF a, b, n
  <2>2. b >= 2 /\ 10 * b >= 7 * n
    BY <1>1, <1>8, <2>1
  <2> QED BY <2>2 DEF b
<1> QED BY <1>4, <1>9 DEF OnMostPages, having, n, k

LEMMA InPageMargin ==
    ASSUME PagesOK(pages), NEW p \in 1..Len(pages), NEW l \in 1..Len(pages[p]),
           InMargin(pages, p, l)
    PROVE  PageMargin(p, l)
<1> DEFINE M == Margin(DetectRepeatedMarginKeys(pages))
<1>1. ASSUME NEW m \in 1..Len(pages[p]), pages[p][m] \in M
      PROVE  Blank(pages[p][m]) \/ OnMostPages(pages[p][m])
  BY <1>1, RepeatedIs DEF Margin, Blank
<1>2. Len(pages[p]) \in Nat
  BY DEF PagesOK
<1> HIDE DEF M
<1>3. CASE \A m \in 1..l : pages[p][m] \in M
  <2>1. \A m \in 1..l : m \in 1..Len(pages[p])
    BY <1>2
  <2> QED BY <1>1, <1>3, <2>1 DEF PageMargin
<1>4. CASE \A m \in l..Len(pages[p]) : pages[p][m] \in M
  <2>1. \A m \in l..Len(pages[p]) : m \in 1..Len(pages[p])
    BY <1>2
  <2> QED BY <1>1, <1>4, <2>1 DEF PageMargin
<1> QED BY <1>3, <1>4 DEF InMargin, M

-----------------------------------------------------------------------------
(* Nothing is lost                                                         *)

\* A section is in a group, and so are its units.
LEMMA SectionInGroup ==
    ASSUME NEW x, BlocksOK(x), NEW j \in 1..Len(BuildSections(x))
    PROVE  \E g \in 1..Len(DocGroups(x)) : \E k \in 1..Len(DocGroups(x)[g]) :
              DocGroups(x)[g][k] = BuildSections(x)[j]
<1> DEFINE gs == DocGroups(x)
           S == BuildSections(x)
<1>1. Groups(gs, S, x)
  BY GroupsFit DEF DocGroups
<1>2. j \in 1..Len(S)
  OBVIOUS
<1> HIDE DEF gs, S
<1>3. gs \in Seq(Seq(Section)) /\ S \in Seq(Section)
  BY <1>1 DEF Groups
<1>4. PICK c : Cuts(c, gs, S)
  BY <1>1 DEF Groups
<1>5. SameElements(gs, S)
  BY <1>3, <1>4, CutsElements
<1>6. PICK g \in 1..Len(gs) : \E k \in 1..Len(gs[g]) : S[j] = gs[g][k]
  BY <1>2, <1>5 DEF SameElements
<1> QED BY <1>6 DEF gs, S

LEMMA UnitInDocument ==
    ASSUME NEW x, BlocksOK(x), NEW j \in 1..Len(BuildSections(x)),
           NEW i \in 1..Len(BuildUnits(BuildSections(x)[j]))
    PROVE  \E w \in 1..Len(DocUnits(x)) : DocUnits(x)[w] = BuildUnits(BuildSections(x)[j])[i]
<1> DEFINE gs == DocGroups(x)
           S == BuildSections(x)
           BS == [g \in 1..Len(gs) |-> BodyOfGroup(gs[g])]
           W == DocUnits(x)
<1>1. Groups(gs, S, x)
  BY GroupsFit DEF DocGroups
<1>2. W \in Seq(SourcedUnit) /\ BS \in Seq(Seq(SourcedUnit)) /\ Len(BS) = Len(gs)
  BY DocUnitsAre
<1>3. PICK d : Cuts(d, BS, W)
  BY DocUnitsAre
<1>4. \A g \in 1..Len(gs) : BS[g] = BodyOfGroup(gs[g])
  OBVIOUS
<1>5. PICK g \in 1..Len(gs) : \E k \in 1..Len(gs[g]) : gs[g][k] = S[j]
  BY SectionInGroup
<1>6. PICK k \in 1..Len(gs[g]) : gs[g][k] = S[j]
  BY <1>5
<1> DEFINE h == gs[g]
           US == [m \in 1..Len(h) |-> BuildUnits(h[m])]
           U == BuildUnits(S[j])
<1>7. h \in Seq(Section) /\ \A m \in 1..Len(h) : SectionFit(h[m])
  <2> HIDE DEF gs, S
  <2> QED BY <1>1, <1>5 DEF Groups
<1>8. i \in 1..Len(U)
  OBVIOUS
<1> HIDE DEF gs, S, BS, W, U
<1>9. SameElements(BS, W)
  BY <1>2, <1>3, CutsElements
<1> HIDE DEF h
<1>10. SameElements(US, BodyOfGroup(h)) /\ Len(US) = Len(h)
  BY <1>7, GroupBodyIs
<1>11. k \in 1..Len(US) /\ US[k] = U
  <2>1. k \in 1..Len(h) /\ h[k] = S[j]
    BY <1>6 DEF h
  <2>2. US[k] = BuildUnits(h[k])
    BY <2>1
  <2> QED BY <1>10, <2>1, <2>2 DEF U
<1> HIDE DEF US
<1>12. PICK m \in 1..Len(BodyOfGroup(h)) : BodyOfGroup(h)[m] = U[i]
  BY <1>8, <1>10, <1>11 DEF SameElements
<1>13. g \in 1..Len(BS) /\ BS[g] = BodyOfGroup(h)
  BY <1>2, <1>4, <1>5 DEF h
<1>14. PICK w \in 1..Len(W) : W[w] = BS[g][m]
  BY <1>9, <1>12, <1>13 DEF SameElements
<1> QED BY <1>12, <1>13, <1>14 DEF W, U, S

LEMMA BlockInDocument ==
    ASSUME NEW x, BlocksOK(x), NEW k \in 1..Len(x), x[k].kind # "heading",
           NEW p \in Places(x[k].words)
    PROVE  \E w \in 1..Len(DocUnits(x)) : p \in Places(DocUnits(x)[w].words)
<1> DEFINE S == BuildSections(x)
<1>1. S \in Seq(Section) /\ Sectioned(S, x, Len(x))
  BY SectionsAre
<1>2. x \in Seq(DocBlock)
  BY DEF BlocksOK
<1>3. PICK j \in 1..Len(S) : k \in LoOf(S[j])..HiOf(S[j])
  BY <1>1 DEF Sectioned
<1> DEFINE s == S[j]
           m == (k - LoOf(s)) + 1
           U == BuildUnits(s)
<1>4. SectionOK(s, x)
  BY <1>1, <1>3 DEF Sectioned
<1>5. m \in 1..Len(s.blocks) /\ s.blocks[m] = Numbered(x, k)
  BY <1>2, <1>3, <1>4, SectionEnds
<1>6. BodyOK(s.blocks) /\ s \in Section /\ Len(s.blocks) > 0
  BY <1>4, SectionBody
<1> HIDE DEF s, m, S
<1>7. p \in PlacesOf(s.blocks)
  <2>1. s.blocks[m].words = x[k].words
    BY <1>2, <1>5, NumberedTyped
  <2> QED BY <1>5, <2>1 DEF PlacesOf
<1>8. UnitsOf(U, s)
  BY <1>6, BuildUnitsAre
<1>9. PICK i \in 1..Len(U) : p \in Places(U[i].words)
  BY <1>7, <1>8 DEF UnitsOf
<1>10. PICK w \in 1..Len(DocUnits(x)) : DocUnits(x)[w] = U[i]
  BY <1>3, <1>9, UnitInDocument DEF s, S
<1> QED BY <1>9, <1>10

LEMMA DocUnitsOrdered ==
    ASSUME NEW x, BlocksOK(x)
    PROVE  /\ DocUnits(x) \in Seq(Unit) /\ Ordered(DocUnits(x))
           /\ \A k \in 1..Len(DocUnits(x)) : InOrder(DocUnits(x)[k].words)
<1>1. DocUnits(x) \in Seq(Unit) /\ Ordered(DocUnits(x))
  BY DocUnitsAre
<1>2. ASSUME NEW k \in 1..Len(DocUnits(x))
      PROVE  InOrder(DocUnits(x)[k].words)
  <2>1. PICK j \in 1..Len(BuildSections(x)) : UnitFrom(DocUnits(x)[k], BuildSections(x)[j])
    BY DocUnitFrom
  <2> QED BY <2>1 DEF UnitFrom
<1> QED BY <1>1, <1>2

LEMMA ChunkTyped ==
    ASSUME NEW x, BlocksOK(x), NEW n \in 1..Len(ChunkDocument(x))
    PROVE  ChunkDocument(x)[n] \in Seq(SourcedUnit)
<1> DEFINE CH == ChunkDocument(x)
<1>1. CH \in Seq(Seq(SourcedUnit))
  BY ChunksAre DEF Chunked
<1> HIDE DEF CH
<1>2. \A m \in 1..Len(CH) : CH[m] \in Seq(SourcedUnit)
  BY <1>1
<1> QED BY <1>2 DEF CH

LEMMA BlockInChunk ==
    ASSUME NEW x, BlocksOK(x), NEW k \in 1..Len(x), x[k].kind # "heading",
           NEW p \in Places(x[k].words)
    PROVE  \E n \in 1..Len(ChunkDocument(x)) : p \in Places(Content(ChunkDocument(x)[n]))
<1> DEFINE W == DocUnits(x)
           CH == ChunkDocument(x)
<1>1. /\ W \in Seq(Unit) /\ Ordered(W)
      /\ \A i \in 1..Len(W) : InOrder(W[i].words)
  BY DocUnitsOrdered
<1>2. PICK w \in 1..Len(W) : p \in Places(W[w].words)
  BY BlockInDocument
<1>3. PICK ws : /\ WindowsTo(ws, Len(W)) /\ Len(ws) = Len(CH)
                /\ \A i \in 1..Len(CH) : BodyUnits(CH[i]) = Win(W, ws[i])
  BY ChunksAre DEF Bodies
<1>4. \A n \in 1..Len(CH) : CH[n] \in Seq(SourcedUnit)
  BY ChunkTyped
<1> HIDE DEF W, CH
<1>5. Len(W) \in Nat
  BY <1>1
<1>6. PICK n \in 1..Len(ws) : ws[n].lo <= w /\ w <= ws[n].hi
  BY <1>2, <1>3, <1>5, WindowsCover
<1>7. w \in ws[n].lo..ws[n].hi
  <2>1. ws[n].lo \in Nat /\ ws[n].hi \in Nat
    BY <1>3, <1>6, WindowNats
  <2>2. w \in Nat
    BY <1>2, <1>5
  <2> QED BY <1>6, <2>1, <2>2
<1>8. p \in Places(Content(Win(W, ws[n])))
  <2>1. p \in Places(Content(Win(W, ws[n]))) <=> \E g \in ws[n].lo..ws[n].hi : p \in Places(W[g].words)
    BY <1>1, <1>3, <1>6, WinOrdered
  <2> QED BY <1>2, <1>7, <2>1
<1>9. n \in 1..Len(CH) /\ Body(CH[n]) = Content(Win(W, ws[n]))
  BY <1>3, <1>6 DEF Body
<1>10. Places(Body(CH[n])) \subseteq Places(Content(CH[n]))
  BY <1>4, <1>9, BodyWithin
<1> QED BY <1>8, <1>9, <1>10 DEF CH

\* The title of a section is said in a chunk of its group.
LEMMA TitleInChunk ==
    ASSUME NEW s, SectionFit(s), s.title # NoTitle,
           NEW g \in Seq(Section), \A m \in 1..Len(g) : SectionFit(g[m]),
           NEW k \in 1..Len(g), g[k] = s,
           NEW ch \in Seq(SourcedUnit), ChunkOf(ch, g)
    PROVE  \E i \in 1..Len(ch) : ch[i].words = s.title
<1>1. s.title \in Seq(Word) /\ s \in Section
  BY SectionFields DEF SectionFit
<1>2. CASE Len(g) = 1
  <2>1. g[1] = s
    BY <1>2
  <2>2. PICK us \in Seq(SourcedUnit) : us # <<>> /\ ch = ApplyStickyHeading(us, s.title)
    BY <1>2, <2>1 DEF ChunkOf, OfSection
  <2>3. /\ ch[1] = TitleUnit(s.title, {Min(us[1].from)})
        /\ 1 \in DOMAIN ch
    BY <1>1, <2>2, StickyTitle
  <2>4. ch[1].words = s.title /\ 1 \in 1..Len(ch)
    BY <2>3 DEF TitleUnit
  <2> QED BY <2>4
<1>3. CASE Len(g) # 1
  <2> DEFINE TS == [m \in 1..Len(g) |-> Titled(g[m])]
  <2>1. ch = BuildGroupUnits(g)
    BY <1>3 DEF ChunkOf
  <2>2. Len(g) \in Nat /\ Len(g) > 0
    OBVIOUS
  <2>3. PICK c : Cuts(c, TS, ch)
    BY <2>1, <2>2, BuildGroupUnitsAre
  <2>4. \A m \in 1..Len(g) : Titled(g[m]) \in Seq(SourcedUnit)
    BY TitledIs
  <2>5. TS \in Seq(Seq(SourcedUnit)) /\ Len(TS) = Len(g) /\ TS[k] = Titled(s)
    BY <2>2, <2>4
  <2> HIDE DEF TS
  <2>6. SameElements(TS, ch)
    BY <2>3, <2>5, CutsElements
  <2>7. /\ Titled(s)[1] = TitleUnit(s.title, SourcesOf(s))
        /\ Len(Titled(s)) > 0 /\ Titled(s) \in Seq(SourcedUnit)
    BY TitledIs
  <2>8. 1 \in 1..Len(TS[k])
    BY <2>5, <2>7
  <2>9. PICK i \in 1..Len(ch) : ch[i] = TS[k][1]
    BY <2>5, <2>6, <2>8 DEF SameElements
  <2>10. ch[i].words = s.title
    BY <2>5, <2>7, <2>9 DEF TitleUnit
  <2> QED BY <2>10
<1> QED BY <1>2, <1>3

\* A heading with a text under it is the title of a section.
LEMMA HeadingIsTitle ==
    ASSUME NEW x, BlocksOK(x), NEW k \in 1..Len(x), x[k].kind = "heading",
           k < Len(x), x[k + 1].kind # "heading"
    PROVE  \E j \in 1..Len(BuildSections(x)) : BuildSections(x)[j].title = x[k].words
<1> DEFINE S == BuildSections(x)
<1>1. S \in Seq(Section) /\ Sectioned(S, x, Len(x))
  BY SectionsAre
<1>2. x \in Seq(DocBlock) /\ Len(x) \in Nat
  BY DEF BlocksOK
<1>3. k + 1 \in 1..Len(x) /\ k \in Nat
  BY <1>2
<1> HIDE DEF S
<1>4. PICK j \in 1..Len(S) : k + 1 \in LoOf(S[j])..HiOf(S[j])
  BY <1>1, <1>3 DEF Sectioned
<1> DEFINE s == S[j]
           lo == LoOf(s)
<1>5. SectionOK(s, x)
  BY <1>1, <1>4 DEF Sectioned
<1>6. /\ lo \in 1..Len(x) /\ HiOf(s) \in lo..Len(x)
      /\ \A i \in lo..HiOf(s) : x[i].kind # "heading"
  BY <1>2, <1>5, SectionEnds
<1>7. TitledBefore(s.title, x, lo)
  BY <1>5 DEF SectionOK
<1>8. k + 1 \in lo..HiOf(s)
  BY <1>4
<1> HIDE DEF s, lo
<1>9. lo = k + 1
  <2>1. k \notin lo..HiOf(s)
    BY <1>6
  <2>2. lo \in Nat /\ HiOf(s) \in Nat
    BY <1>2, <1>6
  <2> QED BY <1>3, <1>8, <2>1, <2>2
<1>10. k \in 1..((k + 1) - 1)
  BY <1>3
<1>11. PICK h \in 1..((k + 1) - 1) : /\ s.title = x[h].words
                                     /\ \A i \in (h + 1)..((k + 1) - 1) : x[i].kind # "heading"
  BY <1>7, <1>9, <1>10 DEF TitledBefore
<1>12. h = k
  <2>1. k \notin (h + 1)..((k + 1) - 1)
    BY <1>11
  <2>2. h \in Nat /\ h <= k
    BY <1>3
  <2> QED BY <1>3, <2>1, <2>2
<1> QED BY <1>4, <1>11, <1>12 DEF s, S

LEMMA HeadingInChunk ==
    ASSUME NEW x, BlocksOK(x), NEW k \in 1..Len(x), x[k].kind = "heading",
           k < Len(x), x[k + 1].kind # "heading"
    PROVE  \E n \in 1..Len(ChunkDocument(x)) :
              Places(x[k].words) \subseteq Places(Content(ChunkDocument(x)[n]))
<1> DEFINE S == BuildSections(x)
           gs == DocGroups(x)
           CH == ChunkDocument(x)
<1>1. PICK j \in 1..Len(S) : S[j].title = x[k].words
  BY HeadingIsTitle
<1>2. PICK g \in 1..Len(gs) : \E m \in 1..Len(gs[g]) : gs[g][m] = S[j]
  BY SectionInGroup
<1>3. PICK m \in 1..Len(gs[g]) : gs[g][m] = S[j]
  BY <1>2
<1>4. PICK n \in 1..Len(CH) : ChunkOf(CH[n], gs[g])
  BY <1>2, ChunksAre DEF Chunked
<1>5. CH[n] \in Seq(SourcedUnit)
  BY <1>4, ChunkTyped
<1>6. Groups(gs, S, x)
  BY GroupsFit DEF DocGroups
<1>7. x[k].words # <<>>
  BY DEF BlocksOK
<1> HIDE DEF S, gs, CH
<1>8. gs[g] \in Seq(Section) /\ \A q \in 1..Len(gs[g]) : SectionFit(gs[g][q])
  BY <1>2, <1>6 DEF Groups
<1>9. SectionFit(S[j])
  BY <1>3, <1>8
<1>10. S[j].title # NoTitle
  BY <1>1, <1>7 DEF NoTitle
<1>11. PICK i \in 1..Len(CH[n]) : CH[n][i].words = S[j].title
  BY <1>3, <1>4, <1>5, <1>8, <1>9, <1>10, TitleInChunk
<1>12. CH[n] \in Seq(Unit)
  BY <1>5, SourcedTyped
<1>13. ASSUME NEW p \in Places(x[k].words)
       PROVE  p \in Places(Content(CH[n]))
  <2>1. p \in Places(CH[n][i].words)
    BY <1>1, <1>11
  <2> QED BY <1>11, <1>12, <2>1, ContentIs
<1> QED BY <1>4, <1>13 DEF CH

LEMMA NothingLostHolds ==
    ASSUME IInv
    PROVE  NothingLost
<1> SUFFICES ASSUME JustChunked PROVE NothingLost
  BY DEF NothingLost
<1> DEFINE BD == [n \in DOMAIN chunks |-> Body(chunks[n])]
           bodies == FlattenSeq(BD)
           First(i) == \A j \in 1..(i - 1) : bodies[j].at # bodies[i].at
           kept == UNION { Places(Content(chunks[n])) : n \in DOMAIN chunks }
           W == DocUnits(blocks)
<1>1. BlocksOK(blocks) /\ chunks = ChunkDocument(blocks) /\ PagesOK(pages) /\ Normalized(blocks, pages)
  <2>1. FromFile /\ Made
    BY DEF IInv, JustChunked, Embedding, Unchunked
  <2>2. BlocksOK(blocks) /\ PagesOK(pages) /\ Normalized(blocks, pages)
    BY <2>1, MadeChunks
  <2> QED BY <2>1, <2>2 DEF Made
<1>2. chunks \in Seq(Seq(Unit)) /\ DOMAIN chunks = 1..Len(chunks) /\ Len(chunks) \in Nat
  BY <1>1, ChunksTyped
<1>3. \A n \in 1..Len(chunks) : chunks[n] \in Seq(SourcedUnit)
  BY <1>1, ChunkTyped
<1>4. BD \in Seq(Seq(Word)) /\ Len(BD) = Len(chunks) /\ \A n \in 1..Len(chunks) : BD[n] = Body(chunks[n])
  <2>1. \A n \in 1..Len(chunks) : Body(chunks[n]) \in Seq(Word)
    BY <1>3, BodyWithin
  <2> QED BY <1>2, <2>1
<1> HIDE DEF BD
<1>5. bodies \in Seq(Word) /\ \E c : Cuts(c, BD, bodies)
  BY <1>4, FlattenCuts
<1>6. PICK c : Cuts(c, BD, bodies)
  BY <1>5
<1>7. DOMAIN bodies = 1..Len(bodies)
  BY <1>5
<1>8. ASSUME NEW i \in DOMAIN bodies, First(i), NEW j \in 1..(i - 1)
      PROVE  Before(bodies[j].at, bodies[i].at)
  <2>1. /\ W \in Seq(Unit) /\ Ordered(W)
        /\ \A k \in 1..Len(W) : InOrder(W[k].words)
    BY <1>1, DocUnitsOrdered
  <2>2. PICK ws : /\ WindowsTo(ws, Len(W)) /\ Len(ws) = Len(chunks)
                  /\ \A m \in 1..Len(chunks) : BodyUnits(chunks[m]) = Win(W, ws[m])
    BY <1>1, ChunksAre DEF Bodies
  <2> HIDE DEF W
  <2>3. \A m \in 1..Len(ws) : BD[m] = Content(Win(W, ws[m]))
    BY <1>4, <2>2 DEF Body
  <2>4. Len(BD) = Len(ws)
    BY <1>4, <2>2
  <2>5. i \in 1..Len(bodies) /\ \A k \in 1..(i - 1) : bodies[k].at # bodies[i].at
    BY <1>7, <1>8
  <2> HIDE DEF bodies
  <2> QED BY <1>4, <1>5, <1>6, <1>8, <2>1, <2>2, <2>3, <2>4, <2>5, FirstOrdered
<1>9. ASSUME NEW p \in DOMAIN pages, NEW l \in DOMAIN pages[p],
             ~Blank(pages[p][l]), ~pages[p][l].noise
      PROVE  \/ Places(pages[p][l].words) \subseteq kept
             \/ BareHeading(pages[p][l])
             \/ PageMargin(p, l)
  <2> DEFINE line == pages[p][l]
  <2>1. p \in 1..Len(pages) /\ l \in 1..Len(pages[p]) /\ line.kind # "blank"
    <3>1. pages \in Seq(Seq(PlacedLine))
      BY <1>1 DEF PagesOK
    <3>2. p \in 1..Len(pages) /\ pages[p] \in Seq(PlacedLine)
      BY <3>1
    <3> QED BY <1>9, <3>2 DEF Blank
  <2>2. CASE InMargin(pages, p, l)
    BY <1>1, <2>1, <2>2, InPageMargin
  <2>3. ASSUME NEW k \in 1..Len(blocks),
               Places(line.words) \subseteq Places(blocks[k].words),
               blocks[k].kind = "heading" => blocks[k].words = line.words
        PROVE  \/ Places(line.words) \subseteq kept
               \/ BareHeading(line)
    <3>1. CASE blocks[k].kind # "heading"
      <4>1. ASSUME NEW a \in Places(line.words)
            PROVE  a \in kept
        <5>1. a \in Places(blocks[k].words)
          BY <2>3
        <5>2. PICK n \in 1..Len(chunks) : a \in Places(Content(chunks[n]))
          BY <1>1, <3>1, <5>1, BlockInChunk
        <5> QED BY <1>2, <5>2
      <4> QED BY <4>1
    <3>2. CASE blocks[k].kind = "heading" /\ k < Len(blocks) /\ blocks[k + 1].kind # "heading"
      <4>1. PICK n \in 1..Len(chunks) : Places(blocks[k].words) \subseteq Places(Content(chunks[n]))
        BY <1>1, <3>2, HeadingInChunk
      <4> QED BY <1>2, <2>3, <4>1
    <3>3. CASE blocks[k].kind = "heading" /\ (k = Len(blocks) \/ blocks[k + 1].kind = "heading")
      <4>1. blocks[k].words = line.words
        BY <2>3, <3>3
      <4>2. k \in DOMAIN blocks
        BY <1>1 DEF BlocksOK
      <4> QED BY <3>3, <4>1, <4>2 DEF BareHeading
    <3>4. k < Len(blocks) \/ k = Len(blocks)
      BY <1>1 DEF BlocksOK
    <3> QED BY <3>1, <3>2, <3>3, <3>4
  <2>4. \/ InMargin(pages, p, l)
        \/ \E k \in 1..Len(blocks) :
             /\ Places(line.words) \subseteq Places(blocks[k].words)
             /\ blocks[k].kind = "heading" => blocks[k].words = line.words
    BY <1>1, <1>9, <2>1 DEF Normalized
  <2> QED BY <2>2, <2>3, <2>4
<1> QED BY <1>8, <1>9 DEF NothingLost, BD

\* Whatever the file says, its chunks have it, in its order: every line but for
\* rules, page margins and headings that nothing stands under
\* (chunker.py:79-123, pdf_parser.py:77-112).
THEOREM NothingLostAlways == Spec => []NothingLost
<1>1. IInv => NothingLost
  BY NothingLostHolds
<1> QED BY <1>1, PassagesInductive, PTL

-----------------------------------------------------------------------------
(* The headings over a block                                               *)

\* e has the numbers I, upwards.
Lists(e, I) ==
    /\ e \in Seq(Nat)
    /\ Ascends(e, Len(e))
    /\ \A i : i \in I <=> \E k \in 1..Len(e) : e[k] = i

\* The numbers determine it, element by element.
LEMMA ListsAgree ==
    ASSUME NEW I, NEW e, NEW f, Lists(e, I), Lists(f, I)
    PROVE  Len(e) <= Len(f) /\ \A j \in 1..Len(e) : e[j] = f[j]
<1>1. e \in Seq(Nat) /\ f \in Seq(Nat) /\ Len(e) \in Nat /\ Len(f) \in Nat
  BY DEF Lists
<1>2. (\A j \in 1..Len(e) : e[j] \in Nat) /\ \A j \in 1..Len(f) : f[j] \in Nat
  BY <1>1
<1>3. \A j, k \in 1..Len(e) : j < k => e[j] < e[k]
  BY DEF Lists, Ascends
<1>4. \A j, k \in 1..Len(f) : j < k => f[j] < f[k]
  BY DEF Lists, Ascends
<1>5. \A j \in 1..Len(e) : \E g \in 1..Len(f) : f[g] = e[j]
  BY DEF Lists
<1>6. \A g \in 1..Len(f) : \E j \in 1..Len(e) : e[j] = f[g]
  BY DEF Lists
<1> DEFINE n == Len(e)
           m == Len(f)
           T == {k \in 0..n : k <= m /\ \A j \in 1..k : e[j] = f[j]}
<1> HIDE DEF n, m
<1>7. n \in Nat /\ m \in Nat
  BY <1>1 DEF n, m
<1>8. 0 \in T
  BY <1>7
<1>9. ASSUME NEW k \in 1..n, k - 1 \in T
      PROVE  k \in T
  <2>1. k - 1 <= m /\ \A j \in 1..(k - 1) : e[j] = f[j] /\ j \in 1..m /\ j \in 1..n /\ j < k
    BY <1>7, <1>9
  <2>2. PICK g \in 1..m : f[g] = e[k]
    BY <1>5 DEF n, m
  <2>3. g >= k
    <3> SUFFICES ASSUME g < k PROVE FALSE
      BY <1>7
    <3>1. g \in 1..(k - 1)
      BY <1>7
    <3>2. e[g] < e[k] /\ e[g] = f[g] /\ e[g] \in Nat /\ e[k] \in Nat
      BY <1>2, <1>3, <2>1, <3>1 DEF n
    <3> QED BY <2>2, <3>2
  <2>4. k \in 1..m
    BY <1>7, <2>3
  <2>5. f[k] <= e[k]
    <3>1. k = g \/ k < g
      BY <1>7, <2>3
    <3>2. k < g => f[k] < f[g]
      BY <1>4, <2>4 DEF m
    <3>3. f[k] \in Nat /\ f[g] \in Nat
      BY <1>2, <2>4 DEF m
    <3> QED BY <2>2, <3>1, <3>2, <3>3
  <2>6. PICK h \in 1..n : e[h] = f[k]
    BY <1>6, <2>4 DEF n, m
  <2>7. h >= k
    <3> SUFFICES ASSUME h < k PROVE FALSE
      BY <1>7
    <3>1. h \in 1..(k - 1)
      BY <1>7
    <3>2. f[h] < f[k] /\ e[h] = f[h] /\ f[h] \in Nat /\ f[k] \in Nat
      BY <1>2, <1>4, <2>1, <2>4, <3>1 DEF m
    <3> QED BY <2>6, <3>2
  <2>8. e[k] <= f[k]
    <3>1. k = h \/ k < h
      BY <1>7, <2>7
    <3>2. k < h => e[k] < e[h]
      BY <1>3 DEF n
    <3>3. e[k] \in Nat /\ e[h] \in Nat
      BY <1>2 DEF n
    <3> QED BY <2>6, <3>1, <3>2, <3>3
  <2>9. e[k] = f[k]
    <3>1. e[k] \in Nat /\ f[k] \in Nat
      BY <1>2, <2>4 DEF n, m
    <3> QED BY <2>5, <2>8, <3>1
  <2>10. \A j \in 1..k : j \in 1..(k - 1) \/ j = k
    BY <1>7
  <2> QED BY <1>7, <2>1, <2>4, <2>9, <2>10
<1>10. n \in T
  <2> HIDE DEF T
  <2> QED BY <1>7, <1>8, <1>9, Reaches
<1> QED BY <1>10 DEF n, m

LEMMA ListsOne ==
    ASSUME NEW I, NEW e, NEW f, Lists(e, I), Lists(f, I)
    PROVE  e = f
<1>1. Len(e) <= Len(f) /\ \A j \in 1..Len(e) : e[j] = f[j]
  BY ListsAgree
<1>2. Len(f) <= Len(e)
  BY ListsAgree
<1>3. e \in Seq(Nat) /\ f \in Seq(Nat)
  BY DEF Lists
<1> QED BY <1>1, <1>2, <1>3

\* Heading i is open at block k.
OpenAt(i, k) ==
    /\ blocks[i].kind = "heading"
    /\ \A j \in (i + 1)..k : blocks[j].kind = "heading" => blocks[j].level > blocks[i].level

OpenSet(k) == { i \in 1..k : OpenAt(i, k) }

LEMMA HeadingsList ==
    ASSUME NEW k \in Nat
    PROVE  Lists(Headings(k), OpenSet(k))
<1> DEFINE x == [i \in 1..k |-> i]
           H == Headings(k)
           I == OpenSet(k)
<1>1. x \in Seq(Nat) /\ Len(x) = k /\ \A i \in 1..k : x[i] = i
  OBVIOUS
<1>2. H = At(x, I)
  BY DEF Headings, OpenSet, OpenAt
<1>3. I \subseteq 1..k
  BY DEF OpenSet
<1> HIDE DEF x, I, H
<1>4. H \in Seq(Nat) /\ \E e : Picks(e, H, x, I, k)
  BY <1>1, <1>2, AtPicks
<1>5. PICK e : Picks(e, H, x, I, k)
  BY <1>4
<1>6. \A j \in 1..Len(H) : e[j] \in 1..k /\ e[j] \in I /\ H[j] = e[j]
  BY <1>1, <1>5 DEF Picks
<1>7. Ascends(H, Len(H))
  BY <1>5, <1>6 DEF Picks, Ascends
<1>8. \A i : i \in I <=> \E j \in 1..Len(H) : H[j] = i
  BY <1>3, <1>5, <1>6 DEF Picks
<1> QED BY <1>4, <1>7, <1>8 DEF Lists, H, I

\* The title over a block is that of the last heading.
LEMMA TitleOverIs ==
    ASSUME BlocksOK(blocks), NEW lo \in 1..Len(blocks), NEW k \in lo..Len(blocks), NEW t,
           TitledBefore(t, blocks, lo), \A i \in lo..k : blocks[i].kind # "heading"
    PROVE  TitleOver(k) = t
<1> DEFINE H == Headings(k)
           n == Len(H)
<1>1. k \in Nat /\ lo \in Nat /\ k >= lo
  BY DEF BlocksOK
<1>2. Lists(H, OpenSet(k))
  BY <1>1, HeadingsList
<1> HIDE DEF H
<1>3. H \in Seq(Nat) /\ n \in Nat /\ \A j \in 1..n : H[j] \in OpenSet(k)
  BY <1>2 DEF Lists
<1>4. CASE t = NoTitle /\ \A i \in 1..(lo - 1) : blocks[i].kind # "heading"
  <2>1. OpenSet(k) = {}
    <3>1. \A i \in 1..k : i \in 1..(lo - 1) \/ i \in lo..k
      BY <1>1
    <3> QED BY <1>4, <3>1 DEF OpenSet, OpenAt
  <2>2. n = 0
    <3>1. n > 0 => 1 \in 1..n
      BY <1>3
    <3> QED BY <1>3, <2>1, <3>1
  <2>3. H = <<>>
    BY <1>3, <2>2
  <2> QED BY <1>4, <2>3 DEF TitleOver, H
<1>5. CASE \E h \in 1..(lo - 1) : /\ blocks[h].kind = "heading"
                                 /\ t = blocks[h].words
                                 /\ \A i \in (h + 1)..(lo - 1) : blocks[i].kind # "heading"
  <2>1. PICK h \in 1..(lo - 1) : /\ blocks[h].kind = "heading"
                                /\ t = blocks[h].words
                                /\ \A i \in (h + 1)..(lo - 1) : blocks[i].kind # "heading"
    BY <1>5
  <2>2. h \in 1..k /\ \A i \in (h + 1)..k : blocks[i].kind # "heading"
    <3>1. \A i \in (h + 1)..k : i \in (h + 1)..(lo - 1) \/ i \in lo..k
      BY <1>1
    <3> QED BY <1>1, <2>1, <3>1
  <2>3. h \in OpenSet(k)
    BY <2>1, <2>2 DEF OpenSet, OpenAt
  <2>4. \A i \in OpenSet(k) : i \in Nat /\ i <= h
    BY <1>1, <2>2 DEF OpenSet, OpenAt
  <2>5. PICK j \in 1..n : H[j] = h
    BY <1>2, <2>3 DEF Lists
  <2>6. n \in 1..n /\ H # <<>>
    BY <1>3, <2>5
  <2>7. H[n] = h
    <3>1. H[n] \in Nat /\ H[n] <= h
      BY <1>3, <2>4, <2>6
    <3>2. j = n \/ j < n
      BY <1>3, <2>5
    <3>3. j < n => h < H[n]
      BY <1>2, <2>5, <2>6 DEF Lists, Ascends
    <3> QED BY <2>2, <2>5, <3>1, <3>2, <3>3
  <2>8. Last(H) = h
    BY <2>7 DEF Last
  <2> QED BY <2>1, <2>6, <2>8 DEF TitleOver, H
<1> QED BY <1>4, <1>5 DEF TitledBefore

LEMMA HeadingsNone == Headings(0) = <<>>
<1>1. Lists(Headings(0), OpenSet(0))
  BY HeadingsList
<1> DEFINE H == Headings(0)
<1> HIDE DEF H
<1>2. H \in Seq(Nat) /\ \A j \in 1..Len(H) : H[j] \in OpenSet(0)
  BY <1>1 DEF Lists, H
<1>3. OpenSet(0) = {}
  BY DEF OpenSet
<1>4. Len(H) > 0 => 1 \in 1..Len(H)
  BY <1>2
<1>5. Len(H) = 0
  BY <1>2, <1>3, <1>4
<1> QED BY <1>2, <1>5 DEF H

\* A block that is no heading changes nothing.
LEMMA HeadingsStay ==
    ASSUME NEW k \in Nat \ {0}, blocks[k].kind # "heading"
    PROVE  Headings(k) = Headings(k - 1)
<1>1. ASSUME NEW i \in 1..(k - 1)
      PROVE  OpenAt(i, k) <=> OpenAt(i, k - 1)
  <2>1. \A j \in (i + 1)..k : j \in (i + 1)..(k - 1) \/ j = k
    OBVIOUS
  <2>2. \A j \in (i + 1)..(k - 1) : j \in (i + 1)..k
    OBVIOUS
  <2> QED BY <2>1, <2>2 DEF OpenAt
<1>2. ~ OpenAt(k, k)
  BY DEF OpenAt
<1>3. \A i \in 1..k : i \in 1..(k - 1) \/ i = k
  OBVIOUS
<1>4. OpenSet(k) = OpenSet(k - 1)
  BY <1>1, <1>2, <1>3 DEF OpenSet
<1>5. Lists(Headings(k), OpenSet(k)) /\ Lists(Headings(k - 1), OpenSet(k - 1))
  BY HeadingsList
<1> QED BY <1>4, <1>5, ListsOne

\* Every heading stands at the level of its place.
LevelsCount(k) ==
    \A h \in 1..Len(Headings(k)) : blocks[Headings(k)[h]].level = h

\* So many of the headings over the block before are over heading k.
Above(n, level) == Min({n, level - 1})

LEMMA AboveIs ==
    ASSUME NEW n \in Nat, NEW level \in Nat, level >= 1
    PROVE  /\ Above(n, level) \in 0..n /\ Above(n, level) <= level - 1
           /\ \A h \in 1..n : h <= Above(n, level) <=> h < level
<1> DEFINE S == {n, level - 1}
<1>1. S \subseteq Nat /\ S # {}
  OBVIOUS
<1>2. Min(S) \in S /\ \A y \in S : Min(S) <= y
  <2> HIDE DEF S
  <2> QED BY <1>1, MinOf
<1>3. Min(S) \in {n, level - 1} /\ Min(S) <= n /\ Min(S) <= level - 1
  BY <1>2
<1> HIDE DEF S
<1> DEFINE m == Min(S)
<1>4. m = Above(n, level)
  BY DEF Above, S
<1> HIDE DEF m
<1>5. m \in {n, level - 1} /\ m <= n /\ m <= level - 1
  BY <1>3 DEF m
<1> QED BY <1>4, <1>5

\* A heading closes those of its level and higher ones.
LEMMA HeadingsGrow ==
    ASSUME NEW k \in Nat \ {0}, blocks[k].kind = "heading",
           NEW L \in Nat, L = blocks[k].level, L >= 1, LevelsCount(k - 1)
    PROVE  /\ Headings(k) = Append(SubSeq(Headings(k - 1), 1, Above(Len(Headings(k - 1)), L)), k)
           /\ Headings(k - 1) \in Seq(Nat)
<1> DEFINE H == Headings(k - 1)
           n == Len(H)
           q == Above(n, L)
           G == SubSeq(H, 1, q)
           e == Append(G, k)
<1>1. Lists(H, OpenSet(k - 1))
  BY HeadingsList
<1>2. \A h \in 1..n : blocks[H[h]].level = h
  BY DEF LevelsCount
<1> HIDE DEF H
<1>3. H \in Seq(Nat) /\ n \in Nat /\ Ascends(H, n)
  BY <1>1 DEF Lists
<1>4. q \in 0..n /\ \A h \in 1..n : h <= q <=> h < L
  <2> HIDE DEF n
  <2> QED BY <1>3, AboveIs
<1> HIDE DEF q, n
<1>5. G \in Seq(Nat) /\ Len(G) = q /\ \A h \in 1..q : G[h] = H[h] /\ h \in 1..n
  <2>1. q \in 0..Len(H) /\ n = Len(H)
    BY <1>4 DEF n
  <2> QED BY <1>3, <2>1
<1> HIDE DEF G
<1>6. e \in Seq(Nat) /\ Len(e) = q + 1 /\ e[q + 1] = k /\ \A h \in 1..q : e[h] = H[h] /\ h \in 1..n
  BY <1>5
<1> HIDE DEF e
<1>7. \A h \in 1..n : H[h] \in 1..(k - 1) /\ H[h] \in OpenSet(k - 1)
  BY <1>1 DEF Lists, OpenSet, n
<1>8. Ascends(e, q + 1)
  <2> SUFFICES ASSUME NEW a \in 1..(q + 1), NEW b \in 1..(q + 1), a < b
               PROVE  e[a] < e[b]
    BY DEF Ascends
  <2>1. a \in 1..q
    BY <1>4
  <2>2. CASE b = q + 1
    BY <1>6, <1>7, <2>1, <2>2
  <2>3. CASE b # q + 1
    <3>1. b \in 1..q
      BY <1>4, <2>3
    <3> QED BY <1>3, <1>6, <2>1, <3>1 DEF Ascends
  <2> QED BY <2>2, <2>3
<1>9. ASSUME NEW i \in 1..(k - 1)
      PROVE  OpenAt(i, k) <=> OpenAt(i, k - 1) /\ L > blocks[i].level
  <2>1. \A j \in (i + 1)..k : j \in (i + 1)..(k - 1) \/ j = k
    OBVIOUS
  <2>2. k \in (i + 1)..k /\ \A j \in (i + 1)..(k - 1) : j \in (i + 1)..k
    OBVIOUS
  <2> QED BY <2>1, <2>2 DEF OpenAt
<1>10. OpenAt(k, k)
  BY DEF OpenAt
<1>11. ASSUME NEW i, i \in OpenSet(k)
       PROVE  \E h \in 1..(q + 1) : e[h] = i
  <2>1. i \in 1..k /\ OpenAt(i, k)
    BY <1>11 DEF OpenSet
  <2>2. CASE i = k
    <3>1. q + 1 \in 1..(q + 1)
      BY <1>4
    <3> QED BY <1>6, <2>2, <3>1
  <2>3. CASE i # k
    <3>1. i \in 1..(k - 1)
      BY <2>1, <2>3
    <3>2. i \in OpenSet(k - 1) /\ L > blocks[i].level
      BY <1>9, <2>1, <3>1 DEF OpenSet
    <3>3. PICK h \in 1..n : H[h] = i
      BY <1>1, <3>2 DEF Lists, n
    <3>4. h < L
      BY <1>2, <3>2, <3>3 DEF n
    <3>5. h \in 1..q /\ h \in 1..(q + 1)
      BY <1>4, <3>4
    <3> QED BY <1>6, <3>3, <3>5
  <2> QED BY <2>2, <2>3
<1>12. ASSUME NEW h \in 1..(q + 1)
       PROVE  e[h] \in OpenSet(k)
  <2>1. CASE h = q + 1
    <3>1. k \in 1..k
      OBVIOUS
    <3> QED BY <1>6, <1>10, <2>1, <3>1 DEF OpenSet
  <2>2. CASE h # q + 1
    <3>1. h \in 1..q /\ h \in 1..n
      BY <1>3, <1>4, <2>2
    <3>2. h < L
      BY <1>4, <3>1
    <3>3. H[h] \in 1..(k - 1) /\ OpenAt(H[h], k - 1) /\ blocks[H[h]].level = h
      BY <1>2, <1>7, <3>1 DEF OpenSet, n
    <3>4. OpenAt(H[h], k)
      BY <1>9, <3>2, <3>3
    <3>5. H[h] \in 1..k
      BY <3>3
    <3> QED BY <1>6, <3>1, <3>4, <3>5 DEF OpenSet
  <2> QED BY <2>1, <2>2
<1>13. Lists(e, OpenSet(k))
  BY <1>6, <1>8, <1>11, <1>12 DEF Lists
<1>14. Lists(Headings(k), OpenSet(k))
  BY HeadingsList
<1>15. Headings(k) = e
  BY <1>13, <1>14, ListsOne
<1> QED BY <1>3, <1>15 DEF e, G, q, n, H

\* No level is skipped, so headings stand at the level of their place.
LEMMA LevelsStay ==
    ASSUME BlocksOK(blocks), NoLevelSkipped
    PROVE  \A k \in 0..Len(blocks) : LevelsCount(k)
<1> DEFINE n == Len(blocks)
           T == {k \in 0..n : LevelsCount(k)}
<1>1. n \in Nat /\ blocks \in Seq(DocBlock) /\ DOMAIN blocks = 1..n
  BY DEF BlocksOK
<1> HIDE DEF n
<1>2. 0 \in T
  <2>1. LevelsCount(0)
    BY HeadingsNone DEF LevelsCount
  <2> QED BY <1>1, <2>1
<1>3. ASSUME NEW k \in 1..n, k - 1 \in T
      PROVE  k \in T
  <2>1. LevelsCount(k - 1) /\ k \in 0..n /\ k \in Nat \ {0}
    BY <1>3
  <2>2. CASE blocks[k].kind # "heading"
    <3>1. Headings(k) = Headings(k - 1)
      BY <2>1, <2>2, HeadingsStay
    <3> QED BY <2>1, <3>1 DEF LevelsCount
  <2>3. CASE blocks[k].kind = "heading"
    <3> DEFINE L == blocks[k].level
               H == Headings(k - 1)
               q == Above(Len(H), L)
               e == Headings(k)
    <3>1. L \in Nat /\ L >= 1
      <4>1. k \in 1..Len(blocks)
        BY DEF n
      <4> QED BY <1>1, <2>3, <4>1, NumberedTyped DEF BlocksOK
    <3>2. e = Append(SubSeq(H, 1, q), k) /\ H \in Seq(Nat)
      BY <2>1, <2>3, <3>1, HeadingsGrow
    <3>3. \A h \in 1..Len(H) : blocks[H[h]].level = h
      BY <2>1 DEF LevelsCount
    <3>4. L = Len(e)
      BY <1>1, <2>3 DEF NoLevelSkipped
    <3> HIDE DEF H, L, e
    <3>5. q \in 0..Len(H)
      <4> DEFINE m == Len(H)
      <4>1. m \in Nat
        BY <3>2
      <4> HIDE DEF m
      <4>2. Above(m, L) \in 0..m
        BY <3>1, <4>1, AboveIs
      <4> QED BY <4>2 DEF m
    <3> HIDE DEF q
    <3> DEFINE G == SubSeq(H, 1, q)
    <3>6. G \in Seq(Nat) /\ Len(G) = q /\ \A h \in 1..q : G[h] = H[h] /\ h \in 1..Len(H)
      BY <3>2, <3>5
    <3> HIDE DEF G
    <3>7. Len(e) = q + 1 /\ e[q + 1] = k /\ \A h \in 1..q : e[h] = H[h] /\ h \in 1..Len(H)
      <4>1. e = Append(G, k)
        BY <3>2 DEF G
      <4> QED BY <3>6, <4>1
    <3>8. ASSUME NEW h \in 1..Len(e)
          PROVE  blocks[e[h]].level = h
      <4>1. CASE h = q + 1
        BY <3>4, <3>7, <4>1 DEF L
      <4>2. CASE h # q + 1
        <5>1. h \in 1..q
          BY <3>5, <3>7, <4>2
        <5> QED BY <3>3, <3>7, <5>1
      <4> QED BY <4>1, <4>2
    <3> QED BY <2>1, <3>8 DEF LevelsCount, e
  <2> QED BY <2>2, <2>3
<1>4. 0..n \subseteq T
  <2> HIDE DEF T
  <2> QED BY <1>1, <1>2, <1>3, UpTo
<1> QED BY <1>4 DEF n

\* The words of the headings over block k.
HeadPath(k) == [h \in DOMAIN Headings(k) |-> blocks[Headings(k)[h]].words]

PathsOK(S) == \A j \in 1..Len(S) : S[j].path = HeadPath(LoOf(S[j]))

\* What the chunker has of paths after k blocks.
PathsAt(acc, k) ==
    /\ acc.path = HeadPath(k)
    /\ acc.blocks # <<>> => acc.path = HeadPath(acc.blocks[1].index)
    /\ PathsOK(acc.sections)

LEMMA ClosePaths ==
    ASSUME NEW acc \in Sectioning, NEW k, PathsAt(acc, k)
    PROVE  /\ CloseSection(acc).path = acc.path /\ CloseSection(acc).blocks = <<>>
           /\ PathsOK(CloseSection(acc).sections)
           /\ CloseSection(acc) = [sections |-> CloseSection(acc).sections, title |-> acc.title,
                                   path |-> acc.path, blocks |-> <<>>]
<1>1. /\ acc.sections \in Seq(Section) /\ acc.title \in Seq(Word)
      /\ acc.path \in Seq(Seq(Word)) /\ acc.blocks \in Seq(SBlock)
      /\ acc = [sections |-> acc.sections, title |-> acc.title, path |-> acc.path, blocks |-> acc.blocks]
  BY DEF Sectioning
<1>2. CASE acc.blocks = <<>>
  <2>1. CloseSection(acc) = acc
    BY <1>2 DEF CloseSection
  <2> QED BY <1>1, <1>2, <2>1 DEF PathsAt
<1>3. CASE acc.blocks # <<>>
  <2> DEFINE new == [title |-> acc.title, path |-> acc.path, blocks |-> acc.blocks]
             S == acc.sections
             T == Append(S, new)
  <2>1. CloseSection(acc) = [acc EXCEPT !.sections = T, !.blocks = <<>>]
    BY <1>3 DEF CloseSection
  <2>2. new \in Section /\ new.path = acc.path /\ new.blocks = acc.blocks
    BY <1>1 DEF Section
  <2> HIDE DEF new
  <2>3. Len(T) = Len(S) + 1 /\ T[Len(S) + 1] = new
        /\ Len(S) \in Nat /\ \A j \in 1..Len(S) : T[j] = S[j]
    BY <1>1, <2>2
  <2> HIDE DEF T
  <2>4. CloseSection(acc) = [sections |-> T, title |-> acc.title, path |-> acc.path, blocks |-> <<>>]
    BY <1>1, <2>1
  <2>5. new.path = HeadPath(LoOf(new))
    BY <1>3, <2>2 DEF PathsAt, LoOf
  <2>6. PathsOK(T)
    <3> SUFFICES ASSUME NEW j \in 1..Len(T)
                 PROVE  T[j].path = HeadPath(LoOf(T[j]))
      BY DEF PathsOK
    <3>1. CASE j = Len(S) + 1
      BY <2>3, <2>5, <3>1
    <3>2. CASE j # Len(S) + 1
      <4>1. j \in 1..Len(S)
        BY <2>3, <3>2
      <4> QED BY <2>3, <4>1 DEF PathsAt, PathsOK
    <3> QED BY <3>1, <3>2
  <2> QED BY <2>4, <2>6
<1> QED BY <1>2, <1>3

LEMMA PathGrows ==
    ASSUME NEW k \in Nat \ {0}, blocks[k].kind = "heading",
           NEW L \in Nat, L = blocks[k].level, L >= 1, LevelsCount(k - 1)
    PROVE  HeadPath(k) = Append(SubSeq(HeadPath(k - 1), 1, Min({Len(HeadPath(k - 1)), L - 1})),
                                blocks[k].words)
<1> DEFINE H == Headings(k - 1)
           n == Len(H)
           q == Above(n, L)
           G == SubSeq(H, 1, q)
           e == Headings(k)
           P == HeadPath(k - 1)
           w == blocks[k].words
           above == SubSeq(P, 1, q)
           C == { blocks[H[h]].words : h \in 1..n } \cup {w}
<1>1. e = Append(G, k) /\ H \in Seq(Nat)
  BY HeadingsGrow
<1>2. P = [h \in DOMAIN H |-> blocks[H[h]].words]
  BY DEF HeadPath
<1>3. HeadPath(k) = [h \in DOMAIN e |-> blocks[e[h]].words]
  BY DEF HeadPath
<1> HIDE DEF H, e
<1>4. n \in Nat /\ DOMAIN H = 1..n
  BY <1>1
<1>5. q \in 0..n
  <2> HIDE DEF n
  <2> QED BY <1>4, AboveIs
<1>6. Len(P) = n /\ P \in Seq(C) /\ w \in C /\ \A h \in 1..n : P[h] = blocks[H[h]].words
  BY <1>2, <1>4
<1>7. q = Min({Len(P), L - 1})
  BY <1>6 DEF Above
<1> HIDE DEF q, P, w, C
<1>8. G \in Seq(Nat) /\ Len(G) = q /\ \A h \in 1..q : G[h] = H[h] /\ h \in 1..n
  BY <1>1, <1>4, <1>5
<1> HIDE DEF G, n
<1>9. Len(above) = q /\ above \in Seq(C) /\ \A h \in 1..q : above[h] = P[h]
  <2>1. q \in 0..Len(P) /\ P \in Seq(C) /\ Len(P) \in Nat
    BY <1>4, <1>5, <1>6
  <2> QED BY <2>1
<1>10. q \in Nat /\ Len(e) = q + 1 /\ e[q + 1] = k /\ DOMAIN e = 1..(q + 1) /\ \A h \in 1..q : e[h] = H[h] /\ h \in 1..n
  BY <1>1, <1>4, <1>5, <1>8
<1> HIDE DEF above
<1>11. DOMAIN Append(above, w) = 1..(q + 1) /\ Append(above, w)[q + 1] = w
       /\ (\A h \in 1..q : Append(above, w)[h] = above[h])
       /\ Append(above, w) = [h \in 1..(q + 1) |-> Append(above, w)[h]]
  <2> DEFINE A == Append(above, w)
  <2>1. above \in Seq(C) /\ w \in C /\ Len(above) = q /\ q \in Nat
    BY <1>6, <1>9, <1>10
  <2>2. A \in Seq(C) /\ Len(A) = q + 1
    BY <2>1
  <2>3. A[q + 1] = w /\ \A h \in 1..q : A[h] = above[h]
    BY <2>1
  <2> HIDE DEF A
  <2>4. DOMAIN A = 1..(q + 1) /\ A = [h \in 1..(q + 1) |-> A[h]]
    BY <2>1, <2>2
  <2> QED BY <2>3, <2>4 DEF A
<1>12. \A h \in 1..(q + 1) : blocks[e[h]].words = Append(above, w)[h]
  <2> SUFFICES ASSUME NEW h \in 1..(q + 1)
               PROVE  blocks[e[h]].words = Append(above, w)[h]
    OBVIOUS
  <2>1. CASE h = q + 1
    BY <1>10, <1>11, <2>1 DEF w
  <2>2. CASE h # q + 1
    <3>1. h \in 1..q
      BY <1>10, <2>2
    <3> QED BY <1>6, <1>9, <1>10, <1>11, <3>1
  <2> QED BY <2>1, <2>2
<1>13. HeadPath(k) = Append(above, w)
  BY <1>3, <1>10, <1>11, <1>12
<1> QED BY <1>7, <1>13 DEF above, w, P

LEMMA AddBlockPaths ==
    ASSUME BlocksOK(blocks), NEW acc \in Sectioning, NEW k \in 1..Len(blocks),
           LevelsCount(k - 1), PathsAt(acc, k - 1)
    PROVE  PathsAt(AddBlock(acc, blocks[k], k), k)
<1> DEFINE new == AddBlock(acc, blocks[k], k)
<1>1. /\ acc.sections \in Seq(Section) /\ acc.title \in Seq(Word)
      /\ acc.path \in Seq(Seq(Word)) /\ acc.blocks \in Seq(SBlock)
      /\ acc = [sections |-> acc.sections, title |-> acc.title, path |-> acc.path, blocks |-> acc.blocks]
  BY DEF Sectioning
<1>2. blocks \in Seq(DocBlock) /\ Len(blocks) \in Nat /\ k \in Nat \ {0}
  BY DEF BlocksOK
<1>3. CASE blocks[k].kind = "heading"
  <2> DEFINE closed == CloseSection(acc)
             L == blocks[k].level
             w == blocks[k].words
             P == Append(SubSeq(acc.path, 1, Min({Len(acc.path), L - 1})), w)
  <2>1. L \in Nat /\ L >= 1
    BY <1>2, <1>3, NumberedTyped DEF BlocksOK
  <2>2. P = HeadPath(k)
    BY <1>2, <1>3, <2>1, PathGrows DEF PathsAt
  <2>3. new = [closed EXCEPT !.title = w, !.path = P]
    BY <1>3 DEF AddBlock, OpenSection
  <2>4. closed = [sections |-> closed.sections, title |-> acc.title, path |-> acc.path, blocks |-> <<>>]
        /\ PathsOK(closed.sections)
    BY ClosePaths
  <2> HIDE DEF closed, new, P, w
  <2>5. new.sections = closed.sections /\ new.path = P /\ new.blocks = <<>>
    BY <2>3, <2>4
  <2> QED BY <2>2, <2>4, <2>5 DEF PathsAt, new
<1>4. CASE blocks[k].kind # "heading"
  <2> DEFINE b == acc.blocks
             c == Append(b, Numbered(blocks, k))
  <2>1. new = [acc EXCEPT !.blocks = c]
    BY <1>4 DEF AddBlock, Numbered
  <2> HIDE DEF c
  <2>2. new.sections = acc.sections /\ new.path = acc.path /\ new.blocks = c
    BY <1>1, <2>1
  <2>3. Numbered(blocks, k) \in SBlock /\ Numbered(blocks, k).index = k
    BY <1>2, NumberedTyped
  <2>4. HeadPath(k) = HeadPath(k - 1)
    BY <1>2, <1>4, HeadingsStay DEF HeadPath
  <2>5. acc.path = HeadPath(c[1].index)
    <3>1. CASE b = <<>>
      <4>1. c[1] = Numbered(blocks, k)
        BY <2>3, <3>1 DEF c
      <4> QED BY <2>3, <2>4, <4>1 DEF PathsAt
    <3>2. CASE b # <<>>
      <4>1. c[1] = b[1]
        BY <1>1, <2>3, <3>2 DEF c
      <4> QED BY <3>2, <4>1 DEF PathsAt
    <3> QED BY <3>1, <3>2
  <2> HIDE DEF new, b
  <2> QED BY <2>2, <2>4, <2>5 DEF PathsAt, new
<1> QED BY <1>3, <1>4

\* The path of a section is the headings over its first block.
LEMMA SectionPaths ==
    ASSUME BlocksOK(blocks), NoLevelSkipped
    PROVE  PathsOK(BuildSections(blocks))
<1> DEFINE n == Len(blocks)
           x == blocks
<1>1. x \in Seq(DocBlock) /\ n \in Nat
  BY DEF BlocksOK
<1>2. NoSections \in Sectioning
  BY DEF NoSections, Sectioning, NoTitle
<1>3. PICK r \in [0..n -> Sectioning] :
        /\ r[0] = NoSections
        /\ \A k \in 1..n : r[k] = AddBlock(r[k - 1], x[k], k)
        /\ BuildSections(x) = CloseSection(r[n]).sections
  <2>1. \A e \in Sectioning : \A k \in 1..Len(x) : AddBlock(e, x[k], k) \in Sectioning
    BY AddBlockTyped
  <2> QED BY <1>1, <1>2, <2>1, SectionSteps
<1> DEFINE T == {k \in 0..n : PathsAt(r[k], k)}
<1>4. 0 \in T
  <2>1. /\ NoSections.sections = <<>> /\ NoSections.blocks = <<>> /\ NoSections.path = <<>>
        /\ Len(<<>>) = 0
    BY DEF NoSections
  <2>2. HeadPath(0) = <<>>
    BY HeadingsNone DEF HeadPath
  <2>3. PathsAt(NoSections, 0)
    BY <2>1, <2>2 DEF PathsAt, PathsOK
  <2> QED BY <1>1, <1>3, <2>3
<1>5. ASSUME NEW k \in 1..n, k - 1 \in T
      PROVE  k \in T
  <2>1. k - 1 \in 0..n /\ k \in 0..n /\ k \in 1..Len(blocks)
    OBVIOUS
  <2>2. r[k - 1] \in Sectioning /\ r[k] = AddBlock(r[k - 1], x[k], k)
    BY <1>3, <2>1
  <2>3. LevelsCount(k - 1)
    BY <2>1, LevelsStay
  <2> QED BY <1>5, <2>1, <2>2, <2>3, AddBlockPaths
<1>6. PathsAt(r[n], n) /\ r[n] \in Sectioning
  <2>1. n \in T
    <3> HIDE DEF T, n
    <3> QED BY <1>1, <1>4, <1>5, Reaches
  <2> QED BY <1>1, <1>3, <2>1
<1>7. PathsOK(CloseSection(r[n]).sections)
  BY <1>6, ClosePaths
<1> QED BY <1>3, <1>7

-----------------------------------------------------------------------------
(* The blocks of a unit                                                    *)

\* No two blocks have a place of the file.
LEMMA BlocksApart ==
    ASSUME NEW x, BlocksOK(x), NEW k \in 1..Len(x), NEW l \in 1..Len(x),
           NEW p \in Places(x[k].words), p \in Places(x[l].words)
    PROVE  k = l
<1>1. x \in Seq(DocBlock) /\ Len(x) \in Nat
  BY DEF BlocksOK
<1>2. p \in Place
  <2>1. x[k].words \in Seq(Word)
    BY <1>1, NumberedTyped
  <2> QED BY <2>1, PlacesAre
<1>3. ~ Before(p, p)
  BY <1>2, NotBefore
<1>4. ~ (k < l) /\ ~ (l < k)
  BY <1>3 DEF BlocksOK, Precede
<1> QED BY <1>1, <1>4

\* The title of a section is the first block's, its path the headings over it.
LEMMA PathsHold ==
    ASSUME BlocksOK(blocks), NoLevelSkipped
    PROVE  \A s \in Range(BuildSections(blocks)) :
              \A k \in DOMAIN blocks :
                 blocks[k].words = s.blocks[1].words =>
                    s.path = [h \in DOMAIN Headings(k) |-> blocks[Headings(k)[h]].words]
<1> DEFINE S == BuildSections(blocks)
<1>1. S \in Seq(Section) /\ Sectioned(S, blocks, Len(blocks)) /\ PathsOK(S)
  BY SectionsAre, SectionPaths
<1>2. blocks \in Seq(DocBlock) /\ DOMAIN blocks = 1..Len(blocks) /\ Len(blocks) \in Nat
  BY DEF BlocksOK
<1> SUFFICES ASSUME NEW s \in Range(S), NEW k \in DOMAIN blocks,
                    blocks[k].words = s.blocks[1].words
             PROVE  s.path = [h \in DOMAIN Headings(k) |-> blocks[Headings(k)[h]].words]
  OBVIOUS
<1> HIDE DEF S
<1>3. PICK j \in 1..Len(S) : s = S[j]
  BY <1>1 DEF Range
<1>4. SectionOK(s, blocks) /\ s.path = HeadPath(LoOf(s))
  BY <1>1, <1>3 DEF Sectioned, PathsOK
<1> DEFINE lo == LoOf(s)
<1>5. lo \in 1..Len(blocks) /\ s.blocks[1] = Numbered(blocks, lo)
  <2>1. lo \in 1..Len(blocks) /\ HiOf(s) \in lo..Len(blocks)
    BY <1>2, <1>4, SectionEnds
  <2>2. s.blocks[lo - lo + 1] = Numbered(blocks, lo)
    <3>1. lo \in lo..HiOf(s)
      BY <1>2, <2>1
    <3> QED BY <1>2, <1>4, <3>1, SectionEnds
  <2>3. lo - lo + 1 = 1
    BY <1>2, <2>1
  <2> QED BY <2>1, <2>2, <2>3
<1> HIDE DEF lo
<1>6. blocks[lo].words = blocks[k].words
  BY <1>2, <1>5, NumberedTyped
<1>7. PICK p : p \in Places(blocks[k].words)
  <2>1. blocks[k].words \in Seq(Word) /\ blocks[k].words # <<>>
    BY <1>2, NumberedTyped DEF BlocksOK
  <2> QED BY <2>1, PlacesAre
<1>8. k = lo
  BY <1>2, <1>5, <1>6, <1>7, BlocksApart
<1> QED BY <1>4, <1>8 DEF HeadPath, lo

\* A unit is from z blocks that follow each other, after the first d.
SpanOf(u, s, x, d, z) ==
    /\ d \in Nat /\ z \in Nat /\ z > 0
    /\ \A i : i \in u.from <=> \E m \in 1..z : i = d + m
    /\ \A m \in 1..z : d + m \in LoOf(s)..HiOf(s)
    /\ z > 1 => \A m \in 1..z : x[d + m].kind = "qa_pair"

LEMMA UnitSpan ==
    ASSUME NEW x \in Seq(DocBlock), NEW s, SectionOK(s, x), NEW u, UnitFrom(u, s)
    PROVE  \E d, z : SpanOf(u, s, x, d, z)
<1> DEFINE bs == s.blocks
           lo == LoOf(s)
           hi == HiOf(s)
           n == Len(bs)
<1>1. PICK q \in Seq(SBlock) :
         /\ Len(q) > 0
         /\ \E a \in 1..Len(bs), b \in 1..Len(bs) : q = SubSeq(bs, a, b)
         /\ Len(q) > 1 => \A i \in 1..Len(q) : q[i].kind = "qa_pair"
         /\ u.from = IndicesOf(q)
  BY DEF UnitFrom
<1>2. PICK a \in 1..Len(bs), b \in 1..Len(bs) : q = SubSeq(bs, a, b)
  BY <1>1
<1>3. bs \in Seq(SBlock) /\ n \in Nat
  BY SectionFields DEF SectionOK
<1>4. lo \in 1..Len(x) /\ hi = lo + n - 1 /\ lo \in Nat
  BY SectionEnds DEF HiOf
<1>5. Stretch(bs, x, lo)
  BY DEF SectionOK
<1> HIDE DEF bs, lo, hi
<1> DEFINE z == Len(q)
           d == lo + a - 2
<1>6. a \in 1..n /\ b \in 1..n /\ q = SubSeq(bs, a, b)
  BY <1>2
<1>7. z \in Nat /\ z > 0
  BY <1>1
<1> HIDE DEF n
<1>8. d \in Nat
  BY <1>3, <1>4, <1>6
<1>9. ASSUME NEW m \in 1..z
      PROVE  a + m - 1 \in 1..n /\ q[m] = bs[a + m - 1]
  <2>1. Len(q) = (IF a <= b THEN b - a + 1 ELSE 0) /\ \A i \in 1..(b - a + 1) : q[i] = bs[a + i - 1]
    BY <1>3, <1>6, SubSeqProperties DEF n
  <2> QED BY <1>3, <1>6, <2>1
<1>10. ASSUME NEW m \in 1..z
       PROVE  d + m \in 1..Len(x) /\ d + m \in lo..hi /\ q[m].index = d + m /\ q[m].kind = x[d + m].kind
  <2> DEFINE k == a + m - 1
  <2>1. k \in 1..n /\ q[m] = bs[k]
    BY <1>9
  <2>2. lo + k - 1 = d + m
    BY <1>3, <1>4, <1>6, <1>7
  <2> HIDE DEF k
  <2>3. lo + k - 1 \in 1..Len(x) /\ bs[k] = Numbered(x, lo + k - 1)
    BY <1>5, <2>1 DEF Stretch, n
  <2>4. lo + k - 1 \in lo..hi
    BY <1>3, <1>4, <2>1
  <2> HIDE DEF d
  <2> QED BY <2>1, <2>2, <2>3, <2>4, NumberedTyped
<1> HIDE DEF d
<1>11. \A i : i \in u.from <=> \E m \in 1..z : i = d + m
  <2>1. u.from = { q[m].index : m \in 1..z }
    BY <1>1 DEF IndicesOf
  <2> HIDE DEF z
  <2> QED BY <1>10, <2>1
<1>12. z > 1 => \A m \in 1..z : x[d + m].kind = "qa_pair"
  <2>1. z > 1 => \A m \in 1..z : q[m].kind = "qa_pair"
    BY <1>1
  <2> HIDE DEF z
  <2> QED BY <1>10, <2>1
<1>13. \A m \in 1..z : d + m \in lo..hi
  BY <1>10
<1> HIDE DEF z
<1>14. SpanOf(u, s, x, d, z)
  BY <1>7, <1>8, <1>11, <1>12, <1>13 DEF SpanOf, lo, hi
<1> QED BY <1>14

\* A block that shares a place with a unit is one it is from, and of its section.
LEMMA BlockOfUnit ==
    ASSUME NEW x, BlocksOK(x), NEW s, SectionOK(s, x), NEW u, UnitFrom(u, s),
           NEW k \in 1..Len(x), NEW p \in Places(x[k].words), p \in Places(u.words)
    PROVE  k \in u.from /\ k \in LoOf(s)..HiOf(s)
<1>1. x \in Seq(DocBlock)
  BY DEF BlocksOK
<1>2. PICK i \in LoOf(s)..HiOf(s) : i \in u.from /\ p \in Places(x[i].words)
  BY <1>1, UnitWithin
<1>3. i \in 1..Len(x)
  BY <1>1, SectionEnds
<1>4. k = i
  BY <1>2, <1>3, BlocksApart
<1> QED BY <1>2, <1>4

\* A unit has text of a block it is from.
LEMMA UnitHasBlock ==
    ASSUME NEW x, BlocksOK(x), NEW s, SectionOK(s, x), NEW u, UnitFrom(u, s)
    PROVE  \E k \in u.from : /\ k \in LoOf(s)..HiOf(s) /\ k \in 1..Len(x)
                             /\ Places(x[k].words) \cap Places(u.words) # {}
<1>1. x \in Seq(DocBlock)
  BY DEF BlocksOK
<1>2. u.words \in Seq(Word) /\ u.words # <<>>
  <2>1. u \in Unit
    BY DEF UnitFrom, SourcedUnit
  <2>2. u.words # <<>>
    BY DEF UnitFrom, PartOK
  <2> QED BY <2>1, <2>2 DEF Unit
<1>3. PICK p : p \in Places(u.words)
  BY <1>2, PlacesAre
<1>4. PICK i \in LoOf(s)..HiOf(s) : i \in u.from /\ p \in Places(x[i].words)
  BY <1>1, <1>3, UnitWithin
<1>5. i \in 1..Len(x)
  BY <1>1, SectionEnds
<1> QED BY <1>3, <1>4, <1>5

\* The blocks of a unit are of its section, and of one run when they are several.
LEMMA UnitRun ==
    ASSUME BlocksOK(blocks), NEW s, SectionOK(s, blocks), NEW u, UnitFrom(u, s),
           NEW k \in u.from, NEW l \in u.from
    PROVE  k \in 1..Len(blocks) /\ (k = l \/ SameRun(k, l))
<1>1. blocks \in Seq(DocBlock) /\ Len(blocks) \in Nat
  BY DEF BlocksOK
<1>2. \E d, z : SpanOf(u, s, blocks, d, z)
  BY <1>1, UnitSpan
<1>3. PICK d, z : SpanOf(u, s, blocks, d, z)
  BY <1>2
<1>4. d \in Nat /\ z \in Nat
  BY <1>3 DEF SpanOf
<1>5. PICK m \in 1..z : k = d + m
  BY <1>3 DEF SpanOf
<1>6. PICK o \in 1..z : l = d + o
  BY <1>3 DEF SpanOf
<1>7. k \in 1..Len(blocks)
  <2>1. k \in LoOf(s)..HiOf(s)
    BY <1>3, <1>5 DEF SpanOf
  <2> QED BY <1>1, <2>1, SectionEnds
<1>8. CASE z <= 1
  <2>1. m = o
    BY <1>4, <1>5, <1>6, <1>8
  <2> QED BY <1>5, <1>6, <1>7, <2>1
<1>9. CASE z > 1
  <2> DEFINE low == Min({k, l})
             high == Max({k, l})
  <2>1. k \in Nat /\ l \in Nat /\ k >= 1 /\ l >= 1
    BY <1>4, <1>5, <1>6
  <2>2. low \in {k, l}
    <3> DEFINE P == {k, l}
    <3>1. P \subseteq Nat /\ P # {}
      BY <2>1
    <3> HIDE DEF P
    <3>2. Min(P) \in P
      BY <3>1, MinOf
    <3> QED BY <3>2 DEF P
  <2>3. high \in {k, l}
    <3> DEFINE P == {k, l}
    <3>1. P \in SUBSET (1..(k + l)) /\ P # {} /\ k + l \in Nat
      BY <2>1
    <3> HIDE DEF P
    <3>2. Max(P) \in P
      BY <3>1, MaxOf
    <3> QED BY <3>2 DEF P
  <2> HIDE DEF low, high
  <2>4. ASSUME NEW i \in low..high
        PROVE  blocks[i].kind = "qa_pair"
    <3>1. i - d \in 1..z /\ d + (i - d) = i
      BY <1>4, <1>5, <1>6, <2>1, <2>2, <2>3
    <3>2. \A r \in 1..z : blocks[d + r].kind = "qa_pair"
      BY <1>3, <1>9 DEF SpanOf
    <3>3. blocks[d + (i - d)].kind = "qa_pair"
      BY <3>1, <3>2
    <3> QED BY <3>1, <3>3
  <2> QED BY <1>7, <2>4 DEF SameRun, low, high
<1> QED BY <1>4, <1>8, <1>9

-----------------------------------------------------------------------------
(* The sections of a chunk                                                 *)

\* The last heading of a chunk before unit i is that title.
Under(ch, i, t) ==
    IF t = NoTitle THEN \A v \in 1..i : ~ch[v].heading
    ELSE \E v \in 1..i : /\ ch[v].heading /\ ch[v].words = t
                         /\ \A w \in (v + 1)..i : ~ch[w].heading

\* Every block a heading names is one that text of the chunk is from.
HeadsText(ch, i) ==
    \A k \in ch[i].from : \E j \in 1..Len(ch) : ~ch[j].heading /\ k \in ch[j].from

\* Unit i of a chunk is of section s.
UnitOf(ch, i, s) ==
    /\ ch[i].title = s.title
    /\ ch[i].heading => HeadsText(ch, i)
    /\ ~ch[i].heading => UnitFrom(ch[i], s) /\ Under(ch, i, s.title)

\* The units of a chunk are of the sections of g that o says, in order, and no
\* heading is without text.
Owners(o, ch, g) ==
    /\ o \in [1..Len(ch) -> 1..Len(g)]
    /\ \A i, j \in 1..Len(ch) : i < j => o[i] <= o[j]
    /\ \A i \in 1..Len(ch) : /\ UnitOf(ch, i, g[o[i]])
                             /\ \E j \in 1..Len(ch) : ~ch[j].heading /\ o[j] = o[i]

LEMMA OwnersOfSection ==
    ASSUME NEW g \in Seq(Section), Len(g) = 1, NEW ch, OfSection(ch, g[1])
    PROVE  Len(ch) > 0 /\ \E o : Owners(o, ch, g)
<1> DEFINE s == g[1]
           t == s.title
<1>1. s \in Section /\ t \in Seq(Word)
  <2>1. s \in Section
    OBVIOUS
  <2> QED BY <2>1, SectionFields
<1>2. PICK us \in Seq(SourcedUnit) :
         /\ us # <<>>
         /\ \A i \in 1..Len(us) : UnitFrom(us[i], s)
         /\ ch = ApplyStickyHeading(us, t)
  BY DEF OfSection
<1>3. 1 \in 1..Len(g)
  OBVIOUS
<1> HIDE DEF s
<1> DEFINE n == Len(us)
<1>4. n \in Nat /\ n > 0 /\ 1 \in 1..n
  BY <1>2
<1>5. \A i \in 1..n : us[i].heading = FALSE /\ us[i].title = t
  BY <1>2 DEF UnitFrom
<1>6. Plain(us)
  BY <1>5 DEF Plain
<1> HIDE DEF t, n
<1> DEFINE o == [i \in 1..Len(ch) |-> 1]
<1>7. CASE t = NoTitle
  <2>1. ch = us
    BY <1>2, <1>7 DEF ApplyStickyHeading
  <2>2. ASSUME NEW i \in 1..n
        PROVE  UnitOf(ch, i, s)
    <3>1. \A v \in 1..i : v \in 1..n
      BY <1>4
    <3>2. Under(ch, i, t)
      BY <1>5, <1>7, <2>1, <3>1 DEF Under
    <3> QED BY <1>2, <1>5, <2>1, <3>2 DEF UnitOf, n, t
  <2>3. Len(ch) = n
    BY <2>1 DEF n
  <2>4. \A i \in 1..Len(ch) : o[i] = 1
    OBVIOUS
  <2>5. o \in [1..Len(ch) -> 1..Len(g)]
    BY <1>3
  <2> HIDE DEF o
  <2>6. \A i \in 1..Len(ch) : UnitOf(ch, i, g[o[i]]) /\ \E j \in 1..Len(ch) : ~ch[j].heading /\ o[j] = o[i]
    BY <1>4, <1>5, <2>1, <2>2, <2>3, <2>4 DEF s
  <2>7. Owners(o, ch, g)
    BY <2>4, <2>5, <2>6 DEF Owners
  <2> QED BY <1>4, <2>3, <2>7
<1>8. CASE t # NoTitle
  <2> DEFINE h == TitleUnit(t, {Min(us[1].from)})
  <2>1. h \in SourcedUnit /\ Min(us[1].from) \in us[1].from
    BY <1>1, <1>2, <1>8, StickyTyped DEF t
  <2>2. h.heading = TRUE /\ h.words = t /\ h.title = t /\ h.from = {Min(us[1].from)}
    BY DEF TitleUnit
  <2>3. ch = <<h>> \o us
    BY <1>2, <1>8 DEF ApplyStickyHeading
  <2> HIDE DEF h
  <2>4. Len(ch) = n + 1 /\ ch[1] = h /\ \A i \in 1..n : ch[i + 1] = us[i]
    <3>1. /\ Len(<<h>> \o us) = Len(us) + 1 /\ (<<h>> \o us)[1] = h
          /\ \A i \in 1..Len(us) : (<<h>> \o us)[i + 1] = us[i]
      BY <1>2, <1>6, <2>1, <2>2, HeadedBody
    <3> QED BY <2>3, <3>1 DEF n
  <2>5. \A i \in 2..(n + 1) : i - 1 \in 1..n /\ (i - 1) + 1 = i
    BY <1>4
  <2>6. ASSUME NEW i \in 2..(n + 1)
        PROVE  ch[i] = us[i - 1] /\ i - 1 \in 1..n
    <3>1. i - 1 \in 1..n /\ (i - 1) + 1 = i
      BY <2>5
    <3>2. ch[(i - 1) + 1] = us[i - 1]
      BY <2>4, <3>1
    <3> QED BY <3>1, <3>2
  <2>7. ~ch[2].heading /\ 2 \in 1..Len(ch) /\ ch[2] = us[1]
    <3>1. 2 \in 2..(n + 1) /\ 2 - 1 = 1
      BY <1>4
    <3>2. ch[2] = us[1]
      BY <2>6, <3>1
    <3> QED BY <1>4, <1>5, <2>4, <3>2
  <2>8. UnitOf(ch, 1, s)
    <3>1. HeadsText(ch, 1)
      BY <2>1, <2>2, <2>4, <2>7 DEF HeadsText
    <3> QED BY <2>2, <2>4, <3>1 DEF UnitOf, t
  <2>9. ASSUME NEW i \in 2..(n + 1)
        PROVE  UnitOf(ch, i, s)
    <3>1. \A w \in (1 + 1)..i : w \in 2..(n + 1)
      BY <1>4
    <3>2. \A w \in (1 + 1)..i : ~ch[w].heading
      BY <1>5, <2>6, <3>1
    <3>3. 1 \in 1..i
      BY <1>4
    <3>4. Under(ch, i, t)
      BY <1>8, <2>2, <2>4, <3>2, <3>3 DEF Under
    <3>5. UnitFrom(ch[i], s) /\ ch[i].title = t /\ ~ch[i].heading
      BY <1>2, <1>5, <2>6 DEF n
    <3> QED BY <3>4, <3>5 DEF UnitOf, t
  <2>10. \A i \in 1..Len(ch) : i = 1 \/ i \in 2..(n + 1)
    BY <1>4, <2>4
  <2>11. \A i \in 1..Len(ch) : o[i] = 1
    OBVIOUS
  <2>12. o \in [1..Len(ch) -> 1..Len(g)]
    BY <1>3
  <2> HIDE DEF o
  <2>13. \A i \in 1..Len(ch) : UnitOf(ch, i, g[o[i]]) /\ \E j \in 1..Len(ch) : ~ch[j].heading /\ o[j] = o[i]
    BY <2>7, <2>8, <2>9, <2>10, <2>11 DEF s
  <2>14. Owners(o, ch, g)
    BY <2>11, <2>12, <2>13 DEF Owners
  <2>15. Len(ch) > 0
    BY <1>4, <2>4
  <2> QED BY <2>14, <2>15
<1> QED BY <1>7, <1>8

\* Every block of a section has a unit.
LEMMA SourceInUnit ==
    ASSUME NEW x, BlocksOK(x), NEW s, SectionOK(s, x), SectionFit(s), NEW k \in SourcesOf(s)
    PROVE  \E i \in 1..Len(BuildUnits(s)) : k \in BuildUnits(s)[i].from
<1> DEFINE bs == s.blocks
           U == BuildUnits(s)
<1>1. x \in Seq(DocBlock) /\ bs \in Seq(SBlock) /\ BodyOK(bs)
  BY DEF BlocksOK, SectionFit, BodyOK
<1>2. PICK m \in 1..Len(bs) : k = bs[m].index
  <2>1. PICK b \in Range(bs) : k = b.index
    BY DEF SourcesOf
  <2> QED BY <1>1, <2>1 DEF Range
<1>3. UnitsOf(U, s)
  BY BuildUnitsAre DEF SectionFit
<1>4. bs[m].words \in Seq(Word) /\ bs[m].words # <<>>
  BY <1>1, SBlockFields DEF BodyOK
<1>5. PICK p : p \in Places(bs[m].words)
  BY <1>4, PlacesAre
<1>6. p \in PlacesOf(bs)
  BY <1>5 DEF PlacesOf
<1>7. PICK i \in 1..Len(U) : p \in Places(U[i].words)
  BY <1>3, <1>6 DEF UnitsOf
<1>8. LoOf(s) + m - 1 \in 1..Len(x) /\ bs[m] = Numbered(x, LoOf(s) + m - 1)
  BY DEF SectionOK, Stretch
<1>9. k \in 1..Len(x) /\ bs[m].words = x[k].words
  BY <1>1, <1>2, <1>8, NumberedTyped
<1>10. UnitFrom(U[i], s)
  BY <1>3 DEF UnitsOf
<1> HIDE DEF U
<1>11. k \in U[i].from
  BY <1>5, <1>7, <1>9, <1>10, BlockOfUnit
<1> QED BY <1>11 DEF U

\* The units of a section among others: its title, then its text.
LEMMA TitledUnit ==
    ASSUME NEW s, SectionFit(s), NEW m \in 1..Len(Titled(s))
    PROVE  /\ Titled(s)[m].title = s.title
           /\ Titled(s)[m].heading <=> s.title # NoTitle /\ m = 1
           /\ Titled(s)[m].heading => Titled(s)[m].words = s.title /\ Titled(s)[m].from = SourcesOf(s)
           /\ ~Titled(s)[m].heading => UnitFrom(Titled(s)[m], s)
<1> DEFINE U == BuildUnits(s)
           T == Titled(s)
<1>1. U \in Seq(SourcedUnit) /\ Len(U) > 0 /\ \A i \in 1..Len(U) : UnitFrom(U[i], s)
  BY UnitsTyped
<1>2. \A i \in 1..Len(U) : U[i].title = s.title /\ U[i].heading = FALSE
  BY <1>1 DEF UnitFrom
<1>3. CASE s.title = NoTitle
  <2>1. T = U
    BY <1>3, TitledIs
  <2> QED BY <1>1, <1>2, <1>3, <2>1
<1>4. CASE s.title # NoTitle
  <2>1. /\ Len(T) = Len(U) + 1
        /\ T[1] = TitleUnit(s.title, SourcesOf(s))
        /\ \A i \in 1..Len(U) : T[i + 1] = U[i]
    BY <1>4, TitledIs
  <2> HIDE DEF T, U
  <2>2. CASE m = 1
    BY <1>4, <2>1, <2>2 DEF TitleUnit, T
  <2>3. CASE m # 1
    <3>1. m - 1 \in 1..Len(U) /\ (m - 1) + 1 = m
      BY <1>1, <2>1, <2>3 DEF T
    <3>2. T[(m - 1) + 1] = U[m - 1]
      BY <2>1, <3>1
    <3>3. T[m] = U[m - 1]
      BY <3>1, <3>2
    <3> QED BY <1>1, <1>2, <1>4, <2>3, <3>1, <3>3 DEF T
  <2> QED BY <2>2, <2>3
<1> QED BY <1>3, <1>4

\* The text of a section has a unit of each of its blocks.
LEMMA TitledSource ==
    ASSUME NEW x, BlocksOK(x), NEW s, SectionOK(s, x), SectionFit(s)
    PROVE  /\ \E m \in 1..Len(Titled(s)) : ~Titled(s)[m].heading
           /\ \A k \in SourcesOf(s) : \E m \in 1..Len(Titled(s)) : /\ ~Titled(s)[m].heading
                                                                   /\ k \in Titled(s)[m].from
<1> DEFINE U == BuildUnits(s)
           T == Titled(s)
<1>1. U \in Seq(SourcedUnit) /\ Len(U) > 0 /\ \A i \in 1..Len(U) : UnitFrom(U[i], s)
  BY UnitsTyped
<1>2. \A i \in 1..Len(U) : U[i].heading = FALSE
  BY <1>1 DEF UnitFrom
<1>3. \A i \in 1..Len(U) : \E m \in 1..Len(T) : T[m] = U[i]
  <2>1. CASE s.title = NoTitle
    <3>1. T = U
      BY <2>1, TitledIs
    <3> QED BY <3>1
  <2>2. CASE s.title # NoTitle
    <3>1. Len(T) = Len(U) + 1 /\ \A i \in 1..Len(U) : T[i + 1] = U[i]
      BY <2>2, TitledIs
    <3> HIDE DEF T, U
    <3>2. \A i \in 1..Len(U) : i + 1 \in 1..Len(T)
      BY <1>1, <3>1
    <3> QED BY <3>1, <3>2
  <2> QED BY <2>1, <2>2
<1>4. \A k \in SourcesOf(s) : \E i \in 1..Len(U) : k \in U[i].from
  BY SourceInUnit
<1>5. 1 \in 1..Len(U)
  BY <1>1
<1> HIDE DEF T, U
<1> QED BY <1>2, <1>3, <1>4, <1>5 DEF T

\* Element i of the whole is of part k.
PartOf(c, parts, whole, i, k) ==
    /\ k \in 1..Len(parts)
    /\ c[k - 1] \in 0..Len(whole) /\ c[k] \in 0..Len(whole)
    /\ i \in (c[k - 1] + 1)..c[k]
    /\ i - c[k - 1] \in 1..Len(parts[k])
    /\ parts[k][i - c[k - 1]] = whole[i]

\* The parts of a sequence, element by element: each has one, and they go on.
PartsOf(o, c, parts, whole) ==
    /\ o \in [1..Len(whole) -> 1..Len(parts)]
    /\ \A i \in 1..Len(whole) : PartOf(c, parts, whole, i, o[i])
    /\ \A i, j \in 1..Len(whole) : i < j => o[i] <= o[j]
    /\ \A k \in 1..Len(parts) : \A m \in 1..Len(parts[k]) :
         /\ c[k - 1] + m \in 1..Len(whole)
         /\ o[c[k - 1] + m] = k
         /\ whole[c[k - 1] + m] = parts[k][m]

LEMMA PartsHold ==
    ASSUME NEW C, NEW parts \in Seq(Seq(C)), NEW whole \in Seq(C), NEW c, Cuts(c, parts, whole)
    PROVE  \E o : PartsOf(o, c, parts, whole)
<1> DEFINE n == Len(whole)
           r == Len(parts)
           o == [i \in 1..n |-> CHOOSE k \in 1..r : PartOf(c, parts, whole, i, k)]
<1>1. n \in Nat /\ r \in Nat
  OBVIOUS
<1>2. ASSUME NEW i \in 1..n
      PROVE  \E k \in 1..r : PartOf(c, parts, whole, i, k)
  <2>1. Found(c, parts, whole, i)
    BY CutsFrom
  <2>2. PICK k \in 1..Len(parts) :
             /\ c[k - 1] \in 0..Len(whole)
             /\ i \in (c[k - 1] + 1)..c[k]
             /\ i - c[k - 1] \in 1..Len(parts[k])
             /\ parts[k][i - c[k - 1]] = whole[i]
    BY <2>1 DEF Found
  <2>3. c[k] \in 0..Len(whole)
    <3>1. Into(c, parts, whole, k)
      BY <2>2, CutsInto
    <3> QED BY <3>1 DEF Into
  <2>4. PartOf(c, parts, whole, i, k)
    BY <2>2, <2>3 DEF PartOf
  <2> QED BY <2>2, <2>4
<1>3. ASSUME NEW i \in 1..n
      PROVE  o[i] \in 1..r /\ PartOf(c, parts, whole, i, o[i])
  BY <1>2
<1>4. o \in [1..n -> 1..r]
  BY <1>3
<1> HIDE DEF o
<1>5. ASSUME NEW i \in 1..n, NEW j \in 1..n, NEW k \in 1..r, NEW l \in 1..r,
             PartOf(c, parts, whole, i, k), PartOf(c, parts, whole, j, l), l < k
      PROVE  j < i
  <2>1. k - 1 \in l..Len(parts) /\ l \in 0..Len(parts)
    BY <1>1, <1>5
  <2>2. c[l] <= c[k - 1]
    BY <1>1, <2>1, CutsMonotone
  <2> DEFINE a == c[l]
             b == c[k - 1]
             a0 == c[l - 1]
             b1 == c[k]
  <2>3. a \in 0..n /\ b \in 0..n /\ a0 \in 0..n /\ b1 \in 0..n /\ j \in (a0 + 1)..a /\ i \in (b + 1)..b1
    BY <1>5 DEF PartOf
  <2>4. a <= b
    BY <2>2
  <2> HIDE DEF a, b, a0, b1
  <2> QED BY <1>1, <2>3, <2>4
<1>6. ASSUME NEW i \in 1..n, NEW j \in 1..n, i < j
      PROVE  o[i] <= o[j]
  <2> SUFFICES ASSUME o[j] < o[i] PROVE FALSE
    BY <1>1, <1>3
  <2>1. j < i
    BY <1>3, <1>5
  <2> QED BY <1>1, <1>6, <2>1
<1>7. ASSUME NEW k \in 1..r, NEW m \in 1..Len(parts[k])
      PROVE  /\ c[k - 1] + m \in 1..n /\ o[c[k - 1] + m] = k
             /\ whole[c[k - 1] + m] = parts[k][m]
  <2> DEFINE a == c[k - 1]
             i == a + m
  <2>1. Into(c, parts, whole, k)
    BY CutsInto
  <2>2. /\ a \in 0..n /\ c[k] \in 0..n /\ i \in (a + 1)..c[k] /\ i \in 1..n
        /\ parts[k][m] = whole[i]
    BY <2>1 DEF Into
  <2> HIDE DEF a
  <2>3. m \in Nat
    BY <1>1
  <2>4. i - a = m
    BY <1>1, <2>2, <2>3
  <2>5. PartOf(c, parts, whole, i, k)
    BY <2>2, <2>4 DEF PartOf, a
  <2> HIDE DEF i
  <2>6. ~ (o[i] < k) /\ ~ (k < o[i])
    <3>1. o[i] < k => i < i
      BY <1>3, <1>5, <2>2, <2>5
    <3>2. k < o[i] => i < i
      BY <1>3, <1>5, <2>2, <2>5
    <3>3. i \in Nat
      BY <1>1, <2>2
    <3> QED BY <3>1, <3>2, <3>3
  <2>7. o[i] = k
    BY <1>1, <1>3, <2>2, <2>6
  <2> QED BY <2>2, <2>7 DEF i, a
<1>8. PartsOf(o, c, parts, whole)
  BY <1>3, <1>4, <1>6, <1>7 DEF PartsOf
<1> QED BY <1>8

\* Without a title there is none before either.
TitlesBegin(g) == \A k, l \in 1..Len(g) : k < l /\ g[l].title = NoTitle => g[k].title = NoTitle

LEMMA OwnersOfMany ==
    ASSUME NEW x, BlocksOK(x), NEW g \in Seq(Section), Len(g) > 0, TitlesBegin(g),
           \A k \in 1..Len(g) : SectionFit(g[k]) /\ SectionOK(g[k], x),
           NEW ch, ch = BuildGroupUnits(g)
    PROVE  Len(ch) > 0 /\ \E o : Owners(o, ch, g)
<1> DEFINE n == Len(g)
           TS == [k \in 1..n |-> Titled(g[k])]
<1>1. ch \in Seq(SourcedUnit) /\ Len(ch) > 0 /\ \E c : Cuts(c, TS, ch)
  BY BuildGroupUnitsAre
<1>2. PICK c : Cuts(c, TS, ch)
  BY <1>1
<1>3. n \in Nat
  OBVIOUS
<1>4. \A k \in 1..n : Titled(g[k]) \in Seq(SourcedUnit) /\ TS[k] = Titled(g[k])
  BY TitledIs
<1>5. TS \in Seq(Seq(SourcedUnit)) /\ Len(TS) = n
  BY <1>3, <1>4
<1> HIDE DEF TS
<1>6. \E o : PartsOf(o, c, TS, ch)
  BY <1>1, <1>2, <1>5, PartsHold
<1>7. PICK o : PartsOf(o, c, TS, ch)
  BY <1>6
<1>8. o \in [1..Len(ch) -> 1..n] /\ \A i, j \in 1..Len(ch) : i < j => o[i] <= o[j]
  BY <1>5, <1>7 DEF PartsOf
<1>9. \A k \in 1..n : \A m \in 1..Len(Titled(g[k])) :
         c[k - 1] + m \in 1..Len(ch) /\ o[c[k - 1] + m] = k /\ ch[c[k - 1] + m] = Titled(g[k])[m]
  BY <1>4, <1>5, <1>7 DEF PartsOf
<1>10. ASSUME NEW i \in 1..Len(ch)
       PROVE  /\ c[o[i] - 1] \in Nat /\ i - c[o[i] - 1] \in 1..Len(Titled(g[o[i]]))
              /\ ch[i] = Titled(g[o[i]])[i - c[o[i] - 1]] /\ i \in Nat
  <2> DEFINE k == o[i]
             a == c[k - 1]
  <2>1. PartOf(c, TS, ch, i, k) /\ k \in 1..n
    BY <1>7, <1>8 DEF PartsOf
  <2>2. a \in 0..Len(ch) /\ i - a \in 1..Len(TS[k]) /\ TS[k][i - a] = ch[i]
    BY <2>1 DEF PartOf
  <2>3. TS[k] = Titled(g[k])
    BY <1>4, <2>1
  <2> HIDE DEF a, k
  <2>4. a \in Nat /\ i \in Nat
    BY <1>1, <2>2
  <2> QED BY <2>2, <2>3, <2>4 DEF a, k
<1>11. ASSUME NEW i \in 1..Len(ch)
       PROVE  /\ ch[i].title = g[o[i]].title
              /\ ch[i].heading <=> g[o[i]].title # NoTitle /\ i - c[o[i] - 1] = 1
              /\ ch[i].heading => ch[i].words = g[o[i]].title /\ ch[i].from = SourcesOf(g[o[i]])
              /\ ~ch[i].heading => UnitFrom(ch[i], g[o[i]])
  <2> DEFINE k == o[i]
             m == i - c[k - 1]
             T == Titled(g[k])
  <2>1. k \in 1..n /\ SectionFit(g[k])
    BY <1>8
  <2>2. m \in 1..Len(T) /\ ch[i] = T[m]
    BY <1>10
  <2> HIDE DEF k, m
  <2>3. /\ T[m].title = g[k].title
        /\ T[m].heading <=> g[k].title # NoTitle /\ m = 1
        /\ T[m].heading => T[m].words = g[k].title /\ T[m].from = SourcesOf(g[k])
        /\ ~T[m].heading => UnitFrom(T[m], g[k])
    BY <2>1, <2>2, TitledUnit
  <2> HIDE DEF T
  <2>4. /\ ch[i].title = g[k].title
        /\ ch[i].heading <=> g[k].title # NoTitle /\ m = 1
        /\ ch[i].heading => ch[i].words = g[k].title /\ ch[i].from = SourcesOf(g[k])
        /\ ~ch[i].heading => UnitFrom(ch[i], g[k])
    BY <2>2, <2>3
  <2> QED BY <2>4 DEF k, m
<1>12. ASSUME NEW i \in 1..Len(ch)
       PROVE  /\ \E j \in 1..Len(ch) : ~ch[j].heading /\ o[j] = o[i]
              /\ \A k \in SourcesOf(g[o[i]]) : \E j \in 1..Len(ch) : ~ch[j].heading /\ k \in ch[j].from
  <2> DEFINE s == g[o[i]]
  <2>1. o[i] \in 1..n
    BY <1>8
  <2>2. /\ \E m \in 1..Len(Titled(s)) : ~Titled(s)[m].heading
        /\ \A k \in SourcesOf(s) : \E m \in 1..Len(Titled(s)) : /\ ~Titled(s)[m].heading
                                                                /\ k \in Titled(s)[m].from
    BY <2>1, TitledSource
  <2>3. \A m \in 1..Len(Titled(s)) :
          \E j \in 1..Len(ch) : o[j] = o[i] /\ ch[j] = Titled(s)[m]
    BY <1>9, <2>1
  <2> HIDE DEF s
  <2>4. \E j \in 1..Len(ch) : ~ch[j].heading /\ o[j] = o[i]
    BY <2>2, <2>3
  <2>5. \A k \in SourcesOf(s) : \E j \in 1..Len(ch) : ~ch[j].heading /\ k \in ch[j].from
    BY <2>2, <2>3
  <2> QED BY <2>4, <2>5 DEF s
<1>13. ASSUME NEW i \in 1..Len(ch), ~ch[i].heading
       PROVE  Under(ch, i, g[o[i]].title)
  <2> DEFINE k == o[i]
             t == g[k].title
             a == c[k - 1]
             m == i - a
  <2>1. k \in 1..n /\ a \in Nat /\ m \in 1..Len(Titled(g[k])) /\ i \in Nat
    BY <1>8, <1>10
  <2>2. CASE t = NoTitle
    <3>1. ASSUME NEW v \in 1..i
          PROVE  ~ch[v].heading
      <4>1. v \in 1..Len(ch) /\ (v = i \/ v < i)
        BY <1>1, <2>1
      <4>2. o[v] = k \/ o[v] < k
        <5>1. o[v] <= k
          BY <1>8, <4>1
        <5>2. o[v] \in 1..n
          BY <1>8, <4>1
        <5> QED BY <1>3, <2>1, <5>1, <5>2
      <4>3. g[o[v]].title = NoTitle
        BY <1>8, <2>1, <2>2, <4>1, <4>2 DEF TitlesBegin
      <4> QED BY <1>11, <4>1, <4>3
    <3> QED BY <2>2, <3>1 DEF Under
  <2>3. CASE t # NoTitle
    <3>1. m # 1
      BY <1>11, <1>13, <2>3
    <3>2. 1 \in 1..Len(Titled(g[k]))
      BY <2>1
    <3>3. a + 1 \in 1..Len(ch) /\ o[a + 1] = k
      BY <1>9, <2>1, <3>2
    <3>4. (a + 1) - a = 1
      <4> HIDE DEF a
      <4> QED BY <2>1
    <3>5. ch[a + 1].heading /\ ch[a + 1].words = t
      BY <1>11, <2>3, <3>3, <3>4
    <3>6. a + 1 \in 1..i
      <4> DEFINE z == Len(Titled(g[k]))
      <4>1. z \in Nat /\ a \in Nat /\ i - a \in 1..z /\ i \in Nat
        BY <1>4, <2>1
      <4> HIDE DEF a, z
      <4> QED BY <4>1
    <3>7. ASSUME NEW w \in ((a + 1) + 1)..i
          PROVE  ~ch[w].heading
      <4> DEFINE y == w - a
      <4> DEFINE z == Len(Titled(g[k]))
      <4>1. y \in 1..Len(Titled(g[k])) /\ y # 1 /\ a + y = w /\ w \in Nat
        <5>1. z \in Nat
          BY <1>4, <2>1
        <5>2. a \in Nat /\ i - a \in 1..z /\ i \in Nat /\ w \in ((a + 1) + 1)..i
          BY <2>1
        <5> HIDE DEF a, z
        <5>3. w \in Nat /\ w - a \in 1..z /\ w - a # 1 /\ a + (w - a) = w
          BY <5>1, <5>2
        <5> QED BY <5>3 DEF z
      <4>2. a + y \in 1..Len(ch) /\ o[a + y] = k
        BY <1>9, <2>1, <4>1
      <4>3. w \in 1..Len(ch) /\ o[w] = k
        BY <4>1, <4>2
      <4> QED BY <1>11, <4>1, <4>3
    <3> QED BY <2>3, <3>5, <3>6, <3>7 DEF Under
  <2> QED BY <2>2, <2>3
<1>14. ASSUME NEW i \in 1..Len(ch)
       PROVE  UnitOf(ch, i, g[o[i]])
  <2>1. ch[i].title = g[o[i]].title
    BY <1>11
  <2>2. ASSUME ch[i].heading PROVE HeadsText(ch, i)
    <3>1. ch[i].from = SourcesOf(g[o[i]])
      BY <1>11, <2>2
    <3>2. \A k \in SourcesOf(g[o[i]]) : \E j \in 1..Len(ch) : ~ch[j].heading /\ k \in ch[j].from
      BY <1>12
    <3> QED BY <3>1, <3>2 DEF HeadsText
  <2>3. ASSUME ~ch[i].heading PROVE UnitFrom(ch[i], g[o[i]]) /\ Under(ch, i, g[o[i]].title)
    BY <1>11, <1>13, <2>3
  <2> QED BY <2>1, <2>2, <2>3 DEF UnitOf
<1>15. Owners(o, ch, g)
  BY <1>8, <1>12, <1>14 DEF Owners
<1> QED BY <1>1, <1>15

\* g are sections of x, in order.
SectionsIn(g, x) ==
    /\ g \in Seq(Section)
    /\ \A k \in 1..Len(g) : SectionOK(g[k], x)
    /\ \A k, l \in 1..Len(g) : k < l => HiOf(g[k]) < LoOf(g[l])

LEMMA TitlesBeginIn ==
    ASSUME NEW x, BlocksOK(x), NEW g, SectionsIn(g, x)
    PROVE  TitlesBegin(g)
<1>1. x \in Seq(DocBlock) /\ Len(x) \in Nat
  BY DEF BlocksOK
<1> SUFFICES ASSUME NEW k \in 1..Len(g), NEW l \in 1..Len(g), k < l, g[l].title = NoTitle
             PROVE  g[k].title = NoTitle
  BY DEF TitlesBegin
<1>2. SectionOK(g[k], x) /\ SectionOK(g[l], x) /\ HiOf(g[k]) < LoOf(g[l])
  BY DEF SectionsIn
<1> DEFINE lo == LoOf(g[k])
           hi == HiOf(g[k])
           lo2 == LoOf(g[l])
<1>3. lo \in 1..Len(x) /\ hi \in lo..Len(x) /\ lo2 \in 1..Len(x) /\ hi < lo2
  BY <1>1, <1>2, SectionEnds
<1>4. TitledBefore(g[k].title, x, lo) /\ TitledBefore(NoTitle, x, lo2)
  BY <1>2 DEF SectionOK
<1> HIDE DEF lo, hi, lo2
<1>5. \A h \in 1..(lo2 - 1) : h \in 1..Len(x) /\ x[h].words # NoTitle
  <2>1. \A h \in 1..(lo2 - 1) : h \in 1..Len(x)
    BY <1>1, <1>3
  <2> QED BY <2>1 DEF BlocksOK, NoTitle
<1>6. \A h \in 1..(lo2 - 1) : x[h].kind # "heading"
  BY <1>4, <1>5 DEF TitledBefore
<1>7. \A h \in 1..(lo - 1) : h \in 1..(lo2 - 1)
  BY <1>1, <1>3
<1> QED BY <1>4, <1>6, <1>7 DEF TitledBefore

\* A chunk is of sections of the document, and each unit of one of them.
LEMMA ChunkOwners ==
    ASSUME NEW x, BlocksOK(x), NEW n \in 1..Len(ChunkDocument(x))
    PROVE  /\ ChunkDocument(x)[n] \in Seq(SourcedUnit) /\ Len(ChunkDocument(x)[n]) > 0
           /\ \E g, o : SectionsIn(g, x) /\ Owners(o, ChunkDocument(x)[n], g)
<1> DEFINE ch == ChunkDocument(x)[n]
           gs == DocGroups(x)
           S == BuildSections(x)
<1>1. ch \in Seq(SourcedUnit)
  BY ChunkTyped
<1>2. PICK m \in 1..Len(gs) : ChunkOf(ch, gs[m])
  BY ChunksAre DEF Chunked
<1>3. Groups(gs, S, x)
  BY GroupsFit DEF DocGroups
<1> HIDE DEF ch, gs, S
<1>4. PICK c : Cuts(c, gs, S)
  BY <1>3 DEF Groups
<1>5. gs[m] \in Seq(Section) /\ GroupOK(gs[m]) /\ \A k \in 1..Len(gs[m]) : SectionFit(gs[m][k])
  <2>1. gs \in Seq(Seq(Section))
    BY <1>3 DEF Groups
  <2> QED BY <1>2, <1>3, <2>1 DEF Groups
<1>6. ASSUME NEW k \in 1..Len(gs[m])
      PROVE  c[m - 1] + k \in 1..Len(S) /\ gs[m][k] = S[c[m - 1] + k] /\ c[m - 1] \in Nat
  BY <1>2, <1>3, <1>4, GroupSection
<1>7. Sectioned(S, x, Len(x))
  BY <1>3 DEF Groups
<1> DEFINE g == gs[m]
           a == c[m - 1]
<1>8. SectionsIn(g, x)
  <2>1. \A k \in 1..Len(g) : SectionOK(g[k], x)
    BY <1>6, <1>7 DEF Sectioned
  <2>2. ASSUME NEW k \in 1..Len(g), NEW l \in 1..Len(g), k < l
        PROVE  HiOf(g[k]) < LoOf(g[l])
    <3>1. a + k \in 1..Len(S) /\ a + l \in 1..Len(S) /\ g[k] = S[a + k] /\ g[l] = S[a + l] /\ a \in Nat
      BY <1>6
    <3> HIDE DEF a
    <3>2. a + k < a + l
      <4>1. k \in Nat /\ l \in Nat
        BY <1>5
      <4> QED BY <2>2, <3>1, <4>1
    <3>3. HiOf(S[a + k]) < LoOf(S[a + l])
      BY <1>7, <3>1, <3>2 DEF Sectioned
    <3> QED BY <3>1, <3>3
  <2> QED BY <1>5, <2>1, <2>2 DEF SectionsIn
<1> HIDE DEF g
<1>9. Len(ch) > 0 /\ \E o : Owners(o, ch, g)
  <2>1. CASE Len(g) = 1
    <3>1. OfSection(ch, g[1])
      BY <1>2, <2>1 DEF ChunkOf, g
    <3>2. g \in Seq(Section)
      BY <1>5 DEF g
    <3> QED BY <2>1, <3>1, <3>2, OwnersOfSection
  <2>2. CASE Len(g) # 1
    <3>1. ch = BuildGroupUnits(g)
      BY <1>2, <2>2 DEF ChunkOf, g
    <3>2. g \in Seq(Section) /\ Len(g) > 0 /\ TitlesBegin(g)
      BY <1>5, <1>8, TitlesBeginIn DEF GroupOK, g
    <3>3. \A k \in 1..Len(g) : SectionFit(g[k]) /\ SectionOK(g[k], x)
      BY <1>5, <1>8 DEF SectionsIn, g
    <3> QED BY <3>1, <3>2, <3>3, OwnersOfMany
  <2> QED BY <2>1, <2>2
<1> QED BY <1>1, <1>8, <1>9 DEF ch

\* The title over a block of a section is the section's.
LEMMA SectionTitleOver ==
    ASSUME BlocksOK(blocks), NEW s, SectionOK(s, blocks), NEW k \in LoOf(s)..HiOf(s)
    PROVE  TitleOver(k) = s.title
<1> DEFINE lo == LoOf(s)
           hi == HiOf(s)
<1>1. blocks \in Seq(DocBlock) /\ Len(blocks) \in Nat
  BY DEF BlocksOK
<1>2. lo \in 1..Len(blocks) /\ hi \in lo..Len(blocks)
  BY <1>1, SectionEnds
<1>3. \A i \in lo..hi : blocks[i].kind # "heading"
  BY <1>1, SectionEnds
<1>4. TitledBefore(s.title, blocks, lo) /\ k \in lo..hi
  BY DEF SectionOK
<1> HIDE DEF lo, hi
<1>5. k \in lo..Len(blocks) /\ \A i \in lo..k : i \in lo..hi
  BY <1>1, <1>2, <1>4
<1> QED BY <1>2, <1>3, <1>4, <1>5, TitleOverIs

\* The body of a chunk has the places of its units that are no headings.
LEMMA BodyPlaces ==
    ASSUME NEW us \in Seq(SourcedUnit)
    PROVE  \A p : p \in Places(Body(us)) <=> \E i \in 1..Len(us) : /\ ~us[i].heading
                                                                 /\ p \in Places(us[i].words)
<1> DEFINE I == { k \in DOMAIN us : ~us[k].heading }
           b == BodyUnits(us)
<1>1. b \in Seq(SourcedUnit) /\ us \in Seq(Unit)
  BY BodyTyped, SourcedTyped
<1>2. b \in Seq(Unit)
  BY <1>1, SourcedTyped
<1>3. \E e : Picks(e, b, us, I, Len(us))
  <2>1. b = At(us, I)
    BY DEF BodyUnits
  <2> HIDE DEF I, b
  <2> QED BY <2>1, AtPicks
<1>4. PICK e : Picks(e, b, us, I, Len(us))
  BY <1>3
<1> HIDE DEF b
<1>5. ASSUME NEW k \in 1..Len(b)
      PROVE  \E i \in 1..Len(us) : b[k] = us[i] /\ ~us[i].heading
  <2>1. e[k] \in 1..Len(us) /\ e[k] \in I /\ b[k] = us[e[k]]
    <3> HIDE DEF I
    <3> QED BY <1>4, <1>5 DEF Picks
  <2> QED BY <2>1
<1>6. ASSUME NEW i \in 1..Len(us), ~us[i].heading
      PROVE  \E k \in 1..Len(b) : b[k] = us[i]
  <2>1. i \in I
    BY <1>6
  <2> HIDE DEF I
  <2>2. PICK k \in 1..Len(b) : e[k] = i
    BY <1>4, <1>6, <2>1 DEF Picks
  <2>3. b[k] = us[i]
    BY <1>4, <2>2 DEF Picks
  <2> QED BY <2>3
<1>7. \A p : p \in Places(Content(b)) <=> \E k \in 1..Len(b) : p \in Places(b[k].words)
  BY <1>2, ContentIs
<1> HIDE DEF I
<1>8. ASSUME NEW p
      PROVE  p \in Places(Content(b)) <=> \E i \in 1..Len(us) : ~us[i].heading /\ p \in Places(us[i].words)
  <2>1. ASSUME p \in Places(Content(b))
        PROVE  \E i \in 1..Len(us) : ~us[i].heading /\ p \in Places(us[i].words)
    <3>1. PICK k \in 1..Len(b) : p \in Places(b[k].words)
      BY <1>7, <2>1
    <3>2. PICK i \in 1..Len(us) : b[k] = us[i] /\ ~us[i].heading
      BY <1>5
    <3> QED BY <3>1, <3>2
  <2>2. ASSUME NEW i \in 1..Len(us), ~us[i].heading, p \in Places(us[i].words)
        PROVE  p \in Places(Content(b))
    <3>1. PICK k \in 1..Len(b) : b[k] = us[i]
      BY <1>6, <2>2
    <3> QED BY <1>7, <2>2, <3>1
  <2> QED BY <2>1, <2>2
<1> QED BY <1>8 DEF Body, b

\* Block k has a place of those words.
Shares(k, words) == Places(blocks[k].words) \cap Places(words) # {}

\* A unit of section s names the blocks it shares a place with; they are of the
\* section, and under its title.
UnitKnows(u, s) ==
    /\ u.title = s.title /\ SectionOK(s, blocks) /\ UnitFrom(u, s)
    /\ \A k \in 1..Len(blocks) : Shares(k, u.words) => /\ k \in u.from
                                                       /\ k \in LoOf(s)..HiOf(s)
                                                       /\ TitleOver(k) = u.title

LEMMA UnitBlocks ==
    ASSUME BlocksOK(blocks), NEW g, SectionsIn(g, blocks), NEW ch, NEW o, Owners(o, ch, g),
           NEW i \in 1..Len(ch), ~ch[i].heading
    PROVE  o[i] \in 1..Len(g) /\ UnitKnows(ch[i], g[o[i]])
<1>1. o[i] \in 1..Len(g) /\ UnitOf(ch, i, g[o[i]])
  BY DEF Owners
<1> DEFINE s == g[o[i]]
           u == ch[i]
<1>2. u.title = s.title /\ UnitFrom(u, s)
  BY <1>1 DEF UnitOf
<1>3. SectionOK(s, blocks)
  BY <1>1 DEF SectionsIn
<1> HIDE DEF s, u
<1>4. ASSUME NEW k \in 1..Len(blocks), Shares(k, u.words)
      PROVE  k \in u.from /\ k \in LoOf(s)..HiOf(s) /\ TitleOver(k) = u.title
  <2>1. PICK p \in Places(blocks[k].words) : p \in Places(u.words)
    BY <1>4 DEF Shares
  <2>2. k \in u.from /\ k \in LoOf(s)..HiOf(s)
    BY <1>2, <1>3, <2>1, BlockOfUnit
  <2>3. TitleOver(k) = s.title
    BY <1>3, <2>2, SectionTitleOver
  <2> QED BY <1>2, <2>2, <2>3
<1>5. UnitKnows(u, s)
  BY <1>2, <1>3, <1>4 DEF UnitKnows
<1> QED BY <1>1, <1>5 DEF s, u

\* The last heading before a unit, if there is one.
Shown(ch, u) ==
    LET titles == { v \in 1..u : ch[v].heading }
    IN  IF titles = {} THEN NoTitle ELSE ch[Max(titles)].words

LEMMA ShownIs ==
    ASSUME NEW ch, NEW u \in Nat, NEW t, Under(ch, u, t)
    PROVE  Shown(ch, u) = t
<1> DEFINE titles == { v \in 1..u : ch[v].heading }
<1>1. Shown(ch, u) = IF titles = {} THEN NoTitle ELSE ch[Max(titles)].words
  BY DEF Shown
<1>2. CASE t = NoTitle
  BY <1>1, <1>2 DEF Under
<1>3. CASE t # NoTitle
  <2>1. PICK v \in 1..u : /\ ch[v].heading /\ ch[v].words = t
                          /\ \A w \in (v + 1)..u : ~ch[w].heading
    BY <1>3 DEF Under
  <2>2. titles \in SUBSET (1..u) /\ v \in titles
    BY <2>1
  <2>3. \A y \in titles : y \in 1..u /\ ch[y].heading
    OBVIOUS
  <2> HIDE DEF titles
  <2>4. Max(titles) \in titles /\ Max(titles) >= v
    BY <2>2, MaxOf
  <2> DEFINE m == Max(titles)
  <2> HIDE DEF m
  <2>5. m \in 1..u /\ ch[m].heading /\ m >= v
    BY <2>3, <2>4 DEF m
  <2>6. m = v
    <3>1. m \notin (v + 1)..u
      BY <2>1, <2>5
    <3> QED BY <2>5, <3>1
  <2> QED BY <1>1, <2>1, <2>2, <2>6 DEF m
<1> QED BY <1>2, <1>3

\* The blocks a chunk has text of.
Own(ch) == { k \in DOMAIN blocks : Shares(k, Body(ch)) }

Runs(ch) == { k \in DOMAIN blocks : \E j \in Own(ch) : k = j \/ SameRun(k, j) }

LEMMA OwnIs ==
    ASSUME BlocksOK(blocks), NEW ch \in Seq(SourcedUnit)
    PROVE  /\ Own(ch) \subseteq 1..Len(blocks)
           /\ \A k \in Own(ch) : \E i \in 1..Len(ch) : ~ch[i].heading /\ Shares(k, ch[i].words)
           /\ \A i \in 1..Len(ch) : ~ch[i].heading =>
                \A k \in 1..Len(blocks) : Shares(k, ch[i].words) => k \in Own(ch)
<1>1. DOMAIN blocks = 1..Len(blocks)
  BY DEF BlocksOK
<1>2. \A p : p \in Places(Body(ch)) <=> \E i \in 1..Len(ch) : ~ch[i].heading /\ p \in Places(ch[i].words)
  BY BodyPlaces
<1>3. Own(ch) \subseteq 1..Len(blocks)
  BY <1>1 DEF Own
<1>4. ASSUME NEW k \in Own(ch)
      PROVE  \E i \in 1..Len(ch) : ~ch[i].heading /\ Shares(k, ch[i].words)
  <2>1. PICK p : p \in Places(blocks[k].words) /\ p \in Places(Body(ch))
    BY DEF Own, Shares
  <2>2. PICK i \in 1..Len(ch) : ~ch[i].heading /\ p \in Places(ch[i].words)
    BY <1>2, <2>1
  <2> QED BY <2>1, <2>2 DEF Shares
<1>5. ASSUME NEW i \in 1..Len(ch), ~ch[i].heading, NEW k \in 1..Len(blocks), Shares(k, ch[i].words)
      PROVE  k \in Own(ch)
  <2>1. PICK p : p \in Places(blocks[k].words) /\ p \in Places(ch[i].words)
    BY <1>5 DEF Shares
  <2>2. p \in Places(Body(ch))
    BY <1>2, <1>5, <2>1
  <2> QED BY <1>1, <2>1, <2>2 DEF Own, Shares
<1> QED BY <1>3, <1>4, <1>5

\* A chunk with its sections.
Owned(ch, g, o) ==
    /\ BlocksOK(blocks)
    /\ ch \in Seq(SourcedUnit) /\ Len(ch) > 0
    /\ SectionsIn(g, blocks) /\ Owners(o, ch, g)

\* A body unit has text of a block of its section.
LEMMA UnitOwns ==
    ASSUME NEW ch, NEW g, NEW o, Owned(ch, g, o), NEW i \in 1..Len(ch), ~ch[i].heading
    PROVE  \E k \in Own(ch) : /\ k \in ch[i].from /\ k \in LoOf(g[o[i]])..HiOf(g[o[i]])
                              /\ TitleOver(k) = ch[i].title
<1>1. /\ BlocksOK(blocks) /\ ch \in Seq(SourcedUnit) /\ SectionsIn(g, blocks) /\ Owners(o, ch, g)
  BY DEF Owned
<1> DEFINE s == g[o[i]]
           u == ch[i]
<1>2. UnitKnows(u, s)
  BY <1>1, UnitBlocks
<1> HIDE DEF s, u
<1>3. PICK k \in u.from : k \in 1..Len(blocks) /\ Shares(k, u.words)
  BY <1>1, <1>2, UnitHasBlock DEF Shares, UnitKnows
<1>4. k \in Own(ch)
  BY <1>1, <1>3, OwnIs DEF u
<1>5. k \in u.from /\ k \in LoOf(s)..HiOf(s) /\ TitleOver(k) = u.title
  BY <1>2, <1>3 DEF UnitKnows
<1> QED BY <1>4, <1>5 DEF s, u

LEMMA OwnNamed ==
    ASSUME NEW ch, NEW g, NEW o, Owned(ch, g, o)
    PROVE  Own(ch) # {} /\ Own(ch) \subseteq SourceBlocks(ch)
<1>1. /\ BlocksOK(blocks) /\ ch \in Seq(SourcedUnit) /\ SectionsIn(g, blocks) /\ Owners(o, ch, g)
  BY DEF Owned
<1>2. 1 \in 1..Len(ch)
  BY DEF Owned
<1>3. PICK j \in 1..Len(ch) : ~ch[j].heading
  BY <1>1, <1>2 DEF Owners
<1>4. Own(ch) # {}
  BY <1>3, UnitOwns
<1>5. ASSUME NEW k \in Own(ch)
      PROVE  k \in SourceBlocks(ch)
  <2>1. PICK i \in 1..Len(ch) : ~ch[i].heading /\ Shares(k, ch[i].words)
    BY <1>1, OwnIs
  <2>2. k \in 1..Len(blocks)
    BY <1>1, OwnIs
  <2>3. k \in ch[i].from
    <3>1. UnitKnows(ch[i], g[o[i]])
      BY <1>1, <2>1, UnitBlocks
    <3> QED BY <2>1, <2>2, <3>1 DEF UnitKnows
  <2>4. ch[i] \in Range(ch)
    BY <1>1 DEF Range
  <2> QED BY <2>3, <2>4 DEF SourceBlocks
<1> QED BY <1>4, <1>5

LEMMA NamedRuns ==
    ASSUME NEW ch, NEW g, NEW o, Owned(ch, g, o)
    PROVE  SourceBlocks(ch) \subseteq Runs(ch)
<1>1. /\ BlocksOK(blocks) /\ ch \in Seq(SourcedUnit) /\ SectionsIn(g, blocks) /\ Owners(o, ch, g)
  BY DEF Owned
<1>2. ASSUME NEW i \in 1..Len(ch), ~ch[i].heading, NEW k \in ch[i].from
      PROVE  k \in Runs(ch)
  <2>1. PICK l \in Own(ch) : l \in ch[i].from
    BY <1>2, UnitOwns
  <2>2. SectionOK(g[o[i]], blocks) /\ UnitFrom(ch[i], g[o[i]])
    BY <1>1, <1>2, UnitBlocks DEF UnitKnows
  <2>3. k \in 1..Len(blocks) /\ (k = l \/ SameRun(k, l))
    BY <1>1, <1>2, <2>1, <2>2, UnitRun
  <2>4. k \in DOMAIN blocks
    BY <1>1, <2>3 DEF BlocksOK
  <2> QED BY <2>1, <2>3, <2>4 DEF Runs
<1> SUFFICES ASSUME NEW k \in SourceBlocks(ch) PROVE k \in Runs(ch)
  OBVIOUS
<1>3. PICK u \in Range(ch) : k \in u.from
  BY DEF SourceBlocks
<1>4. PICK i \in 1..Len(ch) : ch[i] = u
  BY <1>1, <1>3 DEF Range
<1>5. CASE ~ch[i].heading
  BY <1>2, <1>3, <1>4, <1>5
<1>6. CASE ch[i].heading
  <2>1. HeadsText(ch, i)
    BY <1>1, <1>6 DEF Owners, UnitOf
  <2>2. PICK j \in 1..Len(ch) : ~ch[j].heading /\ k \in ch[j].from
    BY <1>3, <1>4, <2>1 DEF HeadsText
  <2> QED BY <1>2, <2>2
<1> QED BY <1>5, <1>6

\* Pages go on with the blocks.
LEMMA PagesGoOn ==
    ASSUME NEW x, BlocksOK(x), NEW k \in 1..Len(x), NEW l \in 1..Len(x), k <= l
    PROVE  PageOf(x[k]) \in Nat /\ PageOf(x[l]) \in Nat /\ PageOf(x[k]) <= PageOf(x[l])
<1>1. x \in Seq(DocBlock) /\ Len(x) \in Nat
  BY DEF BlocksOK
<1>2. ASSUME NEW m \in 1..Len(x)
      PROVE  x[m].words[1].at \in Places(x[m].words) /\ x[m].words[1].at \in Place
  <2>1. x[m].words \in Seq(Word) /\ x[m].words # <<>>
    BY <1>1, NumberedTyped DEF BlocksOK
  <2>2. 1 \in 1..Len(x[m].words)
    BY <2>1
  <2> QED BY <2>1, <2>2, PlacesAre
<1>3. \A m \in 1..Len(x) : PageOf(x[m]) \in Nat
  BY <1>2 DEF PageOf, Place
<1>4. CASE k = l
  BY <1>3, <1>4
<1>5. CASE k # l
  <2>1. k < l
    BY <1>1, <1>5
  <2>2. Before(x[k].words[1].at, x[l].words[1].at)
    BY <1>2, <2>1 DEF BlocksOK, Precede
  <2>3. \/ PageOf(x[k]) < PageOf(x[l])
        \/ PageOf(x[k]) = PageOf(x[l])
    BY <1>2, <2>2, BeforeIs DEF PageOf
  <2> QED BY <1>3, <2>3
<1> QED BY <1>4, <1>5

\* The page of a chunk is that of the first block it names.
LEMMA PageIs ==
    ASSUME NEW ch, NEW g, NEW o, Owned(ch, g, o)
    PROVE  PageNumber(blocks, ch) \in { PageOf(blocks[k]) : k \in { j \in Runs(ch) : j <= Min(Own(ch)) } }
<1>1. BlocksOK(blocks) /\ blocks \in Seq(DocBlock) /\ DOMAIN blocks = 1..Len(blocks) /\ Len(blocks) \in Nat
  BY DEF Owned, BlocksOK
<1> DEFINE B == SourceBlocks(ch)
           P == { PageOf(blocks[k]) : k \in B }
           W == Own(ch)
<1>2. W # {} /\ W \subseteq B /\ B \subseteq Runs(ch)
  BY OwnNamed, NamedRuns
<1>3. B \subseteq 1..Len(blocks)
  BY <1>1, <1>2 DEF Runs
<1>4. PageNumber(blocks, ch) = Min(P)
  BY DEF PageNumber
<1> HIDE DEF B, W
<1>5. B \subseteq Nat /\ B # {} /\ W \subseteq Nat
  <2>1. \A y \in B : y \in Nat
    BY <1>1, <1>3
  <2> QED BY <1>2, <2>1
<1>6. Min(B) \in B /\ \A y \in B : Min(B) <= y
  BY <1>5, MinOf
<1>7. Min(W) \in W
  BY <1>2, <1>5, MinOf
<1> DEFINE b == Min(B)
<1>8. b \in B /\ b \in 1..Len(blocks) /\ b <= Min(W) /\ \A y \in B : b <= y
  BY <1>2, <1>3, <1>6, <1>7
<1> HIDE DEF b
<1>9. \A y \in B : PageOf(blocks[y]) \in Nat /\ PageOf(blocks[b]) \in Nat /\ PageOf(blocks[b]) <= PageOf(blocks[y])
  BY <1>1, <1>3, <1>8, PagesGoOn
<1>10. P \subseteq Nat /\ PageOf(blocks[b]) \in P /\ \A q \in P : PageOf(blocks[b]) <= q
  BY <1>8, <1>9
<1> HIDE DEF P
<1>11. Min(P) \in P /\ Min(P) <= PageOf(blocks[b])
  BY <1>10, MinOf
<1>12. Min(P) = PageOf(blocks[b])
  <2> DEFINE m == Min(P)
             q == PageOf(blocks[b])
  <2>1. m \in P /\ m <= q
    BY <1>11
  <2> HIDE DEF m
  <2>2. m \in Nat /\ q \in Nat /\ q <= m
    BY <1>10, <2>1
  <2> HIDE DEF q
  <2>3. m = q
    BY <2>1, <2>2
  <2> QED BY <2>3 DEF m, q
<1> QED BY <1>2, <1>4, <1>8, <1>12 DEF W

\* A block a chunk has text of is under the title of its unit.
LEMMA OwnTitle ==
    ASSUME NEW ch, NEW g, NEW o, Owned(ch, g, o), NEW k \in Own(ch)
    PROVE  \E i \in 1..Len(ch) : /\ ~ch[i].heading /\ TitleOver(k) = ch[i].title
                                 /\ k \in LoOf(g[o[i]])..HiOf(g[o[i]]) /\ k \in 1..Len(blocks)
<1>1. /\ BlocksOK(blocks) /\ ch \in Seq(SourcedUnit) /\ SectionsIn(g, blocks) /\ Owners(o, ch, g)
  BY DEF Owned
<1>2. PICK i \in 1..Len(ch) : ~ch[i].heading /\ Shares(k, ch[i].words)
  BY <1>1, OwnIs
<1>3. k \in 1..Len(blocks)
  BY <1>1, OwnIs
<1>4. UnitKnows(ch[i], g[o[i]])
  BY <1>1, <1>2, UnitBlocks
<1> QED BY <1>2, <1>3, <1>4 DEF UnitKnows

\* The title of a chunk is the first that its text stands under.
LEMMA TitleIs ==
    ASSUME NEW ch, NEW g, NEW o, Owned(ch, g, o)
    PROVE  LET titled == { k \in Own(ch) : TitleOver(k) # NoTitle }
           IN  SectionTitle(ch) = IF titled = {} THEN NoTitle ELSE TitleOver(Min(titled))
<1>1. /\ BlocksOK(blocks) /\ ch \in Seq(SourcedUnit) /\ SectionsIn(g, blocks) /\ Owners(o, ch, g)
      /\ blocks \in Seq(DocBlock) /\ Len(blocks) \in Nat
  BY DEF Owned, BlocksOK
<1> DEFINE titled == { k \in Own(ch) : TitleOver(k) # NoTitle }
           I == { i \in 1..Len(ch) : ch[i].title # NoTitle }
           f == Min(I)
<1>2. SectionTitle(ch) = IF I = {} THEN NoTitle ELSE ch[f].title
  <2>1. SelectInSeq(ch, LAMBDA u : u.title # NoTitle) = IF I # {} THEN Min(I) ELSE 0
    BY DEF SelectInSeq
  <2>2. I # {} => Min(I) \in I
    <3>1. I \subseteq Nat
      BY <1>1
    <3> HIDE DEF I
    <3> QED BY <3>1, MinOf
  <2>3. \A i \in I : i # 0
    BY <1>1
  <2> HIDE DEF I
  <2> QED BY <2>1, <2>2, <2>3 DEF SectionTitle
<1>3. CASE I = {}
  <2>1. ASSUME NEW k \in titled
        PROVE  FALSE
    <3>1. k \in Own(ch) /\ TitleOver(k) # NoTitle
      OBVIOUS
    <3>2. PICK i \in 1..Len(ch) : TitleOver(k) = ch[i].title
      BY <3>1, OwnTitle
    <3> QED BY <1>3, <3>1, <3>2
  <2> QED BY <1>2, <1>3, <2>1
<1>4. CASE I # {}
  <2>1. f \in I /\ \A y \in I : f <= y
    <3>1. I \subseteq Nat
      BY <1>1
    <3> HIDE DEF I
    <3> QED BY <1>4, <3>1, MinOf
  <2>2. f \in 1..Len(ch) /\ ch[f].title # NoTitle /\ \A i \in 1..Len(ch) : ch[i].title # NoTitle => f <= i
    BY <2>1
  <2> HIDE DEF f, I
  <2>3. PICK j \in 1..Len(ch) : ~ch[j].heading /\ o[j] = o[f]
    BY <1>1, <2>2 DEF Owners
  <2>4. o[f] \in 1..Len(g) /\ ch[f].title = g[o[f]].title /\ ch[j].title = g[o[j]].title
    BY <1>1, <2>2, <2>3 DEF Owners, UnitOf
  <2>5. PICK l \in Own(ch) : /\ l \in LoOf(g[o[j]])..HiOf(g[o[j]])
                             /\ TitleOver(l) = ch[j].title
    BY <2>3, UnitOwns
  <2>6. l \in titled
    BY <2>2, <2>3, <2>4, <2>5
  <2>7. titled \subseteq Nat
    <3>1. Own(ch) \subseteq 1..Len(blocks)
      BY <1>1, OwnIs
    <3> QED BY <1>1, <3>1
  <2> DEFINE m == Min(titled)
  <2>8. m \in titled /\ m <= l
    <3> HIDE DEF titled
    <3> QED BY <2>6, <2>7, MinOf
  <2> HIDE DEF m
  <2>9. m \in Own(ch) /\ TitleOver(m) # NoTitle
    BY <2>8
  <2>10. PICK i \in 1..Len(ch) : /\ ~ch[i].heading /\ TitleOver(m) = ch[i].title
                                 /\ m \in LoOf(g[o[i]])..HiOf(g[o[i]]) /\ m \in 1..Len(blocks)
    BY <2>9, OwnTitle
  <2>11. f <= i
    BY <2>2, <2>9, <2>10
  <2>12. o[i] \in 1..Len(g) /\ ch[i].title = g[o[i]].title
    BY <1>1, <2>10 DEF Owners, UnitOf
  <2>13. o[f] = o[i]
    <3> SUFFICES ASSUME o[f] # o[i] PROVE FALSE
      OBVIOUS
    <3>1. f < i
      <4>1. f # i
        OBVIOUS
      <4>2. f \in Nat /\ i \in Nat
        BY <1>1, <2>2
      <4> QED BY <2>11, <4>1, <4>2
    <3>2. o[f] <= o[i]
      BY <1>1, <2>2, <3>1 DEF Owners
    <3>3. o[f] < o[i]
      <4>1. o[f] \in Nat /\ o[i] \in Nat
        BY <1>1, <2>4, <2>12 DEF SectionsIn
      <4> QED BY <3>2, <4>1
    <3> DEFINE hi == HiOf(g[o[f]])
               lo == LoOf(g[o[i]])
    <3>4. hi < lo /\ SectionOK(g[o[f]], blocks) /\ SectionOK(g[o[i]], blocks)
      BY <1>1, <2>4, <2>12, <3>3 DEF SectionsIn
    <3>5. lo \in 1..Len(blocks)
      BY <1>1, <3>4, SectionEnds
    <3>6. LoOf(g[o[f]]) \in 1..Len(blocks) /\ hi \in LoOf(g[o[f]])..Len(blocks)
      BY <1>1, <3>4, SectionEnds
    <3>7. l \in LoOf(g[o[f]])..hi /\ m \in lo..HiOf(g[o[i]])
      BY <2>3, <2>5, <2>10
    <3> HIDE DEF hi, lo
    <3>8. lo <= m /\ l <= hi /\ hi \in Nat /\ lo \in Nat /\ l \in Nat /\ m \in Nat
      BY <1>1, <2>7, <2>8, <2>6, <3>5, <3>6, <3>7
    <3> QED BY <2>8, <3>4, <3>8
  <2>14. TitleOver(m) = ch[f].title
    BY <2>4, <2>10, <2>12, <2>13
  <2> QED BY <1>2, <1>4, <2>6, <2>14 DEF f, m
<1> QED BY <1>3, <1>4

LEMMA ReadHolds ==
    ASSUME NEW ch, NEW g, NEW o, Owned(ch, g, o), NEW u \in 1..Len(ch), ~ch[u].heading,
           NEW k \in 1..Len(blocks), Shares(k, ch[u].words)
    PROVE  Shown(ch, u) = TitleOver(k)
<1>1. /\ BlocksOK(blocks) /\ ch \in Seq(SourcedUnit) /\ SectionsIn(g, blocks) /\ Owners(o, ch, g)
  BY DEF Owned
<1>2. UnitOf(ch, u, g[o[u]]) /\ u \in Nat
  BY <1>1 DEF Owners
<1>3. Under(ch, u, ch[u].title)
  BY <1>2 DEF UnitOf
<1>4. UnitKnows(ch[u], g[o[u]])
  BY <1>1, UnitBlocks
<1>5. TitleOver(k) = ch[u].title
  BY <1>4 DEF UnitKnows
<1> QED BY <1>2, <1>3, <1>5, ShownIs

\* The chunks of the invariant: each with its sections.
LEMMA OwnedChunks ==
    ASSUME IInv, JustChunked
    PROVE  /\ BlocksOK(blocks) /\ DOMAIN blocks = 1..Len(blocks) /\ DOMAIN chunks = 1..Len(chunks)
           /\ \A n \in 1..Len(chunks) : /\ DOMAIN chunks[n] = 1..Len(chunks[n])
                                        /\ \E g, o : Owned(chunks[n], g, o)
<1>1. BlocksOK(blocks) /\ chunks = ChunkDocument(blocks) /\ chunks \in Seq(Seq(Unit))
  <2>1. FromFile /\ Made
    BY DEF IInv, JustChunked, Embedding, Unchunked
  <2>2. BlocksOK(blocks) /\ chunks \in Seq(Seq(Unit))
    BY <2>1, MadeChunks
  <2> QED BY <2>1, <2>2 DEF Made
<1>2. DOMAIN blocks = 1..Len(blocks) /\ DOMAIN chunks = 1..Len(chunks)
  BY <1>1 DEF BlocksOK
<1>3. ASSUME NEW n \in 1..Len(chunks)
      PROVE  DOMAIN chunks[n] = 1..Len(chunks[n]) /\ \E g, o : Owned(chunks[n], g, o)
  <2>1. /\ chunks[n] \in Seq(SourcedUnit) /\ Len(chunks[n]) > 0
        /\ \E g, o : SectionsIn(g, blocks) /\ Owners(o, chunks[n], g)
    BY <1>1, ChunkOwners
  <2>2. DOMAIN chunks[n] = 1..Len(chunks[n])
    BY <2>1
  <2> QED BY <1>1, <2>1, <2>2 DEF Owned
<1> QED BY <1>1, <1>2, <1>3

LEMMA ReadUnderItsTitleHolds ==
    ASSUME IInv, JustChunked
    PROVE  ReadUnderItsTitle
<1>1. /\ BlocksOK(blocks) /\ DOMAIN blocks = 1..Len(blocks) /\ DOMAIN chunks = 1..Len(chunks)
      /\ \A n \in 1..Len(chunks) : /\ DOMAIN chunks[n] = 1..Len(chunks[n])
                                   /\ \E g, o : Owned(chunks[n], g, o)
  BY OwnedChunks
<1>2. ASSUME NEW n \in DOMAIN chunks, NEW u \in DOMAIN chunks[n], ~chunks[n][u].heading,
             NEW k \in DOMAIN blocks, Shares(k, chunks[n][u].words)
      PROVE  Shown(chunks[n], u) = TitleOver(k)
  <2>1. PICK g, o : Owned(chunks[n], g, o)
    BY <1>1
  <2>2. u \in 1..Len(chunks[n]) /\ k \in 1..Len(blocks)
    BY <1>1
  <2> QED BY <1>2, <2>1, <2>2, ReadHolds
<1>3. NoLevelSkipped =>
         \A s \in Range(BuildSections(blocks)) :
            \A k \in DOMAIN blocks :
                blocks[k].words = s.blocks[1].words =>
                    s.path = [h \in DOMAIN Headings(k) |-> blocks[Headings(k)[h]].words]
  BY <1>1, PathsHold
<1>4. \A n \in DOMAIN chunks : \A u \in DOMAIN chunks[n] :
         chunks[n][u].heading \/
         \A k \in DOMAIN blocks : Shares(k, chunks[n][u].words) => Shown(chunks[n], u) = TitleOver(k)
  BY <1>2
<1> QED BY ONLY <1>3, <1>4, ZenonT(60) DEF ReadUnderItsTitle, Shares, Shown

LEMMA CitedHolds ==
    ASSUME IInv
    PROVE  CitedWhereItStands
<1> SUFFICES ASSUME JustChunked PROVE CitedWhereItStands
  BY DEF CitedWhereItStands
<1>1. /\ DOMAIN blocks = 1..Len(blocks) /\ DOMAIN chunks = 1..Len(chunks)
      /\ \A n \in 1..Len(chunks) : \E g, o : Owned(chunks[n], g, o)
  BY OwnedChunks
<1>2. ReadUnderItsTitle
  BY ReadUnderItsTitleHolds
<1>3. ASSUME NEW n \in DOMAIN chunks
      PROVE  LET ch == chunks[n]
                 titled == { k \in Own(ch) : TitleOver(k) # NoTitle }
             IN  /\ Own(ch) \subseteq SourceBlocks(ch)
                 /\ SourceBlocks(ch) \subseteq Runs(ch)
                 /\ PageNumber(blocks, ch) \in
                      { PageOf(blocks[k]) : k \in { j \in Runs(ch) : j <= Min(Own(ch)) } }
                 /\ SectionTitle(ch) = IF titled = {} THEN NoTitle ELSE TitleOver(Min(titled))
  <2> DEFINE ch == chunks[n]
  <2>1. PICK g, o : Owned(ch, g, o)
    BY <1>1
  <2> HIDE DEF ch
  <2>2. Own(ch) \subseteq SourceBlocks(ch)
    BY <2>1, OwnNamed
  <2>3. SourceBlocks(ch) \subseteq Runs(ch)
    BY <2>1, NamedRuns
  <2>4. PageNumber(blocks, ch) \in { PageOf(blocks[k]) : k \in { j \in Runs(ch) : j <= Min(Own(ch)) } }
    BY <2>1, PageIs
  <2>5. LET titled == { k \in Own(ch) : TitleOver(k) # NoTitle }
        IN  SectionTitle(ch) = IF titled = {} THEN NoTitle ELSE TitleOver(Min(titled))
    BY <2>1, TitleIs
  <2> QED BY <2>2, <2>3, <2>4, <2>5 DEF ch
<1> QED BY ONLY <1>2, <1>3, ZenonT(60) DEF CitedWhereItStands, Own, Runs, Shares

\* A citation leads to its passage, whatever the file: the chunk names the
\* blocks its text is from, and its page and title are those of the text
\* (chunker.py:365-444).
THEOREM CitedWhereItStandsAlways == Spec => []CitedWhereItStands
<1>1. IInv => CitedWhereItStands
  BY CitedHolds
<1> QED BY <1>1, PassagesInductive, PTL

=============================================================================
