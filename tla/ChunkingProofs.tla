--------------------------- MODULE ChunkingProofs ---------------------------
(***************************************************************************)
(* Proofs about Chunking, which PassagesProofs builds on: what sections,    *)
(* groups, texts, units and chunks are made of the blocks of any document.  *)
(* Each stage is a fold over the result of the one before.  A fold has a    *)
(* run (FoldRuns), and each stage an invariant of its run, which says how   *)
(* the parts made so far cut the whole that was read (Cuts).                *)
(***************************************************************************)
EXTENDS Passages, WellFoundedInduction, FiniteSetTheorems, SequenceTheorems, TLAPS

-----------------------------------------------------------------------------
(* Numbers, folds                                                          *)

LessThan == {p \in Nat \X Nat : p[1] < p[2]}

\* Numbers do not descend for ever.
LEMMA Least ==
    ASSUME NEW U, U \subseteq Nat, U # {}
    PROVE  \E x \in U : \A y \in U : x <= y
<1>1. IsWellFoundedOn(LessThan, Nat)
  BY NatLessThanWellFounded DEF OpToRel, LessThan
<1>2. PICK x \in U : \A y \in U : ~ (<<y, x>> \in LessThan)
  BY <1>1, WFMin
<1>3. ASSUME NEW y \in U
      PROVE  x <= y
  <2>1. x \in Nat /\ y \in Nat
    OBVIOUS
  <2>2. y < x => <<y, x>> \in LessThan
    BY <2>1 DEF LessThan
  <2> QED BY <1>2, <2>1, <2>2
<1> QED BY <1>3

\* A set of naturals that has zero and every successor has them all.
LEMMA Induct ==
    ASSUME NEW T, 0 \in T, \A n \in Nat : n \in T => n + 1 \in T
    PROVE  Nat \subseteq T
<1> DEFINE U == Nat \ T
<1> SUFFICES ASSUME U # {}
             PROVE  FALSE
  OBVIOUS
<1>1. PICK x \in U : \A y \in U : x <= y
  BY Least
<1>2. x # 0 /\ x - 1 \in Nat \ U
  BY <1>1
<1> QED BY <1>1, <1>2

\* The largest of some numbers.
LEMMA MaxOf ==
    ASSUME NEW n \in Nat, NEW s \in SUBSET (1..n), s # {}
    PROVE  Max(s) \in s /\ \A y \in s : Max(s) >= y
<1> DEFINE U == {m \in Nat : \A y \in s : y <= m}
<1>1. n \in U /\ U \subseteq Nat
  OBVIOUS
<1>2. PICK x \in U : \A y \in U : x <= y
  <2> HIDE DEF U
  <2> QED BY <1>1, Least
<1>3. x \in s
  <2> SUFFICES ASSUME x \notin s
               PROVE  FALSE
    OBVIOUS
  <2>1. \A y \in s : y \in Nat /\ y > 0 /\ y < x
    OBVIOUS
  <2>2. x > 0 /\ x - 1 \in Nat /\ \A y \in s : y <= x - 1
    <3>1. PICK y \in s : TRUE
      OBVIOUS
    <3>2. y > 0 /\ y < x /\ x \in Nat
      BY <2>1
    <3>3. x > 0 /\ x - 1 \in Nat
      BY <3>2, <2>1
    <3>4. \A z \in s : z <= x - 1
      BY <2>1, <3>3
    <3> QED BY <3>3, <3>4
  <2>3. ~ x <= x - 1 /\ x - 1 \in U
    BY <2>2
  <2> QED BY <1>2, <2>3
<1>4. \A y \in s : x >= y
  OBVIOUS
<1> QED BY <1>3, <1>4 DEF Max

SolvesFold(h, n, E, b, G) ==
    /\ h \in [SUBSET (1..n) -> E]
    /\ \A s \in SUBSET (1..n) : h[s] = IF s = {} THEN b ELSE G[<<Max(s), h[s \ {Max(s)}]>>]

LEMMA FoldSolved ==
    ASSUME NEW n \in Nat, NEW E, NEW b \in E, NEW G \in [(1..n) \X E -> E]
    PROVE  \E h : SolvesFold(h, n, E, b, G)
<1> DEFINE T == {k \in Nat : k <= n => \E h : SolvesFold(h, k, E, b, G)}
<1>1. 0 \in T
  <2>1. SUBSET (1..0) = {{}}
    OBVIOUS
  <2>2. SolvesFold([s \in SUBSET (1..0) |-> b], 0, E, b, G)
    BY <2>1 DEF SolvesFold
  <2> QED BY <2>2
<1>2. ASSUME NEW k \in Nat, k \in T
      PROVE  k + 1 \in T
  <2> SUFFICES ASSUME k + 1 <= n
               PROVE  \E h : SolvesFold(h, k + 1, E, b, G)
    BY <1>2
  <2>1. PICK h : SolvesFold(h, k, E, b, G)
    BY <1>2
  <2> DEFINE g == [s \in SUBSET (1..(k + 1)) |->
                    IF k + 1 \in s THEN G[<<k + 1, h[s \ {k + 1}]>>] ELSE h[s]]
  <2>2. \A s \in SUBSET (1..(k + 1)) : s \ {k + 1} \in SUBSET (1..k)
    OBVIOUS
  <2>3. \A s \in SUBSET (1..(k + 1)) : k + 1 \notin s => s \in SUBSET (1..k)
    OBVIOUS
  <2>4. g \in [SUBSET (1..(k + 1)) -> E]
    BY <2>1, <2>2, <2>3 DEF SolvesFold
  <2>5. ASSUME NEW s \in SUBSET (1..(k + 1))
        PROVE  g[s] = IF s = {} THEN b ELSE G[<<Max(s), g[s \ {Max(s)}]>>]
    <3>1. CASE k + 1 \in s
      <4>1. Max(s) = k + 1
        <5>1. Max(s) \in s /\ Max(s) >= k + 1
          BY <3>1, MaxOf, k + 1 \in Nat
        <5>2. Max(s) \in 1..(k + 1)
          BY <5>1
        <5> QED BY <5>1, <5>2
      <4>2. g[s \ {k + 1}] = h[s \ {k + 1}]
        BY <2>2
      <4> QED BY <3>1, <4>1, <4>2
    <3>2. CASE k + 1 \notin s
      <4>1. s \in SUBSET (1..k) /\ g[s] = h[s]
        BY <2>3, <3>2
      <4>2. s \ {Max(s)} \in SUBSET (1..k) /\ s \ {Max(s)} \in SUBSET (1..(k + 1))
        BY <4>1
      <4>3. g[s \ {Max(s)}] = h[s \ {Max(s)}]
        BY <3>2, <4>2
      <4> QED BY <2>1, <4>1, <4>3 DEF SolvesFold
    <3> QED BY <3>1, <3>2
  <2>6. SolvesFold(g, k + 1, E, b, G)
    BY <2>4, <2>5 DEF SolvesFold
  <2> QED BY <2>6
<1>3. n \in T
  <2> HIDE DEF T
  <2> QED BY <1>1, <1>2, Induct
<1> QED BY <1>3

\* A statement that holds of 0 and passes on up to n holds up to n.
LEMMA UpTo ==
    ASSUME NEW n \in Nat, NEW T, 0 \in T, \A k \in 1..n : k - 1 \in T => k \in T
    PROVE  0..n \subseteq T
<1> DEFINE U == {k \in Nat : k <= n => k \in T}
<1>1. 0 \in U
  OBVIOUS
<1>2. ASSUME NEW k \in Nat, k \in U
      PROVE  k + 1 \in U
  <2>1. CASE k + 1 <= n
    <3>1. k + 1 \in 1..n /\ (k + 1) - 1 = k /\ k <= n
      BY <2>1
    <3> QED BY <1>2, <3>1
  <2> QED BY <2>1
<1>3. Nat \subseteq U
  <2> HIDE DEF U
  <2> QED BY <1>1, <1>2, Induct
<1> QED BY <1>3

\* How a fold reads the places of a sequence.
LEMMA FirstPlaces ==
    ASSUME NEW n \in Nat, NEW k \in 1..n
    PROVE  /\ 1..k \in SUBSET (1..n) /\ 1..k # {}
           /\ Max(1..k) = k
           /\ 1..k \ {k} = 1..(k - 1) /\ 1..(k - 1) \in SUBSET (1..n)
<1>1. 1..k \in SUBSET (1..n) /\ k \in 1..k /\ 1..k \ {k} = 1..(k - 1)
      /\ 1..(k - 1) \in SUBSET (1..n)
  OBVIOUS
<1>2. Max(1..k) \in 1..k /\ Max(1..k) >= k
  BY <1>1, MaxOf
<1> QED BY <1>1, <1>2

\* A run of a fold: what it has after every element.
Run(r, n, E, b, G) ==
    /\ r \in [0..n -> E]
    /\ r[0] = b
    /\ \A k \in 1..n : r[k] = G[<<k, r[k - 1]>>]

\* What takes the steps of a fold on sets of places, has a run of it.
StepsFold(it, n, E, b, G) ==
    /\ it[{}] = b
    /\ \A s \in SUBSET (1..n) : s # {} /\ it[s \ {Max(s)}] \in E =>
            it[s] = G[<<Max(s), it[s \ {Max(s)}]>>]

RunOf(r, it, n, E, b, G) == Run(r, n, E, b, G) /\ r[n] = it[1..n]

LEMMA FoldRuns ==
    ASSUME NEW n \in Nat, NEW E, NEW b \in E, NEW G \in [(1..n) \X E -> E],
           NEW it, StepsFold(it, n, E, b, G)
    PROVE  \E r : RunOf(r, it, n, E, b, G)
<1> DEFINE r == [k \in 0..n |-> it[1..k]]
           T == {k \in 0..n : r[k] \in E}
<1>1. r[0] = b /\ r[n] = it[1..n] /\ 0 \in 0..n
  <2>1. 1..0 = {} /\ 0 \in 0..n /\ n \in 0..n
    OBVIOUS
  <2> QED BY <2>1 DEF StepsFold
<1>2. ASSUME NEW k \in 1..n, r[k - 1] \in E
      PROVE  r[k] = G[<<k, r[k - 1]>>] /\ r[k] \in E
  <2>1. /\ 1..k \in SUBSET (1..n) /\ 1..k # {} /\ Max(1..k) = k
        /\ 1..k \ {k} = 1..(k - 1) /\ k \in 0..n /\ k - 1 \in 0..n
    BY FirstPlaces
  <2>2. r[k] = G[<<k, r[k - 1]>>]
    BY <1>2, <2>1 DEF StepsFold
  <2> QED BY <1>2, <2>2
<1>3. 0..n \subseteq T
  <2>1. \A k \in 1..n : k \in 0..n /\ k - 1 \in 0..n
    OBVIOUS
  <2>2. 0 \in T
    BY <1>1
  <2>3. \A k \in 1..n : k - 1 \in T => k \in T
    <3> HIDE DEF r
    <3> QED BY <1>2, <2>1
  <2> HIDE DEF T
  <2> QED BY <2>2, <2>3, UpTo
<1>4. \A k \in 1..n : k - 1 \in 0..n
  OBVIOUS
<1>5. r \in [0..n -> E]
  BY <1>3
<1> HIDE DEF r
<1>6. Run(r, n, E, b, G)
  BY <1>1, <1>2, <1>3, <1>4, <1>5 DEF Run
<1> QED BY <1>1, <1>6 DEF RunOf

\* A statement that holds of 0 and passes on up to n holds of n.
LEMMA Reaches ==
    ASSUME NEW n \in Nat, NEW T, 0 \in T, \A k \in 1..n : k - 1 \in T => k \in T
    PROVE  n \in T
<1>1. n \in 0..n
  OBVIOUS
<1> QED BY <1>1, UpTo

Pick(acc, x, I, k) == IF k \in I THEN Append(acc, x[k]) ELSE acc

\* Adding numbers, one after the other.
LEMMA TotalSteps ==
    ASSUME NEW C, NEW s \in Seq(C), NEW E, 0 \in E,
           \A e \in E : \A k \in 1..Len(s) : e + s[k] \in E
    PROVE  \E r \in [0..Len(s) -> E] :
             /\ r[0] = 0
             /\ \A k \in 1..Len(s) : r[k] = r[k - 1] + s[k]
             /\ Total(s) = r[Len(s)]
<1> DEFINE n == Len(s)
           G == [p \in (1..n) \X E |-> p[2] + s[p[1]]]
           Step(S, it) == IF S = {} THEN 0 ELSE it[S \ {Max(S)}] + s[Max(S)]
           iter == CHOOSE it : it = [S \in SUBSET DOMAIN s |-> Step(S, it)]
<1>1. Total(s) = iter[DOMAIN s]
  BY Zenon DEF Total, FoldLeft, MapThenFoldSet
<1>2. n \in Nat /\ DOMAIN s = 1..n /\ 0 \in E
  OBVIOUS
<1>3. ASSUME NEW k \in 1..n, NEW e \in E
      PROVE  e + s[k] \in E /\ G[<<k, e>>] = e + s[k]
  OBVIOUS
<1>4. G \in [(1..n) \X E -> E]
  BY <1>3
<1> HIDE DEF n
<1>5. PICK h : SolvesFold(h, n, E, 0, G)
  BY <1>2, <1>4, FoldSolved
<1> HIDE DEF G
<1>6. \A S \in SUBSET (1..n) : h[S] = Step(S, h)
  <2>1. ASSUME NEW S \in SUBSET (1..n), S # {}
        PROVE  h[S] = Step(S, h)
    <3>1. Max(S) \in 1..n /\ h[S \ {Max(S)}] \in E
      BY <1>2, <1>5, <2>1, MaxOf DEF SolvesFold
    <3>2. h[S] = G[<<Max(S), h[S \ {Max(S)}]>>]
      BY <1>5, <2>1 DEF SolvesFold
    <3>3. h[S] = h[S \ {Max(S)}] + s[Max(S)]
      BY <1>3, <3>1, <3>2
    <3> QED BY <1>2, <2>1, <3>1, <3>3
  <2> QED BY <1>5, <2>1 DEF SolvesFold
<1>7. h = [S \in SUBSET DOMAIN s |-> Step(S, h)]
  <2> HIDE DEF Step
  <2> QED BY <1>2, <1>5, <1>6 DEF SolvesFold
<1>8. iter = [S \in SUBSET DOMAIN s |-> Step(S, iter)]
  <2> HIDE DEF Step
  <2> QED BY <1>7
<1> HIDE DEF iter
<1>9. \A S \in SUBSET (1..n) : iter[S] = Step(S, iter)
  <2> HIDE DEF Step
  <2> QED BY <1>2, <1>8
<1>10. StepsFold(iter, n, E, 0, G)
  <2>1. ASSUME NEW S \in SUBSET (1..n), S # {}, iter[S \ {Max(S)}] \in E
        PROVE  iter[S] = G[<<Max(S), iter[S \ {Max(S)}]>>]
    <3>1. Max(S) \in 1..n
      BY <1>2, <2>1, MaxOf
    <3>2. G[<<Max(S), iter[S \ {Max(S)}]>>] = iter[S \ {Max(S)}] + s[Max(S)]
      BY <1>3, <2>1, <3>1
    <3>3. iter[S] = iter[S \ {Max(S)}] + s[Max(S)]
      BY <1>2, <1>9, <2>1, <3>1
    <3> QED BY <3>2, <3>3
  <2>2. {} \in SUBSET (1..n) /\ iter[{}] = 0
    BY <1>9
  <2> QED BY <2>1, <2>2 DEF StepsFold
<1> HIDE DEF Step
<1>11. PICK r : RunOf(r, iter, n, E, 0, G)
  BY <1>2, <1>4, <1>10, FoldRuns
<1>12. ASSUME NEW k \in 1..n
       PROVE  r[k] = r[k - 1] + s[k]
  <2>1. k - 1 \in 0..n
    BY <1>2
  <2> QED BY <1>3, <1>11, <2>1 DEF Run, RunOf
<1> QED BY <1>1, <1>2, <1>11, <1>12 DEF Run, RunOf, n

\* Picking elements at places, one place after the other.
LEMMA AtSteps ==
    ASSUME NEW C, NEW x \in Seq(C), NEW E, NEW I, <<>> \in E,
           \A e \in E : \A k \in 1..Len(x) : Pick(e, x, I, k) \in E
    PROVE  \E r \in [0..Len(x) -> E] :
             /\ r[0] = <<>>
             /\ \A k \in 1..Len(x) : r[k] = Pick(r[k - 1], x, I, k)
             /\ At(x, I) = r[Len(x)]
<1> DEFINE s == [i \in DOMAIN x |-> i]
           n == Len(x)
           G == [p \in (1..n) \X E |-> Pick(p[2], x, I, p[1])]
           Step(S, it) == IF S = {} THEN <<>> ELSE Pick(it[S \ {Max(S)}], x, I, s[Max(S)])
           iter == CHOOSE it : it = [S \in SUBSET DOMAIN s |-> Step(S, it)]
<1>1. At(x, I) = iter[DOMAIN s]
  BY Zenon DEF Pick, At, FoldLeftDomain, FoldLeft, MapThenFoldSet
<1>2. n \in Nat /\ DOMAIN s = 1..n /\ <<>> \in E /\ \A k \in 1..n : s[k] = k
  OBVIOUS
<1>3. ASSUME NEW k \in 1..n, NEW e \in E
      PROVE  Pick(e, x, I, k) \in E /\ G[<<k, e>>] = Pick(e, x, I, k)
  OBVIOUS
<1>4. G \in [(1..n) \X E -> E]
  BY <1>3
<1> HIDE DEF n, s
<1>5. PICK h : SolvesFold(h, n, E, <<>>, G)
  BY <1>2, <1>4, FoldSolved
<1> HIDE DEF G
<1>6. \A S \in SUBSET (1..n) : h[S] = Step(S, h)
  <2>1. ASSUME NEW S \in SUBSET (1..n), S # {}
        PROVE  h[S] = Step(S, h)
    <3>1. Max(S) \in 1..n /\ h[S \ {Max(S)}] \in E
      BY <1>2, <1>5, <2>1, MaxOf DEF SolvesFold
    <3>2. h[S] = G[<<Max(S), h[S \ {Max(S)}]>>]
      BY <1>5, <2>1 DEF SolvesFold
    <3>3. h[S] = Pick(h[S \ {Max(S)}], x, I, Max(S))
      BY <1>3, <3>1, <3>2
    <3> QED BY <1>2, <2>1, <3>1, <3>3
  <2> QED BY <1>5, <2>1 DEF SolvesFold
<1>7. h = [S \in SUBSET DOMAIN s |-> Step(S, h)]
  <2> HIDE DEF Step
  <2> QED BY <1>2, <1>5, <1>6 DEF SolvesFold
<1>8. iter = [S \in SUBSET DOMAIN s |-> Step(S, iter)]
  <2> HIDE DEF Step
  <2> QED BY <1>7
<1> HIDE DEF iter
<1>9. \A S \in SUBSET (1..n) : iter[S] = Step(S, iter)
  <2> HIDE DEF Step
  <2> QED BY <1>2, <1>8
<1>10. StepsFold(iter, n, E, <<>>, G)
  <2>1. ASSUME NEW S \in SUBSET (1..n), S # {}, iter[S \ {Max(S)}] \in E
        PROVE  iter[S] = G[<<Max(S), iter[S \ {Max(S)}]>>]
    <3>1. Max(S) \in 1..n
      BY <1>2, <2>1, MaxOf
    <3>2. G[<<Max(S), iter[S \ {Max(S)}]>>] = Pick(iter[S \ {Max(S)}], x, I, Max(S))
      BY <1>3, <2>1, <3>1
    <3>3. iter[S] = Pick(iter[S \ {Max(S)}], x, I, Max(S))
      BY <1>2, <1>9, <2>1, <3>1
    <3> QED BY <3>2, <3>3
  <2>2. {} \in SUBSET (1..n) /\ iter[{}] = <<>>
    BY <1>9
  <2> QED BY <2>1, <2>2 DEF StepsFold
<1> HIDE DEF Step
<1>11. PICK r : RunOf(r, iter, n, E, <<>>, G)
  BY <1>2, <1>4, <1>10, FoldRuns
<1>12. ASSUME NEW k \in 1..n
       PROVE  r[k] = Pick(r[k - 1], x, I, k)
  <2>1. k - 1 \in 0..n
    BY <1>2
  <2> QED BY <1>3, <1>11, <2>1 DEF Run, RunOf
<1> QED BY <1>1, <1>2, <1>11, <1>12 DEF Run, RunOf, n

\* Lines to blocks, one line after the other.
LEMMA LineSteps ==
    ASSUME NEW C, NEW s \in Seq(C), NEW E, NoBlocks \in E,
           \A e \in E : \A k \in 1..Len(s) : AddLine(e, s[k]) \in E
    PROVE  \E r \in [0..Len(s) -> E] :
             /\ r[0] = NoBlocks
             /\ \A k \in 1..Len(s) : r[k] = AddLine(r[k - 1], s[k])
             /\ BuildBlocksFromLines(s) = FlushParagraph(r[Len(s)]).blocks
<1> DEFINE n == Len(s)
           G == [p \in (1..n) \X E |-> AddLine(p[2], s[p[1]])]
           Step(S, it) == IF S = {} THEN NoBlocks ELSE AddLine(it[S \ {Max(S)}], s[Max(S)])
           iter == CHOOSE it : it = [S \in SUBSET DOMAIN s |-> Step(S, it)]
<1>1. BuildBlocksFromLines(s) = FlushParagraph(iter[DOMAIN s]).blocks
  BY Zenon DEF BuildBlocksFromLines, FoldLeft, MapThenFoldSet
<1>2. n \in Nat /\ DOMAIN s = 1..n /\ NoBlocks \in E
  OBVIOUS
<1>3. ASSUME NEW k \in 1..n, NEW e \in E
      PROVE  AddLine(e, s[k]) \in E /\ G[<<k, e>>] = AddLine(e, s[k])
  OBVIOUS
<1>4. G \in [(1..n) \X E -> E]
  BY <1>3
<1> HIDE DEF n
<1>5. PICK h : SolvesFold(h, n, E, NoBlocks, G)
  BY <1>2, <1>4, FoldSolved
<1> HIDE DEF G
<1>6. \A S \in SUBSET (1..n) : h[S] = Step(S, h)
  <2>1. ASSUME NEW S \in SUBSET (1..n), S # {}
        PROVE  h[S] = Step(S, h)
    <3>1. Max(S) \in 1..n /\ h[S \ {Max(S)}] \in E
      BY <1>2, <1>5, <2>1, MaxOf DEF SolvesFold
    <3>2. h[S] = G[<<Max(S), h[S \ {Max(S)}]>>]
      BY <1>5, <2>1 DEF SolvesFold
    <3>3. h[S] = AddLine(h[S \ {Max(S)}], s[Max(S)])
      BY <1>3, <3>1, <3>2
    <3> QED BY <1>2, <2>1, <3>1, <3>3
  <2> QED BY <1>5, <2>1 DEF SolvesFold
<1>7. h = [S \in SUBSET DOMAIN s |-> Step(S, h)]
  <2> HIDE DEF Step
  <2> QED BY <1>2, <1>5, <1>6 DEF SolvesFold
<1>8. iter = [S \in SUBSET DOMAIN s |-> Step(S, iter)]
  <2> HIDE DEF Step
  <2> QED BY <1>7
<1> HIDE DEF iter
<1>9. \A S \in SUBSET (1..n) : iter[S] = Step(S, iter)
  <2> HIDE DEF Step
  <2> QED BY <1>2, <1>8
<1>10. StepsFold(iter, n, E, NoBlocks, G)
  <2>1. ASSUME NEW S \in SUBSET (1..n), S # {}, iter[S \ {Max(S)}] \in E
        PROVE  iter[S] = G[<<Max(S), iter[S \ {Max(S)}]>>]
    <3>1. Max(S) \in 1..n
      BY <1>2, <2>1, MaxOf
    <3>2. G[<<Max(S), iter[S \ {Max(S)}]>>] = AddLine(iter[S \ {Max(S)}], s[Max(S)])
      BY <1>3, <2>1, <3>1
    <3>3. iter[S] = AddLine(iter[S \ {Max(S)}], s[Max(S)])
      BY <1>2, <1>9, <2>1, <3>1
    <3> QED BY <3>2, <3>3
  <2>2. {} \in SUBSET (1..n) /\ iter[{}] = NoBlocks
    BY <1>9
  <2> QED BY <2>1, <2>2 DEF StepsFold
<1> HIDE DEF Step
<1>11. PICK r : RunOf(r, iter, n, E, NoBlocks, G)
  BY <1>2, <1>4, <1>10, FoldRuns
<1>12. ASSUME NEW k \in 1..n
       PROVE  r[k] = AddLine(r[k - 1], s[k])
  <2>1. k - 1 \in 0..n
    BY <1>2
  <2> QED BY <1>3, <1>11, <2>1 DEF Run, RunOf
<1> QED BY <1>1, <1>2, <1>11, <1>12 DEF Run, RunOf, n

\* Blocks to sections, one block after the other.
LEMMA SectionSteps ==
    ASSUME NEW C, NEW x \in Seq(C), NEW E, NoSections \in E,
           \A e \in E : \A k \in 1..Len(x) : AddBlock(e, x[k], k) \in E
    PROVE  \E r \in [0..Len(x) -> E] :
             /\ r[0] = NoSections
             /\ \A k \in 1..Len(x) : r[k] = AddBlock(r[k - 1], x[k], k)
             /\ BuildSections(x) = CloseSection(r[Len(x)]).sections
<1> DEFINE s == [i \in DOMAIN x |-> i]
           n == Len(x)
           G == [p \in (1..n) \X E |-> AddBlock(p[2], x[p[1]], p[1])]
           Step(S, it) == IF S = {} THEN NoSections ELSE AddBlock(it[S \ {Max(S)}], x[s[Max(S)]], s[Max(S)])
           iter == CHOOSE it : it = [S \in SUBSET DOMAIN s |-> Step(S, it)]
<1>1. BuildSections(x) = CloseSection(iter[DOMAIN s]).sections
  BY Zenon DEF BuildSections, FoldLeftDomain, FoldLeft, MapThenFoldSet
<1>2. n \in Nat /\ DOMAIN s = 1..n /\ NoSections \in E /\ \A k \in 1..n : s[k] = k
  OBVIOUS
<1>3. ASSUME NEW k \in 1..n, NEW e \in E
      PROVE  AddBlock(e, x[k], k) \in E /\ G[<<k, e>>] = AddBlock(e, x[k], k)
  OBVIOUS
<1>4. G \in [(1..n) \X E -> E]
  BY <1>3
<1> HIDE DEF n, s
<1>5. PICK h : SolvesFold(h, n, E, NoSections, G)
  BY <1>2, <1>4, FoldSolved
<1> HIDE DEF G
<1>6. \A S \in SUBSET (1..n) : h[S] = Step(S, h)
  <2>1. ASSUME NEW S \in SUBSET (1..n), S # {}
        PROVE  h[S] = Step(S, h)
    <3>1. Max(S) \in 1..n /\ h[S \ {Max(S)}] \in E
      BY <1>2, <1>5, <2>1, MaxOf DEF SolvesFold
    <3>2. h[S] = G[<<Max(S), h[S \ {Max(S)}]>>]
      BY <1>5, <2>1 DEF SolvesFold
    <3>3. h[S] = AddBlock(h[S \ {Max(S)}], x[Max(S)], Max(S))
      BY <1>3, <3>1, <3>2
    <3> QED BY <1>2, <2>1, <3>1, <3>3
  <2> QED BY <1>5, <2>1 DEF SolvesFold
<1>7. h = [S \in SUBSET DOMAIN s |-> Step(S, h)]
  <2> HIDE DEF Step
  <2> QED BY <1>2, <1>5, <1>6 DEF SolvesFold
<1>8. iter = [S \in SUBSET DOMAIN s |-> Step(S, iter)]
  <2> HIDE DEF Step
  <2> QED BY <1>7
<1> HIDE DEF iter
<1>9. \A S \in SUBSET (1..n) : iter[S] = Step(S, iter)
  <2> HIDE DEF Step
  <2> QED BY <1>2, <1>8
<1>10. StepsFold(iter, n, E, NoSections, G)
  <2>1. ASSUME NEW S \in SUBSET (1..n), S # {}, iter[S \ {Max(S)}] \in E
        PROVE  iter[S] = G[<<Max(S), iter[S \ {Max(S)}]>>]
    <3>1. Max(S) \in 1..n
      BY <1>2, <2>1, MaxOf
    <3>2. G[<<Max(S), iter[S \ {Max(S)}]>>] = AddBlock(iter[S \ {Max(S)}], x[Max(S)], Max(S))
      BY <1>3, <2>1, <3>1
    <3>3. iter[S] = AddBlock(iter[S \ {Max(S)}], x[Max(S)], Max(S))
      BY <1>2, <1>9, <2>1, <3>1
    <3> QED BY <3>2, <3>3
  <2>2. {} \in SUBSET (1..n) /\ iter[{}] = NoSections
    BY <1>9
  <2> QED BY <2>1, <2>2 DEF StepsFold
<1> HIDE DEF Step
<1>11. PICK r : RunOf(r, iter, n, E, NoSections, G)
  BY <1>2, <1>4, <1>10, FoldRuns
<1>12. ASSUME NEW k \in 1..n
       PROVE  r[k] = AddBlock(r[k - 1], x[k], k)
  <2>1. k - 1 \in 0..n
    BY <1>2
  <2> QED BY <1>3, <1>11, <2>1 DEF Run, RunOf
<1> QED BY <1>1, <1>2, <1>11, <1>12 DEF Run, RunOf, n

\* Sections to groups, one section after the other.
LEMMA MergeSteps ==
    ASSUME NEW C, NEW s \in Seq(C), NEW E, [merged |-> <<>>, group |-> <<>>] \in E,
           \A e \in E : \A k \in 1..Len(s) : AddSection(e, s[k]) \in E
    PROVE  \E r \in [0..Len(s) -> E] :
             /\ r[0] = [merged |-> <<>>, group |-> <<>>]
             /\ \A k \in 1..Len(s) : r[k] = AddSection(r[k - 1], s[k])
             /\ MergeSmallSections(s) = CloseGroup(r[Len(s)])
<1> DEFINE n == Len(s)
           G == [p \in (1..n) \X E |-> AddSection(p[2], s[p[1]])]
           Step(S, it) == IF S = {} THEN [merged |-> <<>>, group |-> <<>>] ELSE AddSection(it[S \ {Max(S)}], s[Max(S)])
           iter == CHOOSE it : it = [S \in SUBSET DOMAIN s |-> Step(S, it)]
<1>1. MergeSmallSections(s) = CloseGroup(iter[DOMAIN s])
  BY Zenon DEF MergeSmallSections, FoldLeft, MapThenFoldSet
<1>2. n \in Nat /\ DOMAIN s = 1..n /\ [merged |-> <<>>, group |-> <<>>] \in E
  OBVIOUS
<1>3. ASSUME NEW k \in 1..n, NEW e \in E
      PROVE  AddSection(e, s[k]) \in E /\ G[<<k, e>>] = AddSection(e, s[k])
  OBVIOUS
<1>4. G \in [(1..n) \X E -> E]
  BY <1>3
<1> HIDE DEF n
<1>5. PICK h : SolvesFold(h, n, E, [merged |-> <<>>, group |-> <<>>], G)
  BY <1>2, <1>4, FoldSolved
<1> HIDE DEF G
<1>6. \A S \in SUBSET (1..n) : h[S] = Step(S, h)
  <2>1. ASSUME NEW S \in SUBSET (1..n), S # {}
        PROVE  h[S] = Step(S, h)
    <3>1. Max(S) \in 1..n /\ h[S \ {Max(S)}] \in E
      BY <1>2, <1>5, <2>1, MaxOf DEF SolvesFold
    <3>2. h[S] = G[<<Max(S), h[S \ {Max(S)}]>>]
      BY <1>5, <2>1 DEF SolvesFold
    <3>3. h[S] = AddSection(h[S \ {Max(S)}], s[Max(S)])
      BY <1>3, <3>1, <3>2
    <3> QED BY <1>2, <2>1, <3>1, <3>3
  <2> QED BY <1>5, <2>1 DEF SolvesFold
<1>7. h = [S \in SUBSET DOMAIN s |-> Step(S, h)]
  <2> HIDE DEF Step
  <2> QED BY <1>2, <1>5, <1>6 DEF SolvesFold
<1>8. iter = [S \in SUBSET DOMAIN s |-> Step(S, iter)]
  <2> HIDE DEF Step
  <2> QED BY <1>7
<1> HIDE DEF iter
<1>9. \A S \in SUBSET (1..n) : iter[S] = Step(S, iter)
  <2> HIDE DEF Step
  <2> QED BY <1>2, <1>8
<1>10. StepsFold(iter, n, E, [merged |-> <<>>, group |-> <<>>], G)
  <2>1. ASSUME NEW S \in SUBSET (1..n), S # {}, iter[S \ {Max(S)}] \in E
        PROVE  iter[S] = G[<<Max(S), iter[S \ {Max(S)}]>>]
    <3>1. Max(S) \in 1..n
      BY <1>2, <2>1, MaxOf
    <3>2. G[<<Max(S), iter[S \ {Max(S)}]>>] = AddSection(iter[S \ {Max(S)}], s[Max(S)])
      BY <1>3, <2>1, <3>1
    <3>3. iter[S] = AddSection(iter[S \ {Max(S)}], s[Max(S)])
      BY <1>2, <1>9, <2>1, <3>1
    <3> QED BY <3>2, <3>3
  <2>2. {} \in SUBSET (1..n) /\ iter[{}] = [merged |-> <<>>, group |-> <<>>]
    BY <1>9
  <2> QED BY <2>1, <2>2 DEF StepsFold
<1> HIDE DEF Step
<1>11. PICK r : RunOf(r, iter, n, E, [merged |-> <<>>, group |-> <<>>], G)
  BY <1>2, <1>4, <1>10, FoldRuns
<1>12. ASSUME NEW k \in 1..n
       PROVE  r[k] = AddSection(r[k - 1], s[k])
  <2>1. k - 1 \in 0..n
    BY <1>2
  <2> QED BY <1>3, <1>11, <2>1 DEF Run, RunOf
<1> QED BY <1>1, <1>2, <1>11, <1>12 DEF Run, RunOf, n

\* Blocks to texts, one block after the other.
LEMMA TextSteps ==
    ASSUME NEW C, NEW s \in Seq(C), NEW E, <<>> \in E,
           \A e \in E : \A k \in 1..Len(s) : AddText(e, s[k]) \in E
    PROVE  \E r \in [0..Len(s) -> E] :
             /\ r[0] = <<>>
             /\ \A k \in 1..Len(s) : r[k] = AddText(r[k - 1], s[k])
             /\ SectionTexts(s) = r[Len(s)]
<1> DEFINE n == Len(s)
           G == [p \in (1..n) \X E |-> AddText(p[2], s[p[1]])]
           Step(S, it) == IF S = {} THEN <<>> ELSE AddText(it[S \ {Max(S)}], s[Max(S)])
           iter == CHOOSE it : it = [S \in SUBSET DOMAIN s |-> Step(S, it)]
<1>1. SectionTexts(s) = iter[DOMAIN s]
  BY Zenon DEF SectionTexts, FoldLeft, MapThenFoldSet
<1>2. n \in Nat /\ DOMAIN s = 1..n /\ <<>> \in E
  OBVIOUS
<1>3. ASSUME NEW k \in 1..n, NEW e \in E
      PROVE  AddText(e, s[k]) \in E /\ G[<<k, e>>] = AddText(e, s[k])
  OBVIOUS
<1>4. G \in [(1..n) \X E -> E]
  BY <1>3
<1> HIDE DEF n
<1>5. PICK h : SolvesFold(h, n, E, <<>>, G)
  BY <1>2, <1>4, FoldSolved
<1> HIDE DEF G
<1>6. \A S \in SUBSET (1..n) : h[S] = Step(S, h)
  <2>1. ASSUME NEW S \in SUBSET (1..n), S # {}
        PROVE  h[S] = Step(S, h)
    <3>1. Max(S) \in 1..n /\ h[S \ {Max(S)}] \in E
      BY <1>2, <1>5, <2>1, MaxOf DEF SolvesFold
    <3>2. h[S] = G[<<Max(S), h[S \ {Max(S)}]>>]
      BY <1>5, <2>1 DEF SolvesFold
    <3>3. h[S] = AddText(h[S \ {Max(S)}], s[Max(S)])
      BY <1>3, <3>1, <3>2
    <3> QED BY <1>2, <2>1, <3>1, <3>3
  <2> QED BY <1>5, <2>1 DEF SolvesFold
<1>7. h = [S \in SUBSET DOMAIN s |-> Step(S, h)]
  <2> HIDE DEF Step
  <2> QED BY <1>2, <1>5, <1>6 DEF SolvesFold
<1>8. iter = [S \in SUBSET DOMAIN s |-> Step(S, iter)]
  <2> HIDE DEF Step
  <2> QED BY <1>7
<1> HIDE DEF iter
<1>9. \A S \in SUBSET (1..n) : iter[S] = Step(S, iter)
  <2> HIDE DEF Step
  <2> QED BY <1>2, <1>8
<1>10. StepsFold(iter, n, E, <<>>, G)
  <2>1. ASSUME NEW S \in SUBSET (1..n), S # {}, iter[S \ {Max(S)}] \in E
        PROVE  iter[S] = G[<<Max(S), iter[S \ {Max(S)}]>>]
    <3>1. Max(S) \in 1..n
      BY <1>2, <2>1, MaxOf
    <3>2. G[<<Max(S), iter[S \ {Max(S)}]>>] = AddText(iter[S \ {Max(S)}], s[Max(S)])
      BY <1>3, <2>1, <3>1
    <3>3. iter[S] = AddText(iter[S \ {Max(S)}], s[Max(S)])
      BY <1>2, <1>9, <2>1, <3>1
    <3> QED BY <3>2, <3>3
  <2>2. {} \in SUBSET (1..n) /\ iter[{}] = <<>>
    BY <1>9
  <2> QED BY <2>1, <2>2 DEF StepsFold
<1> HIDE DEF Step
<1>11. PICK r : RunOf(r, iter, n, E, <<>>, G)
  BY <1>2, <1>4, <1>10, FoldRuns
<1>12. ASSUME NEW k \in 1..n
       PROVE  r[k] = AddText(r[k - 1], s[k])
  <2>1. k - 1 \in 0..n
    BY <1>2
  <2> QED BY <1>3, <1>11, <2>1 DEF Run, RunOf
<1> QED BY <1>1, <1>2, <1>11, <1>12 DEF Run, RunOf, n

\* Parts to units, one part after the other.
LEMMA PackSteps ==
    ASSUME NEW C, NEW s \in Seq(C), NEW E, NEW max, [packed |-> <<>>, current |-> <<>>] \in E,
           \A e \in E : \A k \in 1..Len(s) : PackPart(e, s[k], max) \in E
    PROVE  \E r \in [0..Len(s) -> E] :
             /\ r[0] = [packed |-> <<>>, current |-> <<>>]
             /\ \A k \in 1..Len(s) : r[k] = PackPart(r[k - 1], s[k], max)
             /\ PackParts(s, max) = Append(r[Len(s)].packed, r[Len(s)].current)
<1> DEFINE n == Len(s)
           G == [p \in (1..n) \X E |-> PackPart(p[2], s[p[1]], max)]
           Step(S, it) == IF S = {} THEN [packed |-> <<>>, current |-> <<>>] ELSE PackPart(it[S \ {Max(S)}], s[Max(S)], max)
           iter == CHOOSE it : it = [S \in SUBSET DOMAIN s |-> Step(S, it)]
<1>1. PackParts(s, max) = Append(iter[DOMAIN s].packed, iter[DOMAIN s].current)
  BY Zenon DEF PackParts, FoldLeft, MapThenFoldSet
<1>2. n \in Nat /\ DOMAIN s = 1..n /\ [packed |-> <<>>, current |-> <<>>] \in E
  OBVIOUS
<1>3. ASSUME NEW k \in 1..n, NEW e \in E
      PROVE  PackPart(e, s[k], max) \in E /\ G[<<k, e>>] = PackPart(e, s[k], max)
  OBVIOUS
<1>4. G \in [(1..n) \X E -> E]
  BY <1>3
<1> HIDE DEF n
<1>5. PICK h : SolvesFold(h, n, E, [packed |-> <<>>, current |-> <<>>], G)
  BY <1>2, <1>4, FoldSolved
<1> HIDE DEF G
<1>6. \A S \in SUBSET (1..n) : h[S] = Step(S, h)
  <2>1. ASSUME NEW S \in SUBSET (1..n), S # {}
        PROVE  h[S] = Step(S, h)
    <3>1. Max(S) \in 1..n /\ h[S \ {Max(S)}] \in E
      BY <1>2, <1>5, <2>1, MaxOf DEF SolvesFold
    <3>2. h[S] = G[<<Max(S), h[S \ {Max(S)}]>>]
      BY <1>5, <2>1 DEF SolvesFold
    <3>3. h[S] = PackPart(h[S \ {Max(S)}], s[Max(S)], max)
      BY <1>3, <3>1, <3>2
    <3> QED BY <1>2, <2>1, <3>1, <3>3
  <2> QED BY <1>5, <2>1 DEF SolvesFold
<1>7. h = [S \in SUBSET DOMAIN s |-> Step(S, h)]
  <2> HIDE DEF Step
  <2> QED BY <1>2, <1>5, <1>6 DEF SolvesFold
<1>8. iter = [S \in SUBSET DOMAIN s |-> Step(S, iter)]
  <2> HIDE DEF Step
  <2> QED BY <1>7
<1> HIDE DEF iter
<1>9. \A S \in SUBSET (1..n) : iter[S] = Step(S, iter)
  <2> HIDE DEF Step
  <2> QED BY <1>2, <1>8
<1>10. StepsFold(iter, n, E, [packed |-> <<>>, current |-> <<>>], G)
  <2>1. ASSUME NEW S \in SUBSET (1..n), S # {}, iter[S \ {Max(S)}] \in E
        PROVE  iter[S] = G[<<Max(S), iter[S \ {Max(S)}]>>]
    <3>1. Max(S) \in 1..n
      BY <1>2, <2>1, MaxOf
    <3>2. G[<<Max(S), iter[S \ {Max(S)}]>>] = PackPart(iter[S \ {Max(S)}], s[Max(S)], max)
      BY <1>3, <2>1, <3>1
    <3>3. iter[S] = PackPart(iter[S \ {Max(S)}], s[Max(S)], max)
      BY <1>2, <1>9, <2>1, <3>1
    <3> QED BY <3>2, <3>3
  <2>2. {} \in SUBSET (1..n) /\ iter[{}] = [packed |-> <<>>, current |-> <<>>]
    BY <1>9
  <2> QED BY <2>1, <2>2 DEF StepsFold
<1> HIDE DEF Step
<1>11. PICK r : RunOf(r, iter, n, E, [packed |-> <<>>, current |-> <<>>], G)
  BY <1>2, <1>4, <1>10, FoldRuns
<1>12. ASSUME NEW k \in 1..n
       PROVE  r[k] = PackPart(r[k - 1], s[k], max)
  <2>1. k - 1 \in 0..n
    BY <1>2
  <2> QED BY <1>3, <1>11, <2>1 DEF Run, RunOf
<1> QED BY <1>1, <1>2, <1>11, <1>12 DEF Run, RunOf, n

\* Units to chunks, one unit after the other.
LEMMA UnitSteps ==
    ASSUME NEW C, NEW s \in Seq(C), NEW E, NEW title, [grouped |-> <<>>, current |-> <<>>] \in E,
           \A e \in E : \A k \in 1..Len(s) : AddUnit(e, s[k], title) \in E
    PROVE  \E r \in [0..Len(s) -> E] :
             /\ r[0] = [grouped |-> <<>>, current |-> <<>>]
             /\ \A k \in 1..Len(s) : r[k] = AddUnit(r[k - 1], s[k], title)
             /\ GroupUnits(s, title) = (IF r[Len(s)].current = <<>> THEN r[Len(s)].grouped ELSE Append(r[Len(s)].grouped, ApplyStickyHeading(r[Len(s)].current, title)))
<1> DEFINE n == Len(s)
           G == [p \in (1..n) \X E |-> AddUnit(p[2], s[p[1]], title)]
           Step(S, it) == IF S = {} THEN [grouped |-> <<>>, current |-> <<>>] ELSE AddUnit(it[S \ {Max(S)}], s[Max(S)], title)
           iter == CHOOSE it : it = [S \in SUBSET DOMAIN s |-> Step(S, it)]
<1>1. GroupUnits(s, title) = (IF iter[DOMAIN s].current = <<>> THEN iter[DOMAIN s].grouped ELSE Append(iter[DOMAIN s].grouped, ApplyStickyHeading(iter[DOMAIN s].current, title)))
  BY Zenon DEF GroupUnits, FoldLeft, MapThenFoldSet
<1>2. n \in Nat /\ DOMAIN s = 1..n /\ [grouped |-> <<>>, current |-> <<>>] \in E
  OBVIOUS
<1>3. ASSUME NEW k \in 1..n, NEW e \in E
      PROVE  AddUnit(e, s[k], title) \in E /\ G[<<k, e>>] = AddUnit(e, s[k], title)
  OBVIOUS
<1>4. G \in [(1..n) \X E -> E]
  BY <1>3
<1> HIDE DEF n
<1>5. PICK h : SolvesFold(h, n, E, [grouped |-> <<>>, current |-> <<>>], G)
  BY <1>2, <1>4, FoldSolved
<1> HIDE DEF G
<1>6. \A S \in SUBSET (1..n) : h[S] = Step(S, h)
  <2>1. ASSUME NEW S \in SUBSET (1..n), S # {}
        PROVE  h[S] = Step(S, h)
    <3>1. Max(S) \in 1..n /\ h[S \ {Max(S)}] \in E
      BY <1>2, <1>5, <2>1, MaxOf DEF SolvesFold
    <3>2. h[S] = G[<<Max(S), h[S \ {Max(S)}]>>]
      BY <1>5, <2>1 DEF SolvesFold
    <3>3. h[S] = AddUnit(h[S \ {Max(S)}], s[Max(S)], title)
      BY <1>3, <3>1, <3>2
    <3> QED BY <1>2, <2>1, <3>1, <3>3
  <2> QED BY <1>5, <2>1 DEF SolvesFold
<1>7. h = [S \in SUBSET DOMAIN s |-> Step(S, h)]
  <2> HIDE DEF Step
  <2> QED BY <1>2, <1>5, <1>6 DEF SolvesFold
<1>8. iter = [S \in SUBSET DOMAIN s |-> Step(S, iter)]
  <2> HIDE DEF Step
  <2> QED BY <1>7
<1> HIDE DEF iter
<1>9. \A S \in SUBSET (1..n) : iter[S] = Step(S, iter)
  <2> HIDE DEF Step
  <2> QED BY <1>2, <1>8
<1>10. StepsFold(iter, n, E, [grouped |-> <<>>, current |-> <<>>], G)
  <2>1. ASSUME NEW S \in SUBSET (1..n), S # {}, iter[S \ {Max(S)}] \in E
        PROVE  iter[S] = G[<<Max(S), iter[S \ {Max(S)}]>>]
    <3>1. Max(S) \in 1..n
      BY <1>2, <2>1, MaxOf
    <3>2. G[<<Max(S), iter[S \ {Max(S)}]>>] = AddUnit(iter[S \ {Max(S)}], s[Max(S)], title)
      BY <1>3, <2>1, <3>1
    <3>3. iter[S] = AddUnit(iter[S \ {Max(S)}], s[Max(S)], title)
      BY <1>2, <1>9, <2>1, <3>1
    <3> QED BY <3>2, <3>3
  <2>2. {} \in SUBSET (1..n) /\ iter[{}] = [grouped |-> <<>>, current |-> <<>>]
    BY <1>9
  <2> QED BY <2>1, <2>2 DEF StepsFold
<1> HIDE DEF Step
<1>11. PICK r : RunOf(r, iter, n, E, [grouped |-> <<>>, current |-> <<>>], G)
  BY <1>2, <1>4, <1>10, FoldRuns
<1>12. ASSUME NEW k \in 1..n
       PROVE  r[k] = AddUnit(r[k - 1], s[k], title)
  <2>1. k - 1 \in 0..n
    BY <1>2
  <2> QED BY <1>3, <1>11, <2>1 DEF Run, RunOf
<1> QED BY <1>1, <1>2, <1>11, <1>12 DEF Run, RunOf, n

\* Texts to batches, one text after the other.
LEMMA BatchSteps ==
    ASSUME NEW C, chunks \in Seq(C), NEW E, [batches |-> <<>>, current |-> <<>>] \in E,
           \A e \in E : \A k \in 1..Len(chunks) : AddToBatch(e, k) \in E
    PROVE  \E r \in [0..Len(chunks) -> E] :
             /\ r[0] = [batches |-> <<>>, current |-> <<>>]
             /\ \A k \in 1..Len(chunks) : r[k] = AddToBatch(r[k - 1], k)
             /\ BuildBatches = Append(r[Len(chunks)].batches, r[Len(chunks)].current)
<1> DEFINE s == [i \in DOMAIN chunks |-> i]
           n == Len(chunks)
           G == [p \in (1..n) \X E |-> AddToBatch(p[2], p[1])]
           Step(S, it) == IF S = {} THEN [batches |-> <<>>, current |-> <<>>] ELSE AddToBatch(it[S \ {Max(S)}], s[Max(S)])
           iter == CHOOSE it : it = [S \in SUBSET DOMAIN s |-> Step(S, it)]
<1>1. BuildBatches = Append(iter[DOMAIN s].batches, iter[DOMAIN s].current)
  BY Zenon DEF BuildBatches, FoldLeftDomain, FoldLeft, MapThenFoldSet
<1>2. n \in Nat /\ DOMAIN s = 1..n /\ [batches |-> <<>>, current |-> <<>>] \in E /\ \A k \in 1..n : s[k] = k
  OBVIOUS
<1>3. ASSUME NEW k \in 1..n, NEW e \in E
      PROVE  AddToBatch(e, k) \in E /\ G[<<k, e>>] = AddToBatch(e, k)
  OBVIOUS
<1>4. G \in [(1..n) \X E -> E]
  BY <1>3
<1> HIDE DEF n, s
<1>5. PICK h : SolvesFold(h, n, E, [batches |-> <<>>, current |-> <<>>], G)
  BY <1>2, <1>4, FoldSolved
<1> HIDE DEF G
<1>6. \A S \in SUBSET (1..n) : h[S] = Step(S, h)
  <2>1. ASSUME NEW S \in SUBSET (1..n), S # {}
        PROVE  h[S] = Step(S, h)
    <3>1. Max(S) \in 1..n /\ h[S \ {Max(S)}] \in E
      BY <1>2, <1>5, <2>1, MaxOf DEF SolvesFold
    <3>2. h[S] = G[<<Max(S), h[S \ {Max(S)}]>>]
      BY <1>5, <2>1 DEF SolvesFold
    <3>3. h[S] = AddToBatch(h[S \ {Max(S)}], Max(S))
      BY <1>3, <3>1, <3>2
    <3> QED BY <1>2, <2>1, <3>1, <3>3
  <2> QED BY <1>5, <2>1 DEF SolvesFold
<1>7. h = [S \in SUBSET DOMAIN s |-> Step(S, h)]
  <2> HIDE DEF Step
  <2> QED BY <1>2, <1>5, <1>6 DEF SolvesFold
<1>8. iter = [S \in SUBSET DOMAIN s |-> Step(S, iter)]
  <2> HIDE DEF Step
  <2> QED BY <1>7
<1> HIDE DEF iter
<1>9. \A S \in SUBSET (1..n) : iter[S] = Step(S, iter)
  <2> HIDE DEF Step
  <2> QED BY <1>2, <1>8
<1>10. StepsFold(iter, n, E, [batches |-> <<>>, current |-> <<>>], G)
  <2>1. ASSUME NEW S \in SUBSET (1..n), S # {}, iter[S \ {Max(S)}] \in E
        PROVE  iter[S] = G[<<Max(S), iter[S \ {Max(S)}]>>]
    <3>1. Max(S) \in 1..n
      BY <1>2, <2>1, MaxOf
    <3>2. G[<<Max(S), iter[S \ {Max(S)}]>>] = AddToBatch(iter[S \ {Max(S)}], Max(S))
      BY <1>3, <2>1, <3>1
    <3>3. iter[S] = AddToBatch(iter[S \ {Max(S)}], Max(S))
      BY <1>2, <1>9, <2>1, <3>1
    <3> QED BY <3>2, <3>3
  <2>2. {} \in SUBSET (1..n) /\ iter[{}] = [batches |-> <<>>, current |-> <<>>]
    BY <1>9
  <2> QED BY <2>1, <2>2 DEF StepsFold
<1> HIDE DEF Step
<1>11. PICK r : RunOf(r, iter, n, E, [batches |-> <<>>, current |-> <<>>], G)
  BY <1>2, <1>4, <1>10, FoldRuns
<1>12. ASSUME NEW k \in 1..n
       PROVE  r[k] = AddToBatch(r[k - 1], k)
  <2>1. k - 1 \in 0..n
    BY <1>2
  <2> QED BY <1>3, <1>11, <2>1 DEF Run, RunOf
<1> QED BY <1>1, <1>2, <1>11, <1>12 DEF Run, RunOf, n

-----------------------------------------------------------------------------
(* Sequences                                                               *)

\* e goes up.
Ascends(e, n) == \A k, l \in 1..n : k < l => e[k] < e[l]

\* s has the elements of x at the places I up to m, in order, and e says which.
Picks(e, s, x, I, m) ==
    /\ e \in [1..Len(s) -> 1..m]
    /\ Ascends(e, Len(s))
    /\ \A k \in 1..Len(s) : e[k] \in I /\ s[k] = x[e[k]]
    /\ \A i \in 1..m : i \in I => \E k \in 1..Len(s) : e[k] = i

LEMMA PicksNext ==
    ASSUME NEW C, NEW x \in Seq(C), NEW I, NEW s \in Seq(C), NEW e,
           NEW m \in 1..Len(x), Picks(e, s, x, I, m - 1)
    PROVE  \E f : Picks(f, IF m \in I THEN Append(s, x[m]) ELSE s, x, I, m)
<1>1. CASE m \in I
  <2> DEFINE t == Append(s, x[m])
             f == [k \in 1..(Len(s) + 1) |-> IF k <= Len(s) THEN e[k] ELSE m]
  <2>1. Len(t) = Len(s) + 1 /\ t[Len(s) + 1] = x[m] /\ \A k \in 1..Len(s) : t[k] = s[k]
    OBVIOUS
  <2>2. \A k \in 1..Len(s) : e[k] \in 1..(m - 1) /\ e[k] \in I /\ s[k] = x[e[k]]
    BY DEF Picks
  <2>3. f \in [1..Len(t) -> 1..m]
    BY <2>1, <2>2
  <2>4. Ascends(f, Len(t))
    <3> SUFFICES ASSUME NEW k \in 1..Len(t), NEW l \in 1..Len(t), k < l
                 PROVE  f[k] < f[l]
      BY DEF Ascends
    <3>1. CASE l <= Len(s)
      <4>1. k \in 1..Len(s) /\ l \in 1..Len(s)
        BY <3>1
      <4> QED BY <2>1, <4>1 DEF Picks, Ascends
    <3>2. CASE l = Len(s) + 1
      <4>1. k \in 1..Len(s)
        BY <2>1, <3>2
      <4> QED BY <2>1, <2>2, <3>2, <4>1
    <3> QED BY <2>1, <3>1, <3>2
  <2>5. \A k \in 1..Len(t) : f[k] \in I /\ t[k] = x[f[k]]
    BY <1>1, <2>1, <2>2
  <2>6. ASSUME NEW i \in 1..m, i \in I
        PROVE  \E k \in 1..Len(t) : f[k] = i
    <3>1. CASE i = m
      <4>1. Len(s) + 1 \in 1..Len(t) /\ f[Len(s) + 1] = m
        BY <2>1
      <4> QED BY <3>1, <4>1
    <3>2. CASE i # m
      <4>1. PICK k \in 1..Len(s) : e[k] = i
        <5>1. i \in 1..(m - 1)
          BY <3>2
        <5> QED BY <2>6, <5>1 DEF Picks
      <4>2. k \in 1..Len(t) /\ f[k] = i
        BY <2>1, <4>1
      <4> QED BY <4>2
    <3> QED BY <3>1, <3>2
  <2>7. Picks(f, t, x, I, m)
    <3> HIDE DEF f, t
    <3> QED BY <2>3, <2>4, <2>5, <2>6 DEF Picks
  <2> QED BY <1>1, <2>7
<1>2. CASE m \notin I
  <2>1. e \in [1..Len(s) -> 1..m]
    BY DEF Picks
  <2>2. \A i \in 1..m : i \in I => i \in 1..(m - 1)
    BY <1>2
  <2>3. Picks(e, s, x, I, m)
    BY <2>1, <2>2 DEF Picks
  <2> QED BY <1>2, <2>3
<1> QED BY <1>1, <1>2

\* At picks.
LEMMA AtPicks ==
    ASSUME NEW C, NEW x \in Seq(C), NEW I
    PROVE  At(x, I) \in Seq(C) /\ \E e : Picks(e, At(x, I), x, I, Len(x))
<1> DEFINE n == Len(x)
<1>1. n \in Nat /\ <<>> \in Seq(C)
  OBVIOUS
<1>2. ASSUME NEW acc \in Seq(C), NEW k \in 1..n
      PROVE  Pick(acc, x, I, k) \in Seq(C)
  <2>1. x[k] \in C
    OBVIOUS
  <2> HIDE DEF n
  <2> QED BY <2>1 DEF Pick
<1>3. PICK r \in [0..n -> Seq(C)] :
        /\ r[0] = <<>>
        /\ \A k \in 1..n : r[k] = Pick(r[k - 1], x, I, k)
        /\ At(x, I) = r[n]
  BY <1>1, <1>2, AtSteps
<1> DEFINE T == {m \in 0..n : \E e : Picks(e, r[m], x, I, m)}
<1>4. 0 \in T
  <2>1. Picks([k \in 1..0 |-> 0], r[0], x, I, 0)
    BY <1>3 DEF Picks, Ascends
  <2> QED BY <1>1, <2>1
<1>5. ASSUME NEW m \in 1..n, m - 1 \in T
      PROVE  m \in T
  <2>1. PICK e : Picks(e, r[m - 1], x, I, m - 1)
    BY <1>5
  <2>2. r[m - 1] \in Seq(C) /\ m \in 0..n /\ r[m] = IF m \in I THEN Append(r[m - 1], x[m]) ELSE r[m - 1]
    BY <1>3 DEF Pick
  <2>3. \E f : Picks(f, r[m], x, I, m)
    BY <2>1, <2>2, PicksNext
  <2> QED BY <2>2, <2>3
<1>6. n \in T
  <2> HIDE DEF T, n
  <2> QED BY <1>1, <1>4, <1>5, Reaches
<1>7. n \in 0..n
  BY <1>1
<1> QED BY <1>3, <1>6, <1>7

\* What goes up and reaches every number up to m counts to m.
LEMMA AscendsOnto ==
    ASSUME NEW n \in Nat, NEW m \in Nat, NEW e \in [1..n -> 1..m], Ascends(e, n),
           \A i \in 1..m : \E k \in 1..n : e[k] = i
    PROVE  n = m /\ \A k \in 1..n : e[k] = k
<1> DEFINE T == {k \in 0..m : \A j \in 1..k : j <= n /\ e[j] = j}
<1>1. 0 \in T
  OBVIOUS
<1>2. ASSUME NEW k \in 1..m, k - 1 \in T
      PROVE  k \in T
  <2>1. PICK j \in 1..n : e[j] = k
    OBVIOUS
  <2>2. \A i \in 1..(k - 1) : i <= n /\ e[i] = i
    BY <1>2
  <2>3. j >= k
    BY <2>1, <2>2
  <2>4. k \in 1..n /\ e[k] \in 1..m
    BY <2>3
  <2>5. e[k] <= k
    <3>1. j = k \/ k < j
      BY <2>3
    <3>2. k < j => e[k] < e[j]
      BY <2>4 DEF Ascends
    <3> QED BY <2>1, <2>4, <3>1, <3>2
  <2>6. e[k] >= k
    <3>1. CASE k = 1
      BY <2>4, <3>1
    <3>2. CASE k > 1
      <4>1. k - 1 \in 1..n /\ e[k - 1] = k - 1 /\ e[k - 1] < e[k]
        BY <2>2, <2>4, <3>2 DEF Ascends
      <4> QED BY <2>4, <4>1
    <3> QED BY <3>1, <3>2
  <2>7. e[k] = k
    BY <2>4, <2>5, <2>6
  <2> QED BY <2>2, <2>4, <2>7
<1>3. m \in T
  <2> HIDE DEF T
  <2> QED BY <1>1, <1>2, Reaches
<1>4. n <= m
  <2> SUFFICES ASSUME n > m
               PROVE  FALSE
    OBVIOUS
  <2>1. m + 1 \in 1..n /\ e[m + 1] \in 1..m
    OBVIOUS
  <2>2. PICK j \in 1..m : j = e[m + 1]
    BY <2>1
  <2>3. e[j] = j /\ j \in 1..n /\ j < m + 1
    BY <1>3
  <2>4. e[j] < e[m + 1]
    BY <2>1, <2>3 DEF Ascends
  <2> QED BY <2>2, <2>3, <2>4
<1> QED BY <1>3, <1>4

\* Picking the first places.
LEMMA AtFirst ==
    ASSUME NEW C, NEW x \in Seq(C), NEW I, NEW m \in 0..Len(x), I \cap 1..Len(x) = 1..m
    PROVE  At(x, I) = SubSeq(x, 1, m)
<1> DEFINE s == At(x, I)
<1>1. s \in Seq(C)
  BY AtPicks
<1>2. PICK e : Picks(e, s, x, I, Len(x))
  BY AtPicks
<1> HIDE DEF s
<1>3. e \in [1..Len(s) -> 1..m]
  BY <1>2 DEF Picks
<1>4. \A i \in 1..m : \E k \in 1..Len(s) : e[k] = i
  BY <1>2 DEF Picks
<1>5. Len(s) = m /\ \A k \in 1..m : e[k] = k
  <2>1. Len(s) \in Nat /\ m \in Nat /\ Ascends(e, Len(s))
    BY <1>1, <1>2 DEF Picks
  <2> QED BY <1>3, <1>4, <2>1, AscendsOnto
<1>6. \A k \in 1..m : s[k] = x[k]
  BY <1>2, <1>5 DEF Picks
<1> QED BY <1>1, <1>5, <1>6 DEF s

-----------------------------------------------------------------------------
(* Totals                                                                  *)

\* The sums of the first numbers.
Sums(r, s) ==
    /\ r \in [0..Len(s) -> Nat]
    /\ r[0] = 0
    /\ \A k \in 1..Len(s) : r[k] = r[k - 1] + s[k]

LEMMA TotalSums ==
    ASSUME NEW s \in Seq(Nat)
    PROVE  Total(s) \in Nat /\ \E r : Sums(r, s) /\ Total(s) = r[Len(s)]
<1>1. \A e \in Nat : \A k \in 1..Len(s) : e + s[k] \in Nat
  OBVIOUS
<1>2. PICK r \in [0..Len(s) -> Nat] :
        /\ r[0] = 0
        /\ \A k \in 1..Len(s) : r[k] = r[k - 1] + s[k]
        /\ Total(s) = r[Len(s)]
  BY <1>1, TotalSteps, 0 \in Nat
<1>3. Len(s) \in 0..Len(s)
  OBVIOUS
<1> QED BY <1>2, <1>3 DEF Sums

\* They are the same for all that begin alike.
LEMMA SumsAlike ==
    ASSUME NEW s \in Seq(Nat), NEW t \in Seq(Nat), NEW n \in 0..Len(s), n <= Len(t),
           \A k \in 1..n : s[k] = t[k],
           NEW p, NEW q, Sums(p, s), Sums(q, t)
    PROVE  p[n] = q[n]
<1> DEFINE T == {k \in 0..n : p[k] = q[k]}
<1>1. 0 \in T
  BY DEF Sums
<1>2. ASSUME NEW k \in 1..n, k - 1 \in T
      PROVE  k \in T
  <2>1. k \in 1..Len(s) /\ k \in 1..Len(t) /\ k \in 0..n
    OBVIOUS
  <2> QED BY <1>2, <2>1 DEF Sums
<1>3. n \in T
  <2> HIDE DEF T
  <2> QED BY <1>1, <1>2, Reaches
<1> QED BY <1>3

LEMMA TotalEmpty == Total(<<>>) = 0
<1>1. <<>> \in Seq(Nat) /\ Len(<<>>) = 0
  OBVIOUS
<1> QED BY <1>1, TotalSums DEF Sums

LEMMA TotalAppend ==
    ASSUME NEW s \in Seq(Nat), NEW x \in Nat
    PROVE  Total(Append(s, x)) = Total(s) + x
<1> DEFINE t == Append(s, x)
<1>1. /\ t \in Seq(Nat) /\ Len(t) = Len(s) + 1 /\ Len(t) \in 1..Len(t) /\ t[Len(t)] = x
      /\ \A k \in 1..Len(s) : t[k] = s[k]
  OBVIOUS
<1> HIDE DEF t
<1>2. PICK p : Sums(p, s) /\ Total(s) = p[Len(s)]
  BY TotalSums
<1>3. PICK q : Sums(q, t) /\ Total(t) = q[Len(t)]
  BY <1>1, TotalSums
<1>4. p[Len(s)] = q[Len(s)]
  <2>1. Len(s) \in 0..Len(s) /\ Len(s) <= Len(t)
    BY <1>1
  <2> QED BY <1>1, <1>2, <1>3, <2>1, SumsAlike, SMTT(30)
<1>5. q[Len(t)] = q[Len(s)] + x
  <2>1. Len(t) - 1 = Len(s)
    BY <1>1
  <2> QED BY <1>1, <1>3, <2>1 DEF Sums
<1> QED BY <1>2, <1>3, <1>4, <1>5 DEF t

LEMMA TotalConcat ==
    ASSUME NEW s \in Seq(Nat), NEW t \in Seq(Nat)
    PROVE  Total(s \o t) = Total(s) + Total(t)
<1> DEFINE u(k) == SubSeq(t, 1, k)
           T == {k \in 0..Len(t) : Total(s \o u(k)) = Total(s) + Total(u(k))}
<1>1. 0 \in T
  <2>1. u(0) = <<>> /\ s \o u(0) = s /\ 0 \in 0..Len(t)
    OBVIOUS
  <2> HIDE DEF u
  <2>2. Total(s \o u(0)) = Total(s) /\ Total(u(0)) = 0
    BY <2>1, TotalEmpty
  <2>3. Total(s) \in Nat
    BY TotalSums
  <2> QED BY <2>1, <2>2, <2>3
<1>2. ASSUME NEW k \in 1..Len(t), k - 1 \in T
      PROVE  k \in T
  <2>1. u(k - 1) \in Seq(Nat) /\ t[k] \in Nat /\ s \o u(k - 1) \in Seq(Nat)
    OBVIOUS
  <2>2. u(k) = Append(u(k - 1), t[k])
    OBVIOUS
  <2>3. s \o u(k) = Append(s \o u(k - 1), t[k])
    OBVIOUS
  <2> HIDE DEF u
  <2>4. Total(s \o u(k)) = Total(s \o u(k - 1)) + t[k]
    BY <2>1, <2>3, TotalAppend
  <2>5. Total(u(k)) = Total(u(k - 1)) + t[k]
    BY <2>1, <2>2, TotalAppend
  <2>6. Total(s) \in Nat /\ Total(u(k - 1)) \in Nat
    BY <2>1, TotalSums
  <2> QED BY <1>2, <2>1, <2>4, <2>5, <2>6
<1>3. Len(t) \in T
  <2> HIDE DEF T
  <2> QED BY <1>1, <1>2, Reaches
<1>4. u(Len(t)) = t
  OBVIOUS
<1> QED BY <1>3, <1>4

\* A part is no more than the whole, and ones count.
LEMMA TotalPart ==
    ASSUME NEW s \in Seq(Nat), NEW i \in 1..Len(s)
    PROVE  s[i] <= Total(s)
<1>1. PICK r : Sums(r, s) /\ Total(s) = r[Len(s)]
  BY TotalSums
<1> DEFINE T == {k \in 0..Len(s) : i <= k => s[i] <= r[k]}
<1>2. 0 \in T
  OBVIOUS
<1>3. ASSUME NEW k \in 1..Len(s), k - 1 \in T
      PROVE  k \in T
  <2>1. r[k] = r[k - 1] + s[k] /\ r[k - 1] \in Nat /\ s[k] \in Nat /\ s[i] \in Nat
    <3>1. k - 1 \in 0..Len(s) /\ s[k] \in Nat /\ s[i] \in Nat
      OBVIOUS
    <3> QED BY <1>1, <3>1 DEF Sums
  <2>2. i = k \/ (i <= k => i <= k - 1)
    OBVIOUS
  <2> QED BY <1>3, <2>1, <2>2
<1>4. Len(s) \in T
  <2> HIDE DEF T
  <2> QED BY <1>2, <1>3, Reaches
<1> QED BY <1>1, <1>4

LEMMA TotalCounts ==
    ASSUME NEW s \in Seq(Nat \ {0})
    PROVE  Total(s) >= Len(s)
<1>0. s \in Seq(Nat)
  OBVIOUS
<1>1. PICK r : Sums(r, s) /\ Total(s) = r[Len(s)]
  BY <1>0, TotalSums
<1> DEFINE T == {k \in 0..Len(s) : r[k] >= k}
<1>2. 0 \in T
  BY <1>1 DEF Sums
<1>3. ASSUME NEW k \in 1..Len(s), k - 1 \in T
      PROVE  k \in T
  <2>1. r[k] = r[k - 1] + s[k] /\ r[k - 1] \in Nat /\ s[k] \in Nat /\ s[k] # 0
    <3>1. k - 1 \in 0..Len(s)
      OBVIOUS
    <3> QED BY <1>1, <3>1 DEF Sums
  <2> QED BY <1>3, <2>1
<1>4. Len(s) \in T
  <2> HIDE DEF T
  <2> QED BY <1>2, <1>3, Reaches
<1> QED BY <1>1, <1>4

-----------------------------------------------------------------------------
(* Parts of a sequence                                                     *)

LEMMA SubSeqAlike ==
    ASSUME NEW C, NEW u \in Seq(C), NEW w \in Seq(C), NEW i \in Nat, NEW j \in Nat,
           i >= 1, j <= Len(u), j <= Len(w), \A k \in i..j : u[k] = w[k]
    PROVE  SubSeq(u, i, j) = SubSeq(w, i, j)
<1>1. \A k \in 1..(j - i + 1) : u[i + k - 1] = w[i + k - 1]
  <2>1. \A k \in 1..(j - i + 1) : i + k - 1 \in i..j
    OBVIOUS
  <2> QED BY <2>1
<1> QED BY <1>1

\* c says where the whole is cut into the parts.
Cuts(c, parts, whole) ==
    /\ c \in [0..Len(parts) -> 0..Len(whole)]
    /\ c[0] = 0
    /\ c[Len(parts)] = Len(whole)
    /\ \A k \in 1..Len(parts) :
         c[k - 1] <= c[k] /\ parts[k] = SubSeq(whole, c[k - 1] + 1, c[k])

LEMMA CutsNone ==
    Cuts([k \in {0} |-> 0], <<>>, <<>>)
<1>1. Len(<<>>) = 0 /\ 0..0 = {0} /\ 1..0 = {}
  OBVIOUS
<1> QED BY <1>1 DEF Cuts

LEMMA CutsNext ==
    ASSUME NEW C, NEW parts \in Seq(Seq(C)), NEW whole \in Seq(C), NEW c, Cuts(c, parts, whole),
           NEW part \in Seq(C)
    PROVE  \E d : /\ Cuts(d, Append(parts, part), whole \o part)
                  /\ \A k \in 0..Len(parts) : d[k] = c[k]
<1> DEFINE n == Len(parts)
           ps == Append(parts, part)
           w == whole \o part
           d == [k \in 0..(n + 1) |-> IF k <= n THEN c[k] ELSE Len(w)]
<1>1. /\ n \in Nat /\ Len(ps) = n + 1 /\ ps[n + 1] = part /\ \A k \in 1..n : ps[k] = parts[k]
      /\ Len(w) = Len(whole) + Len(part) /\ Len(whole) \in Nat /\ Len(part) \in Nat
  OBVIOUS
<1>2. \A k \in 0..n : c[k] \in 0..Len(whole)
  BY DEF Cuts
<1>3. d \in [0..Len(ps) -> 0..Len(w)] /\ d[0] = 0 /\ d[Len(ps)] = Len(w)
  BY <1>1, <1>2 DEF Cuts
<1>4. ASSUME NEW k \in 1..Len(ps)
      PROVE  d[k - 1] <= d[k] /\ ps[k] = SubSeq(w, d[k - 1] + 1, d[k])
  <2>1. CASE k <= n
    <3>1. k \in 1..n /\ d[k] = c[k] /\ d[k - 1] = c[k - 1] /\ c[k] \in 0..Len(whole) /\ c[k - 1] \in 0..Len(whole)
      BY <1>1, <1>2, <2>1
    <3>2. c[k - 1] <= c[k] /\ parts[k] = SubSeq(whole, c[k - 1] + 1, c[k])
      BY <3>1 DEF Cuts
    <3>3. SubSeq(w, c[k - 1] + 1, c[k]) = SubSeq(whole, c[k - 1] + 1, c[k])
      <4>1. \A i \in (c[k - 1] + 1)..c[k] : w[i] = whole[i]
        BY <3>1, SMTT(30)
      <4>2. w \in Seq(C) /\ c[k - 1] + 1 \in Nat /\ c[k] \in Nat /\ c[k - 1] + 1 >= 1
            /\ c[k] <= Len(w) /\ c[k] <= Len(whole)
        BY <1>1, <3>1, SMTT(30)
      <4> DEFINE i == c[k - 1] + 1
                 j == c[k]
      <4>3. i \in Nat /\ j \in Nat /\ i >= 1 /\ j <= Len(w) /\ j <= Len(whole)
            /\ \A m \in i..j : w[m] = whole[m]
        BY <4>1, <4>2
      <4> HIDE DEF w, i, j
      <4>4. SubSeq(w, i, j) = SubSeq(whole, i, j)
        BY <4>2, <4>3, SubSeqAlike
      <4> QED BY <4>4 DEF i, j
    <3> HIDE DEF d, w
    <3> QED BY <1>1, <3>1, <3>2, <3>3
  <2>2. CASE k = n + 1
    <3>1. d[k - 1] = Len(whole) /\ d[k] = Len(w)
      BY <1>1, <2>2 DEF Cuts
    <3>2. SubSeq(w, Len(whole) + 1, Len(w)) = part
      BY <1>1
    <3> HIDE DEF d, w
    <3> QED BY <1>1, <2>2, <3>1, <3>2
  <2> HIDE DEF ps, n, d, w
  <2> QED BY <1>1, <2>1, <2>2
<1>5. \A k \in 0..n : d[k] = c[k]
  OBVIOUS
<1>6. Cuts(d, ps, w)
  <2> HIDE DEF d, w, ps
  <2> QED BY <1>3, <1>4 DEF Cuts
<1> QED BY <1>5, <1>6

\* FlattenSeq puts parts together.
LEMMA FlattenCuts ==
    ASSUME NEW C, NEW parts \in Seq(Seq(C))
    PROVE  FlattenSeq(parts) \in Seq(C) /\ \E c : Cuts(c, parts, FlattenSeq(parts))
<1> DEFINE n == Len(parts)
<1>1. CASE n = 0
  <2>1. parts = <<>> /\ FlattenSeq(parts) = <<>> /\ <<>> \in Seq(C)
    BY <1>1 DEF FlattenSeq
  <2> QED BY <2>1, CutsNone
<1>2. CASE n > 0
  <2> DEFINE E == Seq(C)
             G == [p \in (1..n) \X E |-> IF p[1] = 1 THEN parts[1] ELSE p[2] \o parts[p[1]]]
             f == CHOOSE f : f = [i \in 1..n |-> IF i = 1 THEN parts[i] ELSE f[i - 1] \o parts[i]]
  <2>1. FlattenSeq(parts) = f[n]
    <3>1. Len(parts) # 0
      BY <1>2
    <3> QED BY <3>1, Zenon DEF FlattenSeq
  <2>2. \A k \in 1..n : parts[k] \in E
    OBVIOUS
  <2>3. \A e \in E, k \in 1..n : e \o parts[k] \in E
    OBVIOUS
  <2>4. \E g \in [1..n -> E] : \A i \in 1..n : g[i] = IF i = 1 THEN parts[i] ELSE g[i - 1] \o parts[i]
    <3> DEFINE T == {m \in 0..n : \E g \in [1..m -> E] : \A i \in 1..m :
                                   g[i] = IF i = 1 THEN parts[i] ELSE g[i - 1] \o parts[i]}
    <3>1. 0 \in T
      <4>1. [i \in 1..0 |-> <<>>] \in [1..0 -> E] /\ 1..0 = {} /\ 0 \in 0..n
        OBVIOUS
      <4> HIDE DEF E, n
      <4> QED BY <4>1
    <3>2. ASSUME NEW m \in 1..n, m - 1 \in T
          PROVE  m \in T
      <4>1. PICK g \in [1..(m - 1) -> E] : \A i \in 1..(m - 1) :
                                   g[i] = IF i = 1 THEN parts[i] ELSE g[i - 1] \o parts[i]
        BY <3>2
      <4> DEFINE x == IF m = 1 THEN parts[m] ELSE g[m - 1] \o parts[m]
                 h == [i \in 1..m |-> IF i = m THEN x ELSE g[i]]
      <4>2. x \in E
        <5>1. m # 1 => m - 1 \in 1..(m - 1)
          OBVIOUS
        <5> HIDE DEF E, n
        <5> QED BY <2>2, <2>3, <4>1, <5>1
      <4> HIDE DEF E, n
      <4>3. h \in [1..m -> E]
        BY <4>1, <4>2
      <4>4. ASSUME NEW i \in 1..m
            PROVE  h[i] = IF i = 1 THEN parts[i] ELSE h[i - 1] \o parts[i]
        <5>1. CASE i = m
          <6>1. i # 1 => h[i - 1] = g[m - 1]
            BY <5>1
          <6> QED BY <5>1, <6>1
        <5>2. CASE i # m
          <6>1. i \in 1..(m - 1) /\ h[i] = g[i] /\ (i # 1 => h[i - 1] = g[i - 1])
            BY <5>2
          <6> QED BY <4>1, <6>1
        <5> QED BY <5>1, <5>2
      <4>5. m \in 0..n
        BY DEF n
      <4> HIDE DEF h
      <4> QED BY <4>3, <4>4, <4>5
    <3>3. n \in T
      <4>1. n \in Nat
        OBVIOUS
      <4> HIDE DEF T, n
      <4> QED BY <3>1, <3>2, <4>1, Reaches
    <3> QED BY <3>3
  <2>5. PICK g \in [1..n -> E] : \A i \in 1..n : g[i] = IF i = 1 THEN parts[i] ELSE g[i - 1] \o parts[i]
    BY <2>4
  <2>6. g = [i \in 1..n |-> IF i = 1 THEN parts[i] ELSE g[i - 1] \o parts[i]]
    <3> HIDE DEF n, E
    <3> QED BY <2>5
  <2>7. f = [i \in 1..n |-> IF i = 1 THEN parts[i] ELSE f[i - 1] \o parts[i]]
    <3> HIDE DEF n, E
    <3> QED BY <2>6
  <2> HIDE DEF f
  <2>8. \A i \in 1..n : f[i] = IF i = 1 THEN parts[i] ELSE f[i - 1] \o parts[i]
    <3> HIDE DEF n
    <3> QED BY <2>7
  <2> DEFINE T == {m \in 0..n : m > 0 => /\ f[m] \in Seq(C)
                                         /\ \E c : Cuts(c, SubSeq(parts, 1, m), f[m])}
  <2>9. 0 \in T
    OBVIOUS
  <2>10. ASSUME NEW m \in 1..n, m - 1 \in T
         PROVE  m \in T
    <3>1. /\ SubSeq(parts, 1, m) = Append(SubSeq(parts, 1, m - 1), parts[m])
          /\ SubSeq(parts, 1, m - 1) \in Seq(Seq(C)) /\ parts[m] \in Seq(C) /\ m \in 0..n
      OBVIOUS
    <3>2. CASE m = 1
      <4>1. f[m] = parts[m] /\ SubSeq(parts, 1, m - 1) = <<>> /\ f[m] = <<>> \o parts[m]
        BY <2>8, <3>1, <3>2
      <4>2. \E c : Cuts(c, SubSeq(parts, 1, m), f[m])
        <5>1. <<>> \in Seq(Seq(C)) /\ <<>> \in Seq(C)
          OBVIOUS
        <5>2. \E d : Cuts(d, Append(<<>>, parts[m]), <<>> \o parts[m])
          BY <3>1, <5>1, CutsNone, CutsNext
        <5> QED BY <3>1, <4>1, <5>2
      <4> QED BY <3>1, <4>1, <4>2
    <3>3. CASE m > 1
      <4>1. f[m] = f[m - 1] \o parts[m] /\ f[m - 1] \in Seq(C)
        <5>1. m - 1 > 0 /\ m # 1
          BY <3>3
        <5>2. f[m - 1] \in Seq(C)
          BY <2>10, <5>1
        <5> QED BY <2>8, <5>1, <5>2
      <4>2. PICK c : Cuts(c, SubSeq(parts, 1, m - 1), f[m - 1])
        BY <2>10, <3>3
      <4>3. \E d : Cuts(d, SubSeq(parts, 1, m), f[m])
        <5>1. \E d : Cuts(d, Append(SubSeq(parts, 1, m - 1), parts[m]), f[m - 1] \o parts[m])
          BY <3>1, <4>1, <4>2, CutsNext
        <5> QED BY <3>1, <4>1, <5>1
      <4>4. f[m] \in Seq(C)
        BY <3>1, <4>1
      <4> QED BY <3>1, <4>3, <4>4
    <3> QED BY <3>2, <3>3
  <2>11. n \in T
    <3>1. n \in Nat
      OBVIOUS
    <3> HIDE DEF T, n
    <3> QED BY <2>9, <2>10, <3>1, Reaches
  <2>12. SubSeq(parts, 1, n) = parts
    OBVIOUS
  <2> QED BY <1>2, <2>1, <2>11, <2>12
<1> QED BY <1>1, <1>2

LEMMA CutsMonotone ==
    ASSUME NEW parts, Len(parts) \in Nat, NEW whole, Len(whole) \in Nat, NEW c, Cuts(c, parts, whole),
           NEW k \in 0..Len(parts), NEW l \in k..Len(parts)
    PROVE  c[k] <= c[l] /\ c[k] \in 0..Len(whole)
<1> DEFINE T == {m \in 0..l : k <= m => c[k] <= c[m]}
<1>1. \A m \in 0..Len(parts) : c[m] \in 0..Len(whole)
  BY DEF Cuts
<1>2. 0 \in T
  BY <1>1
<1>3. ASSUME NEW m \in 1..l, m - 1 \in T
      PROVE  m \in T
  <2>1. m \in 1..Len(parts) /\ m \in 0..Len(parts) /\ m - 1 \in 0..Len(parts)
    OBVIOUS
  <2>2. c[m - 1] <= c[m]
    BY <2>1 DEF Cuts
  <2>3. k = m \/ (k <= m => k <= m - 1)
    OBVIOUS
  <2> QED BY <1>1, <1>3, <2>1, <2>2, <2>3
<1>4. l \in T
  <2>1. l \in Nat
    OBVIOUS
  <2> HIDE DEF T
  <2> QED BY <1>2, <1>3, <2>1, Reaches
<1> QED BY <1>1, <1>4

\* Part k is the whole from one cut to the next.
Into(c, parts, whole, k) ==
    /\ c[k] \in 0..Len(whole) /\ c[k - 1] \in 0..Len(whole) /\ c[k - 1] <= c[k]
    /\ Len(parts[k]) = c[k] - c[k - 1]
    /\ parts[k] = SubSeq(whole, c[k - 1] + 1, c[k])
    /\ \A j \in 1..Len(parts[k]) :
         /\ c[k - 1] + j \in (c[k - 1] + 1)..c[k]
         /\ c[k - 1] + j \in 1..Len(whole)
         /\ parts[k][j] = whole[c[k - 1] + j]

\* Place i of the whole is in a part.
Found(c, parts, whole, i) ==
    \E k \in 1..Len(parts) :
        /\ c[k - 1] \in 0..Len(whole)
        /\ i \in (c[k - 1] + 1)..c[k]
        /\ i - c[k - 1] \in 1..Len(parts[k])
        /\ parts[k][i - c[k - 1]] = whole[i]

\* A place of a part is a place of the whole.
LEMMA CutsInto ==
    ASSUME NEW C, NEW parts \in Seq(Seq(C)), NEW whole \in Seq(C), NEW c, Cuts(c, parts, whole),
           NEW k \in 1..Len(parts)
    PROVE  Into(c, parts, whole, k)
<1>1. k \in 0..Len(parts) /\ k - 1 \in 0..Len(parts)
  OBVIOUS
<1>2. /\ c[k] \in 0..Len(whole) /\ c[k - 1] \in 0..Len(whole) /\ c[k - 1] <= c[k]
      /\ parts[k] = SubSeq(whole, c[k - 1] + 1, c[k])
  BY <1>1 DEF Cuts
<1> DEFINE a == c[k - 1]
           b == c[k]
<1>3. a \in 0..Len(whole) /\ b \in 0..Len(whole) /\ a <= b /\ Len(whole) \in Nat
  BY <1>2
<1> HIDE DEF a, b
<1>4. /\ Len(SubSeq(whole, a + 1, b)) = b - a
      /\ \A j \in 1..(b - a) : SubSeq(whole, a + 1, b)[j] = whole[a + j]
  BY <1>3
<1>5. \A j \in 1..(b - a) : a + j \in (a + 1)..b /\ a + j \in 1..Len(whole)
  BY <1>3
<1> QED BY <1>2, <1>4, <1>5 DEF a, b, Into

\* A place of the whole is a place of one of the parts.
LEMMA CutsFrom ==
    ASSUME NEW C, NEW parts \in Seq(Seq(C)), NEW whole \in Seq(C), NEW c, Cuts(c, parts, whole),
           NEW i \in 1..Len(whole)
    PROVE  Found(c, parts, whole, i)
<1> DEFINE n == Len(parts)
           U == {k \in 0..n : i <= c[k]}
<1>1. n \in U /\ U \subseteq Nat
  <2>1. n \in 0..n /\ c[n] = Len(whole)
    BY DEF Cuts
  <2> QED BY <2>1
<1>2. PICK k \in U : \A m \in U : k <= m
  <2> HIDE DEF U
  <2> QED BY <1>1, Least
<1>3. k # 0
  <2>1. c[0] = 0
    BY DEF Cuts
  <2> QED BY <2>1
<1>4. k \in 1..n /\ k - 1 \in 0..n /\ ~ (k <= k - 1)
  BY <1>3
<1>5. /\ c[k] \in 0..Len(whole) /\ c[k - 1] \in 0..Len(whole) /\ c[k - 1] <= c[k]
      /\ Len(parts[k]) = c[k] - c[k - 1]
      /\ \A j \in 1..Len(parts[k]) : parts[k][j] = whole[c[k - 1] + j]
  <2>1. k \in 1..Len(parts)
    BY <1>4
  <2>2. Into(c, parts, whole, k)
    BY ONLY <2>1, parts \in Seq(Seq(C)), whole \in Seq(C), Cuts(c, parts, whole), CutsInto
  <2> QED BY ONLY <2>2 DEF Into
<1>6. ~ (i <= c[k - 1])
  BY <1>2, <1>4
<1>7. i \in (c[k - 1] + 1)..c[k]
  BY <1>2, <1>5, <1>6
<1>8. i - c[k - 1] \in 1..Len(parts[k]) /\ c[k - 1] + (i - c[k - 1]) = i
  BY <1>5, <1>7
<1> QED BY <1>4, <1>5, <1>7, <1>8 DEF Found

\* Parts make one whole.
LEMMA CutsOne ==
    ASSUME NEW C, NEW parts \in Seq(Seq(C)), NEW u \in Seq(C), NEW w \in Seq(C),
           NEW c, NEW d, Cuts(c, parts, u), Cuts(d, parts, w)
    PROVE  u = w
<1> DEFINE n == Len(parts)
           T == {k \in 0..n : c[k] = d[k]}
<1>1. 0 \in T
  BY DEF Cuts
<1>2. ASSUME NEW k \in 1..n, k - 1 \in T
      PROVE  k \in T
  <2>1. /\ c[k] \in Nat /\ c[k - 1] \in Nat /\ Len(parts[k]) = c[k] - c[k - 1]
        /\ d[k] \in Nat /\ d[k - 1] \in Nat /\ Len(parts[k]) = d[k] - d[k - 1]
    <3>1. Into(c, parts, u, k) /\ Into(d, parts, w, k)
      BY CutsInto
    <3>2. c[k] \in 0..Len(u) /\ c[k - 1] \in 0..Len(u) /\ Len(parts[k]) = c[k] - c[k - 1]
      BY <3>1 DEF Into
    <3>3. d[k] \in 0..Len(w) /\ d[k - 1] \in 0..Len(w) /\ Len(parts[k]) = d[k] - d[k - 1]
      BY <3>1 DEF Into
    <3> QED BY <3>2, <3>3
  <2> QED BY <1>2, <2>1
<1>3. \A m \in 0..n : c[m] = d[m]
  <2>1. 0..n \subseteq T
    <3>1. n \in Nat
      OBVIOUS
    <3> HIDE DEF T, n
    <3> QED BY <1>1, <1>2, <3>1, UpTo
  <2> QED BY <2>1
<1>4. Len(u) = Len(w)
  <2>1. n \in 0..n
    OBVIOUS
  <2> QED BY <1>3, <2>1 DEF Cuts
<1>5. ASSUME NEW i \in 1..Len(u)
      PROVE  u[i] = w[i]
  <2>1. PICK k \in 1..n : c[k - 1] \in 0..Len(u) /\ i - c[k - 1] \in 1..Len(parts[k])
                          /\ parts[k][i - c[k - 1]] = u[i]
    <3>1. Found(c, parts, u, i)
      BY CutsFrom
    <3> QED BY <3>1 DEF Found
  <2>2. c[k - 1] = d[k - 1]
    BY <1>3
  <2>3. parts[k][i - c[k - 1]] = w[d[k - 1] + (i - c[k - 1])]
    <3>1. Into(d, parts, w, k)
      BY CutsInto
    <3>2. \A j \in 1..Len(parts[k]) : parts[k][j] = w[d[k - 1] + j]
      BY <3>1 DEF Into
    <3> QED BY <2>1, <3>2
  <2>4. d[k - 1] + (i - c[k - 1]) = i
    BY <2>1, <2>2
  <2> QED BY <2>1, <2>3, <2>4
<1> QED BY <1>4, <1>5

LEMMA FlattenIs ==
    ASSUME NEW C, NEW parts \in Seq(Seq(C)), NEW whole \in Seq(C), NEW c, Cuts(c, parts, whole)
    PROVE  FlattenSeq(parts) = whole
<1>1. FlattenSeq(parts) \in Seq(C) /\ \E d : Cuts(d, parts, FlattenSeq(parts))
  BY FlattenCuts
<1> QED BY <1>1, CutsOne

\* The first parts are cut out of the beginning of the whole.
LEMMA CutsFirst ==
    ASSUME NEW C, NEW parts \in Seq(Seq(C)), NEW whole \in Seq(C), NEW c, Cuts(c, parts, whole),
           NEW k \in 1..Len(parts)
    PROVE  SubSeq(whole, 1, c[k]) = SubSeq(whole, 1, c[k - 1]) \o parts[k]
<1> DEFINE a == c[k - 1]
           b == c[k]
<1>1. a \in 0..Len(whole) /\ b \in 0..Len(whole) /\ a <= b /\ parts[k] = SubSeq(whole, a + 1, b)
  <2>1. Into(c, parts, whole, k)
    BY CutsInto
  <2> QED BY <2>1 DEF Into
<1> HIDE DEF a, b
<1>2. SubSeq(whole, 1, b) = SubSeq(whole, 1, a) \o SubSeq(whole, a + 1, b)
  <2>1. Len(SubSeq(whole, 1, a)) = a /\ Len(SubSeq(whole, a + 1, b)) = b - a /\ Len(SubSeq(whole, 1, b)) = b
    BY <1>1
  <2> QED BY <1>1, <2>1, SMTT(30)
<1> QED BY <1>1, <1>2 DEF a, b

-----------------------------------------------------------------------------
(* Words                                                                   *)

Place == Nat \X Nat \X Nat

Word ==
    [ at : Place, tok : Nat \ {0}, ends : BOOLEAN, br : {"none", "question", "line"},
      noise : BOOLEAN ]

Unit == [words : Seq(Word), heading : BOOLEAN, title : Seq(Word), from : SUBSET Nat]

LEMMA BeforeIs ==
    ASSUME NEW a \in Place, NEW b \in Place
    PROVE  Before(a, b) <=> \/ a[1] < b[1]
                            \/ a[1] = b[1] /\ a[2] < b[2]
                            \/ a[1] = b[1] /\ a[2] = b[2] /\ a[3] < b[3]
<1>1. 1..3 = {1, 2, 3} /\ 1..(1 - 1) = {} /\ 1..(2 - 1) = {1} /\ 1..(3 - 1) = {1, 2}
  OBVIOUS
<1> DEFINE P(k) == a[k] < b[k] /\ \A j \in 1..(k - 1) : a[j] = b[j]
<1>2. Before(a, b) <=> P(1) \/ P(2) \/ P(3)
  BY <1>1 DEF Before
<1>3. P(1) <=> a[1] < b[1]
  BY <1>1
<1>4. P(2) <=> a[1] = b[1] /\ a[2] < b[2]
  BY <1>1
<1>5. P(3) <=> a[1] = b[1] /\ a[2] = b[2] /\ a[3] < b[3]
  BY <1>1
<1> HIDE DEF P
<1> QED BY <1>2, <1>3, <1>4, <1>5

LEMMA PlaceParts ==
    ASSUME NEW a \in Place
    PROVE  a[1] \in Nat /\ a[2] \in Nat /\ a[3] \in Nat
BY DEF Place

LEMMA BeforeOrders ==
    ASSUME NEW a \in Place, NEW b \in Place, NEW d \in Place, Before(a, b), Before(b, d)
    PROVE  Before(a, d)
BY BeforeIs, PlaceParts

LEMMA NotBefore ==
    ASSUME NEW a \in Place
    PROVE  ~ Before(a, a)
BY BeforeIs, PlaceParts

LEMMA WordAt ==
    ASSUME NEW w \in Seq(Word), NEW i \in 1..Len(w)
    PROVE  w[i] \in Word /\ w[i].at \in Place /\ w[i].tok \in Nat \ {0}
<1>1. w[i] \in Word
  OBVIOUS
<1> QED BY <1>1 DEF Word

-----------------------------------------------------------------------------
(* Tokens                                                                  *)

LEMMA TokensAre ==
    ASSUME NEW w \in Seq(Word)
    PROVE  /\ Tokens(w) \in Nat /\ Tokens(w) >= Len(w)
           /\ Tokens(w) = Total([i \in 1..Len(w) |-> w[i].tok])
           /\ [i \in 1..Len(w) |-> w[i].tok] \in Seq(Nat)
<1> DEFINE s == [i \in 1..Len(w) |-> w[i].tok]
<1>1. s \in Seq(Nat \ {0}) /\ Len(s) = Len(w)
  <2>1. \A i \in 1..Len(w) : w[i].tok \in Nat \ {0}
    BY WordAt
  <2> QED BY <2>1
<1>2. s \in Seq(Nat)
  BY <1>1
<1>3. Tokens(w) = Total(s)
  <2>1. DOMAIN w = 1..Len(w)
    OBVIOUS
  <2> QED BY <2>1 DEF Tokens
<1> HIDE DEF s
<1>4. Total(s) \in Nat /\ Total(s) >= Len(s)
  BY <1>1, <1>2, TotalSums, TotalCounts
<1> QED BY <1>1, <1>2, <1>3, <1>4 DEF s

LEMMA TokensNone == Tokens(<<>>) = 0
<1>1. [i \in DOMAIN <<>> |-> <<>>[i].tok] = <<>>
  OBVIOUS
<1> QED BY <1>1, TotalEmpty DEF Tokens

LEMMA TokensConcat ==
    ASSUME NEW u \in Seq(Word), NEW w \in Seq(Word)
    PROVE  Tokens(u \o w) = Tokens(u) + Tokens(w)
<1> DEFINE p == [i \in 1..Len(u) |-> u[i].tok]
           q == [i \in 1..Len(w) |-> w[i].tok]
           x == u \o w
           r == [i \in 1..Len(x) |-> x[i].tok]
<1>1. /\ x \in Seq(Word) /\ Len(x) = Len(u) + Len(w)
      /\ \A i \in 1..Len(x) : x[i] = IF i <= Len(u) THEN u[i] ELSE w[i - Len(u)]
  OBVIOUS
<1>2. /\ p \in Seq(Nat) /\ Tokens(u) = Total(p)
      /\ q \in Seq(Nat) /\ Tokens(w) = Total(q)
  BY TokensAre
<1>3. Tokens(x) = Total(r)
  BY <1>1, TokensAre
<1>4. r = p \o q
  <2>1. Len(p) = Len(u) /\ Len(q) = Len(w)
    OBVIOUS
  <2>2. /\ Len(p \o q) = Len(u) + Len(w) /\ p \o q \in Seq(Nat)
        /\ \A i \in 1..(Len(u) + Len(w)) : (p \o q)[i] = IF i <= Len(u) THEN p[i] ELSE q[i - Len(u)]
    BY <1>2, <2>1
  <2>3. \A i \in 1..(Len(u) + Len(w)) : r[i] = (p \o q)[i]
    <3> SUFFICES ASSUME NEW i \in 1..(Len(u) + Len(w))
                 PROVE  r[i] = (p \o q)[i]
      OBVIOUS
    <3>1. r[i] = x[i].tok
      BY <1>1
    <3>2. CASE i <= Len(u)
      BY <1>1, <2>2, <3>1, <3>2
    <3>3. CASE ~ (i <= Len(u))
      <4>1. i - Len(u) \in 1..Len(w)
        BY <3>3
      <4> QED BY <1>1, <2>2, <3>1, <3>3, <4>1
    <3> QED BY <3>2, <3>3
  <2>4. r = [i \in 1..(Len(u) + Len(w)) |-> r[i]]
    BY <1>1
  <2>5. p \o q = [i \in 1..(Len(u) + Len(w)) |-> (p \o q)[i]]
    BY <2>2
  <2> HIDE DEF p, q, r
  <2> QED BY <2>3, <2>4, <2>5
<1> HIDE DEF p, q, r, x
<1> QED BY <1>2, <1>3, <1>4, TotalConcat DEF x

LEMMA TokensAlike ==
    ASSUME NEW u \in Seq(Word), NEW w \in Seq(Word), Len(u) = Len(w),
           \A i \in 1..Len(u) : u[i].tok = w[i].tok
    PROVE  Tokens(u) = Tokens(w)
<1>1. [i \in 1..Len(u) |-> u[i].tok] = [i \in 1..Len(w) |-> w[i].tok]
  OBVIOUS
<1> QED BY <1>1, TokensAre

\* The tokens of the parts are those of the whole.
LEMMA CutsTokens ==
    ASSUME NEW parts \in Seq(Seq(Word)), NEW whole \in Seq(Word), NEW c, Cuts(c, parts, whole)
    PROVE  Tokens(whole) = Total([k \in 1..Len(parts) |-> Tokens(parts[k])])
<1> DEFINE n == Len(parts)
           s(m) == [k \in 1..m |-> Tokens(parts[k])]
           T == {m \in 0..n : s(m) \in Seq(Nat) /\ Tokens(SubSeq(whole, 1, c[m])) = Total(s(m))}
<1>1. 0 \in T
  <2>1. s(0) = <<>> /\ <<>> \in Seq(Nat) /\ 0 \in 0..n
    OBVIOUS
  <2>2. SubSeq(whole, 1, c[0]) = <<>>
    BY DEF Cuts
  <2> HIDE DEF s
  <2> QED BY <2>1, <2>2, TokensNone, TotalEmpty
<1>2. ASSUME NEW m \in 1..n, m - 1 \in T
      PROVE  m \in T
  <2>1. s(m) = Append(s(m - 1), Tokens(parts[m]))
    OBVIOUS
  <2>2. parts[m] \in Seq(Word) /\ Tokens(parts[m]) \in Nat
    <3>1. parts[m] \in Seq(Word)
      OBVIOUS
    <3> QED BY <3>1, TokensAre
  <2>3. s(m - 1) \in Seq(Nat) /\ Tokens(SubSeq(whole, 1, c[m - 1])) = Total(s(m - 1))
    BY <1>2
  <2>4. SubSeq(whole, 1, c[m]) = SubSeq(whole, 1, c[m - 1]) \o parts[m]
    BY CutsFirst
  <2>5. SubSeq(whole, 1, c[m - 1]) \in Seq(Word)
    <3>1. c[m - 1] \in 0..Len(whole)
      BY CutsInto DEF Into
    <3> QED BY <3>1
  <2> HIDE DEF s
  <2>6. Tokens(SubSeq(whole, 1, c[m])) = Tokens(SubSeq(whole, 1, c[m - 1])) + Tokens(parts[m])
    BY <2>2, <2>4, <2>5, TokensConcat
  <2>7. Total(s(m)) = Total(s(m - 1)) + Tokens(parts[m])
    BY <2>1, <2>2, <2>3, TotalAppend
  <2>8. s(m) \in Seq(Nat)
    BY <2>1, <2>2, <2>3
  <2> QED BY <2>3, <2>6, <2>7, <2>8
<1>3. n \in T
  <2>1. n \in Nat
    OBVIOUS
  <2> HIDE DEF T, n
  <2> QED BY <1>1, <1>2, <2>1, Reaches
<1>4. SubSeq(whole, 1, c[n]) = whole
  BY DEF Cuts
<1> QED BY <1>3, <1>4

-----------------------------------------------------------------------------
(* Tokens of units                                                         *)

LEMMA UnitFields ==
    ASSUME NEW us \in Seq(Unit), NEW i \in 1..Len(us)
    PROVE  /\ us[i] \in Unit /\ us[i].words \in Seq(Word) /\ us[i].heading \in BOOLEAN
           /\ us[i].title \in Seq(Word) /\ us[i].from \in SUBSET Nat
           /\ Tokens(us[i].words) \in Nat
<1>1. us[i] \in Unit
  OBVIOUS
<1>2. us[i].words \in Seq(Word)
  BY <1>1 DEF Unit
<1> QED BY <1>1, <1>2, TokensAre DEF Unit

LEMMA UnitsTokensAre ==
    ASSUME NEW us \in Seq(Unit)
    PROVE  /\ UnitsTokens(us) \in Nat
           /\ UnitsTokens(us) = Total([k \in 1..Len(us) |-> Tokens(us[k].words)])
           /\ [k \in 1..Len(us) |-> Tokens(us[k].words)] \in Seq(Nat)
           /\ \A i \in 1..Len(us) : Tokens(us[i].words) <= UnitsTokens(us)
<1> DEFINE s == [k \in 1..Len(us) |-> Tokens(us[k].words)]
<1>1. s \in Seq(Nat) /\ Len(s) = Len(us)
  <2>1. \A k \in 1..Len(us) : Tokens(us[k].words) \in Nat
    BY UnitFields
  <2> QED BY <2>1
<1>2. UnitsTokens(us) = Total(s)
  <2>1. DOMAIN us = 1..Len(us)
    OBVIOUS
  <2> QED BY <2>1 DEF UnitsTokens
<1>3. \A i \in 1..Len(us) : s[i] = Tokens(us[i].words)
  OBVIOUS
<1> HIDE DEF s
<1>4. Total(s) \in Nat /\ \A i \in 1..Len(s) : s[i] <= Total(s)
  BY <1>1, TotalSums, TotalPart
<1> QED BY <1>1, <1>2, <1>3, <1>4 DEF s

LEMMA UnitsTokensAppend ==
    ASSUME NEW us \in Seq(Unit), NEW u \in Unit
    PROVE  UnitsTokens(Append(us, u)) = UnitsTokens(us) + Tokens(u.words)
<1> DEFINE vs == Append(us, u)
           s == [k \in 1..Len(us) |-> Tokens(us[k].words)]
           t == [k \in 1..Len(vs) |-> Tokens(vs[k].words)]
<1>1. /\ vs \in Seq(Unit) /\ Len(vs) = Len(us) + 1 /\ vs[Len(us) + 1] = u
      /\ \A k \in 1..Len(us) : vs[k] = us[k]
  OBVIOUS
<1>2. u.words \in Seq(Word) /\ Tokens(u.words) \in Nat
  <2>1. u.words \in Seq(Word)
    BY DEF Unit
  <2> QED BY <2>1, TokensAre
<1>3. s \in Seq(Nat) /\ UnitsTokens(us) = Total(s)
  BY UnitsTokensAre
<1>4. UnitsTokens(vs) = Total(t)
  BY <1>1, UnitsTokensAre
<1> HIDE DEF vs
<1>5. t = Append(s, Tokens(u.words))
  BY <1>1, <1>2, <1>3
<1> HIDE DEF s, t
<1>6. UnitsTokens(vs) = UnitsTokens(us) + Tokens(u.words)
  BY <1>2, <1>3, <1>4, <1>5, TotalAppend
<1> QED BY <1>6 DEF vs

LEMMA UnitsTokensNone == UnitsTokens(<<>>) = 0
<1>1. [k \in DOMAIN <<>> |-> Tokens(<<>>[k].words)] = <<>>
  OBVIOUS
<1> QED BY <1>1, TotalEmpty DEF UnitsTokens

LEMMA UnitsTokensOne ==
    ASSUME NEW u \in Unit
    PROVE  UnitsTokens(<<u>>) = Tokens(u.words)
<1>1. <<u>> = Append(<<>>, u) /\ <<>> \in Seq(Unit)
  OBVIOUS
<1>2. u.words \in Seq(Word) /\ Tokens(u.words) \in Nat
  <2>1. u.words \in Seq(Word)
    BY DEF Unit
  <2> QED BY <2>1, TokensAre
<1>3. UnitsTokens(Append(<<>>, u)) = UnitsTokens(<<>>) + Tokens(u.words)
  BY <1>1, UnitsTokensAppend
<1> QED BY <1>1, <1>2, <1>3, UnitsTokensNone

-----------------------------------------------------------------------------
(* Batches                                                                 *)

LEMMA ContentTyped ==
    ASSUME NEW us \in Seq(Unit)
    PROVE  /\ Content(us) \in Seq(Word)
           /\ \E c : Cuts(c, [k \in 1..Len(us) |-> us[k].words], Content(us))
           /\ [k \in 1..Len(us) |-> us[k].words] \in Seq(Seq(Word))
<1> DEFINE ws == [k \in 1..Len(us) |-> us[k].words]
<1>1. ws \in Seq(Seq(Word))
  <2>1. \A k \in 1..Len(us) : us[k].words \in Seq(Word)
    BY UnitFields
  <2> QED BY <2>1
<1>2. Content(us) = FlattenSeq(ws)
  <2>1. DOMAIN us = 1..Len(us)
    OBVIOUS
  <2> QED BY <2>1 DEF Content
<1> HIDE DEF ws
<1>3. FlattenSeq(ws) \in Seq(Word) /\ \E c : Cuts(c, ws, FlattenSeq(ws))
  BY <1>1, FlattenCuts
<1> QED BY <1>1, <1>2, <1>3 DEF ws

\* Of a chunk and its units, the tokens are the same.
LEMMA ContentTokens ==
    ASSUME NEW us \in Seq(Unit)
    PROVE  Tokens(Content(us)) = UnitsTokens(us)
<1> DEFINE ws == [k \in 1..Len(us) |-> us[k].words]
<1>1. ws \in Seq(Seq(Word)) /\ Content(us) \in Seq(Word) /\ \E c : Cuts(c, ws, Content(us))
  BY ContentTyped
<1>2. Len(ws) = Len(us) /\ \A k \in 1..Len(us) : ws[k] = us[k].words
  OBVIOUS
<1> HIDE DEF ws
<1>3. Tokens(Content(us)) = Total([k \in 1..Len(ws) |-> Tokens(ws[k])])
  BY <1>1, CutsTokens
<1>4. [k \in 1..Len(ws) |-> Tokens(ws[k])] = [k \in 1..Len(us) |-> Tokens(us[k].words)]
  BY <1>2
<1> QED BY <1>3, <1>4, UnitsTokensAre

Nos == 1..Len(chunks)

Numbers == [n \in Nos |-> n]

LEMMA SizeTyped ==
    ASSUME chunks \in Seq(Seq(Unit)), NEW b \in Seq(Nos)
    PROVE  Size(b) \in Nat
<1> DEFINE s == [k \in DOMAIN b |-> Tokens(Content(chunks[b[k]]))]
<1>1. s \in Seq(Nat)
  <2>1. ASSUME NEW k \in 1..Len(b)
        PROVE  Tokens(Content(chunks[b[k]])) \in Nat
    <3>1. chunks[b[k]] \in Seq(Unit)
      BY DEF Nos
    <3> QED BY <3>1, ContentTyped, TokensAre
  <2>2. DOMAIN b = 1..Len(b) /\ Len(b) \in Nat
    OBVIOUS
  <2>3. s = [k \in 1..Len(b) |-> s[k]] /\ \A k \in 1..Len(b) : s[k] \in Nat
    BY <2>1, <2>2
  <2> HIDE DEF s
  <2> QED BY <2>2, <2>3
<1> HIDE DEF s
<1>2. Total(s) \in Nat
  BY <1>1, TotalSums
<1> QED BY <1>2 DEF Size, s

\* Within both limits, or one text.
BatchOK(b) ==
    /\ Len(b) \in 1..BatchSize
    /\ Size(b) <= BatchTokenLimit \/ Len(b) = 1

\* The batches so far and the current one have the texts up to k.
Batched(acc, k) ==
    /\ \E c, w : /\ w \in Seq(Nos)
                 /\ Cuts(c, acc.batches, w)
                 /\ w \o acc.current = SubSeq(Numbers, 1, k)
    /\ \A i \in 1..Len(acc.batches) : BatchOK(acc.batches[i])
    /\ k > 0 => BatchOK(acc.current)
    /\ k = 0 => acc.current = <<>>

Batching == [batches : Seq(Seq(Nos)), current : Seq(Nos)]

LEMMA AddToBatchIs ==
    ASSUME NEW acc \in Batching, NEW n \in Nos
    PROVE  /\ AddToBatch(acc, n) \in Batching
           /\ \/ /\ acc.current # <<>>
                 /\ AddToBatch(acc, n) = [batches |-> Append(acc.batches, acc.current), current |-> <<n>>]
              \/ /\ acc.current = <<>> \/ ~ (Len(acc.current) >= BatchSize
                                              \/ Size(Append(acc.current, n)) > BatchTokenLimit)
                 /\ AddToBatch(acc, n) = [batches |-> acc.batches, current |-> Append(acc.current, n)]
<1>1. acc.batches \in Seq(Seq(Nos)) /\ acc.current \in Seq(Nos)
      /\ acc = [batches |-> acc.batches, current |-> acc.current]
  BY DEF Batching
<1>2. /\ Append(acc.batches, acc.current) \in Seq(Seq(Nos))
      /\ <<n>> \in Seq(Nos) /\ Append(acc.current, n) \in Seq(Nos)
  BY <1>1
<1>3. [acc EXCEPT !.current = Append(@, n)] = [batches |-> acc.batches, current |-> Append(acc.current, n)]
  <2>1. \A x : [acc EXCEPT !.current = x] = [batches |-> acc.batches, current |-> x]
    BY DEF Batching
  <2> QED BY <2>1
<1> DEFINE full == Len(acc.current) >= BatchSize \/ Size(Append(acc.current, n)) > BatchTokenLimit
<1>4. CASE acc.current # <<>> /\ full
  <2>1. AddToBatch(acc, n) = [batches |-> Append(acc.batches, acc.current), current |-> <<n>>]
    BY <1>4 DEF AddToBatch
  <2> QED BY <1>1, <1>2, <1>4, <2>1 DEF Batching
<1>5. CASE ~ (acc.current # <<>> /\ full)
  <2>1. AddToBatch(acc, n) = [batches |-> acc.batches, current |-> Append(acc.current, n)]
    BY <1>3, <1>5 DEF AddToBatch
  <2> QED BY <1>1, <1>2, <1>5, <2>1 DEF Batching
<1> QED BY <1>4, <1>5

LEMMA AddToBatchKeeps ==
    ASSUME chunks \in Seq(Seq(Unit)), NEW acc \in Batching, NEW n \in Nos, Batched(acc, n - 1)
    PROVE  Batched(AddToBatch(acc, n), n)
<1>1. acc.batches \in Seq(Seq(Nos)) /\ acc.current \in Seq(Nos)
  BY DEF Batching
<1>2. PICK c, w : /\ w \in Seq(Nos)
                  /\ Cuts(c, acc.batches, w)
                  /\ w \o acc.current = SubSeq(Numbers, 1, n - 1)
  BY DEF Batched
<1>3. SubSeq(Numbers, 1, n) = Append(SubSeq(Numbers, 1, n - 1), n)
  <2>1. Numbers \in Seq(Nos) /\ Len(Numbers) = Len(chunks) /\ Numbers[n] = n /\ n \in 1..Len(chunks)
    BY DEF Numbers, Nos
  <2> QED BY <2>1
<1>4. BatchOK(<<n>>)
  <2>1. Len(<<n>>) = 1 /\ BatchSize \in Nat \ {0}
    BY PassagesAssumption
  <2> QED BY <2>1 DEF BatchOK
<1>5. CASE /\ acc.current # <<>>
           /\ AddToBatch(acc, n) = [batches |-> Append(acc.batches, acc.current), current |-> <<n>>]
  <2>1. AddToBatch(acc, n).batches = Append(acc.batches, acc.current) /\ AddToBatch(acc, n).current = <<n>>
    BY <1>5
  <2>2. BatchOK(acc.current)
    BY <1>5 DEF Batched, Nos
  <2>3. PICK d : Cuts(d, Append(acc.batches, acc.current), w \o acc.current)
    BY <1>1, <1>2, CutsNext
  <2>4. w \o acc.current \in Seq(Nos) /\ (w \o acc.current) \o <<n>> = SubSeq(Numbers, 1, n)
    <3>1. w \o acc.current \in Seq(Nos)
      BY <1>1, <1>2, ConcatProperties
    <3>2. \A s \in Seq(Nos) : s \o <<n>> = Append(s, n)
      OBVIOUS
    <3> QED BY <1>2, <1>3, <3>1, <3>2
  <2>5. \A i \in 1..Len(Append(acc.batches, acc.current)) : BatchOK(Append(acc.batches, acc.current)[i])
    <3>1. /\ Len(Append(acc.batches, acc.current)) = Len(acc.batches) + 1
          /\ Append(acc.batches, acc.current)[Len(acc.batches) + 1] = acc.current
          /\ \A i \in 1..Len(acc.batches) : Append(acc.batches, acc.current)[i] = acc.batches[i]
      BY <1>1
    <3>2. \A i \in 1..Len(acc.batches) : BatchOK(acc.batches[i])
      BY DEF Batched
    <3>3. \A i \in 1..(Len(acc.batches) + 1) : i \in 1..Len(acc.batches) \/ i = Len(acc.batches) + 1
      BY <1>1
    <3> QED BY <2>2, <3>1, <3>2, <3>3
  <2>6. \E e, v : /\ v \in Seq(Nos)
                  /\ Cuts(e, AddToBatch(acc, n).batches, v)
                  /\ v \o AddToBatch(acc, n).current = SubSeq(Numbers, 1, n)
    BY <2>1, <2>3, <2>4
  <2>7. n # 0
    BY DEF Nos
  <2> QED BY <1>4, <2>1, <2>5, <2>6, <2>7 DEF Batched
<1>6. CASE /\ acc.current = <<>> \/ ~ (Len(acc.current) >= BatchSize
                                        \/ Size(Append(acc.current, n)) > BatchTokenLimit)
           /\ AddToBatch(acc, n) = [batches |-> acc.batches, current |-> Append(acc.current, n)]
  <2>1. AddToBatch(acc, n).batches = acc.batches /\ AddToBatch(acc, n).current = Append(acc.current, n)
    BY <1>6
  <2>2. BatchOK(Append(acc.current, n))
    <3>1. CASE acc.current = <<>>
      <4>1. Append(acc.current, n) = <<n>>
        BY <3>1
      <4> QED BY <1>4, <4>1
    <3>2. CASE ~ (Len(acc.current) >= BatchSize \/ Size(Append(acc.current, n)) > BatchTokenLimit)
      <4>1. Append(acc.current, n) \in Seq(Nos) /\ Len(Append(acc.current, n)) = Len(acc.current) + 1
        BY <1>1
      <4>2. Size(Append(acc.current, n)) \in Nat /\ BatchSize \in Nat /\ BatchTokenLimit \in Nat
        BY <4>1, SizeTyped, PassagesAssumption
      <4>3. Len(Append(acc.current, n)) \in 1..BatchSize
        BY <1>1, <3>2, <4>1, <4>2
      <4>4. Size(Append(acc.current, n)) <= BatchTokenLimit
        BY <3>2, <4>2
      <4> QED BY <4>3, <4>4 DEF BatchOK
    <3> QED BY <1>6, <3>1, <3>2
  <2>3. w \o Append(acc.current, n) = SubSeq(Numbers, 1, n)
    <3>1. w \o Append(acc.current, n) = Append(w \o acc.current, n)
      <4> DEFINE a == acc.current
      <4>1. a \in Seq(Nos)
        BY <1>1
      <4> HIDE DEF a
      <4>2. w \o Append(a, n) = Append(w \o a, n)
        BY <1>2, <4>1
      <4> QED BY <4>2 DEF a
    <3> QED BY <1>2, <1>3, <3>1
  <2>4. \E e, v : /\ v \in Seq(Nos)
                  /\ Cuts(e, AddToBatch(acc, n).batches, v)
                  /\ v \o AddToBatch(acc, n).current = SubSeq(Numbers, 1, n)
    BY <1>2, <2>1, <2>3
  <2>5. n # 0
    BY DEF Nos
  <2>6. \A i \in 1..Len(acc.batches) : BatchOK(acc.batches[i])
    BY DEF Batched
  <2> QED BY <2>1, <2>2, <2>4, <2>5, <2>6 DEF Batched
<1> QED BY <1>5, <1>6, AddToBatchIs

\* The batches hold the texts in order, and each is within the limits.
LEMMA BatchesAre ==
    ASSUME chunks \in Seq(Seq(Unit)), chunks # <<>>
    PROVE  /\ BuildBatches \in Seq(Seq(Nos))
           /\ Len(BuildBatches) > 0
           /\ \E c : Cuts(c, BuildBatches, Numbers)
           /\ \A k \in 1..Len(BuildBatches) : BatchOK(BuildBatches[k])
<1> DEFINE n == Len(chunks)
           start == [batches |-> <<>>, current |-> <<>>]
<1>1. n \in Nat /\ n > 0
  OBVIOUS
<1>2. start \in Batching
  BY DEF Batching
<1>3. PICK r \in [0..n -> Batching] :
        /\ r[0] = start
        /\ \A k \in 1..n : r[k] = AddToBatch(r[k - 1], k)
        /\ BuildBatches = Append(r[n].batches, r[n].current)
  <2>1. \A e \in Batching : \A k \in 1..Len(chunks) : AddToBatch(e, k) \in Batching
    BY AddToBatchIs DEF Nos
  <2> QED BY <1>2, <2>1, BatchSteps
<1> DEFINE T == {k \in 0..n : Batched(r[k], k)}
<1>4. 0 \in T
  <2>1. SubSeq(Numbers, 1, 0) = <<>> /\ <<>> \o <<>> = <<>> /\ <<>> \in Seq(Nos)
    BY DEF Numbers, Nos
  <2>2. \E c, w : /\ w \in Seq(Nos)
                  /\ Cuts(c, start.batches, w)
                  /\ w \o start.current = SubSeq(Numbers, 1, 0)
    BY <2>1, CutsNone
  <2>3. Batched(start, 0)
    <3>1. start.batches = <<>> /\ start.current = <<>> /\ Len(<<>>) = 0 /\ 1..0 = {}
      OBVIOUS
    <3> HIDE DEF start
    <3>2. ~ (0 > 0) /\ \A i \in 1..Len(start.batches) : BatchOK(start.batches[i])
      BY <3>1
    <3> QED BY <2>2, <3>1, <3>2 DEF Batched
  <2> QED BY <1>1, <1>3, <2>3
<1>5. ASSUME NEW k \in 1..n, k - 1 \in T
      PROVE  k \in T
  <2>1. k - 1 \in 0..n /\ k \in 0..n
    OBVIOUS
  <2>2. r[k - 1] \in Batching /\ r[k] = AddToBatch(r[k - 1], k) /\ k \in Nos
    BY <1>3, <2>1 DEF Nos
  <2> QED BY <1>5, <2>1, <2>2, AddToBatchKeeps
<1>6. Batched(r[n], n) /\ r[n] \in Batching
  <2>1. n \in T
    <3> HIDE DEF T, n
    <3> QED BY <1>1, <1>4, <1>5, Reaches
  <2> QED BY <1>3, <2>1
<1> DEFINE bs == r[n].batches
           last == r[n].current
<1>7. bs \in Seq(Seq(Nos)) /\ last \in Seq(Nos)
  BY <1>6 DEF Batching
<1>8. PICK c, w : w \in Seq(Nos) /\ Cuts(c, bs, w) /\ w \o last = SubSeq(Numbers, 1, n)
  BY <1>6 DEF Batched
<1>9. BatchOK(last) /\ \A i \in 1..Len(bs) : BatchOK(bs[i])
  BY <1>1, <1>6 DEF Batched
<1>10. SubSeq(Numbers, 1, n) = Numbers
  BY DEF Numbers, Nos
<1>11. BuildBatches = Append(bs, last)
  BY <1>3
<1> HIDE DEF bs, last, n
<1>12. \E d : Cuts(d, Append(bs, last), Numbers)
  <2>1. \E d : Cuts(d, Append(bs, last), w \o last)
    BY <1>7, <1>8, CutsNext
  <2> QED BY <1>8, <1>10, <2>1
<1>13. /\ Append(bs, last) \in Seq(Seq(Nos)) /\ Len(Append(bs, last)) = Len(bs) + 1
       /\ Append(bs, last)[Len(bs) + 1] = last
       /\ \A i \in 1..Len(bs) : Append(bs, last)[i] = bs[i]
  BY <1>7
<1> QED BY <1>7, <1>9, <1>11, <1>12, <1>13 DEF n

\* The smallest of some numbers.
LEMMA MinOf ==
    ASSUME NEW S, S \subseteq Nat, S # {}
    PROVE  Min(S) \in S /\ \A y \in S : Min(S) <= y
<1>1. \E x \in S : \A y \in S : x =< y
  BY Least
<1> QED BY <1>1 DEF Min

\* The first element that is n.
LEMMA SelectsIt ==
    ASSUME NEW b \in Seq(Nat), NEW n, Contains(b, n)
    PROVE  b[SelectInSeq(b, LAMBDA m : m = n)] = n
<1> DEFINE I == {i \in 1..Len(b) : b[i] = n}
<1>1. I # {} /\ I \subseteq Nat
  BY DEF Contains
<1>2. SelectInSeq(b, LAMBDA m : m = n) = Min(I)
  BY <1>1 DEF SelectInSeq
<1>3. Min(I) \in I
  <2> HIDE DEF I
  <2> QED BY <1>1, MinOf
<1> QED BY <1>2, <1>3

\* Every text is in one batch, and no batch is empty.
LEMMA InBatches ==
    ASSUME chunks \in Seq(Seq(Unit)), chunks # <<>>
    PROVE  /\ \A n \in Nos : \E k \in 1..Len(BuildBatches) : Contains(BuildBatches[k], n)
           /\ \A n \in Nos : \A k, l \in 1..Len(BuildBatches) :
                Contains(BuildBatches[k], n) /\ Contains(BuildBatches[l], n) => k = l
           /\ \A k \in 1..Len(BuildBatches) : \E n \in Nos : Contains(BuildBatches[k], n)
           /\ \A n \in Nos : \A k \in 1..Len(BuildBatches) : Contains(BuildBatches[k], n) =>
                BuildBatches[k][SelectInSeq(BuildBatches[k], LAMBDA m : m = n)] = n
<1> DEFINE bs == BuildBatches
<1>1. bs \in Seq(Seq(Nos)) /\ \A k \in 1..Len(bs) : BatchOK(bs[k])
  BY BatchesAre
<1>2. PICK c : Cuts(c, bs, Numbers)
  BY BatchesAre
<1>3. Numbers \in Seq(Nos) /\ Len(Numbers) = Len(chunks) /\ \A n \in Nos : Numbers[n] = n
  BY DEF Numbers, Nos
<1>4. Len(bs) \in Nat /\ Len(chunks) \in Nat
  BY <1>1
<1> HIDE DEF bs
<1>5. ASSUME NEW n \in Nos, NEW k \in 1..Len(bs)
      PROVE  Contains(bs[k], n) <=> c[k - 1] < n /\ n <= c[k]
  <2>1. /\ c[k] \in 0..Len(chunks) /\ c[k - 1] \in 0..Len(chunks) /\ c[k - 1] <= c[k]
        /\ Len(bs[k]) = c[k] - c[k - 1]
        /\ \A j \in 1..Len(bs[k]) : c[k - 1] + j \in (c[k - 1] + 1)..c[k]
                                    /\ c[k - 1] + j \in 1..Len(Numbers)
                                    /\ bs[k][j] = Numbers[c[k - 1] + j]
    <3>1. Into(c, bs, Numbers, k)
      BY <1>1, <1>2, <1>3, CutsInto
    <3>2. /\ c[k] \in 0..Len(Numbers) /\ c[k - 1] \in 0..Len(Numbers) /\ c[k - 1] <= c[k]
          /\ Len(bs[k]) = c[k] - c[k - 1]
      BY <3>1 DEF Into
    <3>3. \A j \in 1..Len(bs[k]) : c[k - 1] + j \in (c[k - 1] + 1)..c[k]
                                     /\ c[k - 1] + j \in 1..Len(Numbers)
                                     /\ bs[k][j] = Numbers[c[k - 1] + j]
      BY <3>1 DEF Into
    <3> QED BY <1>3, <3>2, <3>3
  <2> DEFINE a == c[k - 1]
             b == c[k]
  <2>0. a \in Nat /\ b \in Nat /\ n \in Nat /\ Len(bs[k]) = b - a
    BY <1>4, <2>1 DEF Nos
  <2>2. \A j \in 1..Len(bs[k]) : bs[k][j] = a + j
    <3> SUFFICES ASSUME NEW j \in 1..Len(bs[k])
                 PROVE  bs[k][j] = a + j
      OBVIOUS
    <3>1. bs[k][j] = Numbers[c[k - 1] + j] /\ c[k - 1] + j \in Nos
      BY <1>3, <2>1 DEF Nos
    <3> QED BY <1>3, <3>1
  <2>3. ASSUME Contains(bs[k], n)
        PROVE  c[k - 1] < n /\ n <= c[k]
    <3>1. PICK j \in 1..Len(bs[k]) : bs[k][j] = n
      BY <2>3 DEF Contains
    <3>2. n = a + j
      BY <2>2, <3>1
    <3> HIDE DEF a, b
    <3>3. a < n /\ n <= b
      BY <2>0, <3>1, <3>2
    <3> QED BY <3>3 DEF a, b
  <2>4. ASSUME c[k - 1] < n, n <= c[k]
        PROVE  Contains(bs[k], n)
    <3>0. a < n /\ n <= b
      BY <2>4
    <3> HIDE DEF a, b
    <3>1. n - a \in 1..Len(bs[k]) /\ a + (n - a) = n
      BY <2>0, <3>0
    <3> QED BY <2>2, <3>1 DEF Contains
  <2> QED BY <2>3, <2>4
<1>6. ASSUME NEW n \in Nos
      PROVE  \E k \in 1..Len(bs) : Contains(bs[k], n)
  <2>1. n \in 1..Len(Numbers)
    BY <1>3 DEF Nos
  <2>2. PICK k \in 1..Len(bs) : n \in (c[k - 1] + 1)..c[k] /\ c[k - 1] \in 0..Len(Numbers)
    BY <1>1, <1>2, <1>3, <2>1, CutsFrom DEF Found
  <2>3. c[k] \in 0..Len(Numbers)
    BY <1>1, <1>2, <1>3, CutsInto DEF Into
  <2> QED BY <1>3, <1>4, <1>5, <2>2, <2>3
<1>7. ASSUME NEW n \in Nos, NEW k \in 1..Len(bs), NEW l \in 1..Len(bs),
             Contains(bs[k], n), Contains(bs[l], n)
      PROVE  ~ (k < l)
  <2> SUFFICES ASSUME k < l
               PROVE  FALSE
    OBVIOUS
  <2>1. c[k - 1] < n /\ n <= c[k] /\ c[l - 1] < n
    BY <1>5, <1>7
  <2>2. k \in 0..Len(bs) /\ l - 1 \in k..Len(bs)
    OBVIOUS
  <2>3. c[k] <= c[l - 1] /\ c[k] \in 0..Len(Numbers)
    BY <1>2, <1>3, <1>4, <2>2, CutsMonotone
  <2>4. c[l - 1] \in 0..Len(Numbers)
    BY <1>1, <1>2, <1>3, CutsInto DEF Into
  <2> DEFINE x == c[k]
             y == c[l - 1]
  <2>5. n \in Nat /\ x \in Nat /\ y \in Nat /\ n <= x /\ x <= y /\ y < n
    <3>1. n \in Nat
      BY DEF Nos
    <3>2. x \in Nat /\ y \in Nat
      BY <1>3, <1>4, <2>3, <2>4
    <3> QED BY <2>1, <2>3, <3>1, <3>2
  <2> HIDE DEF x, y
  <2> QED BY <2>5
<1>8. ASSUME NEW k \in 1..Len(bs)
      PROVE  \E n \in Nos : Contains(bs[k], n)
  <2>1. bs[k] \in Seq(Nos) /\ Len(bs[k]) \in 1..BatchSize /\ BatchSize \in Nat
    BY <1>1, PassagesAssumption DEF BatchOK
  <2>2. 1 \in 1..Len(bs[k]) /\ bs[k][1] \in Nos
    BY <2>1
  <2> QED BY <2>2 DEF Contains
<1>9. ASSUME NEW n \in Nos, NEW k \in 1..Len(bs), Contains(bs[k], n)
      PROVE  bs[k][SelectInSeq(bs[k], LAMBDA m : m = n)] = n
  <2>1. bs[k] \in Seq(Nat)
    <3>1. bs[k] \in Seq(Nos) /\ Nos \subseteq Nat
      BY <1>1 DEF Nos
    <3> QED BY <3>1, SeqMonotonic
  <2> QED BY <1>9, <2>1, SelectsIt
<1>10. \A n \in Nos : \A k, l \in 1..Len(bs) : Contains(bs[k], n) /\ Contains(bs[l], n) => k = l
  BY <1>4, <1>7
<1> QED BY <1>6, <1>8, <1>9, <1>10 DEF bs

-----------------------------------------------------------------------------
(* Sections                                                                *)

Labels == {"", "Q", "A"}

Kinds == LineKinds \cup {"paragraph"}

DocBlock == [kind : Kinds, level : Nat, label : Labels, words : Seq(Word)]

SBlock == [index : Nat, kind : Kinds, label : Labels, words : Seq(Word)]

Section == [title : Seq(Word), path : Seq(Seq(Word)), blocks : Seq(SBlock)]

Sectioning ==
    [sections : Seq(Section), title : Seq(Word), path : Seq(Seq(Word)), blocks : Seq(SBlock)]

\* A title is the words of the last heading before block k, if there is one.
TitledBefore(title, x, k) ==
    \/ title = NoTitle /\ \A i \in 1..(k - 1) : x[i].kind # "heading"
    \/ \E h \in 1..(k - 1) : /\ x[h].kind = "heading"
                             /\ title = x[h].words
                             /\ \A i \in (h + 1)..(k - 1) : x[i].kind # "heading"

Numbered(x, k) ==
    [index |-> k, kind |-> x[k].kind, label |-> x[k].label, words |-> x[k].words]

\* bs are the blocks of x from lo on, and no heading.
Stretch(bs, x, lo) ==
    \A i \in 1..Len(bs) : /\ lo + i - 1 \in 1..Len(x)
                          /\ x[lo + i - 1].kind # "heading"
                          /\ bs[i] = Numbered(x, lo + i - 1)

LoOf(s) == s.blocks[1].index
HiOf(s) == LoOf(s) + Len(s.blocks) - 1

SectionOK(s, x) ==
    /\ s \in Section
    /\ Len(s.blocks) > 0
    /\ Stretch(s.blocks, x, LoOf(s))
    /\ TitledBefore(s.title, x, LoOf(s))

\* S are the sections of the first k blocks.
Sectioned(S, x, k) ==
    /\ \A j \in 1..Len(S) : SectionOK(S[j], x) /\ HiOf(S[j]) <= k
    /\ \A i, j \in 1..Len(S) : i < j => HiOf(S[i]) < LoOf(S[j])
    /\ \A i \in 1..k : x[i].kind # "heading" =>
            \E j \in 1..Len(S) : i \in LoOf(S[j])..HiOf(S[j])

\* What the chunker has after k blocks.
SectionedAt(acc, x, k) ==
    LET m == k - Len(acc.blocks)
    IN  /\ m >= 0
        /\ Sectioned(acc.sections, x, m)
        /\ Stretch(acc.blocks, x, m + 1)
        /\ TitledBefore(acc.title, x, m + 1)

LEMMA NumberedTyped ==
    ASSUME NEW x \in Seq(DocBlock), NEW k \in 1..Len(x)
    PROVE  /\ x[k] \in DocBlock /\ x[k].words \in Seq(Word) /\ x[k].level \in Nat
           /\ x[k].kind \in Kinds /\ x[k].label \in Labels
           /\ Numbered(x, k) \in SBlock
           /\ Numbered(x, k).index = k /\ Numbered(x, k).kind = x[k].kind
           /\ Numbered(x, k).words = x[k].words /\ Numbered(x, k).label = x[k].label
<1>1. x[k] \in DocBlock
  OBVIOUS
<1>2. x[k].words \in Seq(Word) /\ x[k].level \in Nat /\ x[k].kind \in Kinds /\ x[k].label \in Labels
  BY <1>1 DEF DocBlock
<1> QED BY <1>1, <1>2 DEF Numbered, SBlock

LEMMA SectionFields ==
    ASSUME NEW s \in Section
    PROVE  /\ s.title \in Seq(Word) /\ s.path \in Seq(Seq(Word)) /\ s.blocks \in Seq(SBlock)
           /\ Len(s.blocks) \in Nat
           /\ \A i \in 1..Len(s.blocks) : /\ s.blocks[i] \in SBlock
                                          /\ s.blocks[i].index \in Nat
                                          /\ s.blocks[i].words \in Seq(Word)
<1>1. s.title \in Seq(Word) /\ s.path \in Seq(Seq(Word)) /\ s.blocks \in Seq(SBlock)
  BY DEF Section
<1>2. \A i \in 1..Len(s.blocks) : s.blocks[i] \in SBlock
  BY <1>1
<1> QED BY <1>1, <1>2 DEF SBlock

LEMMA SectionEnds ==
    ASSUME NEW x \in Seq(DocBlock), NEW s, SectionOK(s, x)
    PROVE  /\ LoOf(s) \in 1..Len(x) /\ HiOf(s) \in LoOf(s)..Len(x)
           /\ \A i \in LoOf(s)..HiOf(s) :
                /\ i \in 1..Len(x) /\ x[i].kind # "heading"
                /\ i - LoOf(s) + 1 \in 1..Len(s.blocks)
                /\ s.blocks[i - LoOf(s) + 1] = Numbered(x, i)
<1> DEFINE lo == LoOf(s)
           n == Len(s.blocks)
<1>1. n \in Nat /\ n > 0 /\ lo \in Nat
  BY SectionFields DEF SectionOK, LoOf
<1>2. \A i \in 1..n : lo + i - 1 \in 1..Len(x) /\ x[lo + i - 1].kind # "heading"
                      /\ s.blocks[i] = Numbered(x, lo + i - 1)
  BY DEF SectionOK, Stretch
<1>3. HiOf(s) = lo + n - 1
  BY DEF HiOf
<1> HIDE DEF lo, n
<1>4. lo + 1 - 1 \in 1..Len(x) /\ lo + n - 1 \in 1..Len(x)
  <2>1. 1 \in 1..n /\ n \in 1..n
    BY <1>1
  <2> QED BY <1>2, <2>1
<1>5. lo \in 1..Len(x) /\ lo + n - 1 \in lo..Len(x)
  BY <1>1, <1>4
<1>6. ASSUME NEW i \in lo..(lo + n - 1)
      PROVE  /\ i \in 1..Len(x) /\ x[i].kind # "heading"
             /\ i - lo + 1 \in 1..n
             /\ s.blocks[i - lo + 1] = Numbered(x, i)
  <2>1. i - lo + 1 \in 1..n /\ lo + (i - lo + 1) - 1 = i
    BY <1>1
  <2> QED BY <1>2, <2>1
<1> QED BY <1>3, <1>5, <1>6 DEF lo, n

LEMMA CloseSectionKeeps ==
    ASSUME NEW x \in Seq(DocBlock), NEW acc \in Sectioning, NEW k \in 0..Len(x),
           SectionedAt(acc, x, k)
    PROVE  /\ CloseSection(acc) \in Sectioning
           /\ CloseSection(acc).blocks = <<>>
           /\ CloseSection(acc).title = acc.title
           /\ CloseSection(acc).path = acc.path
           /\ Sectioned(CloseSection(acc).sections, x, k)
<1>1. /\ acc.sections \in Seq(Section) /\ acc.title \in Seq(Word)
      /\ acc.path \in Seq(Seq(Word)) /\ acc.blocks \in Seq(SBlock)
  BY DEF Sectioning
<1>2. CASE acc.blocks = <<>>
  <2>1. CloseSection(acc) = acc /\ Len(acc.blocks) = 0
    BY <1>2 DEF CloseSection
  <2>2. Sectioned(acc.sections, x, k)
    BY <2>1 DEF SectionedAt
  <2> QED BY <1>2, <2>1, <2>2
<1>3. CASE acc.blocks # <<>>
  <2> DEFINE new == [title |-> acc.title, path |-> acc.path, blocks |-> acc.blocks]
             S == acc.sections
             n == Len(acc.blocks)
             m == k - n
             T == Append(S, new)
  <2>1. CloseSection(acc) = [acc EXCEPT !.sections = T, !.blocks = <<>>]
    BY <1>3 DEF CloseSection
  <2>2. new \in Section
    BY <1>1 DEF Section
  <2>3. T \in Seq(Section) /\ Len(T) = Len(S) + 1 /\ T[Len(S) + 1] = new
        /\ Len(S) \in Nat /\ \A j \in 1..Len(S) : T[j] = S[j]
    BY <1>1, <2>2
  <2>4. n \in Nat /\ n > 0
    BY <1>1, <1>3
  <2>5. m \in Nat /\ m + n = k /\ Sectioned(S, x, m) /\ Stretch(acc.blocks, x, m + 1)
        /\ TitledBefore(acc.title, x, m + 1)
    <3>1. k - Len(acc.blocks) >= 0 /\ Sectioned(acc.sections, x, k - Len(acc.blocks))
          /\ Stretch(acc.blocks, x, k - Len(acc.blocks) + 1)
          /\ TitledBefore(acc.title, x, k - Len(acc.blocks) + 1)
      BY DEF SectionedAt
    <3>2. k \in Int /\ n \in Int
      BY <2>4
    <3>3. m \in Nat /\ m + n = k
      BY <3>1, <3>2
    <3> QED BY <3>1, <3>3
  <2>6. acc.blocks[1].index = m + 1
    <3>1. m + 1 + 1 - 1 \in 1..Len(x) /\ acc.blocks[1] = Numbered(x, m + 1 + 1 - 1)
      <4>1. 1 \in 1..Len(acc.blocks)
        BY <2>4
      <4> QED BY <2>5, <4>1 DEF Stretch
    <3>2. m + 1 + 1 - 1 = m + 1
      BY <2>5
    <3> QED BY <3>1, <3>2, NumberedTyped
  <2>7. LoOf(new) = m + 1 /\ HiOf(new) = k
    <3> HIDE DEF m
    <3> QED BY <2>4, <2>5, <2>6 DEF LoOf, HiOf
  <2>8. SectionOK(new, x)
    BY <2>2, <2>4, <2>5, <2>7 DEF SectionOK
  <2>9. CloseSection(acc) = [sections |-> T, title |-> acc.title, path |-> acc.path, blocks |-> <<>>]
    <3>1. acc = [sections |-> acc.sections, title |-> acc.title, path |-> acc.path, blocks |-> acc.blocks]
      BY DEF Sectioning
    <3> HIDE DEF T
    <3> QED BY <2>1, <3>1
  <2> HIDE DEF m, n, new, S, T
  <2>10. Sectioned(T, x, k)
    <3>1. ASSUME NEW j \in 1..Len(T)
          PROVE  SectionOK(T[j], x) /\ HiOf(T[j]) <= k
      <4>1. CASE j = Len(S) + 1
        BY <2>3, <2>5, <2>7, <2>8, <4>1
      <4>2. CASE j # Len(S) + 1
        <5>1. j \in 1..Len(S) /\ T[j] = S[j]
          BY <2>3, <4>2
        <5>2. SectionOK(S[j], x) /\ HiOf(S[j]) <= m
          BY <2>5, <5>1 DEF Sectioned
        <5>3. HiOf(S[j]) \in Int
          BY <5>2, SectionEnds
        <5>4. HiOf(S[j]) <= k
          BY <2>4, <2>5, <5>2, <5>3
        <5> QED BY <5>1, <5>2, <5>4
      <4> QED BY <4>1, <4>2
    <3>2. ASSUME NEW i \in 1..Len(T), NEW j \in 1..Len(T), i < j
          PROVE  HiOf(T[i]) < LoOf(T[j])
      <4>1. i \in 1..Len(S) /\ T[i] = S[i]
        BY <2>3, <3>2
      <4>2. SectionOK(S[i], x) /\ HiOf(S[i]) <= m
        BY <2>5, <4>1 DEF Sectioned
      <4>3. HiOf(S[i]) \in Int
        BY <4>2, SectionEnds
      <4>4. CASE j = Len(S) + 1
        BY <2>3, <2>5, <2>7, <4>1, <4>2, <4>3, <4>4
      <4>5. CASE j # Len(S) + 1
        <5>1. j \in 1..Len(S) /\ T[j] = S[j]
          BY <2>3, <4>5
        <5> QED BY <2>5, <3>2, <4>1, <5>1 DEF Sectioned
      <4> QED BY <4>4, <4>5
    <3>3. ASSUME NEW i \in 1..k, x[i].kind # "heading"
          PROVE  \E j \in 1..Len(T) : i \in LoOf(T[j])..HiOf(T[j])
      <4>1. CASE i <= m
        <5>1. i \in 1..m
          BY <2>5, <4>1
        <5>2. PICK j \in 1..Len(S) : i \in LoOf(S[j])..HiOf(S[j])
          BY <2>5, <3>3, <5>1 DEF Sectioned
        <5>3. j \in 1..Len(T) /\ T[j] = S[j]
          BY <2>3
        <5> QED BY <5>2, <5>3
      <4>2. CASE i > m
        <5>1. i \in (m + 1)..k
          BY <2>5, <4>2
        <5>2. Len(S) + 1 \in 1..Len(T)
          BY <2>3
        <5> QED BY <2>3, <2>7, <5>1, <5>2
      <4> QED BY <2>5, <4>1, <4>2
    <3> QED BY <3>1, <3>2, <3>3 DEF Sectioned
  <2>11. CloseSection(acc) \in Sectioning
    BY <1>1, <2>3, <2>9 DEF Sectioning
  <2> QED BY <2>9, <2>10, <2>11
<1> QED BY <1>2, <1>3

\* Blocks to be chunked: with words, in the order of the file.
InOrder(w) == \A i, j \in 1..Len(w) : i < j => Before(w[i].at, w[j].at)

Precede(u, w) == \A a \in Places(u), b \in Places(w) : Before(a, b)

BlocksOK(x) ==
    /\ x \in Seq(DocBlock)
    /\ \A k \in 1..Len(x) : /\ x[k].words # <<>>
                            /\ InOrder(x[k].words)
                            /\ \A i \in 1..Len(x[k].words) : x[k].words[i].br = "none"
                            /\ x[k].kind = "heading" => x[k].level >= 1
    /\ \A k, l \in 1..Len(x) : k < l => Precede(x[k].words, x[l].words)

LEMMA PathAbove ==
    ASSUME NEW C, NEW path \in Seq(C), NEW l \in Nat
    PROVE  SubSeq(path, 1, Min({Len(path), l})) \in Seq(C)
<1> DEFINE m == Min({Len(path), l})
<1>1. Len(path) \in Nat
  OBVIOUS
<1>2. m \in {Len(path), l} /\ m <= Len(path)
  <2>1. {Len(path), l} \subseteq Nat /\ {Len(path), l} # {} /\ Len(path) \in {Len(path), l}
    BY <1>1
  <2> DEFINE S == {Len(path), l}
  <2> HIDE DEF S
  <2>2. Min(S) \in S /\ \A y \in S : Min(S) <= y
    BY <2>1, MinOf DEF S
  <2> QED BY <2>1, <2>2 DEF S
<1> HIDE DEF m
<1>3. m \in Int /\ \A i \in 1..m : path[i] \in C
  BY <1>1, <1>2
<1>4. SubSeq(path, 1, m) \in Seq(C)
  BY <1>3, SubSeqProperties
<1> QED BY <1>4 DEF m

LEMMA AddBlockTyped ==
    ASSUME NEW x, BlocksOK(x), NEW acc \in Sectioning, NEW k \in 1..Len(x)
    PROVE  AddBlock(acc, x[k], k) \in Sectioning
<1>1. /\ acc.sections \in Seq(Section) /\ acc.title \in Seq(Word)
      /\ acc.path \in Seq(Seq(Word)) /\ acc.blocks \in Seq(SBlock)
  BY DEF Sectioning
<1>2. x \in Seq(DocBlock)
  BY DEF BlocksOK
<1>3. CloseSection(acc) \in Sectioning
  <2> DEFINE new == [title |-> acc.title, path |-> acc.path, blocks |-> acc.blocks]
  <2>1. new \in Section
    BY <1>1 DEF Section
  <2>2. Append(acc.sections, new) \in Seq(Section)
    BY <1>1, <2>1
  <2> DEFINE T == Append(acc.sections, new)
  <2>3. CASE acc.blocks # <<>>
    <3>1. CloseSection(acc) = [acc EXCEPT !.sections = T, !.blocks = <<>>]
      BY <2>3 DEF CloseSection
    <3>2. acc = [sections |-> acc.sections, title |-> acc.title, path |-> acc.path, blocks |-> acc.blocks]
      BY DEF Sectioning
    <3> HIDE DEF T
    <3>3. CloseSection(acc) = [sections |-> T, title |-> acc.title, path |-> acc.path, blocks |-> <<>>]
      BY <3>1, <3>2
    <3> QED BY <1>1, <2>2, <3>3 DEF Sectioning, T
  <2>4. CASE acc.blocks = <<>>
    BY <2>4 DEF CloseSection
  <2> QED BY <2>3, <2>4
<1>4. CASE x[k].kind = "heading"
  <2>1. x[k].level \in Nat /\ x[k].level - 1 \in Nat /\ x[k].words \in Seq(Word)
    BY <1>2, <1>4, NumberedTyped DEF BlocksOK
  <2> DEFINE above == SubSeq(acc.path, 1, Min({Len(acc.path), x[k].level - 1}))
  <2>2. above \in Seq(Seq(Word))
    BY <1>1, <2>1, PathAbove
  <2>3. AddBlock(acc, x[k], k) = [CloseSection(acc) EXCEPT !.title = x[k].words, !.path = Append(above, x[k].words)]
    BY <1>4 DEF AddBlock, OpenSection
  <2> HIDE DEF above
  <2>4. Append(above, x[k].words) \in Seq(Seq(Word))
    BY <2>1, <2>2
  <2> QED BY <1>3, <2>1, <2>3, <2>4 DEF Sectioning
<1>5. CASE x[k].kind # "heading"
  <2>1. AddBlock(acc, x[k], k) = [acc EXCEPT !.blocks = Append(acc.blocks, Numbered(x, k))]
    BY <1>5 DEF AddBlock, Numbered
  <2>2. Append(acc.blocks, Numbered(x, k)) \in Seq(SBlock)
    BY <1>1, <1>2, NumberedTyped
  <2> QED BY <1>1, <2>1, <2>2 DEF Sectioning
<1> QED BY <1>4, <1>5

LEMMA AddBlockKeeps ==
    ASSUME NEW x, BlocksOK(x), NEW acc \in Sectioning, NEW k \in 1..Len(x),
           SectionedAt(acc, x, k - 1)
    PROVE  SectionedAt(AddBlock(acc, x[k], k), x, k)
<1>1. /\ acc.sections \in Seq(Section) /\ acc.title \in Seq(Word)
      /\ acc.path \in Seq(Seq(Word)) /\ acc.blocks \in Seq(SBlock)
  BY DEF Sectioning
<1>2. x \in Seq(DocBlock) /\ Len(x) \in Nat
  BY DEF BlocksOK
<1> DEFINE new == AddBlock(acc, x[k], k)
<1>3. CASE x[k].kind = "heading"
  <2> DEFINE closed == CloseSection(acc)
  <2>1. k - 1 \in 0..Len(x)
    OBVIOUS
  <2>2. closed \in Sectioning /\ closed.blocks = <<>> /\ Sectioned(closed.sections, x, k - 1)
    BY <1>2, <2>1, CloseSectionKeeps
  <2>3. new.sections = closed.sections /\ new.blocks = <<>> /\ new.title = x[k].words
    <3>1. \E path : new = [closed EXCEPT !.title = x[k].words, !.path = path]
      BY <1>3 DEF AddBlock, OpenSection
    <3> HIDE DEF closed, new
    <3>2. PICK path : new = [closed EXCEPT !.title = x[k].words, !.path = path]
      BY <3>1
    <3> QED BY <2>2, <3>2 DEF Sectioning
  <2> DEFINE S == closed.sections
  <2>4. Sectioned(S, x, k)
    <3>1. \A j \in 1..Len(S) : SectionOK(S[j], x) /\ HiOf(S[j]) <= k
      <4> SUFFICES ASSUME NEW j \in 1..Len(S)
                   PROVE  SectionOK(S[j], x) /\ HiOf(S[j]) <= k
        OBVIOUS
      <4>1. SectionOK(S[j], x) /\ HiOf(S[j]) <= k - 1
        BY <2>2 DEF Sectioned
      <4>2. HiOf(S[j]) \in Int
        BY <1>2, <4>1, SectionEnds
      <4> QED BY <4>1, <4>2
    <3>2. \A i \in 1..k : x[i].kind # "heading" => \E j \in 1..Len(S) : i \in LoOf(S[j])..HiOf(S[j])
      <4> SUFFICES ASSUME NEW i \in 1..k, x[i].kind # "heading"
                   PROVE  \E j \in 1..Len(S) : i \in LoOf(S[j])..HiOf(S[j])
        OBVIOUS
      <4>1. i \in 1..(k - 1)
        BY <1>3
      <4> QED BY <2>2, <4>1 DEF Sectioned
    <3> QED BY <2>2, <3>1, <3>2 DEF Sectioned
  <2>5. TitledBefore(x[k].words, x, k + 1)
    <3>1. k \in 1..(k + 1 - 1) /\ (k + 1)..(k + 1 - 1) = {}
      OBVIOUS
    <3> QED BY <1>3, <3>1 DEF TitledBefore
  <2>6. Stretch(<<>>, x, k + 1) /\ Len(<<>>) = 0 /\ k - 0 = k /\ k >= 0
    BY DEF Stretch
  <2> HIDE DEF S, closed, new
  <2>7. SectionedAt(new, x, k)
    BY <2>3, <2>4, <2>5, <2>6 DEF SectionedAt, S
  <2> QED BY <2>7 DEF new
<1>4. CASE x[k].kind # "heading"
  <2> DEFINE b == acc.blocks
             m == k - 1 - Len(b)
  <2>1. new = [acc EXCEPT !.blocks = Append(b, Numbered(x, k))]
    BY <1>4 DEF AddBlock, Numbered
  <2>2. new.sections = acc.sections /\ new.title = acc.title /\ new.blocks = Append(b, Numbered(x, k))
    BY <2>1 DEF Sectioning
  <2>3. m >= 0 /\ Sectioned(acc.sections, x, m) /\ Stretch(b, x, m + 1) /\ TitledBefore(acc.title, x, m + 1)
    BY DEF SectionedAt
  <2>4. Len(b) \in Nat
    BY <1>1
  <2>5. Numbered(x, k) \in SBlock
    BY <1>2, NumberedTyped
  <2>6. Len(Append(b, Numbered(x, k))) = Len(b) + 1 /\ Append(b, Numbered(x, k))[Len(b) + 1] = Numbered(x, k)
        /\ \A i \in 1..Len(b) : Append(b, Numbered(x, k))[i] = b[i]
    BY <1>1, <2>5
  <2>7. k - (Len(b) + 1) = m /\ m \in Nat
    BY <2>3, <2>4
  <2>8. Stretch(Append(b, Numbered(x, k)), x, m + 1)
    <3> SUFFICES ASSUME NEW i \in 1..(Len(b) + 1)
                 PROVE  /\ m + 1 + i - 1 \in 1..Len(x)
                        /\ x[m + 1 + i - 1].kind # "heading"
                        /\ Append(b, Numbered(x, k))[i] = Numbered(x, m + 1 + i - 1)
      BY <2>6 DEF Stretch
    <3>1. CASE i = Len(b) + 1
      <4>1. m + 1 + i - 1 = k
        BY <2>4, <3>1
      <4> QED BY <1>4, <2>6, <3>1, <4>1
    <3>2. CASE i # Len(b) + 1
      <4>1. i \in 1..Len(b)
        BY <2>4, <3>2
      <4> QED BY <2>3, <2>6, <4>1 DEF Stretch
    <3> QED BY <3>1, <3>2
  <2> HIDE DEF m, b, new
  <2>9. SectionedAt(new, x, k)
    BY <2>2, <2>3, <2>6, <2>7, <2>8 DEF SectionedAt
  <2> QED BY <2>9 DEF new
<1> QED BY <1>3, <1>4

\* The sections of blocks are stretches without headings, in order, that have
\* every block that is not a heading.
LEMMA SectionsAre ==
    ASSUME NEW x, BlocksOK(x)
    PROVE  BuildSections(x) \in Seq(Section) /\ Sectioned(BuildSections(x), x, Len(x))
<1> DEFINE n == Len(x)
<1>1. x \in Seq(DocBlock) /\ n \in Nat
  BY DEF BlocksOK
<1>2. NoSections \in Sectioning
  BY DEF NoSections, Sectioning, NoTitle
<1>3. PICK r \in [0..n -> Sectioning] :
        /\ r[0] = NoSections
        /\ \A k \in 1..n : r[k] = AddBlock(r[k - 1], x[k], k)
        /\ BuildSections(x) = CloseSection(r[n]).sections
  <2>1. \A e \in Sectioning : \A k \in 1..Len(x) : AddBlock(e, x[k], k) \in Sectioning
    BY AddBlockTyped
  <2> QED BY <1>1, <1>2, <2>1, SectionSteps
<1> DEFINE T == {k \in 0..n : SectionedAt(r[k], x, k)}
<1>4. 0 \in T
  <2>1. /\ NoSections.sections = <<>> /\ NoSections.blocks = <<>> /\ NoSections.title = NoTitle
        /\ Len(<<>>) = 0 /\ 0 - 0 = 0 /\ 0 + 1 = 1
    BY DEF NoSections
  <2>2. Sectioned(<<>>, x, 0) /\ Stretch(<<>>, x, 1)
    BY DEF Sectioned, Stretch
  <2>3. TitledBefore(NoTitle, x, 1)
    BY DEF TitledBefore
  <2>4. SectionedAt(NoSections, x, 0)
    BY <2>1, <2>2, <2>3 DEF SectionedAt
  <2> QED BY <1>1, <1>3, <2>4
<1>5. ASSUME NEW k \in 1..n, k - 1 \in T
      PROVE  k \in T
  <2>1. k - 1 \in 0..n /\ k \in 0..n /\ k \in 1..Len(x)
    OBVIOUS
  <2>2. r[k - 1] \in Sectioning /\ r[k] = AddBlock(r[k - 1], x[k], k)
    BY <1>3, <2>1
  <2> QED BY <1>5, <2>1, <2>2, AddBlockKeeps
<1>6. SectionedAt(r[n], x, n) /\ r[n] \in Sectioning
  <2>1. n \in T
    <3> HIDE DEF T, n
    <3> QED BY <1>1, <1>4, <1>5, Reaches
  <2> QED BY <1>1, <1>3, <2>1
<1>7. CloseSection(r[n]) \in Sectioning /\ Sectioned(CloseSection(r[n]).sections, x, n)
  <2>1. n \in 0..Len(x)
    BY <1>1
  <2> QED BY <1>1, <1>6, <2>1, CloseSectionKeeps
<1> QED BY <1>3, <1>7 DEF Sectioning

-----------------------------------------------------------------------------
(* Weights: what the elements of a sequence add up to                      *)

Weights(F, s) == [k \in 1..Len(s) |-> F[s[k]]]

Weigh(F, s) == Total(Weights(F, s))

LEMMA WeighTyped ==
    ASSUME NEW C, NEW F \in [C -> Nat], NEW s \in Seq(C)
    PROVE  Weights(F, s) \in Seq(Nat) /\ Len(Weights(F, s)) = Len(s) /\ Weigh(F, s) \in Nat
<1>1. Len(s) \in Nat /\ \A k \in 1..Len(s) : F[s[k]] \in Nat
  OBVIOUS
<1>2. Weights(F, s) \in Seq(Nat) /\ Len(Weights(F, s)) = Len(s)
  BY <1>1 DEF Weights
<1> QED BY <1>2, TotalSums DEF Weigh

LEMMA WeighConcat ==
    ASSUME NEW C, NEW F \in [C -> Nat], NEW s \in Seq(C), NEW t \in Seq(C)
    PROVE  Weigh(F, s \o t) = Weigh(F, s) + Weigh(F, t)
<1> DEFINE w == s \o t
<1>1. /\ w \in Seq(C) /\ Len(w) = Len(s) + Len(t) /\ Len(s) \in Nat /\ Len(t) \in Nat
      /\ \A k \in 1..(Len(s) + Len(t)) : w[k] = IF k <= Len(s) THEN s[k] ELSE t[k - Len(s)]
  OBVIOUS
<1> HIDE DEF w
<1>2. /\ Weights(F, s) \in Seq(Nat) /\ Len(Weights(F, s)) = Len(s)
      /\ Weights(F, t) \in Seq(Nat) /\ Len(Weights(F, t)) = Len(t)
      /\ Weights(F, w) \in Seq(Nat) /\ Len(Weights(F, w)) = Len(w)
  BY <1>1, WeighTyped
<1>3. Weights(F, w) = Weights(F, s) \o Weights(F, t)
  <2> DEFINE a == Weights(F, s)
             b == Weights(F, t)
  <2>0. a \in Seq(Nat) /\ b \in Seq(Nat) /\ Len(a) = Len(s) /\ Len(b) = Len(t)
    BY <1>2
  <2> HIDE DEF a, b
  <2>1. /\ a \o b \in Seq(Nat) /\ Len(a \o b) = Len(w)
        /\ \A k \in 1..(Len(a) + Len(b)) : (a \o b)[k] = IF k <= Len(a) THEN a[k] ELSE b[k - Len(a)]
    <3>1. /\ a \o b \in Seq(Nat) /\ Len(a \o b) = Len(a) + Len(b)
          /\ \A k \in 1..(Len(a) + Len(b)) : (a \o b)[k] = IF k <= Len(a) THEN a[k] ELSE b[k - Len(a)]
      BY <2>0, ConcatProperties
    <3> QED BY <1>1, <2>0, <3>1
  <2>2. ASSUME NEW k \in 1..Len(w)
        PROVE  Weights(F, w)[k] = (a \o b)[k]
    <3>1. Weights(F, w)[k] = F[w[k]]
      BY DEF Weights
    <3>2. CASE k <= Len(s)
      <4>1. k \in 1..Len(s) /\ w[k] = s[k] /\ (a \o b)[k] = a[k]
        BY <1>1, <2>0, <2>1, <3>2
      <4>2. a[k] = F[s[k]]
        BY <4>1 DEF Weights, a
      <4> QED BY <3>1, <4>1, <4>2
    <3>3. CASE ~ (k <= Len(s))
      <4>1. k - Len(s) \in 1..Len(t) /\ w[k] = t[k - Len(s)] /\ (a \o b)[k] = b[k - Len(s)]
        BY <1>1, <2>0, <2>1, <3>3
      <4>2. b[k - Len(s)] = F[t[k - Len(s)]]
        BY <4>1 DEF Weights, b
      <4> QED BY <3>1, <4>1, <4>2
    <3> QED BY <3>2, <3>3
  <2>3. Weights(F, w) = a \o b
    BY <1>2, <2>1, <2>2, SeqEqual
  <2> QED BY <2>3 DEF a, b
<1>4. Weigh(F, w) = Weigh(F, s) + Weigh(F, t)
  BY <1>2, <1>3, TotalConcat DEF Weigh
<1> QED BY <1>4 DEF w

LEMMA WeighOne ==
    ASSUME NEW C, NEW F \in [C -> Nat], NEW e \in C
    PROVE  Weigh(F, <<e>>) = F[e] /\ Weigh(F, <<>>) = 0
<1>1. Weights(F, <<>>) = <<>>
  BY DEF Weights
<1>2. Weights(F, <<e>>) = Append(<<>>, F[e])
  BY DEF Weights
<1>3. F[e] \in Nat /\ <<>> \in Seq(Nat)
  OBVIOUS
<1>4. Total(Append(<<>>, F[e])) = Total(<<>>) + F[e]
  BY <1>3, TotalAppend
<1> QED BY <1>1, <1>2, <1>3, <1>4, TotalEmpty DEF Weigh

LEMMA WeighAppend ==
    ASSUME NEW C, NEW F \in [C -> Nat], NEW s \in Seq(C), NEW e \in C
    PROVE  Weigh(F, Append(s, e)) = Weigh(F, s) + F[e]
<1>1. Append(s, e) = s \o <<e>> /\ <<e>> \in Seq(C)
  OBVIOUS
<1>2. Weigh(F, s \o <<e>>) = Weigh(F, s) + Weigh(F, <<e>>)
  BY <1>1, WeighConcat
<1> QED BY <1>1, <1>2, WeighOne

\* What the parts add up to, the whole does.
LEMMA WeighCuts ==
    ASSUME NEW C, NEW F \in [C -> Nat], NEW parts \in Seq(Seq(C)), NEW whole \in Seq(C),
           NEW c, Cuts(c, parts, whole)
    PROVE  Weigh(F, whole) = Total([k \in 1..Len(parts) |-> Weigh(F, parts[k])])
<1> DEFINE n == Len(parts)
           t == [k \in 1..n |-> Weigh(F, parts[k])]
<1>1. n \in Nat
  OBVIOUS
<1>2. t \in Seq(Nat) /\ Len(t) = n /\ \A k \in 1..n : t[k] = Weigh(F, parts[k])
  <2>1. ASSUME NEW k \in 1..n PROVE Weigh(F, parts[k]) \in Nat
    <3>1. parts[k] \in Seq(C)
      OBVIOUS
    <3> QED BY <3>1, WeighTyped
  <2> QED BY <1>1, <2>1
<1> HIDE DEF t
<1>3. PICK r : Sums(r, t) /\ Total(t) = r[Len(t)]
  BY <1>2, TotalSums
<1> DEFINE T == {k \in 0..n : Weigh(F, SubSeq(whole, 1, c[k])) = r[k]}
<1>4. 0 \in T
  <2>1. SubSeq(whole, 1, c[0]) = <<>>
    <3>1. c[0] = 0 /\ SubSeq(whole, 1, 0) = <<>>
      BY DEF Cuts
    <3> QED BY <3>1
  <2>2. Weights(F, <<>>) = <<>>
    BY DEF Weights
  <2>3. Weigh(F, <<>>) = 0
    BY <2>2, TotalEmpty DEF Weigh
  <2>4. r[0] = 0
    BY <1>3 DEF Sums
  <2>5. Weigh(F, SubSeq(whole, 1, c[0])) = r[0]
    BY <2>1, <2>3, <2>4
  <2> QED BY <1>1, <2>5
<1>5. ASSUME NEW k \in 1..n, k - 1 \in T
      PROVE  k \in T
  <2>1. SubSeq(whole, 1, c[k]) = SubSeq(whole, 1, c[k - 1]) \o parts[k]
    BY CutsFirst
  <2>2. c[k - 1] \in 0..Len(whole) /\ parts[k] \in Seq(C)
    BY CutsInto DEF Into
  <2>3. SubSeq(whole, 1, c[k - 1]) \in Seq(C)
    <3> DEFINE e == c[k - 1]
    <3>1. e \in Nat /\ e <= Len(whole) /\ Len(whole) \in Nat
      BY <2>2
    <3> HIDE DEF e
    <3>2. \A i \in 1..e : whole[i] \in C
      BY <3>1
    <3>3. SubSeq(whole, 1, e) \in Seq(C)
      BY <3>1, <3>2, SubSeqProperties
    <3> QED BY <3>3 DEF e
  <2> DEFINE u == SubSeq(whole, 1, c[k - 1])
  <2> HIDE DEF u
  <2>4. u \in Seq(C) /\ SubSeq(whole, 1, c[k]) = u \o parts[k]
    BY <2>1, <2>3 DEF u
  <2>5. Weigh(F, u \o parts[k]) = Weigh(F, u) + Weigh(F, parts[k])
    BY <2>2, <2>4, WeighConcat
  <2>6. Weigh(F, u) = r[k - 1]
    BY <1>5 DEF u
  <2>7. r[k] = r[k - 1] + t[k]
    BY <1>2, <1>3 DEF Sums
  <2>8. Weigh(F, SubSeq(whole, 1, c[k])) = r[k]
    BY <1>2, <2>4, <2>5, <2>6, <2>7
  <2> QED BY <2>8
<1>6. n \in T
  <2> HIDE DEF T, n
  <2> QED BY <1>1, <1>4, <1>5, Reaches
<1>7. c[n] = Len(whole) /\ SubSeq(whole, 1, Len(whole)) = whole
  BY DEF Cuts
<1>8. Weigh(F, whole) = Total(t)
  BY <1>2, <1>3, <1>6, <1>7
<1> QED BY <1>8 DEF t

-----------------------------------------------------------------------------
(* Groups of sections                                                      *)

WordsWeight == [b \in SBlock |-> Tokens(b.words)]
SectionWeight == [s \in Section |-> SectionTokens(s)]
UnitWeight == [u \in Unit |-> Tokens(u.words)]

LEMMA BlocksTokensAre ==
    ASSUME NEW bs \in Seq(SBlock)
    PROVE  /\ WordsWeight \in [SBlock -> Nat]
           /\ BlocksTokens(bs) = Weigh(WordsWeight, bs) /\ BlocksTokens(bs) \in Nat
<1>1. WordsWeight \in [SBlock -> Nat]
  <2>1. ASSUME NEW b \in SBlock PROVE Tokens(b.words) \in Nat
    <3>1. b.words \in Seq(Word)
      BY DEF SBlock
    <3> QED BY <3>1, TokensAre
  <2> QED BY <2>1 DEF WordsWeight
<1>2. DOMAIN bs = 1..Len(bs) /\ \A k \in 1..Len(bs) : WordsWeight[bs[k]] = Tokens(bs[k].words)
  BY DEF WordsWeight
<1>3. [k \in DOMAIN bs |-> Tokens(bs[k].words)] = Weights(WordsWeight, bs)
  BY <1>2 DEF Weights
<1> QED BY <1>1, <1>3, WeighTyped DEF BlocksTokens, Weigh

LEMMA GroupTokensAre ==
    ASSUME NEW g \in Seq(Section)
    PROVE  /\ SectionWeight \in [Section -> Nat]
           /\ GroupTokens(g) = Weigh(SectionWeight, g) /\ GroupTokens(g) \in Nat
<1>1. SectionWeight \in [Section -> Nat]
  <2>1. ASSUME NEW s \in Section PROVE SectionTokens(s) \in Nat
    <3>1. Tokens(s.title) \in Nat /\ BlocksTokens(s.blocks) \in Nat
      BY SectionFields, TokensAre, BlocksTokensAre
    <3> QED BY <3>1 DEF SectionTokens
  <2> QED BY <2>1 DEF SectionWeight
<1>2. DOMAIN g = 1..Len(g) /\ \A k \in 1..Len(g) : SectionWeight[g[k]] = SectionTokens(g[k])
  BY DEF SectionWeight
<1>3. [k \in DOMAIN g |-> SectionTokens(g[k])] = Weights(SectionWeight, g)
  BY <1>2 DEF Weights
<1> QED BY <1>1, <1>3, WeighTyped DEF GroupTokens, Weigh

LEMMA GroupTokensJoin ==
    ASSUME NEW g \in Seq(Section), NEW h \in Seq(Section)
    PROVE  GroupTokens(g \o h) = GroupTokens(g) + GroupTokens(h)
<1>1. g \o h \in Seq(Section)
  OBVIOUS
<1>2. /\ GroupTokens(g) = Weigh(SectionWeight, g) /\ GroupTokens(h) = Weigh(SectionWeight, h)
      /\ GroupTokens(g \o h) = Weigh(SectionWeight, g \o h)
  <2> DEFINE w == g \o h
  <2> HIDE DEF w
  <2>1. w \in Seq(Section)
    BY <1>1 DEF w
  <2>2. GroupTokens(w) = Weigh(SectionWeight, w)
    BY <2>1, GroupTokensAre
  <2> QED BY <2>2, GroupTokensAre DEF w
<1>3. Weigh(SectionWeight, g \o h) = Weigh(SectionWeight, g) + Weigh(SectionWeight, h)
  BY GroupTokensAre, WeighConcat
<1> QED BY <1>2, <1>3

LEMMA GroupTokensAppend ==
    ASSUME NEW g \in Seq(Section), NEW s \in Section
    PROVE  GroupTokens(Append(g, s)) = GroupTokens(g) + SectionTokens(s)
<1>1. Append(g, s) \in Seq(Section)
  OBVIOUS
<1>2. SectionWeight[s] = SectionTokens(s)
  BY DEF SectionWeight
<1> QED BY <1>1, <1>2, GroupTokensAre, WeighAppend

LEMMA UnitsWeigh ==
    ASSUME NEW us \in Seq(Unit)
    PROVE  /\ UnitWeight \in [Unit -> Nat]
           /\ UnitsTokens(us) = Weigh(UnitWeight, us) /\ UnitsTokens(us) \in Nat
<1>1. UnitWeight \in [Unit -> Nat]
  <2>1. ASSUME NEW u \in Unit PROVE Tokens(u.words) \in Nat
    <3>1. u.words \in Seq(Word)
      BY DEF Unit
    <3> QED BY <3>1, TokensAre
  <2> QED BY <2>1 DEF UnitWeight
<1>2. \A k \in 1..Len(us) : UnitWeight[us[k]] = Tokens(us[k].words)
  BY DEF UnitWeight
<1>3. [k \in 1..Len(us) |-> Tokens(us[k].words)] = Weights(UnitWeight, us)
  BY <1>2 DEF Weights
<1> QED BY <1>1, <1>3, UnitsTokensAre DEF Weigh

LEMMA UnitsTokensJoin ==
    ASSUME NEW us \in Seq(Unit), NEW vs \in Seq(Unit)
    PROVE  UnitsTokens(us \o vs) = UnitsTokens(us) + UnitsTokens(vs)
<1>1. us \o vs \in Seq(Unit)
  OBVIOUS
<1>2. /\ UnitsTokens(us) = Weigh(UnitWeight, us) /\ UnitsTokens(vs) = Weigh(UnitWeight, vs)
      /\ UnitsTokens(us \o vs) = Weigh(UnitWeight, us \o vs)
  <2> DEFINE w == us \o vs
  <2> HIDE DEF w
  <2>1. w \in Seq(Unit)
    BY <1>1 DEF w
  <2>2. UnitsTokens(w) = Weigh(UnitWeight, w)
    BY <2>1, UnitsWeigh
  <2> QED BY <2>2, UnitsWeigh DEF w
<1>3. Weigh(UnitWeight, us \o vs) = Weigh(UnitWeight, us) + Weigh(UnitWeight, vs)
  BY UnitsWeigh, WeighConcat
<1> QED BY <1>2, <1>3

-----------------------------------------------------------------------------

\* The last part takes more.
LEMMA CutsJoin ==
    ASSUME NEW C, NEW parts \in Seq(Seq(C)), NEW whole \in Seq(C), NEW c, Cuts(c, parts, whole),
           NEW part \in Seq(C), Len(parts) > 0
    PROVE  \E d : Cuts(d, [parts EXCEPT ![Len(parts)] = @ \o part], whole \o part)
<1> DEFINE n == Len(parts)
           ps == [parts EXCEPT ![n] = @ \o part]
           w == whole \o part
           d == [k \in 0..n |-> IF k < n THEN c[k] ELSE Len(w)]
<1>0. n \in Nat /\ n > 0 /\ n \in 1..Len(parts) /\ parts[n] \in Seq(C) /\ parts[n] \o part \in Seq(C)
  OBVIOUS
<1>1. /\ Len(ps) = n /\ ps[n] = parts[n] \o part
      /\ \A k \in 1..n : k # n => ps[k] = parts[k]
  BY <1>0
<1>2. /\ w \in Seq(C) /\ Len(w) = Len(whole) + Len(part) /\ Len(whole) \in Nat /\ Len(part) \in Nat
      /\ \A i \in 1..Len(whole) : w[i] = whole[i]
      /\ \A i \in (Len(whole) + 1)..Len(w) : w[i] = part[i - Len(whole)]
  OBVIOUS
<1>3. \A k \in 0..n : c[k] \in 0..Len(whole)
  BY DEF Cuts
<1>4. /\ \A k \in 0..n : k < n => d[k] = c[k]
      /\ d[n] = Len(w)
      /\ d \in [0..n -> 0..Len(w)]
  BY <1>0, <1>2, <1>3
<1>5. d[0] = 0
  BY <1>0, <1>4 DEF Cuts
<1> HIDE DEF ps, w, d, n
<1>6. ASSUME NEW k \in 1..n
      PROVE  d[k - 1] <= d[k] /\ ps[k] = SubSeq(w, d[k - 1] + 1, d[k])
  <2> DEFINE a == c[k - 1]
             b == c[k]
  <2>1. /\ a \in Nat /\ b \in Nat /\ a <= b /\ b <= Len(whole)
        /\ parts[k] = SubSeq(whole, a + 1, b) /\ Len(parts[k]) = b - a
    <3>1. c[k - 1] \in 0..Len(whole) /\ c[k] \in 0..Len(whole) /\ c[k - 1] <= c[k]
          /\ parts[k] = SubSeq(whole, c[k - 1] + 1, c[k]) /\ Len(parts[k]) = c[k] - c[k - 1]
      BY CutsInto DEF n, Into
    <3> HIDE DEF a, b
    <3> QED BY <1>2, <3>1 DEF a, b
  <2>2. d[k - 1] = a
    BY <1>0, <1>4
  <2>3. CASE k # n
    <3>1. d[k] = b /\ ps[k] = parts[k]
      BY <1>1, <1>4, <2>3
    <3> HIDE DEF a, b
    <3>2. SubSeq(w, a + 1, b) = SubSeq(whole, a + 1, b)
      <4>1. ASSUME NEW i \in (a + 1)..b PROVE w[i] = whole[i]
        <5>1. i \in 1..Len(whole)
          BY <1>2, <2>1
        <5> QED BY <1>2, <5>1
      <4> QED BY <1>2, <2>1, <4>1, SubSeqAlike
    <3> QED BY <2>1, <2>2, <3>1, <3>2
  <2>4. CASE k = n
    <3>1. d[k] = Len(w) /\ ps[k] = parts[k] \o part
      BY <1>1, <1>4, <2>4
    <3>2. b = Len(whole)
      BY <2>4 DEF Cuts, n
    <3> HIDE DEF a, b
    <3> DEFINE v == SubSeq(w, a + 1, Len(w))
    <3>3. /\ parts[k] \in Seq(C) /\ Len(parts[k]) = Len(whole) - a
          /\ \A i \in 1..Len(parts[k]) : parts[k][i] = whole[a + i]
      BY <1>2, <2>1, <3>2, SMTT(30) DEF n
    <3> DEFINE lw == Len(whole)
               lp == Len(part)
    <3>0. lw \in Nat /\ lp \in Nat /\ Len(w) = lw + lp /\ Len(parts[k]) = lw - a /\ a <= lw /\ a \in Nat
      BY <1>2, <2>1, <3>2, <3>3
    <3> HIDE DEF lw, lp
    <3>4. /\ v \in Seq(C) /\ Len(v) = lw + lp - a /\ \A i \in 1..Len(v) : v[i] = w[a + i]
      <4>1. a + 1 \in Int /\ Len(w) \in Int /\ \A i \in (a + 1)..Len(w) : w[i] \in C
        <5>1. \A i \in 1..Len(w) : w[i] \in C
          BY <1>2
        <5> QED BY <3>0, <5>1
      <4>2. /\ v \in Seq(C) /\ Len(v) = (IF a + 1 <= Len(w) THEN Len(w) - (a + 1) + 1 ELSE 0)
            /\ \A i \in 1..(Len(w) - (a + 1) + 1) : v[i] = w[a + 1 + i - 1]
        BY <4>1, SubSeqProperties, SMTT(30) DEF v
      <4>3. Len(v) = lw + lp - a
        BY <3>0, <4>2
      <4>4. ASSUME NEW i \in 1..Len(v) PROVE v[i] = w[a + i]
        <5>1. i \in 1..(Len(w) - (a + 1) + 1) /\ a + 1 + i - 1 = a + i
          BY <3>0, <4>3
        <5>2. v[i] = w[a + 1 + i - 1]
          BY <4>2, <5>1
        <5> QED BY <5>1, <5>2
      <4> QED BY <4>2, <4>3, <4>4
    <3> DEFINE q == parts[k] \o part
    <3>5. /\ q \in Seq(C) /\ Len(q) = Len(parts[k]) + lp
          /\ \A i \in 1..(Len(parts[k]) + lp) : q[i] = IF i <= Len(parts[k]) THEN parts[k][i] ELSE part[i - Len(parts[k])]
      BY <3>3, ConcatProperties DEF lp
    <3> HIDE DEF q
    <3>6. Len(q) = lw + lp - a
      <4>1. Len(q) = lw - a + lp
        BY <3>0, <3>5
      <4> QED BY <3>0, <4>1
    <3>7. ASSUME NEW i \in 1..Len(v) PROVE q[i] = v[i]
      <4>0. i \in Nat /\ i >= 1 /\ i <= lw + lp - a /\ i \in 1..(Len(parts[k]) + lp)
        BY <3>0, <3>4
      <4>1. CASE i <= Len(parts[k])
        <5>1. i \in 1..Len(parts[k]) /\ a + i \in 1..lw
          BY <3>0, <4>0, <4>1
        <5>2. q[i] = parts[k][i] /\ parts[k][i] = whole[a + i] /\ v[i] = w[a + i]
          BY <3>3, <3>4, <3>5, <4>0, <4>1, <5>1
        <5>3. w[a + i] = whole[a + i]
          BY <1>2, <5>1 DEF lw
        <5> QED BY <5>2, <5>3
      <4>2. CASE i > Len(parts[k])
        <5>1. a + i \in (lw + 1)..Len(w) /\ (a + i) - lw = i - Len(parts[k]) /\ ~ (i <= Len(parts[k]))
          BY <3>0, <4>0, <4>2
        <5>2. q[i] = part[i - Len(parts[k])]
          BY <3>5, <4>0, <5>1
        <5>3. v[i] = w[a + i] /\ w[a + i] = part[(a + i) - lw]
          <6>1. v[i] = w[a + i]
            BY <3>4
          <6>2. \A j \in (lw + 1)..Len(w) : w[j] = part[j - lw]
            BY <1>2 DEF lw
          <6> DEFINE j == a + i
          <6>3. j \in (lw + 1)..Len(w)
            BY <5>1
          <6>4. w[j] = part[j - lw]
            <7> HIDE DEF j
            <7> QED BY <6>2, <6>3
          <6> QED BY <6>1, <6>4, Zenon
        <5> QED BY <5>1, <5>2, <5>3
      <4> QED BY <3>0, <4>0, <4>1, <4>2
    <3>8. q = v
      BY <3>4, <3>5, <3>6, <3>7, SeqEqual
    <3>9. a <= Len(w)
      BY <1>2, <2>1
    <3> QED BY <2>2, <3>1, <3>8, <3>9 DEF q, v
  <2> QED BY <2>3, <2>4
<1>7. Cuts(d, ps, w)
  BY <1>1, <1>4, <1>5, <1>6 DEF Cuts
<1>8. \E e : Cuts(e, ps, w)
  BY <1>7
<1> QED BY <1>8 DEF ps, w, n

Merging == [merged : Seq(Seq(Section)), group : Seq(Section)]

\* One section, or several that fit.
GroupOK(g) == Len(g) > 0 /\ (Len(g) > 1 => GroupTokens(g) <= Target)

\* Groups cut the sections w.
GroupsOf(groups, w) ==
    /\ groups \in Seq(Seq(Section))
    /\ \E c : Cuts(c, groups, w)
    /\ \A i \in 1..Len(groups) : GroupOK(groups[i])

Merged(acc, S, k) ==
    /\ \E w \in Seq(Section) : GroupsOf(acc.merged, w) /\ w \o acc.group = SubSeq(S, 1, k)
    /\ acc.group # <<>> => GroupOK(acc.group)

LEMMA CloseGroupKeeps ==
    ASSUME NEW acc \in Merging, NEW w \in Seq(Section), GroupsOf(acc.merged, w),
           acc.group # <<>> => GroupOK(acc.group)
    PROVE  GroupsOf(CloseGroup(acc), w \o acc.group)
<1> DEFINE m == acc.merged
           g == acc.group
           n == Len(m)
<1>1. m \in Seq(Seq(Section)) /\ g \in Seq(Section) /\ n \in Nat
  BY DEF Merging
<1>2. PICK c : Cuts(c, m, w)
  BY DEF GroupsOf
<1>3. \A i \in 1..n : GroupOK(m[i])
  BY DEF GroupsOf
<1> DEFINE joins == /\ Len(g) = 1
                    /\ GroupTokens(g) < MinimumSectionTokens
                    /\ n > 0
                    /\ GroupTokens(m[n]) + GroupTokens(g) <= Target
<1>4. CASE g = <<>>
  <2>1. CloseGroup(acc) = m
    BY <1>4 DEF CloseGroup
  <2>2. w \o g = w
    BY <1>4
  <2> QED BY <2>1, <2>2
<1>5. CASE g # <<>> /\ joins
  <2> DEFINE new == [m EXCEPT ![n] = @ \o g]
  <2>1. CloseGroup(acc) = new
    BY <1>5 DEF CloseGroup
  <2>0. n > 0 /\ GroupTokens(m[n]) + GroupTokens(g) <= Target /\ Len(g) = 1 /\ n = Len(m)
    BY <1>5
  <2> HIDE DEF m, g, n
  <2>2. n \in 1..n /\ m[n] \in Seq(Section) /\ Len(m[n]) > 0
    <3>1. n \in 1..n
      BY <1>1, <2>0
    <3>2. m[n] \in Seq(Section)
      BY <1>1, <2>0, <3>1
    <3> QED BY <1>3, <3>1, <3>2 DEF GroupOK
  <2>3. m[n] \o g \in Seq(Section) /\ GroupTokens(m[n] \o g) <= Target
    BY <1>1, <2>0, <2>2, GroupTokensJoin
  <2>4. GroupOK(m[n] \o g)
    <3>1. Len(m[n] \o g) = Len(m[n]) + Len(g)
      BY <1>1, <2>2
    <3> QED BY <1>1, <2>0, <2>2, <2>3, <3>1 DEF GroupOK
  <2>5. new \in Seq(Seq(Section)) /\ Len(new) = n /\ new[n] = m[n] \o g
        /\ \A i \in 1..n : i # n => new[i] = m[i]
    <3> DEFINE e == m[n] \o g
    <3>1. e \in Seq(Section) /\ n \in 1..Len(m) /\ new = [m EXCEPT ![n] = e]
      BY <2>0, <2>2, <2>3
    <3> HIDE DEF e, new
    <3>2. new \in Seq(Seq(Section)) /\ Len(new) = Len(m)
          /\ \A i \in 1..Len(m) : new[i] = IF i = n THEN e ELSE m[i]
      BY <1>1, <3>1, ExceptSeq
    <3> QED BY <2>0, <3>1, <3>2 DEF e
  <2>6. \E d : Cuts(d, new, w \o g)
    <3>1. \E d : Cuts(d, [m EXCEPT ![Len(m)] = @ \o g], w \o g)
      BY <1>1, <1>2, <2>0, CutsJoin
    <3> QED BY <2>0, <3>1
  <2> HIDE DEF new
  <2>7. \A i \in 1..Len(new) : GroupOK(new[i])
    BY <1>3, <2>4, <2>5
  <2>8. GroupsOf(CloseGroup(acc), w \o g)
    BY <2>1, <2>5, <2>6, <2>7 DEF GroupsOf
  <2> QED BY <2>8 DEF g
<1>6. CASE g # <<>> /\ ~joins
  <2> DEFINE new == Append(m, g)
  <2>1. CloseGroup(acc) = new
    BY <1>6 DEF CloseGroup
  <2>2. new \in Seq(Seq(Section)) /\ Len(new) = n + 1 /\ new[n + 1] = g /\ \A i \in 1..n : new[i] = m[i]
    BY <1>1
  <2>3. \E d : Cuts(d, new, w \o g)
    <3> HIDE DEF g, m
    <3> QED BY <1>1, <1>2, CutsNext
  <2>4. GroupOK(g)
    BY <1>6
  <2> HIDE DEF new, m, g, n
  <2>5. \A i \in 1..Len(new) : GroupOK(new[i])
    <3> SUFFICES ASSUME NEW i \in 1..(n + 1) PROVE GroupOK(new[i])
      BY <2>2
    <3>1. i = n + 1 \/ i \in 1..n
      BY <1>1
    <3> QED BY <1>3, <2>2, <2>4, <3>1
  <2>6. GroupsOf(CloseGroup(acc), w \o g)
    BY <2>1, <2>2, <2>3, <2>5 DEF GroupsOf
  <2> QED BY <2>6 DEF g
<1> QED BY <1>4, <1>5, <1>6

LEMMA AddSectionTyped ==
    ASSUME NEW acc \in Merging, NEW s \in Section
    PROVE  AddSection(acc, s) \in Merging
<1> DEFINE m == acc.merged
           g == acc.group
           n == Len(m)
<1>1. m \in Seq(Seq(Section)) /\ g \in Seq(Section) /\ n \in Nat
  BY DEF Merging
<1>2. CloseGroup(acc) \in Seq(Seq(Section))
  <2>1. ASSUME n > 0 PROVE [m EXCEPT ![n] = @ \o g] \in Seq(Seq(Section))
    BY <1>1, <2>1
  <2>2. Append(m, g) \in Seq(Seq(Section))
    BY <1>1
  <2> QED BY <1>1, <2>1, <2>2 DEF CloseGroup
<1>3. [merged |-> CloseGroup(acc), group |-> <<s>>] \in Merging
  <2>1. <<s>> \in Seq(Section)
    OBVIOUS
  <2> QED BY <1>2, <2>1 DEF Merging
<1>4. [acc EXCEPT !.group = Append(@, s)] \in Merging
  BY <1>1 DEF Merging
<1> QED BY <1>3, <1>4 DEF AddSection

LEMMA AddSectionKeeps ==
    ASSUME NEW S \in Seq(Section), NEW acc \in Merging, NEW k \in 1..Len(S), Merged(acc, S, k - 1)
    PROVE  Merged(AddSection(acc, S[k]), S, k)
<1> DEFINE s == S[k]
           g == acc.group
           new == AddSection(acc, s)
<1>1. acc.merged \in Seq(Seq(Section)) /\ g \in Seq(Section) /\ s \in Section
  BY DEF Merging
<1>2. PICK w \in Seq(Section) : GroupsOf(acc.merged, w) /\ w \o g = SubSeq(S, 1, k - 1)
  BY DEF Merged
<1>3. SubSeq(S, 1, k) = SubSeq(S, 1, k - 1) \o <<s>>
  <2>1. 1 \in 1..Len(S) /\ k \in 1..Len(S)
    OBVIOUS
  <2> QED BY <2>1, SubSeqRecursiveSecond
<1> DEFINE fits == /\ g # <<>>
                   /\ GroupTokens(g) < MinimumSectionTokens
                   /\ GroupTokens(g) + SectionTokens(s) <= Target
<1>4. CASE fits
  <2>1. new = [acc EXCEPT !.group = Append(@, s)]
    BY <1>4 DEF AddSection
  <2>2. new.merged = acc.merged /\ new.group = Append(g, s)
    BY <2>1 DEF Merging
  <2>0. g # <<>> /\ GroupTokens(g) + SectionTokens(s) <= Target
    BY <1>4
  <2> HIDE DEF new, g, s
  <2>3. Len(Append(g, s)) = Len(g) + 1 /\ Append(g, s) = g \o <<s>> /\ Len(g) \in Nat /\ <<s>> \in Seq(Section)
    BY <1>1, AppendProperties, AppendIsConcat
  <2>4. GroupOK(Append(g, s))
    <3>1. GroupTokens(Append(g, s)) = GroupTokens(g) + SectionTokens(s)
      BY <1>1, GroupTokensAppend
    <3> QED BY <2>0, <2>3, <3>1 DEF GroupOK
  <2>5. w \o (g \o <<s>>) = (w \o g) \o <<s>>
    BY <1>1, <2>3, ConcatAssociative, SMTT(30)
  <2>6. w \o Append(g, s) = SubSeq(S, 1, k)
    BY <1>2, <1>3, <2>3, <2>5
  <2>7. Merged(new, S, k)
    BY <1>2, <2>2, <2>4, <2>6 DEF Merged
  <2> QED BY <2>7 DEF new, s
<1>5. CASE ~ fits
  <2>1. new = [merged |-> CloseGroup(acc), group |-> <<s>>]
    BY <1>5 DEF AddSection
  <2>2. new.merged = CloseGroup(acc) /\ new.group = <<s>>
    BY <2>1
  <2>3. w \o g \in Seq(Section) /\ GroupsOf(CloseGroup(acc), w \o g)
    <3>1. acc.group # <<>> => GroupOK(acc.group)
      BY DEF Merged
    <3>2. GroupsOf(CloseGroup(acc), w \o g)
      BY <1>2, <3>1, CloseGroupKeeps
    <3> HIDE DEF g
    <3> QED BY <1>1, <3>2
  <2>4. Len(<<s>>) = 1
    OBVIOUS
  <2> HIDE DEF new, g, s
  <2>5. (w \o g) \o <<s>> = SubSeq(S, 1, k)
    BY <1>2, <1>3
  <2>6. GroupOK(<<s>>)
    BY <2>4 DEF GroupOK
  <2>7. Merged(new, S, k)
    BY <2>2, <2>3, <2>5, <2>6 DEF Merged
  <2> QED BY <2>7 DEF new, s
<1> QED BY <1>4, <1>5

\* The groups are the sections in order; several share one only when they fit.
LEMMA GroupsAre ==
    ASSUME NEW S \in Seq(Section)
    PROVE  GroupsOf(MergeSmallSections(S), S)
<1> DEFINE n == Len(S)
           start == [merged |-> <<>>, group |-> <<>>]
<1>1. n \in Nat
  OBVIOUS
<1>2. start \in Merging
  BY DEF Merging
<1>3. PICK r \in [0..n -> Merging] :
        /\ r[0] = start
        /\ \A k \in 1..n : r[k] = AddSection(r[k - 1], S[k])
        /\ MergeSmallSections(S) = CloseGroup(r[n])
  <2>1. \A e \in Merging : \A k \in 1..Len(S) : AddSection(e, S[k]) \in Merging
    <3> SUFFICES ASSUME NEW e \in Merging, NEW k \in 1..Len(S) PROVE AddSection(e, S[k]) \in Merging
      OBVIOUS
    <3>1. S[k] \in Section
      OBVIOUS
    <3> QED BY <3>1, AddSectionTyped
  <2> QED BY <1>2, <2>1, MergeSteps
<1> DEFINE T == {k \in 0..n : Merged(r[k], S, k)}
<1>4. 0 \in T
  <2>1. SubSeq(S, 1, 0) = <<>> /\ <<>> \o <<>> = <<>> /\ <<>> \in Seq(Section) /\ <<>> \in Seq(Seq(Section))
        /\ Len(<<>>) = 0
    OBVIOUS
  <2>2. GroupsOf(<<>>, <<>>)
    BY <2>1, CutsNone DEF GroupsOf
  <2>3. start.merged = <<>> /\ start.group = <<>>
    OBVIOUS
  <2> HIDE DEF start
  <2>4. Merged(start, S, 0)
    BY <2>1, <2>2, <2>3 DEF Merged
  <2> QED BY <1>1, <1>3, <2>4
<1>5. ASSUME NEW k \in 1..n, k - 1 \in T
      PROVE  k \in T
  <2>1. k - 1 \in 0..n /\ k \in 0..n /\ k \in 1..Len(S)
    OBVIOUS
  <2>2. r[k - 1] \in Merging /\ r[k] = AddSection(r[k - 1], S[k])
    BY <1>3, <2>1
  <2> QED BY <1>5, <2>1, <2>2, AddSectionKeeps
<1>6. Merged(r[n], S, n) /\ r[n] \in Merging
  <2>1. n \in T
    <3> HIDE DEF T, n
    <3> QED BY <1>1, <1>4, <1>5, Reaches
  <2> QED BY <1>1, <1>3, <2>1
<1>7. PICK w \in Seq(Section) : GroupsOf(r[n].merged, w) /\ w \o r[n].group = SubSeq(S, 1, n)
  BY <1>6 DEF Merged
<1>8. GroupsOf(CloseGroup(r[n]), w \o r[n].group)
  BY <1>6, <1>7, CloseGroupKeeps DEF Merged
<1>9. SubSeq(S, 1, n) = S
  OBVIOUS
<1> QED BY <1>3, <1>7, <1>8, <1>9

-----------------------------------------------------------------------------
(* Words in order                                                          *)

LEMMA PlacesAre ==
    ASSUME NEW w \in Seq(Word)
    PROVE  /\ Places(w) = { w[i].at : i \in 1..Len(w) }
           /\ Places(w) \subseteq Place
           /\ \A i \in 1..Len(w) : w[i].at \in Places(w)
           /\ w # <<>> => Places(w) # {}
<1>1. DOMAIN w = 1..Len(w) /\ Len(w) \in Nat
  OBVIOUS
<1>2. Places(w) = { w[i].at : i \in 1..Len(w) }
  BY <1>1 DEF Places
<1>3. \A i \in 1..Len(w) : w[i].at \in Place
  BY WordAt
<1>4. w # <<>> => 1 \in 1..Len(w)
  OBVIOUS
<1> QED BY <1>2, <1>3, <1>4

LEMMA PlacesConcat ==
    ASSUME NEW u \in Seq(Word), NEW w \in Seq(Word)
    PROVE  /\ u \o w \in Seq(Word)
           /\ Places(u \o w) = Places(u) \cup Places(w)
           /\ InOrder(u) /\ InOrder(w) /\ Precede(u, w) => InOrder(u \o w)
<1> DEFINE v == u \o w
           m == Len(u)
           n == Len(w)
<1>1. /\ v \in Seq(Word) /\ Len(v) = m + n /\ m \in Nat /\ n \in Nat
      /\ \A i \in 1..(m + n) : v[i] = IF i <= m THEN u[i] ELSE w[i - m]
  BY ConcatProperties
<1> HIDE DEF v, m, n
<1>2. \A i \in 1..m : i \in 1..(m + n) /\ v[i] = u[i]
  BY <1>1
<1>3. \A j \in 1..n : m + j \in 1..(m + n) /\ v[m + j] = w[j]
  <2> SUFFICES ASSUME NEW j \in 1..n PROVE m + j \in 1..(m + n) /\ v[m + j] = w[j]
    OBVIOUS
  <2>1. m + j \in 1..(m + n) /\ ~ (m + j <= m) /\ (m + j) - m = j
    BY <1>1
  <2>2. v[m + j] = w[(m + j) - m]
    BY <1>1, <2>1
  <2> QED BY <2>1, <2>2
<1>4. ASSUME NEW i \in 1..(m + n)
      PROVE  \/ i \in 1..m /\ v[i] = u[i]
             \/ i - m \in 1..n /\ v[i] = w[i - m]
  <2>1. CASE i <= m
    BY <1>1, <2>1
  <2>2. CASE ~ (i <= m)
    <3>1. i - m \in 1..n
      BY <1>1, <2>2
    <3> QED BY <1>1, <2>2, <3>1
  <2> QED BY <2>1, <2>2
<1>5. /\ Places(v) = { v[i].at : i \in 1..(m + n) } /\ Places(u) = { u[i].at : i \in 1..m }
      /\ Places(w) = { w[i].at : i \in 1..n }
  BY <1>1, PlacesAre DEF m, n
<1>6. Places(v) \subseteq Places(u) \cup Places(w)
  BY <1>4, <1>5
<1>7. Places(u) \cup Places(w) \subseteq Places(v)
  <2>1. Places(u) \subseteq Places(v)
    BY <1>2, <1>5
  <2>2. Places(w) \subseteq Places(v)
    BY <1>3, <1>5
  <2> QED BY <2>1, <2>2
<1>8. ASSUME InOrder(u), InOrder(w), Precede(u, w)
      PROVE  InOrder(v)
  <2> SUFFICES ASSUME NEW i \in 1..(m + n), NEW j \in 1..(m + n), i < j
               PROVE  Before(v[i].at, v[j].at)
    BY <1>1 DEF InOrder
  <2>1. CASE i \in 1..m /\ v[i] = u[i]
    <3>1. CASE j \in 1..m /\ v[j] = u[j]
      BY <1>8, <2>1, <3>1 DEF InOrder, m
    <3>2. CASE j - m \in 1..n /\ v[j] = w[j - m]
      BY <1>5, <1>8, <2>1, <3>2 DEF Precede
    <3> QED BY <1>4, <3>1, <3>2
  <2>2. CASE i - m \in 1..n /\ v[i] = w[i - m]
    <3>1. CASE j \in 1..m
      BY <1>1, <2>2, <3>1
    <3>2. CASE j - m \in 1..n /\ v[j] = w[j - m]
      <4>1. i - m < j - m
        BY <1>1
      <4> QED BY <1>8, <2>2, <3>2, <4>1 DEF InOrder, n
    <3> QED BY <1>4, <3>1, <3>2
  <2> QED BY <1>4, <2>1, <2>2
<1> QED BY <1>1, <1>6, <1>7, <1>8 DEF v

\* Part of a sequence of words is in order with it.
LEMMA PlacesPart ==
    ASSUME NEW w \in Seq(Word), NEW a \in Nat, NEW b \in Nat, a >= 1, b <= Len(w)
    PROVE  /\ SubSeq(w, a, b) \in Seq(Word)
           /\ Places(SubSeq(w, a, b)) = { w[i].at : i \in a..b }
           /\ Places(SubSeq(w, a, b)) \subseteq Places(w)
           /\ InOrder(w) => InOrder(SubSeq(w, a, b))
<1> DEFINE v == SubSeq(w, a, b)
<1>1. Len(w) \in Nat /\ \A i \in a..b : i \in 1..Len(w) /\ w[i] \in Word
  OBVIOUS
<1>2. /\ v \in Seq(Word) /\ Len(v) = (IF a <= b THEN b - a + 1 ELSE 0)
      /\ \A i \in 1..(b - a + 1) : v[i] = w[a + i - 1]
  BY <1>1, SubSeqProperties
<1> HIDE DEF v
<1>3. \A i \in 1..Len(v) : a + i - 1 \in a..b /\ v[i] = w[a + i - 1]
  <2> SUFFICES ASSUME NEW i \in 1..Len(v) PROVE a + i - 1 \in a..b /\ v[i] = w[a + i - 1]
    OBVIOUS
  <2>1. i \in 1..(b - a + 1)
    BY <1>2
  <2> QED BY <1>2, <2>1
<1>4. \A i \in a..b : i - a + 1 \in 1..Len(v) /\ v[i - a + 1] = w[i]
  <2> SUFFICES ASSUME NEW i \in a..b PROVE i - a + 1 \in 1..Len(v) /\ v[i - a + 1] = w[i]
    OBVIOUS
  <2>1. i - a + 1 \in 1..Len(v) /\ a + (i - a + 1) - 1 = i
    BY <1>2
  <2> QED BY <1>3, <2>1
<1>5. Places(v) = { v[i].at : i \in 1..Len(v) } /\ Places(w) = { w[i].at : i \in 1..Len(w) }
  BY <1>2, PlacesAre
<1>6. Places(v) = { w[i].at : i \in a..b }
  <2>1. Places(v) \subseteq { w[i].at : i \in a..b }
    BY <1>3, <1>5
  <2>2. { w[i].at : i \in a..b } \subseteq Places(v)
    BY <1>4, <1>5
  <2> QED BY <2>1, <2>2
<1>7. Places(v) \subseteq Places(w)
  BY <1>1, <1>5, <1>6
<1>8. ASSUME InOrder(w)
      PROVE  InOrder(v)
  <2> SUFFICES ASSUME NEW i \in 1..Len(v), NEW j \in 1..Len(v), i < j
               PROVE  Before(v[i].at, v[j].at)
    BY DEF InOrder
  <2> DEFINE k == a + i - 1
             l == a + j - 1
  <2>1. k \in 1..Len(w) /\ l \in 1..Len(w) /\ k < l /\ v[i] = w[k] /\ v[j] = w[l]
    BY <1>1, <1>3
  <2> HIDE DEF k, l
  <2> QED BY <1>8, <2>1 DEF InOrder
<1> QED BY <1>2, <1>6, <1>7, <1>8 DEF v

\* A line break before the first word changes nothing of this.
LEMMA BrokenAlike ==
    ASSUME NEW w \in Seq(Word), w # <<>>, NEW break \in {"question", "line"}
    PROVE  LET v == [w EXCEPT ![1].br = break]
           IN  /\ v \in Seq(Word) /\ Len(v) = Len(w)
               /\ Places(v) = Places(w) /\ Tokens(v) = Tokens(w)
               /\ InOrder(w) => InOrder(v)
<1> DEFINE v == [w EXCEPT ![1].br = break]
           f == [w[1] EXCEPT !.br = break]
<1>1. 1 \in 1..Len(w) /\ w[1] \in Word
  OBVIOUS
<1>2. f \in Word /\ f.at = w[1].at /\ f.tok = w[1].tok
  BY <1>1 DEF Word
<1>3. v = [w EXCEPT ![1] = f]
  OBVIOUS
<1> HIDE DEF v, f
<1>4. v \in Seq(Word) /\ Len(v) = Len(w) /\ \A j \in 1..Len(w) : v[j] = IF j = 1 THEN f ELSE w[j]
  BY <1>1, <1>2, <1>3, ExceptSeq
<1>5. \A j \in 1..Len(w) : v[j].at = w[j].at /\ v[j].tok = w[j].tok
  BY <1>2, <1>4
<1>6. Places(v) = Places(w)
  <2>1. Places(v) = { v[i].at : i \in 1..Len(w) } /\ Places(w) = { w[i].at : i \in 1..Len(w) }
    BY <1>4, PlacesAre
  <2>2. { v[i].at : i \in 1..Len(w) } = { w[i].at : i \in 1..Len(w) }
    BY <1>5
  <2> QED BY <2>1, <2>2
<1>7. Tokens(v) = Tokens(w)
  BY <1>4, <1>5, TokensAlike
<1>8. InOrder(w) => InOrder(v)
  BY <1>4, <1>5 DEF InOrder
<1> QED BY <1>4, <1>6, <1>7, <1>8 DEF v

-----------------------------------------------------------------------------
(* Texts of a section                                                      *)

Text == [kind : Kinds, words : Seq(Word), from : SUBSET Nat, answered : BOOLEAN]

\* The blocks of a section: with words, in order.
BodyOK(bs) ==
    /\ bs \in Seq(SBlock)
    /\ \A i \in 1..Len(bs) : bs[i].words # <<>> /\ InOrder(bs[i].words)
    /\ \A i, j \in 1..Len(bs) : i < j => Precede(bs[i].words, bs[j].words)

PlacesOf(bs) == UNION { Places(bs[i].words) : i \in 1..Len(bs) }
IndicesOf(bs) == { bs[i].index : i \in 1..Len(bs) }

\* The text has the blocks p.
TextOf(text, p) ==
    /\ Len(p) > 0
    /\ text.from = IndicesOf(p)
    /\ \A i \in 1..Len(p) : p[i].kind = text.kind
    /\ Len(p) > 1 => text.kind = "qa_pair"
    /\ text.words # <<>>
    /\ InOrder(text.words)
    /\ Places(text.words) = PlacesOf(p)
    /\ Tokens(text.words) = BlocksTokens(p)

\* The texts have the first k blocks of bs, in order.
TextsAt(ts, bs, k) ==
    \E parts \in Seq(Seq(SBlock)) :
        /\ \E c : Cuts(c, parts, SubSeq(bs, 1, k))
        /\ Len(parts) = Len(ts)
        /\ \A t \in 1..Len(ts) : TextOf(ts[t], parts[t])

LEMMA SBlockFields ==
    ASSUME NEW b \in SBlock
    PROVE  /\ b.index \in Nat /\ b.kind \in Kinds /\ b.label \in Labels /\ b.words \in Seq(Word)
           /\ Tokens(b.words) \in Nat
<1>1. b.index \in Nat /\ b.kind \in Kinds /\ b.label \in Labels /\ b.words \in Seq(Word)
  BY DEF SBlock
<1> QED BY <1>1, TokensAre

LEMMA BlocksTokensAppend ==
    ASSUME NEW p \in Seq(SBlock), NEW b \in SBlock
    PROVE  /\ BlocksTokens(Append(p, b)) = BlocksTokens(p) + Tokens(b.words)
           /\ BlocksTokens(<<b>>) = Tokens(b.words)
<1>1. Append(p, b) \in Seq(SBlock) /\ <<b>> \in Seq(SBlock)
  OBVIOUS
<1>2. WordsWeight[b] = Tokens(b.words)
  BY DEF WordsWeight
<1>3. WordsWeight \in [SBlock -> Nat]
  BY BlocksTokensAre
<1>4. Weigh(WordsWeight, Append(p, b)) = Weigh(WordsWeight, p) + WordsWeight[b]
  BY <1>3, WeighAppend
<1>5. Weigh(WordsWeight, <<b>>) = WordsWeight[b]
  BY <1>3, WeighOne
<1>6. BlocksTokens(Append(p, b)) = Weigh(WordsWeight, Append(p, b))
  <2> DEFINE q == Append(p, b)
  <2> HIDE DEF q
  <2>1. q \in Seq(SBlock)
    BY <1>1 DEF q
  <2>2. BlocksTokens(q) = Weigh(WordsWeight, q)
    BY <2>1, BlocksTokensAre
  <2> QED BY <2>2 DEF q
<1>7. BlocksTokens(<<b>>) = Weigh(WordsWeight, <<b>>) /\ BlocksTokens(p) = Weigh(WordsWeight, p)
  BY <1>1, BlocksTokensAre
<1> QED BY <1>2, <1>4, <1>5, <1>6, <1>7

LEMMA BlocksAppend ==
    ASSUME NEW p \in Seq(SBlock), NEW b \in SBlock
    PROVE  /\ PlacesOf(Append(p, b)) = PlacesOf(p) \cup Places(b.words)
           /\ IndicesOf(Append(p, b)) = IndicesOf(p) \cup {b.index}
           /\ PlacesOf(<<b>>) = Places(b.words)
           /\ IndicesOf(<<b>>) = {b.index}
<1> DEFINE q == Append(p, b)
<1>1. /\ Len(q) = Len(p) + 1 /\ q[Len(p) + 1] = b /\ Len(p) \in Nat
      /\ \A i \in 1..Len(p) : q[i] = p[i]
  OBVIOUS
<1>2. 1..Len(q) = 1..Len(p) \cup {Len(p) + 1}
  BY <1>1
<1>3. Len(<<b>>) = 1 /\ <<b>>[1] = b /\ 1..1 = {1}
  OBVIOUS
<1> HIDE DEF q
<1>4. PlacesOf(q) = PlacesOf(p) \cup Places(b.words)
  BY <1>1, <1>2 DEF PlacesOf
<1>5. IndicesOf(q) = IndicesOf(p) \cup {b.index}
  BY <1>1, <1>2 DEF IndicesOf
<1>6. PlacesOf(<<b>>) = Places(b.words) /\ IndicesOf(<<b>>) = {b.index}
  BY <1>3 DEF PlacesOf, IndicesOf
<1> QED BY <1>4, <1>5, <1>6 DEF q

LEMMA RunOnTyped ==
    ASSUME NEW text \in Text, NEW b \in SBlock, b.words # <<>>
    PROVE  /\ RunOn(text, b) \in Text
           /\ RunOn(text, b).kind = text.kind
           /\ RunOn(text, b).from = text.from \cup {b.index}
           /\ \E v \in Seq(Word) :
                /\ RunOn(text, b).words = text.words \o v
                /\ Places(v) = Places(b.words) /\ Tokens(v) = Tokens(b.words) /\ Len(v) = Len(b.words)
                /\ InOrder(b.words) => InOrder(v)
<1> DEFINE break == IF b.label = "Q" THEN "question" ELSE "line"
           v == [b.words EXCEPT ![1].br = break]
           f == [ kind     |-> text.kind,
                  words    |-> text.words \o v,
                  from     |-> text.from \cup {b.index},
                  answered |-> text.answered \/ b.label = "A" ]
<1>1. /\ v \in Seq(Word) /\ Len(v) = Len(b.words) /\ Places(v) = Places(b.words)
      /\ Tokens(v) = Tokens(b.words)
      /\ InOrder(b.words) => InOrder(v)
  BY SBlockFields, BrokenAlike
<1>2. RunOn(text, b) = f
  BY DEF RunOn
<1> HIDE DEF v
<1>3. f \in Text
  <2>1. text.words \o v \in Seq(Word) /\ text.from \cup {b.index} \in SUBSET Nat /\ text.kind \in Kinds
    BY <1>1, SBlockFields DEF Text
  <2>2. (text.answered \/ b.label = "A") \in BOOLEAN
    OBVIOUS
  <2> QED BY <2>1, <2>2 DEF Text
<1>4. f.words = text.words \o v
  OBVIOUS
<1>5. f.kind = text.kind /\ f.from = text.from \cup {b.index}
  OBVIOUS
<1> HIDE DEF f
<1> QED BY <1>1, <1>2, <1>3, <1>4, <1>5

LEMMA AddTextTyped ==
    ASSUME NEW ts \in Seq(Text), NEW b \in SBlock, b.words # <<>>
    PROVE  AddText(ts, b) \in Seq(Text)
<1> DEFINE n == Len(ts)
<1>2. CASE RunsOn(ts, b)
  <2>1. ts # <<>>
    BY <1>2 DEF RunsOn
  <2>2. n \in 1..Len(ts) /\ ts[n] \in Text
    BY <2>1
  <2> DEFINE f == RunOn(ts[n], b)
  <2>3. AddText(ts, b) = [ts EXCEPT ![n] = f]
    BY <1>2 DEF AddText
  <2>4. f \in Text
    BY <2>2, RunOnTyped
  <2> HIDE DEF f
  <2> QED BY <2>2, <2>3, <2>4, ExceptSeq
<1>3. CASE ~ RunsOn(ts, b)
  <2> DEFINE f == [kind |-> b.kind, words |-> b.words, from |-> {b.index}, answered |-> b.label = "A"]
  <2>1. AddText(ts, b) = Append(ts, f)
    BY <1>3 DEF AddText
  <2>2. f \in Text
    BY SBlockFields DEF Text
  <2> QED BY <2>1, <2>2
<1> QED BY <1>2, <1>3

LEMMA TextFields ==
    ASSUME NEW text \in Text
    PROVE  /\ text.kind \in Kinds /\ text.words \in Seq(Word) /\ text.from \in SUBSET Nat
           /\ text.answered \in BOOLEAN /\ Tokens(text.words) \in Nat
<1>1. text.kind \in Kinds /\ text.words \in Seq(Word) /\ text.from \in SUBSET Nat /\ text.answered \in BOOLEAN
  BY DEF Text
<1> QED BY <1>1, TokensAre

LEMMA RunOnKeeps ==
    ASSUME NEW text \in Text, NEW p \in Seq(SBlock), TextOf(text, p),
           NEW b \in SBlock, b.words # <<>>, InOrder(b.words),
           b.kind = "qa_pair", text.kind = "qa_pair",
           \A i \in 1..Len(p) : Precede(p[i].words, b.words)
    PROVE  TextOf(RunOn(text, b), Append(p, b))
<1> DEFINE f == RunOn(text, b)
           q == Append(p, b)
<1>1. PICK v \in Seq(Word) : /\ f.words = text.words \o v
                             /\ Places(v) = Places(b.words) /\ Tokens(v) = Tokens(b.words)
                             /\ Len(v) = Len(b.words)
                             /\ InOrder(b.words) => InOrder(v)
  BY RunOnTyped
<1>2. f \in Text /\ f.kind = text.kind /\ f.from = text.from \cup {b.index}
  BY RunOnTyped
<1>3. /\ q \in Seq(SBlock) /\ Len(q) = Len(p) + 1 /\ q[Len(p) + 1] = b /\ Len(p) \in Nat
      /\ \A i \in 1..Len(p) : q[i] = p[i]
  OBVIOUS
<1>4. /\ PlacesOf(q) = PlacesOf(p) \cup Places(b.words)
      /\ IndicesOf(q) = IndicesOf(p) \cup {b.index}
      /\ BlocksTokens(q) = BlocksTokens(p) + Tokens(b.words)
  BY BlocksAppend, BlocksTokensAppend
<1> HIDE DEF f, q
<1>5. text.words \in Seq(Word) /\ text.from = IndicesOf(p) /\ Places(text.words) = PlacesOf(p)
      /\ Tokens(text.words) = BlocksTokens(p) /\ InOrder(text.words) /\ text.words # <<>>
  BY TextFields DEF TextOf
<1>6. Precede(text.words, v)
  <2> SUFFICES ASSUME NEW x \in PlacesOf(p), NEW y \in Places(b.words)
               PROVE  Before(x, y)
    BY <1>1, <1>5 DEF Precede
  <2>1. PICK i \in 1..Len(p) : x \in Places(p[i].words)
    BY DEF PlacesOf
  <2> QED BY <2>1 DEF Precede
<1>7. Places(f.words) = PlacesOf(q) /\ InOrder(f.words)
  BY <1>1, <1>4, <1>5, <1>6, PlacesConcat
<1>8. Tokens(f.words) = BlocksTokens(q)
  BY <1>1, <1>4, <1>5, TokensConcat
<1>9. f.words # <<>>
  <2>1. Len(text.words) > 0 /\ Len(text.words) \in Nat /\ Len(v) \in Nat
    BY <1>5
  <2>2. Len(f.words) = Len(text.words) + Len(v)
    <3>1. Len(text.words \o v) = Len(text.words) + Len(v)
      BY <1>5, ConcatProperties
    <3> QED BY <1>1, <3>1
  <2> QED BY <2>1, <2>2
<1>10. \A i \in 1..Len(q) : q[i].kind = f.kind
  <2> SUFFICES ASSUME NEW i \in 1..(Len(p) + 1) PROVE q[i].kind = f.kind
    BY <1>3
  <2>1. i = Len(p) + 1 \/ i \in 1..Len(p)
    BY <1>3
  <2> QED BY <1>2, <1>3, <2>1 DEF TextOf
<1>11. f.from = IndicesOf(q) /\ Len(q) > 0 /\ f.kind = "qa_pair"
  BY <1>2, <1>3, <1>4, <1>5
<1>12. TextOf(f, q)
  BY <1>7, <1>8, <1>9, <1>10, <1>11 DEF TextOf
<1> QED BY <1>12 DEF f, q

LEMMA NewTextOf ==
    ASSUME NEW b \in SBlock, b.words # <<>>, InOrder(b.words)
    PROVE  TextOf([kind |-> b.kind, words |-> b.words, from |-> {b.index}, answered |-> b.label = "A"], <<b>>)
<1> DEFINE f == [kind |-> b.kind, words |-> b.words, from |-> {b.index}, answered |-> b.label = "A"]
<1>1. f.kind = b.kind /\ f.words = b.words /\ f.from = {b.index}
  OBVIOUS
<1>2. Len(<<b>>) = 1 /\ <<b>>[1] = b /\ \A i \in 1..1 : i = 1
  OBVIOUS
<1>3. PlacesOf(<<b>>) = Places(b.words) /\ IndicesOf(<<b>>) = {b.index}
      /\ BlocksTokens(<<b>>) = Tokens(b.words)
  <2>1. <<>> \in Seq(SBlock)
    OBVIOUS
  <2> QED BY <2>1, BlocksAppend, BlocksTokensAppend
<1> HIDE DEF f
<1>4. TextOf(f, <<b>>)
  BY <1>1, <1>2, <1>3 DEF TextOf
<1> QED BY <1>4 DEF f

LEMMA AddTextKeeps ==
    ASSUME NEW bs, BodyOK(bs), NEW ts \in Seq(Text), NEW k \in 1..Len(bs), TextsAt(ts, bs, k - 1)
    PROVE  TextsAt(AddText(ts, bs[k]), bs, k)
<1> DEFINE b == bs[k]
           n == Len(ts)
           whole == SubSeq(bs, 1, k - 1)
<1>1. /\ bs \in Seq(SBlock) /\ b \in SBlock /\ b.words # <<>> /\ InOrder(b.words) /\ n \in Nat
      /\ Len(bs) \in Nat
  BY DEF BodyOK
<1>2. PICK parts \in Seq(Seq(SBlock)) : /\ \E c : Cuts(c, parts, whole)
                                        /\ Len(parts) = n
                                        /\ \A t \in 1..n : TextOf(ts[t], parts[t])
  BY DEF TextsAt
<1>3. PICK c : Cuts(c, parts, whole)
  BY <1>2
<1>4. /\ whole \in Seq(SBlock) /\ Len(whole) = k - 1
      /\ \A i \in 1..(k - 1) : whole[i] = bs[i]
  BY <1>1
<1>5. SubSeq(bs, 1, k) = whole \o <<b>>
  <2>1. 1 \in 1..Len(bs) /\ k \in 1..Len(bs)
    BY <1>1
  <2> QED BY <1>1, <2>1, SubSeqRecursiveSecond
<1>6. <<b>> \in Seq(SBlock)
  BY <1>1
<1>7. CASE RunsOn(ts, b)
  <2>1. /\ ts # <<>> /\ b.kind = "qa_pair" /\ ts[n].kind = "qa_pair"
        /\ AddText(ts, b) = [ts EXCEPT ![n] = RunOn(ts[n], b)]
    BY <1>7 DEF RunsOn, AddText, Last
  <2> HIDE DEF b, whole, n
  <2>2. n > 0 /\ n \in 1..n /\ ts[n] \in Text /\ parts[n] \in Seq(SBlock) /\ TextOf(ts[n], parts[n])
    <3>1. n > 0 /\ n = Len(ts)
      BY <1>1, <2>1 DEF n
    <3>2. n \in 1..n
      BY <1>1, <3>1
    <3> QED BY <1>2, <3>1, <3>2
  <2>3. ASSUME NEW i \in 1..Len(parts[n])
        PROVE  Precede(parts[n][i].words, b.words)
    <3>1. c[n - 1] + i \in 1..Len(whole) /\ parts[n][i] = whole[c[n - 1] + i]
      <4>1. n \in 1..Len(parts)
        BY <1>2, <2>2
      <4>2. \A j \in 1..Len(parts[n]) : /\ c[n - 1] + j \in (c[n - 1] + 1)..c[n]
                                         /\ c[n - 1] + j \in 1..Len(whole)
                                         /\ parts[n][j] = whole[c[n - 1] + j]
        <5>1. Into(c, parts, whole, n)
          BY <1>2, <1>3, <1>4, <4>1, CutsInto
        <5> QED BY <5>1 DEF Into
      <4> QED BY <4>2
    <3> DEFINE j == c[n - 1] + i
    <3> HIDE DEF j
    <3>2. j \in 1..(k - 1) /\ parts[n][i] = bs[j]
      BY <1>4, <3>1 DEF j
    <3>3. j \in 1..Len(bs) /\ j < k
      BY <1>1, <3>2
    <3> QED BY <3>2, <3>3 DEF BodyOK, b
  <2>4. TextOf(RunOn(ts[n], b), Append(parts[n], b)) /\ RunOn(ts[n], b) \in Text
    BY <1>1, <2>1, <2>2, <2>3, RunOnKeeps, RunOnTyped
  <2> DEFINE qs == [parts EXCEPT ![n] = @ \o <<b>>]
             us == [ts EXCEPT ![n] = RunOn(ts[n], b)]
             p == parts[n] \o <<b>>
             f == RunOn(ts[n], b)
  <2>5. p = Append(parts[n], b) /\ p \in Seq(SBlock)
    BY <1>1, <2>2, AppendIsConcat, AppendProperties
  <2>6. qs = [parts EXCEPT ![n] = p]
    OBVIOUS
  <2>7. \E d : Cuts(d, qs, whole \o <<b>>)
    <3>1. \E d : Cuts(d, [parts EXCEPT ![Len(parts)] = @ \o <<b>>], whole \o <<b>>)
      BY <1>2, <1>3, <1>4, <1>6, <2>2, CutsJoin
    <3> QED BY <1>2, <3>1
  <2> HIDE DEF qs, p, f
  <2>8. qs \in Seq(Seq(SBlock)) /\ Len(qs) = n /\ \A i \in 1..n : qs[i] = IF i = n THEN p ELSE parts[i]
    <3>1. n \in 1..Len(parts)
      BY <1>2, <2>2
    <3> QED BY <1>2, <2>5, <2>6, <3>1, ExceptSeq
  <2>9. us \in Seq(Text) /\ Len(us) = n /\ \A i \in 1..n : us[i] = IF i = n THEN f ELSE ts[i]
    <3>1. n \in 1..Len(ts) /\ f \in Text /\ n = Len(ts)
      BY <2>2, <2>4 DEF f, n
    <3>2. us = [ts EXCEPT ![n] = f]
      BY DEF f
    <3> QED BY <3>1, <3>2, ExceptSeq
  <2> HIDE DEF us
  <2>10. \A t \in 1..n : TextOf(us[t], qs[t])
    BY <1>2, <2>4, <2>5, <2>8, <2>9 DEF f
  <2>11. TextsAt(us, bs, k)
    BY <1>5, <2>7, <2>8, <2>9, <2>10 DEF TextsAt
  <2> QED BY <2>1, <2>11 DEF us, b
<1>8. CASE ~ RunsOn(ts, b)
  <2> DEFINE f == [kind |-> b.kind, words |-> b.words, from |-> {b.index}, answered |-> b.label = "A"]
             us == Append(ts, f)
             qs == Append(parts, <<b>>)
  <2>1. AddText(ts, b) = us
    BY <1>8 DEF AddText
  <2>2. f \in Text
    BY <1>1, SBlockFields DEF Text
  <2>3. TextOf(f, <<b>>)
    BY <1>1, NewTextOf
  <2> HIDE DEF f, b, whole, n
  <2>4. us \in Seq(Text) /\ Len(us) = n + 1 /\ us[n + 1] = f /\ \A t \in 1..n : us[t] = ts[t]
    BY <2>2 DEF n
  <2>5. qs \in Seq(Seq(SBlock)) /\ Len(qs) = n + 1 /\ qs[n + 1] = <<b>> /\ \A t \in 1..n : qs[t] = parts[t]
    BY <1>2, <1>6
  <2>6. \E d : Cuts(d, qs, whole \o <<b>>)
    BY <1>3, <1>4, <1>6, CutsNext
  <2> HIDE DEF us, qs
  <2>7. \A t \in 1..(n + 1) : TextOf(us[t], qs[t])
    <3> SUFFICES ASSUME NEW t \in 1..(n + 1) PROVE TextOf(us[t], qs[t])
      OBVIOUS
    <3>1. t = n + 1 \/ t \in 1..n
      BY <1>1
    <3> QED BY <1>2, <2>3, <2>4, <2>5, <3>1
  <2>8. TextsAt(us, bs, k)
    BY <1>5, <2>4, <2>5, <2>6, <2>7 DEF TextsAt
  <2> QED BY <2>1, <2>8 DEF b
<1> QED BY <1>7, <1>8

\* The texts of a section are its blocks in order; several blocks share one
\* only when they are questions and answers.
LEMMA TextsAre ==
    ASSUME NEW bs, BodyOK(bs)
    PROVE  /\ SectionTexts(bs) \in Seq(Text)
           /\ \E parts \in Seq(Seq(SBlock)) :
                /\ \E c : Cuts(c, parts, bs)
                /\ Len(parts) = Len(SectionTexts(bs))
                /\ \A t \in 1..Len(parts) : TextOf(SectionTexts(bs)[t], parts[t])
<1> DEFINE n == Len(bs)
<1>1. bs \in Seq(SBlock) /\ n \in Nat
  BY DEF BodyOK
<1>2. PICK r \in [0..n -> Seq(Text)] :
        /\ r[0] = <<>>
        /\ \A k \in 1..n : r[k] = AddText(r[k - 1], bs[k])
        /\ SectionTexts(bs) = r[n]
  <2>1. \A e \in Seq(Text) : \A k \in 1..Len(bs) : AddText(e, bs[k]) \in Seq(Text)
    <3> SUFFICES ASSUME NEW e \in Seq(Text), NEW k \in 1..Len(bs) PROVE AddText(e, bs[k]) \in Seq(Text)
      OBVIOUS
    <3>1. bs[k] \in SBlock /\ bs[k].words # <<>>
      BY <1>1 DEF BodyOK
    <3> QED BY <3>1, AddTextTyped
  <2>2. <<>> \in Seq(Text)
    OBVIOUS
  <2> QED BY <1>1, <2>1, <2>2, TextSteps
<1> DEFINE T == {k \in 0..n : TextsAt(r[k], bs, k)}
<1>3. 0 \in T
  <2>1. SubSeq(bs, 1, 0) = <<>> /\ <<>> \in Seq(Seq(SBlock)) /\ Len(<<>>) = 0
    BY <1>1
  <2>2. \E c : Cuts(c, <<>>, SubSeq(bs, 1, 0))
    BY <2>1, CutsNone
  <2>3. TextsAt(<<>>, bs, 0)
    <3>1. \A t \in 1..Len(<<>>) : TextOf(<<>>[t], <<>>[t])
      BY <2>1
    <3> QED BY <2>1, <2>2, <3>1 DEF TextsAt
  <2> QED BY <1>1, <1>2, <2>3
<1>4. ASSUME NEW k \in 1..n, k - 1 \in T
      PROVE  k \in T
  <2>1. k - 1 \in 0..n /\ k \in 0..n /\ k \in 1..Len(bs)
    BY <1>1
  <2>2. r[k - 1] \in Seq(Text) /\ r[k] = AddText(r[k - 1], bs[k]) /\ TextsAt(r[k - 1], bs, k - 1)
    BY <1>2, <1>4, <2>1
  <2>3. TextsAt(r[k], bs, k)
    BY <2>1, <2>2, AddTextKeeps
  <2> QED BY <2>1, <2>3
<1>5. n \in T
  <2> HIDE DEF T, n
  <2> QED BY <1>1, <1>3, <1>4, Reaches
<1>6. SubSeq(bs, 1, n) = bs
  BY <1>1
<1>7. r[n] \in Seq(Text)
  BY <1>1, <1>2
<1>8. TextsAt(r[n], bs, n)
  BY <1>5
<1> HIDE DEF n
<1> QED BY <1>2, <1>6, <1>7, <1>8 DEF TextsAt

-----------------------------------------------------------------------------
(* Parts of a text                                                         *)

\* parts cut w, and none is empty.
WayOf(parts, w) ==
    /\ parts \in Seq(Seq(Word))
    /\ \E c : Cuts(c, parts, w)
    /\ \A k \in 1..Len(parts) : parts[k] # <<>>

LEMMA SplitAtCuts ==
    ASSUME NEW w \in Seq(Word), w # <<>>, NEW places
    PROVE  WayOf(SplitAt(w, places), w)
<1> DEFINE n == Len(w)
           x == [i \in DOMAIN w |-> i]
           I == {1} \cup places
           s == At(x, I)
           End(k) == IF k = Len(s) THEN n ELSE s[k + 1] - 1
           parts == SplitAt(w, places)
<1>1. n \in Nat /\ n > 0 /\ DOMAIN w = 1..n
  OBVIOUS
<1>2. x \in Seq(1..n) /\ Len(x) = n /\ \A i \in 1..n : x[i] = i
  BY <1>1
<1>3. parts = [k \in DOMAIN s |-> SubSeq(w, s[k], End(k))]
  BY DEF SplitAt
<1> HIDE DEF x
<1>4. s \in Seq(1..n) /\ \E e : Picks(e, s, x, I, n)
  BY <1>2, AtPicks
<1> HIDE DEF s, I, parts
<1> DEFINE m == Len(s)
<1>5. PICK e : Picks(e, s, x, I, n)
  BY <1>4
<1>6. m \in Nat /\ DOMAIN s = 1..m /\ \A k \in 1..m : s[k] \in 1..n
  BY <1>4
<1>7. ASSUME NEW k \in 1..m
      PROVE  s[k] = e[k]
  <2>1. s[k] = x[e[k]] /\ e[k] \in 1..n
    BY <1>2, <1>5 DEF Picks
  <2> QED BY <1>2, <2>1
<1>8. ASSUME NEW k \in 1..m, NEW l \in 1..m, k < l
      PROVE  s[k] < s[l]
  BY <1>5, <1>7, <1>8 DEF Picks, Ascends
<1>9. m > 0 /\ s[1] = 1
  <2>1. 1 \in 1..n /\ 1 \in I
    BY <1>1 DEF I
  <2>2. PICK k \in 1..m : e[k] = 1
    BY <1>5, <2>1 DEF Picks
  <2>3. m > 0 /\ 1 \in 1..m
    BY <1>6, <2>2
  <2>4. k = 1
    <3> SUFFICES ASSUME k # 1 PROVE FALSE
      OBVIOUS
    <3>1. s[1] < s[k] /\ s[k] = 1 /\ s[1] \in 1..n
      BY <1>6, <1>7, <1>8, <2>2, <2>3
    <3> QED BY <3>1
  <2> QED BY <1>7, <2>2, <2>3, <2>4
<1>10. ASSUME NEW k \in 1..m
       PROVE  End(k) \in s[k]..n /\ (k < m => End(k) = s[k + 1] - 1)
  <2>1. CASE k = m
    BY <1>6, <2>1
  <2>2. CASE k # m
    <3>1. k + 1 \in 1..m /\ k < k + 1
      <4>1. m \in Nat /\ k # m /\ k \in 1..m
        BY <1>6, <2>2
      <4> HIDE DEF m
      <4> QED BY <4>1
    <3>2. s[k] < s[k + 1] /\ s[k] \in 1..n /\ s[k + 1] \in 1..n
      BY <1>6, <1>8, <3>1
    <3> QED BY <2>2, <3>2
  <2> QED BY <2>1, <2>2
<1> DEFINE c == [k \in 0..m |-> IF k = 0 THEN 0 ELSE End(k)]
<1>11. /\ c[0] = 0 /\ \A k \in 1..m : c[k] = End(k)
       /\ c \in [0..m -> 0..n]
  <2>1. ASSUME NEW k \in 1..m PROVE End(k) \in 0..n
    <3>1. s[k] \in 1..n /\ End(k) \in s[k]..n
      BY <1>6, <1>10
    <3> HIDE DEF End
    <3> QED BY <1>1, <3>1
  <2> HIDE DEF End
  <2>2. \A k \in 0..m : k # 0 => k \in 1..m
    BY <1>6
  <2>3. 0 \in 0..n /\ 0 \in 0..m
    BY <1>1, <1>6
  <2>4. \A k \in 0..m : (IF k = 0 THEN 0 ELSE End(k)) \in 0..n
    BY <2>1, <2>2, <2>3
  <2>5. \A k \in 1..m : k \in 0..m /\ k # 0
    BY <1>6
  <2> QED BY <2>3, <2>4, <2>5
<1>12. \A k \in 1..m : c[k - 1] + 1 = s[k]
  <2> SUFFICES ASSUME NEW k \in 1..m PROVE c[k - 1] + 1 = s[k]
    OBVIOUS
  <2>1. CASE k = 1
    <3>1. c[k - 1] = 0
      BY <1>11, <2>1
    <3> QED BY <1>9, <2>1, <3>1
  <2>2. CASE k # 1
    <3>1. k - 1 \in 1..m /\ k - 1 < m /\ (k - 1) + 1 = k
      BY <1>6, <2>2
    <3>2. End(k - 1) = s[k] - 1
      BY <1>10, <3>1
    <3>3. s[k] \in 1..n
      BY <1>6
    <3>4. c[k - 1] = s[k] - 1
      BY <1>11, <3>1, <3>2
    <3> QED BY <3>3, <3>4
  <2> QED BY <2>1, <2>2
<1> HIDE DEF c, End
<1>13. /\ DOMAIN parts = 1..m
       /\ \A k \in 1..m : parts[k] = SubSeq(w, s[k], End(k))
  BY <1>3, <1>6
<1>14. ASSUME NEW k \in 1..m
       PROVE  parts[k] \in Seq(Word) /\ parts[k] # <<>>
  <2>1. s[k] \in 1..n /\ End(k) \in s[k]..n
    BY <1>6, <1>10
  <2> DEFINE a == s[k]
             b == End(k)
  <2> HIDE DEF a, b
  <2>2. a \in Int /\ b \in Int /\ a <= b /\ \A i \in a..b : w[i] \in Word
    BY <1>1, <2>1 DEF a, b
  <2>3. SubSeq(w, a, b) \in Seq(Word) /\ Len(SubSeq(w, a, b)) = b - a + 1
    BY <2>2, SubSeqProperties
  <2>4. Len(SubSeq(w, a, b)) > 0
    BY <2>2, <2>3
  <2>5. SubSeq(w, a, b) # <<>>
    <3> DEFINE v == SubSeq(w, a, b)
    <3> HIDE DEF v
    <3>1. Len(v) > 0
      BY <2>4 DEF v
    <3>2. v # <<>>
      BY <3>1
    <3> QED BY <3>2 DEF v
  <2> QED BY <1>13, <2>3, <2>5 DEF a, b
<1>15. parts \in Seq(Seq(Word)) /\ Len(parts) = m
  <2>1. parts = [k \in 1..m |-> parts[k]]
    BY <1>3, <1>6, <1>13
  <2> QED BY <1>6, <1>14, <2>1
<1>16. Cuts(c, parts, w)
  <2>1. c[m] = n
    <3>1. m \in 1..m
      BY <1>6, <1>9
    <3> QED BY <1>11, <3>1 DEF End
  <2>2. ASSUME NEW k \in 1..m
        PROVE  c[k - 1] <= c[k] /\ parts[k] = SubSeq(w, c[k - 1] + 1, c[k])
    <3>1. c[k - 1] + 1 = s[k] /\ c[k] = End(k) /\ End(k) \in s[k]..n /\ s[k] \in 1..n
      BY <1>6, <1>10, <1>11, <1>12
    <3>2. c[k - 1] \in 0..n
      <4>1. k - 1 \in 0..m
        BY <1>6
      <4> QED BY <1>11, <4>1
    <3>3. c[k - 1] <= c[k]
      BY <3>1, <3>2
    <3> QED BY <1>13, <3>1, <3>3
  <2> QED BY <1>11, <1>15, <2>1, <2>2 DEF Cuts
<1> QED BY <1>14, <1>15, <1>16 DEF WayOf, parts

LEMMA WholeWay ==
    ASSUME NEW w \in Seq(Word), w # <<>>
    PROVE  WayOf(<<w>>, w)
<1>1. <<w>> \in Seq(Seq(Word)) /\ Len(<<w>>) = 1 /\ <<w>>[1] = w
  OBVIOUS
<1>2. Cuts([k \in 0..1 |-> IF k = 0 THEN 0 ELSE Len(w)], <<w>>, w)
  <2> DEFINE c == [k \in 0..1 |-> IF k = 0 THEN 0 ELSE Len(w)]
  <2>1. c \in [0..1 -> 0..Len(w)] /\ c[0] = 0 /\ c[1] = Len(w) /\ 1 - 1 = 0 /\ 0 + 1 = 1
    OBVIOUS
  <2>2. SubSeq(w, 1, Len(w)) = w /\ Len(w) \in Nat
    OBVIOUS
  <2> HIDE DEF c
  <2>3. Cuts(c, <<w>>, w)
    BY <1>1, <2>1, <2>2 DEF Cuts
  <2> QED BY <2>3 DEF c
<1> QED BY <1>1, <1>2 DEF WayOf

LEMMA WordsWay ==
    ASSUME NEW w \in Seq(Word)
    PROVE  /\ WayOf([i \in DOMAIN w |-> <<w[i]>>], w)
           /\ Len([i \in DOMAIN w |-> <<w[i]>>]) = Len(w)
           /\ \A i \in 1..Len(w) : [j \in DOMAIN w |-> <<w[j]>>][i] = <<w[i]>>
<1> DEFINE ps == [i \in DOMAIN w |-> <<w[i]>>]
           n == Len(w)
           c == [k \in 0..n |-> k]
<1>1. n \in Nat /\ DOMAIN w = 1..n
  OBVIOUS
<1>2. \A i \in 1..n : ps[i] = <<w[i]>> /\ <<w[i]>> \in Seq(Word) /\ <<w[i]>> # <<>>
  BY <1>1
<1>3. ps \in Seq(Seq(Word)) /\ Len(ps) = n
  BY <1>1, <1>2
<1>4. \A i \in 1..n : SubSeq(w, (i - 1) + 1, i) = <<w[i]>>
  <2> SUFFICES ASSUME NEW i \in 1..n PROVE SubSeq(w, (i - 1) + 1, i) = <<w[i]>>
    OBVIOUS
  <2>1. (i - 1) + 1 = i
    OBVIOUS
  <2>2. SubSeq(w, i, i) = <<w[i]>>
    <3> DEFINE v == SubSeq(w, i, i)
    <3>1. i \in Int /\ \A j \in i..i : w[j] \in Word
      OBVIOUS
    <3>2. v \in Seq(Word) /\ Len(v) = 1 /\ \A j \in 1..(i - i + 1) : v[j] = w[i + j - 1]
      BY <3>1, SubSeqProperties
    <3> HIDE DEF v
    <3>3. v[1] = w[i]
      BY <3>2
    <3>4. v = <<w[i]>>
      BY <3>2, <3>3
    <3> QED BY <3>4 DEF v
  <2> QED BY <2>1, <2>2
<1>5. c \in [0..n -> 0..n] /\ c[0] = 0 /\ c[n] = n /\ \A k \in 1..n : c[k - 1] = k - 1 /\ c[k] = k
  BY <1>1
<1> HIDE DEF ps, c
<1>6. Cuts(c, ps, w)
  <2>1. ASSUME NEW k \in 1..n PROVE c[k - 1] <= c[k] /\ ps[k] = SubSeq(w, c[k - 1] + 1, c[k])
    <3>1. k - 1 <= k
      BY <1>1
    <3> QED BY <1>2, <1>4, <1>5, <3>1
  <2> QED BY <1>3, <1>5, <2>1 DEF Cuts
<1>7. WayOf(ps, w)
  BY <1>2, <1>3, <1>6 DEF WayOf
<1> QED BY <1>2, <1>3, <1>7 DEF ps

Packing == [packed : Seq(Seq(Word)), current : Seq(Word)]

\* Within the limit, or a part by itself.
FitsPart(p, way, max) ==
    p # <<>> /\ (Tokens(p) <= max \/ \E i \in 1..Len(way) : p = way[i])

\* What is packed of the words up to v.
PackedTo(acc, way, max, v) ==
    /\ \E u \in Seq(Word) : (\E c : Cuts(c, acc.packed, u)) /\ u \o acc.current = v
    /\ \A i \in 1..Len(acc.packed) : FitsPart(acc.packed[i], way, max)
    /\ acc.current # <<>> => FitsPart(acc.current, way, max)

LEMMA WordsAssociate ==
    \A s, t, w \in Seq(Word) : (s \o t) \o w = s \o (t \o w)
  BY ConcatAssociative

LEMMA PackPartIs ==
    ASSUME NEW acc \in Packing, NEW part \in Seq(Word), NEW max \in Nat
    PROVE  /\ PackPart(acc, part, max) \in Packing
           /\ \/ /\ acc.current # <<>>
                 /\ PackPart(acc, part, max) = [packed |-> Append(acc.packed, acc.current), current |-> part]
              \/ /\ acc.current = <<>> \/ Tokens(acc.current \o part) <= max
                 /\ PackPart(acc, part, max) = [packed |-> acc.packed, current |-> acc.current \o part]
<1>1. acc.packed \in Seq(Seq(Word)) /\ acc.current \in Seq(Word)
  BY DEF Packing
<1>2. CASE acc.current # <<>> /\ Tokens(acc.current) + Tokens(part) > max
  <2>1. PackPart(acc, part, max) = [packed |-> Append(acc.packed, acc.current), current |-> part]
    BY <1>2 DEF PackPart
  <2>2. Append(acc.packed, acc.current) \in Seq(Seq(Word))
    BY <1>1
  <2> QED BY <1>2, <2>1, <2>2 DEF Packing
<1>3. CASE ~ (acc.current # <<>> /\ Tokens(acc.current) + Tokens(part) > max)
  <2>1. \A t : [acc EXCEPT !.current = t] = [packed |-> acc.packed, current |-> t]
    BY DEF Packing
  <2>2. PackPart(acc, part, max) = [packed |-> acc.packed, current |-> acc.current \o part]
    BY <1>3, <2>1 DEF PackPart
  <2>3. acc.current \o part \in Seq(Word)
    BY <1>1
  <2>4. Tokens(acc.current \o part) = Tokens(acc.current) + Tokens(part)
        /\ Tokens(acc.current) \in Nat /\ Tokens(part) \in Nat
    BY <1>1, TokensConcat, TokensAre
  <2>5. acc.current = <<>> \/ Tokens(acc.current \o part) <= max
    BY <1>3, <2>4
  <2> QED BY <1>1, <2>2, <2>3, <2>5 DEF Packing
<1> QED BY <1>2, <1>3

LEMMA PackPartKeeps ==
    ASSUME NEW acc \in Packing, NEW way \in Seq(Seq(Word)), NEW max \in Nat, NEW v \in Seq(Word),
           PackedTo(acc, way, max, v), NEW k \in 1..Len(way), way[k] # <<>>
    PROVE  PackedTo(PackPart(acc, way[k], max), way, max, v \o way[k])
<1> DEFINE part == way[k]
           q == acc.packed
           g == acc.current
           new == PackPart(acc, part, max)
<1>1. q \in Seq(Seq(Word)) /\ g \in Seq(Word) /\ part \in Seq(Word)
  BY DEF Packing
<1>2. PICK u \in Seq(Word) : (\E c : Cuts(c, q, u)) /\ u \o g = v
  BY DEF PackedTo
<1>0. (u \o g) \o part = u \o (g \o part)
  <2>1. u \in Seq(Word) /\ g \in Seq(Word) /\ part \in Seq(Word)
    BY <1>1, <1>2
  <2> HIDE DEF g, part
  <2> QED BY <2>1, WordsAssociate, Zenon
<1>3. PICK c : Cuts(c, q, u)
  BY <1>2
<1>4. (\A i \in 1..Len(q) : FitsPart(q[i], way, max)) /\ (g # <<>> => FitsPart(g, way, max))
  BY DEF PackedTo
<1>5. part # <<>> /\ FitsPart(part, way, max)
  BY DEF FitsPart
<1>6. CASE g # <<>> /\ new = [packed |-> Append(q, g), current |-> part]
  <2>1. new.packed = Append(q, g) /\ new.current = part
    BY <1>6
  <2> HIDE DEF q, g, new, part
  <2>2. \E d : Cuts(d, Append(q, g), u \o g)
    BY <1>1, <1>2, <1>3, CutsNext
  <2>3. /\ Len(Append(q, g)) = Len(q) + 1 /\ Append(q, g)[Len(q) + 1] = g /\ Len(q) \in Nat
        /\ \A i \in 1..Len(q) : Append(q, g)[i] = q[i]
    BY <1>1
  <2>4. \A i \in 1..Len(Append(q, g)) : FitsPart(Append(q, g)[i], way, max)
    <3> SUFFICES ASSUME NEW i \in 1..(Len(q) + 1) PROVE FitsPart(Append(q, g)[i], way, max)
      BY <2>3
    <3>1. i = Len(q) + 1 \/ i \in 1..Len(q)
      BY <2>3
    <3> QED BY <1>4, <1>6, <2>3, <3>1
  <2>5. PackedTo(new, way, max, v \o part)
    <3>1. \E w \in Seq(Word) : (\E d : Cuts(d, Append(q, g), w)) /\ w \o part = v \o part
      BY <1>2, <2>2
    <3> QED BY <1>5, <2>1, <2>4, <3>1 DEF PackedTo
  <2> QED BY <2>5 DEF new, part
<1>7. CASE /\ g = <<>> \/ Tokens(g \o part) <= max
           /\ new = [packed |-> q, current |-> g \o part]
  <2>0. new = [packed |-> q, current |-> g \o part]
    BY <1>7
  <2>2. g = <<>> \/ Tokens(g \o part) <= max
    BY <1>7
  <2> HIDE DEF q, g, new, part
  <2>1. new.packed = q /\ new.current = g \o part
    BY <2>0
  <2>3. u \o (g \o part) = v \o part
    <3>1. (u \o g) \o part = u \o (g \o part)
      BY <1>0
    <3> QED BY <1>2, <3>1
  <2>4. FitsPart(g \o part, way, max)
    <3>1. CASE g = <<>>
      <4>1. g \o part = part
        BY <1>1, <3>1
      <4> QED BY <1>5, <4>1
    <3>2. CASE Tokens(g \o part) <= max
      <4>1. g \o part # <<>>
        BY <1>1, <1>5, ConcatEqualIffEmpty
      <4> QED BY <3>2, <4>1 DEF FitsPart
    <3> QED BY <2>2, <3>1, <3>2
  <2>5. PackedTo(new, way, max, v \o part)
    BY <1>2, <1>4, <2>1, <2>3, <2>4 DEF PackedTo
  <2> QED BY <2>5 DEF new, part
<1> QED BY <1>1, <1>6, <1>7, PackPartIs

\* The parts are packed in order; one over the limit stays as it is.
LEMMA PackPartsCut ==
    ASSUME NEW w \in Seq(Word), w # <<>>, NEW way, WayOf(way, w), NEW max \in Nat
    PROVE  /\ WayOf(PackParts(way, max), w)
           /\ \A i \in 1..Len(PackParts(way, max)) : FitsPart(PackParts(way, max)[i], way, max)
<1> DEFINE n == Len(way)
           start == [packed |-> <<>>, current |-> <<>>]
<1>1. way \in Seq(Seq(Word)) /\ n \in Nat /\ \A k \in 1..n : way[k] # <<>>
  BY DEF WayOf
<1>2. PICK c : Cuts(c, way, w)
  BY DEF WayOf
<1>3. start \in Packing
  BY DEF Packing
<1>4. PICK r \in [0..n -> Packing] :
        /\ r[0] = start
        /\ \A k \in 1..n : r[k] = PackPart(r[k - 1], way[k], max)
        /\ PackParts(way, max) = Append(r[n].packed, r[n].current)
  <2>1. \A e \in Packing : \A k \in 1..Len(way) : PackPart(e, way[k], max) \in Packing
    <3> SUFFICES ASSUME NEW e \in Packing, NEW k \in 1..Len(way) PROVE PackPart(e, way[k], max) \in Packing
      OBVIOUS
    <3>1. way[k] \in Seq(Word)
      BY <1>1
    <3> QED BY <3>1, PackPartIs
  <2> QED BY <1>1, <1>3, <2>1, PackSteps
<1> DEFINE T == {k \in 0..n : /\ PackedTo(r[k], way, max, SubSeq(w, 1, c[k]))
                              /\ k > 0 => r[k].current # <<>>}
<1>5. 0 \in T
  <2>1. SubSeq(w, 1, c[0]) = <<>>
    <3>1. c[0] = 0 /\ SubSeq(w, 1, 0) = <<>>
      BY <1>2 DEF Cuts
    <3> QED BY <3>1
  <2>2. <<>> \in Seq(Word) /\ <<>> \o <<>> = <<>> /\ 1..Len(<<>>) = {}
    OBVIOUS
  <2>3. start.packed = <<>> /\ start.current = <<>>
    OBVIOUS
  <2> HIDE DEF start
  <2>4. PackedTo(start, way, max, <<>>)
    <3>1. \E d : Cuts(d, <<>>, <<>>)
      BY CutsNone
    <3>2. \A i \in 1..Len(start.packed) : FitsPart(start.packed[i], way, max)
      BY <2>2, <2>3
    <3>3. \E u \in Seq(Word) : (\E d : Cuts(d, start.packed, u)) /\ u \o start.current = <<>>
      BY <2>2, <2>3, <3>1
    <3> QED BY <2>3, <3>2, <3>3 DEF PackedTo
  <2>5. PackedTo(r[0], way, max, SubSeq(w, 1, c[0]))
    BY <1>4, <2>1, <2>4
  <2> QED BY <1>1, <2>5
<1>6. ASSUME NEW k \in 1..n, k - 1 \in T
      PROVE  k \in T
  <2>1. k - 1 \in 0..n /\ k \in 0..n /\ k \in 1..Len(way) /\ way[k] \in Seq(Word) /\ way[k] # <<>>
    BY <1>1
  <2>2. r[k - 1] \in Packing /\ r[k] = PackPart(r[k - 1], way[k], max)
    BY <1>4, <2>1
  <2> DEFINE v == SubSeq(w, 1, c[k - 1])
  <2>3. PackedTo(r[k - 1], way, max, v)
    BY <1>6
  <2>4. v \in Seq(Word)
    <3>1. c[k - 1] \in 0..Len(w)
      BY <1>1, <1>2, <2>1, CutsInto DEF Into
    <3> DEFINE e == c[k - 1]
    <3> HIDE DEF e
    <3>2. e \in Int /\ 1 \in Int /\ \A i \in 1..e : w[i] \in Word
      BY <3>1 DEF e
    <3>3. SubSeq(w, 1, e) \in Seq(Word)
      BY <3>2, SubSeqProperties
    <3> QED BY <3>3 DEF e
  <2>5. SubSeq(w, 1, c[k]) = v \o way[k]
    BY <1>1, <1>2, <2>1, CutsFirst
  <2> HIDE DEF v
  <2>6. PackedTo(r[k], way, max, v \o way[k])
    BY <1>1, <2>1, <2>2, <2>3, <2>4, PackPartKeeps
  <2>7. r[k].current # <<>>
    <3>1. CASE r[k] = [packed |-> Append(r[k - 1].packed, r[k - 1].current), current |-> way[k]]
      BY <2>1, <3>1
    <3>2. CASE r[k] = [packed |-> r[k - 1].packed, current |-> r[k - 1].current \o way[k]]
      <4>1. r[k].current = r[k - 1].current \o way[k] /\ r[k - 1].current \in Seq(Word)
        <5>1. r[k - 1].current \in Seq(Word)
          BY <2>2 DEF Packing
        <5>2. r[k].current = r[k - 1].current \o way[k]
          <6> DEFINE e == r[k - 1].current \o way[k]
          <6>1. r[k] = [packed |-> r[k - 1].packed, current |-> e]
            BY <3>2
          <6> HIDE DEF e
          <6>2. r[k].current = e
            BY <6>1
          <6> QED BY <6>2 DEF e
        <5> QED BY <5>1, <5>2
      <4> QED BY <2>1, <4>1, ConcatEqualIffEmpty
    <3> QED BY <2>1, <2>2, <3>1, <3>2, PackPartIs
  <2>8. PackedTo(r[k], way, max, SubSeq(w, 1, c[k]))
    BY <2>5, <2>6
  <2> QED BY <2>1, <2>7, <2>8
<1>7. n \in T
  <2> HIDE DEF T, n
  <2> QED BY <1>1, <1>5, <1>6, Reaches
<1>8. n > 0
  <2> SUFFICES ASSUME n = 0 PROVE FALSE
    BY <1>1
  <2>1. c[0] = 0 /\ c[n] = Len(w) /\ Len(w) > 0
    BY <1>2 DEF Cuts
  <2> HIDE DEF n
  <2> QED BY <2>1
<1> DEFINE q == r[n].packed
           g == r[n].current
<1>9. q \in Seq(Seq(Word)) /\ g \in Seq(Word) /\ g # <<>>
  <2>1. r[n] \in Packing
    <3>1. n \in 0..n
      BY <1>1
    <3> HIDE DEF n
    <3> QED BY <1>4, <3>1
  <2>2. r[n].current # <<>>
    BY <1>7, <1>8
  <2> QED BY <2>1, <2>2 DEF Packing
<1>10. SubSeq(w, 1, c[n]) = w
  <2>1. c[n] = Len(w) /\ SubSeq(w, 1, Len(w)) = w
    BY <1>2 DEF Cuts
  <2> QED BY <2>1
<1>11. PackedTo(r[n], way, max, w)
  BY <1>7, <1>10
<1>12. PICK u \in Seq(Word) : (\E d : Cuts(d, q, u)) /\ u \o g = w
  BY <1>11 DEF PackedTo
<1>13. (\A i \in 1..Len(q) : FitsPart(q[i], way, max)) /\ FitsPart(g, way, max)
  BY <1>9, <1>11 DEF PackedTo
<1>14. PackParts(way, max) = Append(q, g)
  BY <1>4
<1> HIDE DEF q, g
<1>15. /\ Append(q, g) \in Seq(Seq(Word)) /\ Len(Append(q, g)) = Len(q) + 1 /\ Append(q, g)[Len(q) + 1] = g
       /\ Len(q) \in Nat
       /\ \A i \in 1..Len(q) : Append(q, g)[i] = q[i]
  BY <1>9
<1>16. \E d : Cuts(d, Append(q, g), w)
  <2>1. PICK d : Cuts(d, q, u)
    BY <1>12
  <2>2. \E f : Cuts(f, Append(q, g), u \o g)
    BY <1>9, <1>12, <2>1, CutsNext
  <2> QED BY <1>12, <2>2
<1>17. \A i \in 1..Len(Append(q, g)) : FitsPart(Append(q, g)[i], way, max)
  <2> SUFFICES ASSUME NEW i \in 1..(Len(q) + 1) PROVE FitsPart(Append(q, g)[i], way, max)
    BY <1>15
  <2>1. i = Len(q) + 1 \/ i \in 1..Len(q)
    BY <1>15
  <2> QED BY <1>13, <1>15, <2>1
<1>18. WayOf(Append(q, g), w)
  BY <1>15, <1>16, <1>17 DEF WayOf, FitsPart
<1> QED BY <1>14, <1>17, <1>18

\* A part that fits, or a word, or a part of a way that splits the text.
PartOK(p, text, max) ==
    /\ p # <<>>
    /\ \/ Tokens(p) <= max
       \/ Len(p) = 1
       \/ \E way \in Range(Splits(text)) : Len(way) > 1 /\ p \in Range(way)

LEMMA SplitsAre ==
    ASSUME NEW text \in Text, text.words # <<>>
    PROVE  /\ Splits(text) \in Seq(Seq(Seq(Word))) /\ Len(Splits(text)) = 5
           /\ \A i \in 1..5 : WayOf(Splits(text)[i], text.words)
           /\ Splits(text)[5] = [i \in DOMAIN text.words |-> <<text.words[i]>>]
<1> DEFINE w == text.words
           questions  == SplitAt(w, { i \in DOMAIN w : w[i].br = "question" })
           lines      == SplitAt(w, { i \in DOMAIN w : w[i].br # "none" })
           paragraphs == SplitAt(w, { i \in DOMAIN w : w[i].br = "blank" })
           sentences  == SplitAt(w, { i \in 2..Len(w) : w[i - 1].ends })
           structured == CASE text.kind = "qa_pair" -> questions
                           [] text.kind \in {"list_item", "table_row"} -> lines
                           [] OTHER -> <<w>>
           words == [i \in DOMAIN w |-> <<w[i]>>]
<1>1. w \in Seq(Word) /\ w # <<>>
  BY TextFields
<1>2. Splits(text) = <<structured, paragraphs, sentences, lines, words>>
  BY DEF Splits
<1> HIDE DEF w
<1>3. WayOf(questions, w) /\ WayOf(lines, w) /\ WayOf(paragraphs, w) /\ WayOf(sentences, w)
  BY <1>1, SplitAtCuts
<1>4. WayOf(<<w>>, w) /\ WayOf(words, w)
  BY <1>1, WholeWay, WordsWay
<1> HIDE DEF questions, lines, paragraphs, sentences, words
<1>5. WayOf(structured, w)
  <2>1. CASE text.kind = "qa_pair"
    BY <1>3, <2>1
  <2>2. CASE text.kind # "qa_pair" /\ text.kind \in {"list_item", "table_row"}
    <3>1. structured = lines
      BY <2>2
    <3> QED BY <1>3, <3>1
  <2>3. CASE text.kind # "qa_pair" /\ text.kind \notin {"list_item", "table_row"}
    <3>1. structured = <<w>>
      BY <2>3
    <3> QED BY <1>4, <3>1
  <2> QED BY <2>1, <2>2, <2>3
<1> HIDE DEF structured
<1> DEFINE s == <<structured, paragraphs, sentences, lines, words>>
<1>6. /\ Len(s) = 5 /\ s[1] = structured /\ s[2] = paragraphs /\ s[3] = sentences /\ s[4] = lines
      /\ s[5] = words /\ DOMAIN s = 1..5
  OBVIOUS
<1>7. \A i \in 1..5 : i = 1 \/ i = 2 \/ i = 3 \/ i = 4 \/ i = 5
  OBVIOUS
<1>8. structured \in Seq(Seq(Word)) /\ paragraphs \in Seq(Seq(Word)) /\ sentences \in Seq(Seq(Word))
      /\ lines \in Seq(Seq(Word)) /\ words \in Seq(Seq(Word))
  BY <1>3, <1>4, <1>5 DEF WayOf
<1>9. s \in Seq(Seq(Seq(Word)))
  BY <1>8
<1> HIDE DEF s
<1>10. \A i \in 1..5 : WayOf(s[i], w)
  BY <1>3, <1>4, <1>5, <1>6, <1>7
<1>11. Splits(text) = s
  BY <1>2 DEF s
<1> QED BY <1>6, <1>9, <1>10, <1>11 DEF w, words

LEMMA SplitLargeTextIs ==
    ASSUME NEW text \in Text, text.words # <<>>, NEW max \in Nat
    PROVE  /\ WayOf(SplitLargeText(text, max), text.words)
           /\ \A i \in 1..Len(SplitLargeText(text, max)) : PartOK(SplitLargeText(text, max)[i], text, max)
<1> DEFINE ways == Splits(text)
           w == text.words
           I == { i \in 1..Len(ways) : Len(ways[i]) > 1 }
           first == SelectInSeq(ways, LAMBDA parts : Len(parts) > 1)
           way == ways[IF first = 0 THEN Len(ways) ELSE first]
           ps == PackParts(way, max)
<1>1. w \in Seq(Word) /\ w # <<>>
  BY TextFields
<1>2. /\ ways \in Seq(Seq(Seq(Word))) /\ Len(ways) = 5 /\ \A i \in 1..5 : WayOf(ways[i], w)
      /\ ways[5] = [i \in DOMAIN w |-> <<w[i]>>]
  BY SplitsAre
<1>3. SplitLargeText(text, max) = ps
  BY DEF SplitLargeText
<1>4. first = IF I = {} THEN 0 ELSE Min(I)
  BY DEF SelectInSeq
<1> HIDE DEF first, ways
<1>5. I \subseteq Nat
  OBVIOUS
<1>6. I # {} => first \in I
  <2> HIDE DEF I
  <2> QED BY <1>4, <1>5, MinOf
<1>7. /\ \E i \in 1..5 : way = ways[i]
      /\ Len(way) > 1 \/ (way = ways[5] /\ ~ (Len(ways[5]) > 1))
  <2>1. CASE I = {}
    <3>1. first = 0 /\ way = ways[5]
      BY <1>2, <1>4, <2>1
    <3>2. ~ (Len(ways[5]) > 1)
      BY <1>2, <2>1
    <3> QED BY <3>1, <3>2
  <2>2. CASE I # {}
    <3>1. first \in 1..5 /\ Len(ways[first]) > 1 /\ first # 0
      BY <1>2, <1>6, <2>2
    <3> QED BY <3>1
  <2> QED BY <2>1, <2>2
<1> HIDE DEF way, I
<1>8. WayOf(way, w)
  BY <1>2, <1>7
<1> HIDE DEF w
<1>9. WayOf(ps, w) /\ \A i \in 1..Len(ps) : FitsPart(ps[i], way, max)
  BY <1>1, <1>8, PackPartsCut
<1>10. ASSUME NEW p, FitsPart(p, way, max)
       PROVE  PartOK(p, text, max)
  <2>1. CASE Tokens(p) <= max
    BY <1>10, <2>1 DEF FitsPart, PartOK
  <2>2. CASE \E i \in 1..Len(way) : p = way[i]
    <3>1. PICK i \in 1..Len(way) : p = way[i]
      BY <2>2
    <3>2. CASE Len(way) > 1
      <4>1. way \in Range(ways)
        BY <1>2, <1>7 DEF Range
      <4>2. way \in Seq(Seq(Word))
        BY <1>8 DEF WayOf
      <4>3. p \in Range(way)
        BY <3>1, <4>2 DEF Range
      <4> QED BY <1>10, <3>2, <4>1, <4>3 DEF FitsPart, PartOK, ways
    <3>3. CASE way = ways[5]
      <4>1. Len(way) = Len(w) /\ \A j \in 1..Len(w) : way[j] = <<w[j]>>
        BY <1>1, <1>2, <3>3, WordsWay
      <4>2. p = <<w[i]>>
        BY <3>1, <4>1
      <4> QED BY <1>10, <4>2 DEF FitsPart, PartOK
    <3> QED BY <1>7, <3>2, <3>3
  <2> QED BY <1>10, <2>1, <2>2 DEF FitsPart
<1> HIDE DEF ps
<1> QED BY <1>3, <1>9, <1>10 DEF w

LEMMA SplitUnitTextIs ==
    ASSUME NEW text \in Text, text.words # <<>>, NEW max \in Nat
    PROVE  /\ WayOf(SplitUnitText(text, max), text.words)
           /\ \A i \in 1..Len(SplitUnitText(text, max)) : PartOK(SplitUnitText(text, max)[i], text, max)
<1>1. text.words \in Seq(Word)
  BY TextFields
<1>2. CASE Tokens(text.words) <= max
  <2>1. SplitUnitText(text, max) = <<text.words>>
    BY <1>2 DEF SplitUnitText
  <2>2. WayOf(<<text.words>>, text.words)
    BY <1>1, WholeWay
  <2>3. Len(<<text.words>>) = 1 /\ \A i \in 1..1 : <<text.words>>[i] = text.words
    OBVIOUS
  <2>4. PartOK(text.words, text, max)
    BY <1>2 DEF PartOK
  <2> QED BY <2>1, <2>2, <2>3, <2>4
<1>3. CASE ~ (Tokens(text.words) <= max)
  <2>1. SplitUnitText(text, max) = SplitLargeText(text, max)
    BY <1>3 DEF SplitUnitText
  <2> QED BY <2>1, SplitLargeTextIs
<1> QED BY <1>2, <1>3

\* Of two parts, every place of the first comes first.
LEMMA CutsApart ==
    ASSUME NEW C, NEW parts \in Seq(Seq(C)), NEW whole \in Seq(C), NEW c, Cuts(c, parts, whole),
           NEW k \in 1..Len(parts), NEW l \in 1..Len(parts), k < l,
           NEW i \in 1..Len(parts[k]), NEW j \in 1..Len(parts[l])
    PROVE  c[k - 1] + i < c[l - 1] + j
<1>1. c[k - 1] \in Nat /\ c[k] \in Nat /\ Len(parts[k]) = c[k] - c[k - 1] /\ Len(whole) \in Nat
  <2>1. Len(whole) \in Nat /\ c[k] \in 0..Len(whole) /\ c[k - 1] \in 0..Len(whole)
        /\ Len(parts[k]) = c[k] - c[k - 1]
    BY CutsInto DEF Into
  <2> QED BY <2>1
<1>2. c[l - 1] \in Nat
  <2>1. c[l - 1] \in 0..Len(whole)
    BY CutsInto DEF Into
  <2> QED BY <1>1, <2>1
<1>3. c[k] <= c[l - 1]
  <2>1. k \in 0..Len(parts) /\ l - 1 \in k..Len(parts) /\ Len(parts) \in Nat
    OBVIOUS
  <2> QED BY <1>1, <2>1, CutsMonotone
<1> DEFINE a == c[k - 1]
           b == c[k]
           e == c[l - 1]
           n == Len(parts[k])
<1>4. a \in Nat /\ b \in Nat /\ e \in Nat /\ n = b - a /\ b <= e
  BY <1>1, <1>2, <1>3
<1>5. i \in Nat /\ i <= n /\ j \in Nat /\ j >= 1
  <2>1. Len(parts[l]) \in Nat
    OBVIOUS
  <2> QED BY <1>4, <2>1
<1> HIDE DEF a, b, e, n
<1>6. a + i < e + j
  BY <1>4, <1>5
<1> QED BY <1>6 DEF a, e

\* A place comes first only if its part does.
LEMMA CutsOrder ==
    ASSUME NEW C, NEW parts \in Seq(Seq(C)), NEW whole \in Seq(C), NEW c, Cuts(c, parts, whole),
           NEW k \in 1..Len(parts), NEW l \in 1..Len(parts),
           NEW i \in 1..Len(whole), NEW j \in 1..Len(whole), i < j,
           i - c[k - 1] \in 1..Len(parts[k]), j - c[l - 1] \in 1..Len(parts[l])
    PROVE  k <= l
<1> SUFFICES ASSUME l < k PROVE FALSE
  OBVIOUS
<1>1. c[l - 1] + (j - c[l - 1]) < c[k - 1] + (i - c[k - 1])
  BY CutsApart
<1>2. c[k - 1] \in 0..Len(whole) /\ c[l - 1] \in 0..Len(whole) /\ Len(whole) \in Nat
  BY CutsInto DEF Into
<1> DEFINE a == c[k - 1]
           e == c[l - 1]
<1>3. e + (j - e) < a + (i - a) /\ a \in Nat /\ e \in Nat /\ i \in Nat /\ j \in Nat
  BY <1>1, <1>2, SMTT(30)
<1> HIDE DEF a, e
<1> QED BY <1>3

-----------------------------------------------------------------------------
(* Units of a text                                                         *)

TextUnits(text, title) ==
    LET parts == SplitUnitText(text, RoomBeside(title))
    IN  [k \in DOMAIN parts |-> [ words   |-> parts[k],
                                  heading |-> FALSE,
                                  title   |-> title,
                                  from    |-> text.from ]]

LEMMA RoomTyped ==
    ASSUME NEW title \in Seq(Word)
    PROVE  /\ RoomBeside(title) \in Nat /\ RoomBeside(title) >= 1
           /\ RoomBeside(title) + Tokens(title) <= Target \/ RoomBeside(title) = 1
           /\ RoomBeside(NoTitle) = Target
<1> DEFINE t == Tokens(title)
<1>1. t \in Nat /\ Target \in Nat /\ Target >= 20
  BY TokensAre, SettingsAssumption
<1> HIDE DEF t
<1>2. ASSUME NEW a \in Int
      PROVE  Max({1, a}) = IF a >= 1 THEN a ELSE 1
  <2>1. CASE a >= 1
    <3>1. \E x \in {1, a} : \A y \in {1, a} : x >= y
      BY <2>1
    <3>2. Max({1, a}) \in {1, a} /\ \A y \in {1, a} : Max({1, a}) >= y
      BY <3>1 DEF Max
    <3> QED BY <2>1, <3>2
  <2>2. CASE ~ (a >= 1)
    <3>1. \E x \in {1, a} : \A y \in {1, a} : x >= y
      BY <2>2
    <3>2. Max({1, a}) \in {1, a} /\ \A y \in {1, a} : Max({1, a}) >= y
      BY <3>1 DEF Max
    <3> QED BY <2>2, <3>2
  <2> QED BY <2>1, <2>2
<1>3. RoomBeside(title) = IF Target - t >= 1 THEN Target - t ELSE 1
  BY <1>1, <1>2 DEF RoomBeside, t
<1>4. Tokens(NoTitle) = 0
  BY TokensNone DEF NoTitle
<1>5. RoomBeside(NoTitle) = Target
  BY <1>1, <1>2, <1>4 DEF RoomBeside
<1>6. RoomBeside(title) \in Nat /\ RoomBeside(title) >= 1
      /\ (RoomBeside(title) + t <= Target \/ RoomBeside(title) = 1)
  BY <1>1, <1>3
<1> QED BY <1>5, <1>6 DEF t

\* A text's units have its words, in order.
LEMMA TextUnitsAre ==
    ASSUME NEW text \in Text, text.words # <<>>, InOrder(text.words), NEW title \in Seq(Word)
    PROVE  LET U == TextUnits(text, title)
           IN  /\ U \in Seq(Unit) /\ Len(U) > 0
               /\ \A i \in 1..Len(U) :
                    /\ U[i].heading = FALSE /\ U[i].title = title /\ U[i].from = text.from
                    /\ PartOK(U[i].words, text, RoomBeside(title))
                    /\ InOrder(U[i].words)
                    /\ Places(U[i].words) \subseteq Places(text.words)
               /\ \A i, j \in 1..Len(U) : i < j => Precede(U[i].words, U[j].words)
               /\ \A x \in Places(text.words) : \E i \in 1..Len(U) : x \in Places(U[i].words)
               /\ UnitsTokens(U) = Tokens(text.words)
<1> DEFINE U == TextUnits(text, title)
           w == text.words
           ps == SplitUnitText(text, RoomBeside(title))
           n == Len(ps)
<1>1. w \in Seq(Word) /\ RoomBeside(title) \in Nat
  BY TextFields, RoomTyped
<1>2. WayOf(ps, w) /\ \A i \in 1..n : PartOK(ps[i], text, RoomBeside(title))
  BY <1>1, SplitUnitTextIs
<1>3. U = [k \in DOMAIN ps |-> [words |-> ps[k], heading |-> FALSE, title |-> title, from |-> text.from]]
  BY DEF TextUnits
<1> HIDE DEF ps, U
<1>4. /\ ps \in Seq(Seq(Word)) /\ n \in Nat /\ DOMAIN ps = 1..n
      /\ \A k \in 1..n : ps[k] \in Seq(Word) /\ ps[k] # <<>>
  BY <1>2 DEF WayOf
<1>5. PICK c : Cuts(c, ps, w)
  BY <1>2 DEF WayOf
<1>5a. ASSUME NEW k \in 1..n
       PROVE  /\ c[k - 1] \in 0..Len(w) /\ c[k] \in 0..Len(w)
              /\ ps[k] = SubSeq(w, c[k - 1] + 1, c[k])
              /\ \A j \in 1..Len(ps[k]) : c[k - 1] + j \in 1..Len(w) /\ ps[k][j] = w[c[k - 1] + j]
  <2> HIDE DEF w
  <2>0. Into(c, ps, w, k)
    BY <1>1, <1>4, <1>5, CutsInto
  <2> QED BY <2>0 DEF Into
<1>6. n > 0
  <2> SUFFICES ASSUME n = 0 PROVE FALSE
    BY <1>4
  <2>1. c[0] = 0 /\ c[n] = Len(w) /\ Len(w) > 0
    BY <1>1, <1>5 DEF Cuts
  <2> HIDE DEF n
  <2> QED BY <2>1
<1>7. \A i \in 1..n : /\ U[i] \in Unit
                      /\ U[i].words = ps[i] /\ U[i].heading = FALSE
                      /\ U[i].title = title /\ U[i].from = text.from
  <2> SUFFICES ASSUME NEW i \in 1..n
               PROVE  /\ U[i] \in Unit
                      /\ U[i].words = ps[i] /\ U[i].heading = FALSE
                      /\ U[i].title = title /\ U[i].from = text.from
    OBVIOUS
  <2>1. U[i] = [words |-> ps[i], heading |-> FALSE, title |-> title, from |-> text.from]
    BY <1>3, <1>4
  <2>2. text.from \in SUBSET Nat
    BY TextFields
  <2> QED BY <1>4, <2>1, <2>2 DEF Unit
<1>8. U \in Seq(Unit) /\ Len(U) = n
  BY <1>3, <1>4, <1>7
<1>9. ASSUME NEW k \in 1..n
      PROVE  InOrder(ps[k]) /\ Places(ps[k]) = { w[m].at : m \in (c[k - 1] + 1)..c[k] }
             /\ Places(ps[k]) \subseteq Places(w)
             /\ c[k - 1] + 1 \in Nat /\ c[k] \in Nat
  <2>1. /\ c[k - 1] \in 0..Len(w) /\ c[k] \in 0..Len(w) /\ Len(w) \in Nat
        /\ ps[k] = SubSeq(w, c[k - 1] + 1, c[k])
    BY <1>5a, <1>1
  <2> DEFINE a == c[k - 1] + 1
             b == c[k]
  <2>2. a \in Nat /\ b \in Nat /\ a >= 1 /\ b <= Len(w) /\ ps[k] = SubSeq(w, a, b)
    BY <2>1
  <2> HIDE DEF a, b
  <2>3. InOrder(ps[k]) /\ Places(ps[k]) = { w[m].at : m \in a..b } /\ Places(ps[k]) \subseteq Places(w)
    BY <1>1, <2>2, PlacesPart, ZenonT(40)
  <2> QED BY <2>2, <2>3 DEF a, b
<1>10. ASSUME NEW i \in 1..n, NEW j \in 1..n, i < j
       PROVE  Precede(ps[i], ps[j])
  <2> SUFFICES ASSUME NEW x \in Places(ps[i]), NEW y \in Places(ps[j])
               PROVE  Before(x, y)
    BY DEF Precede
  <2>1. PICK k \in 1..Len(ps[i]) : x = ps[i][k].at
    BY <1>4, PlacesAre
  <2>2. PICK l \in 1..Len(ps[j]) : y = ps[j][l].at
    BY <1>4, PlacesAre
  <2> DEFINE a == c[i - 1] + k
             b == c[j - 1] + l
  <2>3. a \in 1..Len(w) /\ ps[i][k] = w[a]
    BY <1>5a
  <2>4. b \in 1..Len(w) /\ ps[j][l] = w[b]
    BY <1>5a
  <2>5. a < b
    BY <1>1, <1>4, <1>5, <1>10, CutsApart
  <2> HIDE DEF a, b, w
  <2>6. Before(w[a].at, w[b].at)
    BY <2>3, <2>4, <2>5 DEF InOrder, w
  <2> QED BY <2>1, <2>2, <2>3, <2>4, <2>6
<1>11. ASSUME NEW x \in Places(w)
       PROVE  \E k \in 1..n : x \in Places(ps[k])
  <2>1. PICK m \in 1..Len(w) : x = w[m].at
    BY <1>1, PlacesAre
  <2>2. PICK k \in 1..n : m \in (c[k - 1] + 1)..c[k]
    BY <1>1, <1>4, <1>5, CutsFrom DEF Found
  <2> QED BY <1>9, <2>1, <2>2
<1>12. UnitsTokens(U) = Tokens(w)
  <2>1. [k \in 1..Len(U) |-> Tokens(U[k].words)] = [k \in 1..n |-> Tokens(ps[k])]
    BY <1>7, <1>8
  <2>2. Tokens(w) = Total([k \in 1..n |-> Tokens(ps[k])])
    BY <1>1, <1>4, <1>5, CutsTokens
  <2>3. UnitsTokens(U) = Total([k \in 1..Len(U) |-> Tokens(U[k].words)])
    BY <1>8, UnitsTokensAre
  <2> QED BY <2>1, <2>2, <2>3
<1> HIDE DEF n, w
<1>13. /\ \A i \in 1..Len(U) :
                    /\ U[i].heading = FALSE /\ U[i].title = title /\ U[i].from = text.from
                    /\ PartOK(U[i].words, text, RoomBeside(title))
                    /\ InOrder(U[i].words)
                    /\ Places(U[i].words) \subseteq Places(w)
       /\ \A i, j \in 1..Len(U) : i < j => Precede(U[i].words, U[j].words)
       /\ \A x \in Places(w) : \E i \in 1..Len(U) : x \in Places(U[i].words)
  BY <1>2, <1>7, <1>8, <1>9, <1>10, <1>11
<1> QED BY <1>6, <1>8, <1>12, <1>13 DEF U, w

-----------------------------------------------------------------------------
(* Units of a section                                                      *)

\* The blocks of a section are fit for its texts.
LEMMA SectionBody ==
    ASSUME NEW x, BlocksOK(x), NEW s, SectionOK(s, x)
    PROVE  BodyOK(s.blocks) /\ s \in Section /\ Len(s.blocks) > 0
<1> DEFINE lo == LoOf(s)
           bs == s.blocks
<1>1. x \in Seq(DocBlock)
  BY DEF BlocksOK
<1>2. s \in Section /\ bs \in Seq(SBlock) /\ Len(bs) > 0 /\ Len(bs) \in Nat
  BY SectionFields DEF SectionOK
<1>3. lo \in Nat
  BY <1>1, SectionEnds
<1>4. ASSUME NEW i \in 1..Len(bs)
      PROVE  lo + i - 1 \in 1..Len(x) /\ bs[i].words = x[lo + i - 1].words
  <2>1. lo + i - 1 \in 1..Len(x) /\ bs[i] = Numbered(x, lo + i - 1)
    BY <1>4 DEF SectionOK, Stretch
  <2> QED BY <1>1, <2>1, NumberedTyped
<1>5. ASSUME NEW i \in 1..Len(bs), NEW j \in 1..Len(bs), i < j
      PROVE  Precede(bs[i].words, bs[j].words)
  <2> DEFINE a == lo + i - 1
             b == lo + j - 1
  <2>1. a < b
    BY <1>2, <1>3, <1>5
  <2>2. a \in 1..Len(x) /\ b \in 1..Len(x) /\ bs[i].words = x[a].words /\ bs[j].words = x[b].words
    BY <1>4
  <2> HIDE DEF a, b
  <2> QED BY <2>1, <2>2 DEF BlocksOK
<1>6. \A i \in 1..Len(bs) : bs[i].words # <<>> /\ InOrder(bs[i].words)
  <2> SUFFICES ASSUME NEW i \in 1..Len(bs) PROVE bs[i].words # <<>> /\ InOrder(bs[i].words)
    OBVIOUS
  <2> DEFINE a == lo + i - 1
  <2>1. a \in 1..Len(x) /\ bs[i].words = x[a].words
    BY <1>4
  <2> HIDE DEF a
  <2> QED BY <2>1 DEF BlocksOK
<1> QED BY <1>2, <1>5, <1>6 DEF BodyOK

\* The texts of a section come in the order of its blocks.
LEMMA TextsPrecede ==
    ASSUME NEW bs, BodyOK(bs), NEW parts \in Seq(Seq(SBlock)), NEW c, Cuts(c, parts, bs),
           NEW k \in 1..Len(parts), NEW l \in 1..Len(parts), k < l,
           NEW t \in Text, TextOf(t, parts[k]), NEW u \in Text, TextOf(u, parts[l])
    PROVE  Precede(t.words, u.words)
<1>1. bs \in Seq(SBlock)
  BY DEF BodyOK
<1> SUFFICES ASSUME NEW x \in Places(t.words), NEW y \in Places(u.words)
             PROVE  Before(x, y)
  BY DEF Precede
<1>2. PICK i \in 1..Len(parts[k]) : x \in Places(parts[k][i].words)
  BY DEF TextOf, PlacesOf
<1>3. PICK j \in 1..Len(parts[l]) : y \in Places(parts[l][j].words)
  BY DEF TextOf, PlacesOf
<1> DEFINE a == c[k - 1] + i
           b == c[l - 1] + j
<1>4. a \in 1..Len(bs) /\ parts[k][i] = bs[a]
  <2>1. \A m \in 1..Len(parts[k]) : c[k - 1] + m \in 1..Len(bs) /\ parts[k][m] = bs[c[k - 1] + m]
    <3>1. /\ c[k] \in 0..Len(bs) /\ c[k - 1] \in 0..Len(bs) /\ c[k - 1] <= c[k]
           /\ \A m \in 1..Len(parts[k]) :
                /\ c[k - 1] + m \in (c[k - 1] + 1)..c[k]
                /\ c[k - 1] + m \in 1..Len(bs)
                /\ parts[k][m] = bs[c[k - 1] + m]
      <4>1. Into(c, parts, bs, k)
        BY <1>1, CutsInto
      <4> QED BY <4>1 DEF Into
    <3> QED BY <3>1
  <2> QED BY <2>1
<1>5. b \in 1..Len(bs) /\ parts[l][j] = bs[b]
  <2>1. \A m \in 1..Len(parts[l]) : c[l - 1] + m \in 1..Len(bs) /\ parts[l][m] = bs[c[l - 1] + m]
    <3>1. /\ c[l] \in 0..Len(bs) /\ c[l - 1] \in 0..Len(bs) /\ c[l - 1] <= c[l]
           /\ \A m \in 1..Len(parts[l]) :
                /\ c[l - 1] + m \in (c[l - 1] + 1)..c[l]
                /\ c[l - 1] + m \in 1..Len(bs)
                /\ parts[l][m] = bs[c[l - 1] + m]
      <4>1. Into(c, parts, bs, l)
        BY <1>1, CutsInto
      <4> QED BY <4>1 DEF Into
    <3> QED BY <3>1
  <2> QED BY <2>1
<1>6. a < b
  BY <1>1, CutsApart
<1> HIDE DEF a, b
<1> QED BY <1>2, <1>3, <1>4, <1>5, <1>6 DEF BodyOK, Precede

\* A unit knows at least one block it is from.
SourcedUnit == { u \in Unit : u.from # {} }

\* A unit of section s: its title, a part of one of its texts, the blocks of that text.
UnitFrom(u, s) ==
    /\ u \in SourcedUnit
    /\ u.heading = FALSE /\ u.title = s.title
    /\ InOrder(u.words)
    /\ \E text \in Range(SectionTexts(s.blocks)) : PartOK(u.words, text, RoomBeside(s.title))
    /\ \E p \in Seq(SBlock) :
         /\ Len(p) > 0
         /\ \E a \in 1..Len(s.blocks), b \in 1..Len(s.blocks) : p = SubSeq(s.blocks, a, b)
         /\ Len(p) > 1 => \A i \in 1..Len(p) : p[i].kind = "qa_pair"
         /\ u.from = IndicesOf(p)
         /\ Places(u.words) \subseteq PlacesOf(p)

\* The units of a section: in the order of its words, with all of them.
UnitsOf(U, s) ==
    /\ U \in Seq(SourcedUnit) /\ Len(U) > 0
    /\ \A i \in 1..Len(U) : UnitFrom(U[i], s)
    /\ \A i, j \in 1..Len(U) : i < j => Precede(U[i].words, U[j].words)
    /\ \A x \in PlacesOf(s.blocks) : \E i \in 1..Len(U) : x \in Places(U[i].words)
    /\ UnitsTokens(U) = BlocksTokens(s.blocks)

LEMMA SourcedTyped ==
    ASSUME NEW us \in Seq(SourcedUnit)
    PROVE  us \in Seq(Unit) /\ \A i \in 1..Len(us) : us[i] \in Unit /\ us[i].from # {}
BY DEF SourcedUnit

\* A text's units are units of its section.
LEMMA TextUnitFrom ==
    ASSUME NEW s \in Section, BodyOK(s.blocks), NEW t \in 1..Len(SectionTexts(s.blocks)),
           SectionTexts(s.blocks) \in Seq(Text),
           NEW parts \in Seq(Seq(SBlock)), NEW c, Cuts(c, parts, s.blocks), t \in 1..Len(parts),
           TextOf(SectionTexts(s.blocks)[t], parts[t]),
           NEW i \in 1..Len(TextUnits(SectionTexts(s.blocks)[t], s.title))
    PROVE  UnitFrom(TextUnits(SectionTexts(s.blocks)[t], s.title)[i], s)
<1> DEFINE bs == s.blocks
           text == SectionTexts(s.blocks)[t]
           U == TextUnits(text, s.title)
           u == U[i]
           p == parts[t]
<1>1. bs \in Seq(SBlock) /\ s.title \in Seq(Word) /\ Len(bs) \in Nat
  BY SectionFields
<1>2. text \in Text /\ text \in Range(SectionTexts(s.blocks)) /\ text.words # <<>> /\ InOrder(text.words)
  BY DEF TextOf, Range
<1>3. p \in Seq(SBlock) /\ Len(p) > 0 /\ text.from = IndicesOf(p)
      /\ Places(text.words) = PlacesOf(p)
      /\ (Len(p) > 1 => \A m \in 1..Len(p) : p[m].kind = "qa_pair")
  BY DEF TextOf
<1>4. \E a \in 1..Len(bs), b \in 1..Len(bs) : p = SubSeq(bs, a, b)
  <2>1. c[t] \in 0..Len(bs) /\ c[t - 1] \in 0..Len(bs) /\ Len(p) = c[t] - c[t - 1]
        /\ p = SubSeq(bs, c[t - 1] + 1, c[t])
    <3> HIDE DEF bs
    <3>1. Cuts(c, parts, bs)
      BY DEF bs
    <3>2. Into(c, parts, bs, t)
      BY <1>1, <3>1, CutsInto
    <3> QED BY <3>2 DEF Into
  <2> DEFINE a == c[t - 1]
             b == c[t]
  <2> HIDE DEF a, b, p
  <2>2. a \in Nat /\ b \in Nat /\ b <= Len(bs) /\ Len(p) = b - a /\ p = SubSeq(bs, a + 1, b)
    BY <1>1, <2>1 DEF a, b
  <2>3. a + 1 \in 1..Len(bs) /\ b \in 1..Len(bs)
    BY <1>1, <1>3, <2>2
  <2> QED BY <2>2, <2>3
<1> HIDE DEF text, p, bs, U
<1>5. /\ U \in Seq(Unit) /\ i \in 1..Len(U)
      /\ u.heading = FALSE /\ u.title = s.title /\ u.from = text.from
      /\ PartOK(u.words, text, RoomBeside(s.title))
      /\ InOrder(u.words)
      /\ Places(u.words) \subseteq Places(text.words)
  <2>1. i \in 1..Len(U)
    BY DEF U, text
  <2>2. /\ U \in Seq(Unit)
        /\ \A k \in 1..Len(U) :
             /\ U[k].heading = FALSE /\ U[k].title = s.title /\ U[k].from = text.from
             /\ PartOK(U[k].words, text, RoomBeside(s.title))
             /\ InOrder(U[k].words)
             /\ Places(U[k].words) \subseteq Places(text.words)
    BY <1>1, <1>2, TextUnitsAre DEF U
  <2> QED BY <2>1, <2>2
<1>6. u \in SourcedUnit
  <2>1. 1 \in 1..Len(p)
    BY <1>3
  <2>2. p[1].index \in IndicesOf(p)
    BY <2>1 DEF IndicesOf
  <2>3. u.from # {}
    BY <1>3, <1>5, <2>2
  <2>4. u \in Unit
    BY <1>5
  <2> QED BY <2>3, <2>4 DEF SourcedUnit
<1>7. \E q \in Seq(SBlock) :
         /\ Len(q) > 0
         /\ \E a \in 1..Len(s.blocks), b \in 1..Len(s.blocks) : q = SubSeq(s.blocks, a, b)
         /\ Len(q) > 1 => \A m \in 1..Len(q) : q[m].kind = "qa_pair"
         /\ u.from = IndicesOf(q)
         /\ Places(u.words) \subseteq PlacesOf(q)
  <2> QED BY <1>3, <1>4, <1>5 DEF bs
<1>8. UnitFrom(u, s)
  BY <1>2, <1>5, <1>6, <1>7 DEF UnitFrom
<1> QED BY <1>8 DEF U, text

LEMMA UnitsPrecede ==
    ASSUME NEW u, NEW w, NEW a, NEW b, Precede(a, b),
           Places(u) \subseteq Places(a), Places(w) \subseteq Places(b)
    PROVE  Precede(u, w)
BY DEF Precede

LEMMA BuildUnitsAre ==
    ASSUME NEW s \in Section, BodyOK(s.blocks), Len(s.blocks) > 0
    PROVE  UnitsOf(BuildUnits(s), s)
<1> DEFINE bs == s.blocks
           ts == SectionTexts(s.blocks)
           n == Len(ts)
           US == [k \in 1..n |-> TextUnits(ts[k], s.title)]
           U == BuildUnits(s)
<1>1. bs \in Seq(SBlock) /\ s.title \in Seq(Word) /\ Len(bs) \in Nat
  BY SectionFields
<1>2. ts \in Seq(Text) /\ n \in Nat /\ DOMAIN ts = 1..n
  BY TextsAre
<1>3. PICK parts \in Seq(Seq(SBlock)) :
        /\ \E c : Cuts(c, parts, bs)
        /\ Len(parts) = n
        /\ \A t \in 1..n : TextOf(ts[t], parts[t])
  BY TextsAre
<1>4. PICK c : Cuts(c, parts, bs)
  BY <1>3
<1>5. U = FlattenSeq(US)
  <2>1. BuildUnits(s) = FlattenSeq([k \in DOMAIN ts |-> TextUnits(ts[k], s.title)])
    BY DEF BuildUnits, TextUnits
  <2> QED BY <1>2, <2>1
<1>6. ASSUME NEW k \in 1..n
      PROVE  /\ ts[k] \in Text /\ ts[k].words # <<>> /\ InOrder(ts[k].words)
             /\ parts[k] \in Seq(SBlock) /\ TextOf(ts[k], parts[k])
  BY <1>2, <1>3 DEF TextOf
<1> HIDE DEF ts, n
<1>7. ASSUME NEW k \in 1..n
      PROVE  /\ US[k] = TextUnits(ts[k], s.title)
             /\ US[k] \in Seq(Unit) /\ Len(US[k]) > 0
             /\ \A i \in 1..Len(US[k]) : Places(US[k][i].words) \subseteq Places(ts[k].words)
             /\ \A i, j \in 1..Len(US[k]) : i < j => Precede(US[k][i].words, US[k][j].words)
             /\ \A x \in Places(ts[k].words) : \E i \in 1..Len(US[k]) : x \in Places(US[k][i].words)
             /\ UnitsTokens(US[k]) = Tokens(ts[k].words)
  <2>1. US[k] = TextUnits(ts[k], s.title)
    OBVIOUS
  <2> HIDE DEF US
  <2>2. ts[k] \in Text /\ ts[k].words # <<>> /\ InOrder(ts[k].words) /\ s.title \in Seq(Word)
    BY <1>1, <1>6
  <2>3. LET V == TextUnits(ts[k], s.title)
        IN   /\ V \in Seq(Unit) /\ Len(V) > 0
             /\ \A i \in 1..Len(V) : Places(V[i].words) \subseteq Places(ts[k].words)
             /\ \A i, j \in 1..Len(V) : i < j => Precede(V[i].words, V[j].words)
             /\ \A x \in Places(ts[k].words) : \E i \in 1..Len(V) : x \in Places(V[i].words)
             /\ UnitsTokens(V) = Tokens(ts[k].words)
    BY <2>2, TextUnitsAre
  <2> QED BY <2>1, <2>3
<1>8. ASSUME NEW k \in 1..n, NEW i \in 1..Len(US[k])
      PROVE  UnitFrom(US[k][i], s)
  <2>1. US[k] = TextUnits(ts[k], s.title)
    BY <1>7
  <2>2. k \in 1..Len(SectionTexts(s.blocks)) /\ k \in 1..Len(parts) /\ SectionTexts(s.blocks) \in Seq(Text)
    BY <1>2, <1>3 DEF ts, n
  <2>3. TextOf(SectionTexts(s.blocks)[k], parts[k]) /\ Cuts(c, parts, s.blocks)
    BY <1>4, <1>6 DEF ts
  <2>4. i \in 1..Len(TextUnits(SectionTexts(s.blocks)[k], s.title))
    BY <2>1 DEF ts
  <2>5. UnitFrom(TextUnits(SectionTexts(s.blocks)[k], s.title)[i], s)
    BY <2>2, <2>3, <2>4, TextUnitFrom
  <2> QED BY <2>1, <2>5 DEF ts
<1>9. US \in Seq(Seq(SourcedUnit)) /\ US \in Seq(Seq(Unit)) /\ Len(US) = n
  <2>1. \A k \in 1..n : US[k] \in Seq(SourcedUnit) /\ US[k] \in Seq(Unit)
    <3> SUFFICES ASSUME NEW k \in 1..n PROVE US[k] \in Seq(SourcedUnit) /\ US[k] \in Seq(Unit)
      OBVIOUS
    <3> HIDE DEF US
    <3>1. US[k] \in Seq(Unit)
      BY <1>7
    <3>2. \A i \in 1..Len(US[k]) : US[k][i] \in SourcedUnit
      BY <1>8 DEF UnitFrom
    <3> QED BY <3>1, <3>2
  <2>2. US = [k \in 1..n |-> US[k]]
    OBVIOUS
  <2> HIDE DEF US
  <2>3. US \in [1..n -> Seq(SourcedUnit)] /\ US \in [1..n -> Seq(Unit)]
    BY <2>1, <2>2
  <2>4. \A C : US \in [1..n -> C] => US \in Seq(C) /\ Len(US) = n
    BY <1>2
  <2> QED BY <2>3, <2>4
<1>10. U \in Seq(SourcedUnit)
  BY <1>5, <1>9, FlattenCuts
<1>11. U \in Seq(Unit)
  BY <1>5, <1>9, FlattenCuts
<1>12. PICK d : Cuts(d, US, U)
  BY <1>5, <1>9, FlattenCuts
<1> HIDE DEF US, U, bs
<1>13. ASSUME NEW i \in 1..Len(U)
       PROVE  \E k \in 1..n : /\ i - d[k - 1] \in 1..Len(US[k])
                              /\ US[k][i - d[k - 1]] = U[i]
  <2>1. \E k \in 1..Len(US) :
             /\ i - d[k - 1] \in 1..Len(US[k])
             /\ US[k][i - d[k - 1]] = U[i]
    <3>1. US \in Seq(Seq(Unit)) /\ U \in Seq(Unit) /\ Cuts(d, US, U)
      BY <1>9, <1>11, <1>12
    <3>2. Found(d, US, U, i)
      BY <3>1, CutsFrom
    <3> QED BY <3>2 DEF Found
  <2> QED BY <1>9, <2>1
<1>14. ASSUME NEW k \in 1..n, NEW i \in 1..Len(US[k])
       PROVE  \E j \in 1..Len(U) : U[j] = US[k][i]
  <2>1. /\ d[k] \in 0..Len(U) /\ d[k - 1] \in 0..Len(U) /\ d[k - 1] <= d[k]
        /\ Len(US[k]) = d[k] - d[k - 1]
        /\ US[k] = SubSeq(U, d[k - 1] + 1, d[k])
        /\ \A j \in 1..Len(US[k]) :
                /\ d[k - 1] + j \in (d[k - 1] + 1)..d[k]
                /\ d[k - 1] + j \in 1..Len(U)
                /\ US[k][j] = U[d[k - 1] + j]
    <3>1. k \in 1..Len(US)
      BY <1>9
    <3>2. US \in Seq(Seq(Unit)) /\ U \in Seq(Unit) /\ Cuts(d, US, U)
      BY <1>9, <1>11, <1>12
    <3>3. Into(d, US, U, k)
      BY <3>1, <3>2, CutsInto
    <3> QED BY <3>3 DEF Into
  <2> QED BY <2>1
<1>15. \A i \in 1..Len(U) : UnitFrom(U[i], s)
  BY <1>8, <1>13
<1>16. ASSUME NEW k \in 1..n, NEW l \in 1..n, k < l
       PROVE  Precede(ts[k].words, ts[l].words)
  <2>1. BodyOK(bs)
    BY DEF bs
  <2> QED BY <1>3, <1>4, <1>6, <1>16, <2>1, TextsPrecede
<1>17. ASSUME NEW i \in 1..Len(U), NEW j \in 1..Len(U), i < j
       PROVE  Precede(U[i].words, U[j].words)
  <2>1. PICK k \in 1..n : i - d[k - 1] \in 1..Len(US[k]) /\ US[k][i - d[k - 1]] = U[i]
    BY <1>13
  <2>2. PICK l \in 1..n : j - d[l - 1] \in 1..Len(US[l]) /\ US[l][j - d[l - 1]] = U[j]
    BY <1>13
  <2>3. k <= l
    BY <1>9, <1>11, <1>12, <1>17, <2>1, <2>2, CutsOrder
  <2>4. CASE k < l
    <3>1. Places(U[i].words) \subseteq Places(ts[k].words) /\ Places(U[j].words) \subseteq Places(ts[l].words)
      BY <1>7, <2>1, <2>2
    <3>2. Precede(ts[k].words, ts[l].words)
      BY <1>16, <2>4
    <3> QED BY <3>1, <3>2, UnitsPrecede
  <2>5. CASE k = l
    <3> DEFINE a == i - d[k - 1]
               b == j - d[k - 1]
    <3>1. d[k - 1] \in 0..Len(U)
      <4>1. k \in 1..Len(US)
        BY <1>9
      <4> QED BY <1>9, <1>11, <1>12, <4>1, CutsInto DEF Into
    <3>2. a < b
      <4> DEFINE e == d[k - 1]
      <4>1. e \in Nat
        BY <1>11, <3>1
      <4> HIDE DEF e
      <4> QED BY <1>17, <4>1 DEF e
    <3>3. a \in 1..Len(US[k]) /\ b \in 1..Len(US[k]) /\ US[k][a] = U[i] /\ US[k][b] = U[j]
      BY <2>1, <2>2, <2>5
    <3> HIDE DEF a, b
    <3>4. Precede(US[k][a].words, US[k][b].words)
      BY <1>7, <3>2, <3>3
    <3> QED BY <3>3, <3>4
  <2> QED BY <2>3, <2>4, <2>5
<1>18. ASSUME NEW x \in PlacesOf(bs)
       PROVE  \E i \in 1..Len(U) : x \in Places(U[i].words)
  <2>1. PICK m \in 1..Len(bs) : x \in Places(bs[m].words)
    BY DEF PlacesOf
  <2>2. PICK k \in 1..n : m - c[k - 1] \in 1..Len(parts[k]) /\ parts[k][m - c[k - 1]] = bs[m]
    <3>1. \E k \in 1..Len(parts) :
             /\ m - c[k - 1] \in 1..Len(parts[k])
             /\ parts[k][m - c[k - 1]] = bs[m]
      <4>1. bs \in Seq(SBlock) /\ parts \in Seq(Seq(SBlock)) /\ Cuts(c, parts, bs) /\ m \in 1..Len(bs)
        BY <1>1, <1>4 DEF bs
      <4>2. Found(c, parts, bs, m)
        BY <4>1, CutsFrom
      <4> QED BY <4>2 DEF Found
    <3> QED BY <1>3, <3>1
  <2>3. x \in PlacesOf(parts[k])
    BY <2>1, <2>2 DEF PlacesOf
  <2>4. x \in Places(ts[k].words)
    BY <1>6, <2>3 DEF TextOf
  <2>5. PICK i \in 1..Len(US[k]) : x \in Places(US[k][i].words)
    BY <1>7, <2>4
  <2> QED BY <1>14, <2>5
<1>19. Len(U) > 0
  <2>1. 1 \in 1..Len(bs)
    BY <1>1 DEF bs
  <2>2. bs[1].words # <<>> /\ bs[1].words \in Seq(Word)
    BY <1>1, <2>1, SBlockFields DEF BodyOK, bs
  <2>3. PICK x \in Places(bs[1].words) : TRUE
    BY <2>2, PlacesAre
  <2>4. x \in PlacesOf(bs)
    BY <2>1, <2>3 DEF PlacesOf
  <2>5. PICK i \in 1..Len(U) : x \in Places(U[i].words)
    BY <1>18, <2>4
  <2>6. Len(U) \in Nat
    BY <1>11
  <2> QED BY <2>5, <2>6
<1>20. UnitsTokens(U) = BlocksTokens(bs)
  <2>1. UnitsTokens(U) = Weigh(UnitWeight, U) /\ UnitWeight \in [Unit -> Nat]
    BY <1>11, UnitsWeigh
  <2>2. Weigh(UnitWeight, U) = Total([k \in 1..n |-> Weigh(UnitWeight, US[k])])
    BY <1>9, <1>11, <1>12, <2>1, WeighCuts
  <2>3. BlocksTokens(bs) = Weigh(WordsWeight, bs) /\ WordsWeight \in [SBlock -> Nat]
    BY <1>1, BlocksTokensAre
  <2>4. Weigh(WordsWeight, bs) = Total([k \in 1..n |-> Weigh(WordsWeight, parts[k])])
    BY <1>1, <1>3, <1>4, <2>3, WeighCuts
  <2>5. ASSUME NEW k \in 1..n
        PROVE  Weigh(UnitWeight, US[k]) = Weigh(WordsWeight, parts[k])
    <3>1. Weigh(UnitWeight, US[k]) = UnitsTokens(US[k])
      BY <1>7, UnitsWeigh
    <3>2. Weigh(WordsWeight, parts[k]) = BlocksTokens(parts[k])
      BY <1>6, BlocksTokensAre
    <3>3. Tokens(ts[k].words) = BlocksTokens(parts[k])
      BY <1>6 DEF TextOf
    <3> QED BY <1>7, <3>1, <3>2, <3>3
  <2>6. [k \in 1..n |-> Weigh(UnitWeight, US[k])] = [k \in 1..n |-> Weigh(WordsWeight, parts[k])]
    BY <2>5
  <2> QED BY <2>1, <2>2, <2>3, <2>4, <2>6
<1> QED BY <1>10, <1>15, <1>17, <1>18, <1>19, <1>20 DEF UnitsOf, U, bs

-----------------------------------------------------------------------------
(* Bodies and overlaps                                                     *)

Plain(us) == \A i \in 1..Len(us) : us[i].heading = FALSE

LEMMA BodyTyped ==
    ASSUME NEW us \in Seq(SourcedUnit)
    PROVE  BodyUnits(us) \in Seq(SourcedUnit)
<1> DEFINE I == { k \in DOMAIN us : ~us[k].heading }
<1>1. At(us, I) \in Seq(SourcedUnit)
  <2> HIDE DEF I
  <2> QED BY AtPicks
<1> QED BY <1>1 DEF BodyUnits

LEMMA BodyAll ==
    ASSUME NEW us \in Seq(SourcedUnit), Plain(us)
    PROVE  BodyUnits(us) = us
<1> DEFINE I == { k \in DOMAIN us : ~us[k].heading }
           m == Len(us)
<1>1. I \cap 1..Len(us) = 1..m
  BY DEF Plain
<1>2. m \in 0..Len(us)
  OBVIOUS
<1>3. At(us, I) = SubSeq(us, 1, m)
  <2> HIDE DEF I, m
  <2> QED BY <1>1, <1>2, AtFirst
<1>4. SubSeq(us, 1, Len(us)) = us
  BY SubSeqProperties
<1> QED BY <1>3, <1>4 DEF BodyUnits

LEMMA TailTyped ==
    ASSUME NEW C, NEW s \in Seq(C), NEW i \in 1..Len(s)
    PROVE  /\ SubSeq(s, i, Len(s)) \in Seq(C)
           /\ Len(SubSeq(s, i, Len(s))) = Len(s) - i + 1
BY SubSeqProperties

\* The last units of the body: few enough for the room; without the first, less
\* than the overlap.
LEMMA OverlapIs ==
    ASSUME NEW us \in Seq(SourcedUnit), NEW room \in Int
    PROVE  LET body == BodyUnits(us)
               n == Len(body)
           IN  \/ BuildOverlap(us, room) = <<>>
               \/ \E i \in 1..n :
                    /\ BuildOverlap(us, room) = SubSeq(body, i, n)
                    /\ UnitsTokens(SubSeq(body, i, n)) <= room
                    /\ i < n => UnitsTokens(SubSeq(body, i + 1, n)) < Overlap
<1> DEFINE body == BodyUnits(us)
           n == Len(body)
           From(i) == UnitsTokens(SubSeq(body, i, n))
           S == {1} \cup { i \in DOMAIN body : From(i) >= Overlap }
           reach == Max(S)
           kept == { i \in reach..n : From(i) <= room }
<1>1. body \in Seq(SourcedUnit) /\ n \in Nat /\ DOMAIN body = 1..n
  BY BodyTyped
<1>2. \A i \in 1..n : From(i) \in Nat
  <2> SUFFICES ASSUME NEW i \in 1..n PROVE From(i) \in Nat
    OBVIOUS
  <2> HIDE DEF body
  <2>1. SubSeq(body, i, n) \in Seq(SourcedUnit)
    BY <1>1, TailTyped
  <2>2. SubSeq(body, i, n) \in Seq(Unit)
    BY <2>1, SourcedTyped
  <2> QED BY <2>2, UnitsTokensAre
<1>3. BuildOverlap(us, room) = IF kept = {} THEN <<>> ELSE SubSeq(body, Min(kept), n)
  BY DEF BuildOverlap
<1> HIDE DEF body, n, From
<1>4. reach \in S /\ \A y \in S : reach >= y
  <2> DEFINE m == n + 1
  <2>1. m \in Nat /\ S \in SUBSET (1..m) /\ S # {}
    BY <1>1
  <2> HIDE DEF S, m
  <2> QED BY <2>1, MaxOf
<1>5. reach \in Nat /\ reach >= 1
  BY <1>1, <1>4
<1> HIDE DEF reach
<1>6. CASE kept = {}
  BY <1>3, <1>6
<1>7. CASE kept # {}
  <2> DEFINE i == Min(kept)
  <2>1. i \in kept
    <3>1. kept \subseteq Nat
      BY <1>1, <1>5
    <3> HIDE DEF kept
    <3> QED BY <1>7, <3>1, MinOf
  <2> HIDE DEF i
  <2>2. i \in 1..n /\ i >= reach /\ From(i) <= room
    BY <1>1, <1>5, <2>1
  <2>3. ASSUME i < n PROVE From(i + 1) < Overlap
    <3>1. i + 1 \in 1..n /\ ~ (reach >= i + 1)
      BY <1>1, <1>5, <2>2, <2>3
    <3>2. ~ (From(i + 1) >= Overlap)
      BY <1>1, <1>4, <3>1
    <3>3. From(i + 1) \in Nat /\ Overlap \in Nat
      BY <1>2, <3>1, SettingsAssumption
    <3> QED BY <3>2, <3>3
  <2>4. BuildOverlap(us, room) = SubSeq(body, i, n)
    BY <1>3, <1>7 DEF i
  <2> QED BY <2>2, <2>3, <2>4 DEF From, n, body
<1> QED BY <1>6, <1>7 DEF n, body

LEMMA OverlapTyped ==
    ASSUME NEW us \in Seq(SourcedUnit), NEW room \in Int
    PROVE  BuildOverlap(us, room) \in Seq(SourcedUnit)
<1> DEFINE body == BodyUnits(us)
           n == Len(body)
<1>1. body \in Seq(SourcedUnit)
  BY BodyTyped
<1>2. \A i \in 1..n : SubSeq(body, i, n) \in Seq(SourcedUnit)
  <2> HIDE DEF body
  <2> QED BY <1>1, TailTyped
<1>3. BuildOverlap(us, room) = <<>> \/ \E i \in 1..n : BuildOverlap(us, room) = SubSeq(body, i, n)
  BY OverlapIs
<1>4. <<>> \in Seq(SourcedUnit)
  OBVIOUS
<1> HIDE DEF n, body
<1> QED BY <1>2, <1>3, <1>4

-----------------------------------------------------------------------------
(* Units packed into chunks                                                *)

LEMMA StickyTyped ==
    ASSUME NEW us \in Seq(SourcedUnit), us # <<>>, NEW title \in Seq(Word)
    PROVE  /\ ApplyStickyHeading(us, title) \in Seq(SourcedUnit)
           /\ ApplyStickyHeading(us, title) # <<>>
           /\ title # NoTitle => TitleUnit(title, {Min(us[1].from)}) \in SourcedUnit
           /\ Min(us[1].from) \in us[1].from
<1>1. 1 \in 1..Len(us)
  OBVIOUS
<1>2. us[1].from \in SUBSET Nat /\ us[1].from # {}
  BY <1>1, SourcedTyped, UnitFields
<1>3. Min(us[1].from) \in us[1].from
  BY <1>2, MinOf
<1>4. TitleUnit(title, {Min(us[1].from)}) \in SourcedUnit
  BY <1>2, <1>3 DEF TitleUnit, SourcedUnit, Unit
<1> DEFINE t == TitleUnit(title, {Min(us[1].from)})
<1>5. t \in SourcedUnit /\ ApplyStickyHeading(us, title) = IF title = NoTitle THEN us ELSE <<t>> \o us
  BY <1>4 DEF ApplyStickyHeading
<1> HIDE DEF t
<1>6. <<t>> \o us \in Seq(SourcedUnit) /\ Len(<<t>> \o us) = Len(us) + 1
  BY <1>5
<1> QED BY <1>3, <1>4, <1>5, <1>6 DEF t

Grouping == [grouped : Seq(Seq(SourcedUnit)), current : Seq(SourcedUnit)]

LEMMA AddUnitIs ==
    ASSUME NEW acc \in Grouping, NEW u \in SourcedUnit, NEW title \in Seq(Word)
    PROVE  LET over == BuildOverlap(acc.current, RoomBeside(title) - Tokens(u.words))
           IN  /\ AddUnit(acc, u, title) \in Grouping
               /\ \/ /\ acc.current = <<>>
                     /\ AddUnit(acc, u, title) = [grouped |-> acc.grouped, current |-> <<u>>]
                  \/ /\ acc.current # <<>>
                     /\ UnitsTokens(Append(acc.current, u)) <= RoomBeside(title)
                     /\ AddUnit(acc, u, title) = [grouped |-> acc.grouped, current |-> Append(acc.current, u)]
                  \/ /\ acc.current # <<>>
                     /\ ~ (UnitsTokens(Append(acc.current, u)) <= RoomBeside(title))
                     /\ AddUnit(acc, u, title) =
                           [ grouped |-> Append(acc.grouped, ApplyStickyHeading(acc.current, title)),
                             current |-> Append(over, u) ]
<1> DEFINE room == RoomBeside(title) - Tokens(u.words)
           over == BuildOverlap(acc.current, room)
<1>1. u.words \in Seq(Word) /\ Tokens(u.words) \in Nat /\ RoomBeside(title) \in Nat
  BY TokensAre, RoomTyped DEF SourcedUnit, Unit
<1>2. acc = [grouped |-> acc.grouped, current |-> acc.current]
      /\ acc.grouped \in Seq(Seq(SourcedUnit)) /\ acc.current \in Seq(SourcedUnit)
  BY DEF Grouping
<1>3. room \in Int
  BY <1>1
<1>4. over \in Seq(SourcedUnit)
  <2> HIDE DEF room
  <2> QED BY <1>2, <1>3, OverlapTyped
<1>5. CASE acc.current = <<>>
  <2>1. AddUnit(acc, u, title) = [acc EXCEPT !.current = <<u>>]
    BY <1>5 DEF AddUnit
  <2>2. AddUnit(acc, u, title) = [grouped |-> acc.grouped, current |-> <<u>>]
    BY <1>2, <2>1
  <2>3. <<u>> \in Seq(SourcedUnit)
    OBVIOUS
  <2> QED BY <1>2, <1>5, <2>2, <2>3 DEF Grouping
<1>6. CASE acc.current # <<>> /\ UnitsTokens(Append(acc.current, u)) <= RoomBeside(title)
  <2>1. AddUnit(acc, u, title) = [acc EXCEPT !.current = Append(@, u)]
    BY <1>6 DEF AddUnit
  <2>2. AddUnit(acc, u, title) = [grouped |-> acc.grouped, current |-> Append(acc.current, u)]
    BY <1>2, <2>1
  <2>3. Append(acc.current, u) \in Seq(SourcedUnit)
    BY <1>2
  <2> QED BY <1>2, <1>6, <2>2, <2>3 DEF Grouping
<1>7. CASE acc.current # <<>> /\ ~ (UnitsTokens(Append(acc.current, u)) <= RoomBeside(title))
  <2>1. AddUnit(acc, u, title) = [ grouped |-> Append(acc.grouped, ApplyStickyHeading(acc.current, title)),
                                   current |-> Append(over, u) ]
    BY <1>7 DEF AddUnit
  <2>2. ApplyStickyHeading(acc.current, title) \in Seq(SourcedUnit)
    BY <1>2, <1>7, StickyTyped
  <2> HIDE DEF over
  <2>3. /\ Append(acc.grouped, ApplyStickyHeading(acc.current, title)) \in Seq(Seq(SourcedUnit))
        /\ Append(over, u) \in Seq(SourcedUnit)
    BY <1>2, <1>4, <2>2
  <2>4. AddUnit(acc, u, title) \in Grouping
    BY <2>1, <2>3 DEF Grouping
  <2> QED BY <1>7, <2>1, <2>4 DEF over
<1> QED BY <1>5, <1>6, <1>7

-----------------------------------------------------------------------------
(* Windows: from where to where the units of a chunk go                    *)

LEMMA SubAppend ==
    ASSUME NEW C, NEW U \in Seq(C), NEW k \in 1..Len(U), NEW a \in 1..k
    PROVE  Append(SubSeq(U, a, k - 1), U[k]) = SubSeq(U, a, k) /\ SubSeq(U, a, k - 1) \in Seq(C)
<1>1. a \in 1..Len(U) /\ k \in a..Len(U)
  OBVIOUS
<1>2. SubSeq(U, a, k) = SubSeq(U, a, k - 1) \o <<U[k]>>
  BY <1>1, SubSeqRecursiveSecond
<1>3. SubSeq(U, a, k - 1) \in Seq(C) /\ U[k] \in C
  OBVIOUS
<1> QED BY <1>2, <1>3, AppendIsConcat

LEMMA SubTail ==
    ASSUME NEW C, NEW U \in Seq(C), NEW b \in 1..Len(U), NEW a \in 1..b,
           NEW n, n = Len(SubSeq(U, a, b)), NEW i \in 1..n
    PROVE  /\ SubSeq(U, a, b) \in Seq(C) /\ n = b - a + 1
           /\ SubSeq(SubSeq(U, a, b), i, n) = SubSeq(U, a + i - 1, b)
           /\ a + i - 1 \in a..b
<1>1. SubSeq(U, a, b) \in Seq(C) /\ n = b - a + 1
  OBVIOUS
<1>2. a \in 1..Len(U) /\ i \in 1..(b - a + 1) /\ n \in 1..(b - a + 1) /\ (a + n) - 1 = b
  BY <1>1
<1>3. SubSeq(SubSeq(U, a, b), i, n) = SubSeq(U, a + i - 1, a + n - 1)
  BY <1>1, <1>2, SubSeqOfSubSeq
<1> QED BY <1>1, <1>2, <1>3

Window == [lo : Nat, hi : Nat]

Win(U, w) == SubSeq(U, w.lo, w.hi)

\* Windows over the first n units that move on and leave nothing out.
WindowsTo(ws, n) ==
    /\ ws \in Seq(Window)
    /\ \A i \in 1..Len(ws) : 1 <= ws[i].lo /\ ws[i].lo <= ws[i].hi /\ ws[i].hi <= n
    /\ Len(ws) = 0 => n = 0
    /\ Len(ws) > 0 => ws[1].lo = 1 /\ ws[Len(ws)].hi = n
    /\ \A i \in 2..Len(ws) : /\ ws[i - 1].lo <= ws[i].lo /\ ws[i].lo <= ws[i - 1].hi + 1
                             /\ ws[i - 1].hi < ws[i].hi

\* What two of them share is less than the overlap, but for its first unit.
Overlaps(ws, U) ==
    \A i \in 2..Len(ws) :
        ws[i].lo < ws[i - 1].hi => UnitsTokens(SubSeq(U, ws[i].lo + 1, ws[i - 1].hi)) < Overlap

Fits(U, w, limit) == w.lo = w.hi \/ UnitsTokens(Win(U, w)) <= limit

WindowsOver(ws, U, limit, n) ==
    /\ WindowsTo(ws, n)
    /\ Overlaps(ws, U)
    /\ \A i \in 1..Len(ws) : Fits(U, ws[i], limit)

LEMMA WindowFields ==
    ASSUME NEW ws \in Seq(Window), NEW i \in 1..Len(ws)
    PROVE  ws[i] = [lo |-> ws[i].lo, hi |-> ws[i].hi] /\ ws[i].lo \in Nat /\ ws[i].hi \in Nat
           /\ ws[i] \in Window
<1>1. ws[i] \in Window
  OBVIOUS
<1> QED BY <1>1 DEF Window

\* The last window takes one unit more.
LEMMA WindowGrows ==
    ASSUME NEW U \in Seq(Unit), NEW k \in 1..Len(U), NEW limit \in Nat,
           NEW ws, WindowsOver(ws, U, limit, k - 1), Len(ws) > 0,
           UnitsTokens(Append(Win(U, ws[Len(ws)]), U[k])) <= limit
    PROVE  LET n  == Len(ws)
               vs == [i \in 1..n |-> IF i = n THEN [lo |-> ws[n].lo, hi |-> k] ELSE ws[i]]
           IN  /\ WindowsOver(vs, U, limit, k)
               /\ Len(vs) = n
               /\ Win(U, vs[n]) = Append(Win(U, ws[n]), U[k])
<1> DEFINE n == Len(ws)
           w == [lo |-> ws[n].lo, hi |-> k]
           vs == [i \in 1..n |-> IF i = n THEN w ELSE ws[i]]
<1>1. ws \in Seq(Window) /\ n \in Nat /\ n > 0 /\ n \in 1..n
  BY DEF WindowsOver, WindowsTo
<1>2. \A i \in 1..n : /\ ws[i] \in Window /\ ws[i].lo \in Nat /\ ws[i].hi \in Nat
                      /\ 1 <= ws[i].lo /\ ws[i].lo <= ws[i].hi /\ ws[i].hi <= k - 1
  <2> SUFFICES ASSUME NEW i \in 1..n
               PROVE  /\ ws[i] \in Window /\ ws[i].lo \in Nat /\ ws[i].hi \in Nat
                      /\ 1 <= ws[i].lo /\ ws[i].lo <= ws[i].hi /\ ws[i].hi <= k - 1
    OBVIOUS
  <2>1. ws[i] \in Window /\ ws[i].lo \in Nat /\ ws[i].hi \in Nat
    BY <1>1, WindowFields
  <2>2. 1 <= ws[i].lo /\ ws[i].lo <= ws[i].hi /\ ws[i].hi <= k - 1
    BY DEF WindowsOver, WindowsTo
  <2> QED BY <2>1, <2>2
<1>3. ws[1].lo = 1 /\ ws[n].hi = k - 1
  BY <1>1 DEF WindowsOver, WindowsTo
<1>4. w \in Window /\ w.lo = ws[n].lo /\ w.hi = k
  BY <1>1, <1>2 DEF Window
<1> HIDE DEF w
<1>5. vs \in Seq(Window) /\ Len(vs) = n
  BY <1>1, <1>2, <1>4
<1>6. vs[n] = w /\ \A i \in 1..n : i # n => vs[i] = ws[i]
  BY <1>1
<1>6a. \A i \in 1..n : vs[i].lo = ws[i].lo /\ ws[i].hi <= vs[i].hi
  BY <1>1, <1>2, <1>3, <1>4, <1>6
<1> HIDE DEF vs, n
<1>7. WindowsTo(vs, k)
  <2>1. \A i \in 1..n : 1 <= vs[i].lo /\ vs[i].lo <= vs[i].hi /\ vs[i].hi <= k
    <3> SUFFICES ASSUME NEW i \in 1..n
                 PROVE  1 <= vs[i].lo /\ vs[i].lo <= vs[i].hi /\ vs[i].hi <= k
      OBVIOUS
    <3>1. CASE i = n
      BY <1>1, <1>2, <1>4, <1>6, <3>1, SMTT(30)
    <3>2. CASE i # n
      BY <1>2, <1>6, <3>2
    <3> QED BY <3>1, <3>2
  <2>2. vs[1].lo = 1 /\ vs[n].hi = k
    <3>1. 1 \in 1..n
      BY <1>1
    <3> QED BY <1>1, <1>3, <1>4, <1>6, <1>6a, <3>1
  <2>3. ASSUME NEW i \in 2..n
        PROVE  /\ vs[i - 1].lo <= vs[i].lo /\ vs[i].lo <= vs[i - 1].hi + 1
               /\ vs[i - 1].hi < vs[i].hi
    <3>1. i \in 1..n /\ i - 1 \in 1..n /\ i - 1 # n
      BY <1>1
    <3>2. ws[i - 1].lo <= ws[i].lo /\ ws[i].lo <= ws[i - 1].hi + 1 /\ ws[i - 1].hi < ws[i].hi
      BY DEF WindowsOver, WindowsTo, n
    <3>3. vs[i - 1] = ws[i - 1] /\ vs[i].lo = ws[i].lo /\ ws[i].hi <= vs[i].hi
      BY <1>6, <1>6a, <3>1
    <3>4. vs[i].hi \in Nat
      BY <1>5, <3>1, WindowFields
    <3> QED BY <1>2, <3>1, <3>2, <3>3, <3>4
  <2> QED BY <1>1, <1>5, <2>1, <2>2, <2>3 DEF WindowsTo
<1>8. Overlaps(vs, U)
  <2> SUFFICES ASSUME NEW i \in 2..n, vs[i].lo < vs[i - 1].hi
               PROVE  UnitsTokens(SubSeq(U, vs[i].lo + 1, vs[i - 1].hi)) < Overlap
    BY <1>5 DEF Overlaps
  <2>1. i \in 1..n /\ i - 1 \in 1..n /\ i - 1 # n
    BY <1>1
  <2>2. vs[i - 1] = ws[i - 1] /\ vs[i].lo = ws[i].lo
    BY <1>6, <1>6a, <2>1
  <2> QED BY <2>2 DEF WindowsOver, Overlaps, n
<1>9. Win(U, w) = Append(Win(U, ws[n]), U[k])
  <2> DEFINE a == ws[n].lo
  <2>1. a \in 1..k /\ ws[n].hi = k - 1 /\ w.lo = a /\ w.hi = k
    BY <1>1, <1>2, <1>3, <1>4
  <2>2. Win(U, ws[n]) = SubSeq(U, a, k - 1) /\ Win(U, w) = SubSeq(U, a, k)
    BY <2>1 DEF Win
  <2> HIDE DEF a
  <2> QED BY <2>1, <2>2, SubAppend
<1>10. \A i \in 1..n : Fits(U, vs[i], limit)
  <2> SUFFICES ASSUME NEW i \in 1..n PROVE Fits(U, vs[i], limit)
    OBVIOUS
  <2>1. CASE i = n
    <3>1. UnitsTokens(Win(U, w)) <= limit
      BY <1>9 DEF n
    <3> QED BY <1>6, <2>1, <3>1 DEF Fits
  <2>2. CASE i # n
    <3>1. Fits(U, ws[i], limit)
      BY DEF WindowsOver, n
    <3> QED BY <1>6, <2>2, <3>1
  <2> QED BY <2>1, <2>2
<1>11. WindowsOver(vs, U, limit, k)
  BY <1>5, <1>7, <1>8, <1>10 DEF WindowsOver
<1>12. Win(U, vs[n]) = Append(Win(U, ws[n]), U[k])
  BY <1>6, <1>9
<1> QED BY <1>5, <1>11, <1>12 DEF vs, w, n

\* A new window begins in the last one or just behind it.
LEMMA WindowAdded ==
    ASSUME NEW U \in Seq(Unit), NEW k \in 1..Len(U), NEW limit \in Nat,
           NEW ws, WindowsOver(ws, U, limit, k - 1), Len(ws) > 0,
           NEW lo \in ws[Len(ws)].lo..k,
           lo < k - 1 => UnitsTokens(SubSeq(U, lo + 1, k - 1)) < Overlap,
           lo = k \/ UnitsTokens(SubSeq(U, lo, k)) <= limit
    PROVE  WindowsOver(Append(ws, [lo |-> lo, hi |-> k]), U, limit, k)
<1> DEFINE n == Len(ws)
           w == [lo |-> lo, hi |-> k]
           vs == Append(ws, w)
<1>1. ws \in Seq(Window) /\ n \in Nat /\ n > 0 /\ n \in 1..n
  BY DEF WindowsOver, WindowsTo
<1>2. \A i \in 1..n : /\ ws[i] \in Window /\ ws[i].lo \in Nat /\ ws[i].hi \in Nat
                      /\ 1 <= ws[i].lo /\ ws[i].lo <= ws[i].hi /\ ws[i].hi <= k - 1
  <2> SUFFICES ASSUME NEW i \in 1..n
               PROVE  /\ ws[i] \in Window /\ ws[i].lo \in Nat /\ ws[i].hi \in Nat
                      /\ 1 <= ws[i].lo /\ ws[i].lo <= ws[i].hi /\ ws[i].hi <= k - 1
    OBVIOUS
  <2>1. ws[i] \in Window /\ ws[i].lo \in Nat /\ ws[i].hi \in Nat
    BY <1>1, WindowFields
  <2>2. 1 <= ws[i].lo /\ ws[i].lo <= ws[i].hi /\ ws[i].hi <= k - 1
    BY DEF WindowsOver, WindowsTo
  <2> QED BY <2>1, <2>2
<1>3. ws[1].lo = 1 /\ ws[n].hi = k - 1
  BY <1>1 DEF WindowsOver, WindowsTo
<1>3a. lo \in Nat /\ ws[n].lo <= lo /\ lo <= k /\ 1 <= lo
  BY <1>1, <1>2
<1>4. w \in Window /\ w.lo = lo /\ w.hi = k
  BY <1>3a DEF Window
<1> HIDE DEF w
<1>5. vs \in Seq(Window) /\ Len(vs) = n + 1
  BY <1>1, <1>4, AppendProperties
<1>6. vs[n + 1] = w /\ \A i \in 1..n : vs[i] = ws[i]
  BY <1>1, <1>4, AppendProperties
<1> HIDE DEF vs, n
<1>6a. \A i \in 1..(n + 1) : i = n + 1 \/ i \in 1..n
  BY <1>1
<1>7. WindowsTo(vs, k)
  <2>1. \A i \in 1..(n + 1) : 1 <= vs[i].lo /\ vs[i].lo <= vs[i].hi /\ vs[i].hi <= k
    <3> SUFFICES ASSUME NEW i \in 1..(n + 1)
                 PROVE  1 <= vs[i].lo /\ vs[i].lo <= vs[i].hi /\ vs[i].hi <= k
      OBVIOUS
    <3>1. CASE i = n + 1
      BY <1>3a, <1>4, <1>6, <3>1
    <3>2. CASE i \in 1..n
      BY <1>2, <1>6, <3>2
    <3> QED BY <1>6a, <3>1, <3>2
  <2>2. vs[1].lo = 1 /\ vs[n + 1].hi = k
    <3>1. 1 \in 1..n
      BY <1>1
    <3> QED BY <1>3, <1>4, <1>6, <3>1
  <2>3. ASSUME NEW i \in 2..(n + 1)
        PROVE  /\ vs[i - 1].lo <= vs[i].lo /\ vs[i].lo <= vs[i - 1].hi + 1
               /\ vs[i - 1].hi < vs[i].hi
    <3>1. CASE i = n + 1
      <4>1. vs[i] = w /\ vs[i - 1] = ws[n]
        BY <1>1, <1>6, <3>1
      <4> QED BY <1>3, <1>3a, <1>4, <4>1, SMTT(30)
    <3>2. CASE i \in 1..n
      <4>1. i \in 2..n /\ i - 1 \in 1..n
        BY <1>1, <3>2
      <4>2. ws[i - 1].lo <= ws[i].lo /\ ws[i].lo <= ws[i - 1].hi + 1 /\ ws[i - 1].hi < ws[i].hi
        BY <4>1 DEF WindowsOver, WindowsTo, n
      <4> QED BY <1>6, <3>2, <4>1, <4>2
    <3>3. i \in 1..(n + 1)
      BY <1>1
    <3> QED BY <1>6a, <3>1, <3>2, <3>3
  <2>4. \A m : vs \in Seq(Window) /\ Len(vs) = m /\ m > 0
              /\ (\A i \in 1..m : 1 <= vs[i].lo /\ vs[i].lo <= vs[i].hi /\ vs[i].hi <= k)
              /\ vs[1].lo = 1 /\ vs[m].hi = k
              /\ (\A i \in 2..m : /\ vs[i - 1].lo <= vs[i].lo /\ vs[i].lo <= vs[i - 1].hi + 1
                                   /\ vs[i - 1].hi < vs[i].hi)
              => WindowsTo(vs, k)
    BY DEF WindowsTo
  <2>5. n + 1 > 0
    BY <1>1
  <2> QED BY <1>5, <2>1, <2>2, <2>3, <2>4, <2>5
<1>8. Overlaps(vs, U)
  <2> SUFFICES ASSUME NEW i \in 2..(n + 1), vs[i].lo < vs[i - 1].hi
               PROVE  UnitsTokens(SubSeq(U, vs[i].lo + 1, vs[i - 1].hi)) < Overlap
    BY <1>5 DEF Overlaps
  <2>1. CASE i = n + 1
    <3>1. vs[i] = w /\ vs[i - 1] = ws[n]
      BY <1>1, <1>6, <2>1
    <3> QED BY <1>3, <1>4, <3>1
  <2>2. CASE i \in 1..n
    <3>1. i \in 2..n /\ i - 1 \in 1..n
      BY <1>1, <2>2
    <3>2. vs[i] = ws[i] /\ vs[i - 1] = ws[i - 1]
      BY <1>6, <2>2, <3>1
    <3> QED BY <3>1, <3>2 DEF WindowsOver, Overlaps, n
  <2>3. i \in 1..(n + 1)
    BY <1>1
  <2> QED BY <1>6a, <2>1, <2>2, <2>3
<1>9. \A i \in 1..(n + 1) : Fits(U, vs[i], limit)
  <2> SUFFICES ASSUME NEW i \in 1..(n + 1) PROVE Fits(U, vs[i], limit)
    OBVIOUS
  <2>1. CASE i = n + 1
    BY <1>4, <1>6, <2>1 DEF Fits, Win
  <2>2. CASE i \in 1..n
    <3>1. Fits(U, ws[i], limit)
      BY <2>2 DEF WindowsOver, n
    <3> QED BY <1>6, <2>2, <3>1
  <2> QED BY <1>6a, <2>1, <2>2
<1>10. WindowsOver(vs, U, limit, k)
  BY <1>5, <1>7, <1>8, <1>9 DEF WindowsOver
<1> QED BY <1>10 DEF vs, w

-----------------------------------------------------------------------------
(* The chunks of a section                                                 *)

GroupedTo(acc, U, title, k) ==
    \/ k = 0 /\ acc = [grouped |-> <<>>, current |-> <<>>]
    \/ /\ k > 0
       /\ \E ws : /\ WindowsOver(ws, U, RoomBeside(title), k)
                  /\ Len(ws) = Len(acc.grouped) + 1
                  /\ acc.current = Win(U, ws[Len(ws)])
                  /\ \A i \in 1..Len(acc.grouped) :
                        acc.grouped[i] = ApplyStickyHeading(Win(U, ws[i]), title)

LEMMA FirstUnit ==
    ASSUME NEW U \in Seq(SourcedUnit), Len(U) > 0, NEW title \in Seq(Word), NEW acc \in Grouping,
           GroupedTo(acc, U, title, 0)
    PROVE  GroupedTo(AddUnit(acc, U[1], title), U, title, 1)
<1> DEFINE w == [lo |-> 1, hi |-> 1]
           ws == <<w>>
           next == AddUnit(acc, U[1], title)
<1>1. acc.current = <<>> /\ acc.grouped = <<>>
  BY DEF GroupedTo
<1>2. U[1] \in SourcedUnit /\ 1 \in 1..Len(U)
  OBVIOUS
<1>3. next = [grouped |-> <<>>, current |-> <<U[1]>>]
  BY <1>1, <1>2, AddUnitIs
<1>4. w \in Window /\ w.lo = 1 /\ w.hi = 1
  BY DEF Window
<1> HIDE DEF w
<1>5. ws \in Seq(Window) /\ Len(ws) = 1 /\ ws[1] = w
  BY <1>4
<1> HIDE DEF ws, next
<1>6. WindowsTo(ws, 1)
  BY <1>4, <1>5 DEF WindowsTo
<1>7. Overlaps(ws, U)
  BY <1>5 DEF Overlaps
<1>8. \A i \in 1..Len(ws) : Fits(U, ws[i], RoomBeside(title))
  BY <1>4, <1>5 DEF Fits
<1>9. WindowsOver(ws, U, RoomBeside(title), 1)
  BY <1>6, <1>7, <1>8 DEF WindowsOver
<1>10. Win(U, ws[1]) = <<U[1]>>
  <2>1. SubSeq(U, 1, 1) = <<U[1]>>
    <3>1. Append(SubSeq(U, 1, 0), U[1]) = SubSeq(U, 1, 1)
      BY <1>2, SubAppend
    <3>2. SubSeq(U, 1, 0) = <<>>
      BY SubSeqEmpty
    <3>3. Append(<<>>, U[1]) = <<U[1]>>
      OBVIOUS
    <3> QED BY <3>1, <3>2, <3>3
  <2> QED BY <1>4, <1>5, <2>1 DEF Win
<1>11. next.grouped = <<>> /\ next.current = <<U[1]>> /\ Len(next.grouped) = 0
  BY <1>3
<1>12. \A i \in 1..Len(next.grouped) : next.grouped[i] = ApplyStickyHeading(Win(U, ws[i]), title)
  BY <1>11
<1>13. GroupedTo(next, U, title, 1)
  <2>1. Len(ws) = Len(next.grouped) + 1
    BY <1>5, <1>11
  <2>2. next.current = Win(U, ws[Len(ws)])
    BY <1>5, <1>10, <1>11
  <2>3. 1 > 0
    OBVIOUS
  <2> QED BY <1>9, <1>12, <2>1, <2>2, <2>3 DEF GroupedTo
<1> QED BY <1>13 DEF next

LEMMA NextUnit ==
    ASSUME NEW U \in Seq(SourcedUnit), Plain(U), NEW title \in Seq(Word), NEW acc \in Grouping,
           NEW k \in 2..Len(U), GroupedTo(acc, U, title, k - 1)
    PROVE  GroupedTo(AddUnit(acc, U[k], title), U, title, k)
<1> DEFINE u == U[k]
           next == AddUnit(acc, u, title)
           limit == RoomBeside(title)
           room == limit - Tokens(u.words)
           cur == acc.current
           over == BuildOverlap(cur, room)
<1>0. k \in 1..Len(U) /\ Len(U) \in Nat /\ k > 1 /\ U \in Seq(Unit)
  BY SourcedTyped
<1>1. PICK ws : /\ WindowsOver(ws, U, limit, k - 1)
                /\ Len(ws) = Len(acc.grouped) + 1
                /\ cur = Win(U, ws[Len(ws)])
                /\ \A i \in 1..Len(acc.grouped) :
                        acc.grouped[i] = ApplyStickyHeading(Win(U, ws[i]), title)
  BY <1>0 DEF GroupedTo
<1> DEFINE n == Len(ws)
           a == ws[n].lo
<1>2. /\ ws \in Seq(Window) /\ n \in Nat /\ n > 0 /\ n \in 1..n
      /\ acc.grouped \in Seq(Seq(SourcedUnit)) /\ cur \in Seq(SourcedUnit) /\ Len(acc.grouped) \in Nat
      /\ Len(acc.grouped) = n - 1
  <2>1. acc.grouped \in Seq(Seq(SourcedUnit)) /\ cur \in Seq(SourcedUnit)
    BY DEF Grouping
  <2>2. Len(acc.grouped) \in Nat
    BY <2>1
  <2>3. ws \in Seq(Window)
    BY <1>1 DEF WindowsOver, WindowsTo
  <2> QED BY <1>1, <2>1, <2>2, <2>3
<1>3. a \in Nat /\ 1 <= a /\ a <= k - 1 /\ ws[n].hi = k - 1
  <2>1. a \in Nat
    BY <1>2, WindowFields
  <2>2. 1 <= a /\ a <= ws[n].hi /\ ws[n].hi = k - 1
    BY <1>1, <1>2 DEF WindowsOver, WindowsTo
  <2> QED BY <2>1, <2>2
<1> HIDE DEF a, n
<1>4. cur = SubSeq(U, a, k - 1) /\ Len(cur) = k - a /\ cur # <<>>
  <2>1. cur = SubSeq(U, a, k - 1)
    BY <1>1, <1>3 DEF Win, a, n
  <2>2. Len(cur) = k - a
    BY <1>0, <1>3, <2>1
  <2> QED BY <1>3, <2>1, <2>2
<1>5. u \in SourcedUnit /\ u \in Unit /\ u.words \in Seq(Word) /\ Tokens(u.words) \in Nat /\ limit \in Nat
  <2>1. u \in SourcedUnit
    BY <1>0
  <2>2. u \in Unit /\ u.words \in Seq(Word)
    BY <2>1 DEF SourcedUnit, Unit
  <2> QED BY <2>1, <2>2, TokensAre, RoomTyped
<1> HIDE DEF u, limit, cur, over
<1>6. \/ /\ UnitsTokens(Append(cur, u)) <= limit
         /\ next = [grouped |-> acc.grouped, current |-> Append(cur, u)]
      \/ next = [ grouped |-> Append(acc.grouped, ApplyStickyHeading(cur, title)),
                  current |-> Append(over, u) ]
  BY <1>4, <1>5, AddUnitIs DEF cur, over, limit
<1> HIDE DEF next
<1>7. CASE /\ UnitsTokens(Append(cur, u)) <= limit
           /\ next = [grouped |-> acc.grouped, current |-> Append(cur, u)]
  <2> DEFINE vs == [i \in 1..n |-> IF i = n THEN [lo |-> ws[n].lo, hi |-> k] ELSE ws[i]]
  <2>1. UnitsTokens(Append(Win(U, ws[Len(ws)]), U[k])) <= limit
    BY <1>1, <1>7 DEF u
  <2>2. WindowsOver(vs, U, limit, k) /\ Len(vs) = n /\ Win(U, vs[n]) = Append(Win(U, ws[n]), U[k])
    <3>1. LET m  == Len(ws)
              ks == [i \in 1..m |-> IF i = m THEN [lo |-> ws[m].lo, hi |-> k] ELSE ws[i]]
          IN  /\ WindowsOver(ks, U, limit, k)
              /\ Len(ks) = m
              /\ Win(U, ks[m]) = Append(Win(U, ws[m]), U[k])
      <4>1. WindowsOver(ws, U, limit, k - 1) /\ Len(ws) > 0 /\ k \in 1..Len(U) /\ limit \in Nat
            /\ U \in Seq(Unit)
        BY <1>0, <1>1, <1>2, <1>5 DEF n
      <4> QED BY <2>1, <4>1, WindowGrows
    <3> QED BY <3>1 DEF n
  <2>3. \A i \in 1..Len(acc.grouped) : vs[i] = ws[i]
    BY <1>2
  <2> HIDE DEF vs
  <2>4. next.grouped = acc.grouped /\ next.current = Append(cur, u)
    BY <1>7
  <2>5. Len(vs) = Len(next.grouped) + 1
    BY <1>1, <2>2, <2>4 DEF n
  <2>6. next.current = Win(U, vs[Len(vs)])
    BY <1>1, <2>2, <2>4 DEF u, n
  <2>7. \A i \in 1..Len(next.grouped) : next.grouped[i] = ApplyStickyHeading(Win(U, vs[i]), title)
    BY <1>1, <2>3, <2>4
  <2>8. WindowsOver(vs, U, RoomBeside(title), k)
    BY <2>2 DEF limit
  <2>9. GroupedTo(next, U, title, k)
    BY <1>0, <2>5, <2>6, <2>7, <2>8 DEF GroupedTo
  <2> QED BY <2>9 DEF next, u
<1>8. CASE next = [ grouped |-> Append(acc.grouped, ApplyStickyHeading(cur, title)),
                    current |-> Append(over, u) ]
  <2>1. \E lo \in a..k : /\ Append(over, u) = SubSeq(U, lo, k)
                         /\ lo < k - 1 => UnitsTokens(SubSeq(U, lo + 1, k - 1)) < Overlap
                         /\ lo = k \/ UnitsTokens(SubSeq(U, lo, k)) <= limit
    <3> HIDE DEF room
    <3>1. BodyUnits(cur) = cur
      <4>1. \A i \in 1..Len(cur) : cur[i] = U[a + i - 1] /\ a + i - 1 \in 1..Len(U)
        BY <1>0, <1>3, <1>4
      <4>2. Plain(cur)
        BY <4>1 DEF Plain
      <4> QED BY <1>2, <4>2, BodyAll
    <3>2. room \in Int
      BY <1>5 DEF room
    <3>3. \/ over = <<>>
          \/ \E i \in 1..Len(cur) :
                    /\ over = SubSeq(cur, i, Len(cur))
                    /\ UnitsTokens(SubSeq(cur, i, Len(cur))) <= room
                    /\ i < Len(cur) => UnitsTokens(SubSeq(cur, i + 1, Len(cur))) < Overlap
      BY <1>2, <3>1, <3>2, OverlapIs DEF over, room
    <3>4. CASE over = <<>>
      <4>1. Append(SubSeq(U, k, k - 1), U[k]) = SubSeq(U, k, k)
        BY <1>0, SubAppend
      <4>2. SubSeq(U, k, k - 1) = <<>>
        BY <1>0, SubSeqEmpty
      <4>3. k \in a..k
        BY <1>0, <1>3
      <4> QED BY <1>0, <3>4, <4>1, <4>2, <4>3 DEF u
    <3>5. ASSUME NEW i \in 1..Len(cur),
                 over = SubSeq(cur, i, Len(cur)),
                 UnitsTokens(SubSeq(cur, i, Len(cur))) <= room,
                 i < Len(cur) => UnitsTokens(SubSeq(cur, i + 1, Len(cur))) < Overlap
          PROVE  \E lo \in a..k : /\ Append(over, u) = SubSeq(U, lo, k)
                                  /\ lo < k - 1 => UnitsTokens(SubSeq(U, lo + 1, k - 1)) < Overlap
                                  /\ lo = k \/ UnitsTokens(SubSeq(U, lo, k)) <= limit
      <4> DEFINE b == k - 1
                 m == Len(cur)
                 lo == a + i - 1
      <4>1. b \in 1..Len(U) /\ a \in 1..b /\ m = Len(SubSeq(U, a, b)) /\ cur = SubSeq(U, a, b)
        BY <1>0, <1>3, <1>4
      <4>1a. i \in 1..m
        OBVIOUS
      <4> HIDE DEF b, m
      <4>2. m = b - a + 1 /\ SubSeq(cur, i, m) = SubSeq(U, lo, b) /\ lo \in a..b
        BY <1>0, <4>1, <4>1a, SubTail
      <4>3. ASSUME i < m PROVE SubSeq(cur, i + 1, m) = SubSeq(U, lo + 1, b)
        <5> DEFINE j == i + 1
        <5>1. j \in 1..m
          BY <1>0, <1>3, <4>1, <4>1a, <4>2, <4>3
        <5>2. SubSeq(cur, j, m) = SubSeq(U, a + j - 1, b)
          <6> HIDE DEF j
          <6> QED BY <1>0, <4>1, <5>1, SubTail
        <5>3. a + j - 1 = lo + 1
          BY <1>3, <4>1a, <4>2
        <5> QED BY <5>2, <5>3
      <4>4. lo < b => i < m
        BY <1>3, <4>1, <4>1a, <4>2
      <4>5. lo < b => UnitsTokens(SubSeq(U, lo + 1, b)) < Overlap
        BY <3>5, <4>3, <4>4 DEF m
      <4> HIDE DEF lo
      <4>6. lo \in 1..k /\ lo \in a..k
        BY <1>0, <1>3, <4>1, <4>2 DEF b
      <4>7. Append(SubSeq(U, lo, b), u) = SubSeq(U, lo, k) /\ SubSeq(U, lo, b) \in Seq(Unit)
        BY <1>0, <4>6, SubAppend DEF b, u
      <4>8. over = SubSeq(U, lo, b) /\ UnitsTokens(over) <= room
        BY <3>5, <4>2 DEF m
      <4>9. UnitsTokens(SubSeq(U, lo, k)) = UnitsTokens(over) + Tokens(u.words) /\ UnitsTokens(over) \in Nat
        BY <1>5, <4>7, <4>8, UnitsTokensAppend, UnitsTokensAre
      <4>10. UnitsTokens(SubSeq(U, lo, k)) <= limit
        BY <1>5, <4>8, <4>9 DEF room
      <4> QED BY <4>5, <4>6, <4>7, <4>8, <4>10 DEF b
    <3> QED BY <3>3, <3>4, <3>5
  <2>2. PICK lo \in a..k : /\ Append(over, u) = SubSeq(U, lo, k)
                           /\ lo < k - 1 => UnitsTokens(SubSeq(U, lo + 1, k - 1)) < Overlap
                           /\ lo = k \/ UnitsTokens(SubSeq(U, lo, k)) <= limit
    BY <2>1
  <2> DEFINE w == [lo |-> lo, hi |-> k]
             vs == Append(ws, w)
  <2>3. lo \in ws[Len(ws)].lo..k
    BY <2>2 DEF a, n
  <2>4. WindowsOver(vs, U, limit, k)
    BY <1>0, <1>1, <1>2, <1>5, <2>2, <2>3, WindowAdded DEF n
  <2>5. w \in Window
    BY <1>0, <1>3, <2>2 DEF Window
  <2> HIDE DEF w
  <2>6. Len(vs) = n + 1 /\ vs[n + 1] = w /\ \A i \in 1..n : vs[i] = ws[i]
    BY <1>2, <2>5, AppendProperties DEF n
  <2> HIDE DEF vs
  <2> DEFINE c == ApplyStickyHeading(cur, title)
  <2>7. c \in Seq(SourcedUnit)
    BY <1>2, <1>4, StickyTyped
  <2>8. next.grouped = Append(acc.grouped, c) /\ next.current = Append(over, u)
    BY <1>8
  <2> HIDE DEF c
  <2>9. Len(next.grouped) = n /\ next.grouped[n] = c
        /\ \A i \in 1..(n - 1) : next.grouped[i] = acc.grouped[i]
    BY <1>2, <2>7, <2>8, AppendProperties, SMTT(30)
  <2>10. Len(vs) = Len(next.grouped) + 1
    BY <2>6, <2>9
  <2>11. next.current = Win(U, vs[Len(vs)])
    <3>1. Win(U, w) = SubSeq(U, lo, k)
      BY DEF Win, w
    <3> QED BY <2>2, <2>6, <2>8, <3>1
  <2>12. ASSUME NEW i \in 1..Len(next.grouped)
         PROVE  next.grouped[i] = ApplyStickyHeading(Win(U, vs[i]), title)
    <3>0. i \in 1..n
      BY <2>9
    <3>1. CASE i = n
      BY <1>1, <1>2, <2>6, <2>9, <3>1 DEF c, n
    <3>2. CASE i # n
      <4>1. i \in 1..(n - 1) /\ i \in 1..Len(acc.grouped)
        BY <1>2, <3>0, <3>2
      <4> QED BY <1>1, <2>6, <2>9, <3>0, <4>1
    <3> QED BY <3>1, <3>2
  <2>13. WindowsOver(vs, U, RoomBeside(title), k)
    BY <2>4 DEF limit
  <2>14. GroupedTo(next, U, title, k)
    BY <1>0, <2>10, <2>11, <2>12, <2>13, SMTT(30) DEF GroupedTo
  <2> QED BY <2>14 DEF next, u
<1> QED BY <1>6, <1>7, <1>8

LEMMA GroupUnitsAre ==
    ASSUME NEW U \in Seq(SourcedUnit), Plain(U), Len(U) > 0, NEW title \in Seq(Word)
    PROVE  /\ GroupUnits(U, title) \in Seq(Seq(SourcedUnit))
           /\ \E ws : /\ WindowsOver(ws, U, RoomBeside(title), Len(U))
                      /\ Len(GroupUnits(U, title)) = Len(ws)
                      /\ \A i \in 1..Len(ws) :
                            GroupUnits(U, title)[i] = ApplyStickyHeading(Win(U, ws[i]), title)
<1> DEFINE n == Len(U)
<1>1. n \in Nat /\ n > 0 /\ [grouped |-> <<>>, current |-> <<>>] \in Grouping
  BY DEF Grouping
<1>2. \A e \in Grouping : \A k \in 1..n : AddUnit(e, U[k], title) \in Grouping
  BY AddUnitIs
<1>3. PICK r \in [0..n -> Grouping] :
             /\ r[0] = [grouped |-> <<>>, current |-> <<>>]
             /\ \A k \in 1..n : r[k] = AddUnit(r[k - 1], U[k], title)
             /\ GroupUnits(U, title) = (IF r[n].current = <<>> THEN r[n].grouped ELSE Append(r[n].grouped, ApplyStickyHeading(r[n].current, title)))
  BY <1>1, <1>2, UnitSteps
<1> DEFINE T == {k \in 0..n : GroupedTo(r[k], U, title, k)}
<1>4. 0 \in T
  BY <1>1, <1>3 DEF GroupedTo
<1>5. ASSUME NEW k \in 1..n, k - 1 \in T
      PROVE  k \in T
  <2>1. r[k - 1] \in Grouping /\ GroupedTo(r[k - 1], U, title, k - 1) /\ r[k] = AddUnit(r[k - 1], U[k], title)
    BY <1>1, <1>3, <1>5
  <2>2. CASE k = 1
    <3>1. r[k - 1] \in Grouping /\ GroupedTo(r[k - 1], U, title, 0) /\ r[k] = AddUnit(r[k - 1], U[1], title)
      BY <2>1, <2>2
    <3>2. GroupedTo(r[k], U, title, 1)
      BY <1>1, <3>1, FirstUnit
    <3> QED BY <2>2, <3>2
  <2>3. CASE k # 1
    <3>1. k \in 2..Len(U)
      BY <2>3
    <3>2. GroupedTo(r[k], U, title, k)
      BY <2>1, <3>1, NextUnit
    <3> QED BY <3>2
  <2> QED BY <2>2, <2>3
<1>6. n \in T
  <2> HIDE DEF T, n
  <2> QED BY <1>1, <1>4, <1>5, Reaches
<1> DEFINE acc == r[n]
<1>7. GroupedTo(acc, U, title, n) /\ acc \in Grouping
  BY <1>1, <1>3, <1>6
<1>8. PICK ws : /\ WindowsOver(ws, U, RoomBeside(title), n)
                /\ Len(ws) = Len(acc.grouped) + 1
                /\ acc.current = Win(U, ws[Len(ws)])
                /\ \A i \in 1..Len(acc.grouped) :
                        acc.grouped[i] = ApplyStickyHeading(Win(U, ws[i]), title)
  BY <1>1, <1>7 DEF GroupedTo
<1>9. /\ acc.grouped \in Seq(Seq(SourcedUnit)) /\ acc.current \in Seq(SourcedUnit)
      /\ Len(acc.grouped) \in Nat
  BY <1>7 DEF Grouping
<1>10. acc.current # <<>>
  <2> DEFINE m == Len(ws)
  <2>1. ws \in Seq(Window) /\ m > 0 /\ m \in 1..m
    BY <1>8, <1>9 DEF WindowsOver, WindowsTo
  <2>2. 1 <= ws[m].lo /\ ws[m].lo <= ws[m].hi /\ ws[m].hi <= n
    BY <1>8, <2>1 DEF WindowsOver, WindowsTo
  <2>3. ws[m].lo \in Nat /\ ws[m].hi \in Nat
    BY <2>1, WindowFields
  <2> DEFINE a == ws[m].lo
             b == ws[m].hi
  <2>4. acc.current = SubSeq(U, a, b)
    BY <1>8 DEF Win
  <2>5. a \in Nat /\ b \in Nat /\ 1 <= a /\ a <= b /\ b <= n
    BY <2>2, <2>3
  <2> HIDE DEF a, b
  <2>6. Len(SubSeq(U, a, b)) = b - a + 1
    BY <1>1, <2>5
  <2>7. b - a + 1 > 0
    BY <2>5
  <2>8. Len(acc.current) > 0
    BY <2>4, <2>6, <2>7
  <2>9. Len(<<>>) = 0
    OBVIOUS
  <2> HIDE DEF acc
  <2> QED BY <2>8, <2>9
<1> DEFINE c == ApplyStickyHeading(acc.current, title)
           G == GroupUnits(U, title)
<1>11. G = Append(acc.grouped, c)
  BY <1>3, <1>10
<1>12. c \in Seq(SourcedUnit)
  BY <1>9, <1>10, StickyTyped
<1>13. c = ApplyStickyHeading(Win(U, ws[Len(ws)]), title)
  BY <1>8
<1> HIDE DEF c, G, acc
<1>14. G \in Seq(Seq(SourcedUnit)) /\ Len(G) = Len(ws)
  BY <1>8, <1>9, <1>11, <1>12
<1>15. ASSUME NEW i \in 1..Len(ws)
       PROVE  G[i] = ApplyStickyHeading(Win(U, ws[i]), title)
  <2>1. CASE i = Len(ws)
    BY <1>8, <1>9, <1>11, <1>12, <1>13, <2>1, AppendProperties
  <2>2. CASE i # Len(ws)
    <3>1. i \in 1..Len(acc.grouped)
      BY <1>8, <1>9, <2>2
    <3>2. G[i] = acc.grouped[i]
      BY <1>9, <1>11, <1>12, <3>1, AppendProperties
    <3> QED BY <1>8, <3>1, <3>2
  <2> QED BY <2>1, <2>2
<1> QED BY <1>8, <1>14, <1>15 DEF G

\* Units that are not over the target all go to one chunk.
LEMMA WholeGroup ==
    ASSUME NEW U \in Seq(SourcedUnit), Len(U) > 0, UnitsTokens(U) <= Target
    PROVE  GroupUnits(U, NoTitle) = <<U>>
<1> DEFINE n == Len(U)
<1>0. NoTitle \in Seq(Word) /\ RoomBeside(NoTitle) = Target
  <2>1. NoTitle \in Seq(Word)
    BY DEF NoTitle
  <2> QED BY <2>1, RoomTyped
<1>1. n \in Nat /\ n > 0 /\ [grouped |-> <<>>, current |-> <<>>] \in Grouping
  BY DEF Grouping
<1>2. \A e \in Grouping : \A k \in 1..n : AddUnit(e, U[k], NoTitle) \in Grouping
  BY <1>0, AddUnitIs
<1>3. PICK r \in [0..n -> Grouping] :
             /\ r[0] = [grouped |-> <<>>, current |-> <<>>]
             /\ \A k \in 1..n : r[k] = AddUnit(r[k - 1], U[k], NoTitle)
             /\ GroupUnits(U, NoTitle) = (IF r[n].current = <<>> THEN r[n].grouped ELSE Append(r[n].grouped, ApplyStickyHeading(r[n].current, NoTitle)))
  BY <1>1, <1>2, UnitSteps
<1>4. ASSUME NEW k \in 1..n
      PROVE  UnitsTokens(SubSeq(U, 1, k)) <= Target
  <2>1. SubSeq(U, 1, k) \in Seq(SourcedUnit) /\ SubSeq(U, k + 1, n) \in Seq(SourcedUnit)
    BY <1>1
  <2>2. SubSeq(U, 1, k) \o SubSeq(U, k + 1, n) = U
    <3>1. 1 \in 1..(Len(U) + 1) /\ k \in (1 - 1)..Len(U) /\ n \in k..Len(U)
      BY <1>1
    <3>2. SubSeq(U, 1, k) \o SubSeq(U, k + 1, n) = SubSeq(U, 1, n)
      BY <3>1, ConcatAdjacentSubSeq
    <3> QED BY <3>2, SubSeqFull
  <2> DEFINE p == SubSeq(U, 1, k)
             q == SubSeq(U, k + 1, n)
  <2>3. p \in Seq(Unit) /\ q \in Seq(Unit) /\ p \o q = U
    <3> HIDE DEF p, q
    <3>1. p \in Seq(SourcedUnit) /\ q \in Seq(SourcedUnit) /\ p \o q = U
      BY <2>1, <2>2 DEF p, q
    <3> QED BY <3>1, SourcedTyped
  <2> HIDE DEF p, q
  <2>4. UnitsTokens(U) = UnitsTokens(p) + UnitsTokens(q) /\ UnitsTokens(p) \in Nat /\ UnitsTokens(q) \in Nat
    BY <2>3, UnitsTokensJoin, UnitsTokensAre
  <2>5. Target \in Nat
    BY SettingsAssumption
  <2> QED BY <2>4, <2>5 DEF p
<1> DEFINE T == {k \in 0..n : r[k] = [grouped |-> <<>>, current |-> SubSeq(U, 1, k)]}
<1>5. 0 \in T
  <2>1. SubSeq(U, 1, 0) = <<>>
    BY SubSeqEmpty
  <2> QED BY <1>1, <1>3, <2>1
<1>6. ASSUME NEW k \in 1..n, k - 1 \in T
      PROVE  k \in T
  <2> DEFINE acc == r[k - 1]
             u == U[k]
  <2>1. acc \in Grouping /\ acc = [grouped |-> <<>>, current |-> SubSeq(U, 1, k - 1)]
        /\ r[k] = AddUnit(acc, u, NoTitle) /\ u \in SourcedUnit
    BY <1>1, <1>3, <1>6
  <2>2. Append(SubSeq(U, 1, k - 1), u) = SubSeq(U, 1, k)
    <3>1. 1 \in 1..k
      OBVIOUS
    <3> QED BY <3>1, SubAppend
  <2> HIDE DEF acc, u
  <2>3. acc.grouped = <<>> /\ acc.current = SubSeq(U, 1, k - 1)
    BY <2>1
  <2>4. UnitsTokens(Append(acc.current, u)) <= RoomBeside(NoTitle)
    BY <1>0, <1>4, <2>2, <2>3
  <2>5. CASE acc.current = <<>>
    <3>1. AddUnit(acc, u, NoTitle) = [grouped |-> acc.grouped, current |-> <<u>>]
      BY <1>0, <2>1, <2>5, AddUnitIs
    <3>2. Append(<<>>, u) = <<u>>
      OBVIOUS
    <3>3. r[k] = [grouped |-> <<>>, current |-> SubSeq(U, 1, k)]
      BY <2>1, <2>2, <2>3, <2>5, <3>1, <3>2
    <3> QED BY <3>3
  <2>6. CASE acc.current # <<>>
    <3>1. AddUnit(acc, u, NoTitle) = [grouped |-> acc.grouped, current |-> Append(acc.current, u)]
      BY <1>0, <2>1, <2>4, <2>6, AddUnitIs
    <3>2. r[k] = [grouped |-> <<>>, current |-> SubSeq(U, 1, k)]
      BY <2>1, <2>2, <2>3, <3>1
    <3> QED BY <3>2
  <2> QED BY <2>5, <2>6
<1>7. n \in T
  <2> HIDE DEF T, n
  <2> QED BY <1>1, <1>5, <1>6, Reaches
<1>8. r[n].grouped = <<>> /\ r[n].current = U
  <2>1. SubSeq(U, 1, Len(U)) = U
    BY SubSeqFull
  <2> QED BY <1>7, <2>1
<1>9. U # <<>>
  BY <1>1
<1>10. ApplyStickyHeading(U, NoTitle) = U
  BY DEF ApplyStickyHeading
<1>11. GroupUnits(U, NoTitle) = Append(<<>>, U)
  BY <1>3, <1>8, <1>9, <1>10
<1> QED BY <1>11

-----------------------------------------------------------------------------
(* The body of units that are put together                                 *)

BodyIn(us) == { k \in DOMAIN us : ~us[k].heading }

LEMMA BodyAppend ==
    ASSUME NEW us \in Seq(SourcedUnit), NEW x \in SourcedUnit
    PROVE  BodyUnits(Append(us, x)) = IF x.heading THEN BodyUnits(us) ELSE Append(BodyUnits(us), x)
<1> DEFINE n == Len(us)
           vs == Append(us, x)
           E == Seq(SourcedUnit)
           I == BodyIn(us)
           J == BodyIn(vs)
<1>1. n \in Nat /\ vs \in Seq(SourcedUnit) /\ Len(vs) = n + 1 /\ vs[n + 1] = x
      /\ \A k \in 1..n : vs[k] = us[k]
  BY AppendProperties
<1>2. \A k \in 1..n : k \in I <=> k \in J
  BY <1>1 DEF BodyIn
<1>3. n + 1 \in J <=> ~ x.heading
  BY <1>1 DEF BodyIn
<1>4. BodyUnits(us) = At(us, I) /\ BodyUnits(vs) = At(vs, J)
  BY DEF BodyUnits, BodyIn
<1> HIDE DEF vs, I, J
<1>5. PICK q \in [0..n -> E] : /\ q[0] = <<>>
                               /\ \A k \in 1..n : q[k] = Pick(q[k - 1], us, I, k)
                               /\ At(us, I) = q[n]
  <2>1. \A e \in E : \A k \in 1..Len(us) : Pick(e, us, I, k) \in E
    BY DEF Pick
  <2>2. <<>> \in E
    OBVIOUS
  <2> HIDE DEF E
  <2> QED BY <2>1, <2>2, AtSteps
<1>6. PICK r \in [0..(n + 1) -> E] : /\ r[0] = <<>>
                                     /\ \A k \in 1..(n + 1) : r[k] = Pick(r[k - 1], vs, J, k)
                                     /\ At(vs, J) = r[n + 1]
  <2>1. \A e \in E : \A k \in 1..Len(vs) : Pick(e, vs, J, k) \in E
    BY <1>1 DEF Pick
  <2>2. <<>> \in E
    OBVIOUS
  <2>3. \E r \in [0..Len(vs) -> E] : /\ r[0] = <<>>
                                     /\ \A k \in 1..Len(vs) : r[k] = Pick(r[k - 1], vs, J, k)
                                     /\ At(vs, J) = r[Len(vs)]
    <3> HIDE DEF E
    <3> QED BY <1>1, <2>1, <2>2, AtSteps, ZenonT(40)
  <2> QED BY <1>1, <2>3
<1> DEFINE T == {k \in 0..n : r[k] = q[k]}
<1>7. 0 \in T
  BY <1>1, <1>5, <1>6
<1>8. ASSUME NEW k \in 1..n, k - 1 \in T
      PROVE  k \in T
  <2>1. r[k - 1] = q[k - 1]
    BY <1>8
  <2>2. k \in 1..(n + 1)
    BY <1>1
  <2>3. r[k] = Pick(r[k - 1], vs, J, k) /\ q[k] = Pick(q[k - 1], us, I, k)
    BY <1>5, <1>6, <2>2
  <2>4. r[k] = q[k]
    BY <1>1, <1>2, <2>1, <2>3 DEF Pick
  <2> QED BY <1>1, <2>4
<1>9. n \in T
  <2> HIDE DEF T, n
  <2> QED BY <1>1, <1>7, <1>8, Reaches
<1>10. r[n + 1] = Pick(q[n], vs, J, n + 1)
  <2>1. n + 1 \in 1..(n + 1) /\ (n + 1) - 1 = n
    BY <1>1
  <2>2. r[n + 1] = Pick(r[(n + 1) - 1], vs, J, n + 1)
    BY <1>6, <2>1
  <2>3. r[n] = q[n]
    BY <1>9
  <2> QED BY <2>1, <2>2, <2>3
<1>11. At(vs, J) = IF x.heading THEN At(us, I) ELSE Append(At(us, I), x)
  BY <1>1, <1>3, <1>5, <1>6, <1>10 DEF Pick
<1> QED BY <1>4, <1>11 DEF vs

LEMMA BodyNone == BodyUnits(<<>>) = <<>>
<1>1. <<>> \in Seq(SourcedUnit) /\ Plain(<<>>)
  BY DEF Plain
<1> QED BY <1>1, BodyAll

LEMMA BodyConcat ==
    ASSUME NEW us \in Seq(SourcedUnit), NEW vs \in Seq(SourcedUnit)
    PROVE  BodyUnits(us \o vs) = BodyUnits(us) \o BodyUnits(vs)
<1> DEFINE n == Len(vs)
           p(m) == SubSeq(vs, 1, m)
           T == {m \in 0..n : BodyUnits(us \o p(m)) = BodyUnits(us) \o BodyUnits(p(m))}
<1>1. n \in Nat /\ p(n) = vs
  BY SubSeqFull
<1>2. 0 \in T
  <2>1. p(0) = <<>>
    BY SubSeqEmpty
  <2>2. us \o <<>> = us /\ BodyUnits(us) \in Seq(SourcedUnit)
    BY BodyTyped, ConcatEmptySeq
  <2>3. BodyUnits(us) \o <<>> = BodyUnits(us)
    BY <2>2, ConcatEmptySeq
  <2>4. BodyUnits(us \o p(0)) = BodyUnits(us) \o BodyUnits(p(0))
    BY <2>1, <2>2, <2>3, BodyNone
  <2> QED BY <1>1, <2>4
<1>3. ASSUME NEW m \in 1..n, m - 1 \in T
      PROVE  m \in T
  <2> DEFINE q == p(m - 1)
             x == vs[m]
  <2>1. p(m) = Append(q, x) /\ q \in Seq(SourcedUnit) /\ x \in SourcedUnit
    <3>1. 1 \in 1..m
      OBVIOUS
    <3>2. x \in SourcedUnit
      OBVIOUS
    <3> QED BY <3>1, <3>2, SubAppend
  <2>2. BodyUnits(us \o q) = BodyUnits(us) \o BodyUnits(q)
    BY <1>3
  <2> HIDE DEF q, x, p
  <2>3. us \o Append(q, x) = Append(us \o q, x) /\ us \o q \in Seq(SourcedUnit)
    BY <2>1
  <2>4. BodyUnits(us) \in Seq(SourcedUnit) /\ BodyUnits(q) \in Seq(SourcedUnit)
    BY <2>1, BodyTyped
  <2>5. BodyUnits(us) \o Append(BodyUnits(q), x) = Append(BodyUnits(us) \o BodyUnits(q), x)
    BY <2>1, <2>4
  <2>6. BodyUnits(Append(us \o q, x)) = IF x.heading THEN BodyUnits(us \o q) ELSE Append(BodyUnits(us \o q), x)
    BY <2>1, <2>3, BodyAppend
  <2>7. BodyUnits(Append(q, x)) = IF x.heading THEN BodyUnits(q) ELSE Append(BodyUnits(q), x)
    BY <2>1, BodyAppend
  <2>8. BodyUnits(us \o p(m)) = BodyUnits(us) \o BodyUnits(p(m))
    BY <2>1, <2>2, <2>3, <2>5, <2>6, <2>7
  <2> QED BY <1>1, <2>8
<1>4. n \in T
  <2> HIDE DEF T, n
  <2> QED BY <1>1, <1>2, <1>3, Reaches
<1> QED BY <1>1, <1>4

\* The body of a whole is made of the bodies of its parts.
LEMMA BodyCuts ==
    ASSUME NEW parts \in Seq(Seq(SourcedUnit)), NEW whole \in Seq(SourcedUnit),
           NEW c, Cuts(c, parts, whole)
    PROVE  BodyUnits(whole) = FlattenSeq([k \in 1..Len(parts) |-> BodyUnits(parts[k])])
<1> DEFINE n == Len(parts)
           bs == [k \in 1..n |-> BodyUnits(parts[k])]
           B == FlattenSeq(bs)
<1>1. n \in Nat /\ \A k \in 1..n : parts[k] \in Seq(SourcedUnit)
  OBVIOUS
<1>2. bs \in Seq(Seq(SourcedUnit)) /\ Len(bs) = n /\ \A k \in 1..n : bs[k] = BodyUnits(parts[k])
  <2>1. \A k \in 1..n : BodyUnits(parts[k]) \in Seq(SourcedUnit)
    BY <1>1, BodyTyped
  <2> QED BY <1>1, <2>1
<1>3. B \in Seq(SourcedUnit) /\ \E d : Cuts(d, bs, B)
  <2> HIDE DEF bs
  <2> QED BY <1>2, FlattenCuts
<1>4. PICK d : Cuts(d, bs, B)
  BY <1>3
<1> DEFINE T == {k \in 0..n : BodyUnits(SubSeq(whole, 1, c[k])) = SubSeq(B, 1, d[k])}
<1>5. 0 \in T
  <2>1. c[0] = 0 /\ d[0] = 0
    BY <1>4 DEF Cuts
  <2>2. SubSeq(whole, 1, 0) = <<>> /\ SubSeq(B, 1, 0) = <<>>
    BY SubSeqEmpty
  <2>3. BodyUnits(SubSeq(whole, 1, c[0])) = SubSeq(B, 1, d[0])
    BY <2>1, <2>2, BodyNone
  <2> QED BY <1>1, <2>3
<1> HIDE DEF B, bs
<1>6. ASSUME NEW k \in 1..n, k - 1 \in T
      PROVE  k \in T
  <2> DEFINE u == SubSeq(whole, 1, c[k - 1])
             v == SubSeq(B, 1, d[k - 1])
  <2>1. SubSeq(whole, 1, c[k]) = u \o parts[k]
    BY CutsFirst
  <2>2. SubSeq(B, 1, d[k]) = v \o bs[k]
    <3>1. k \in 1..Len(bs)
      BY <1>2
    <3> QED BY <1>2, <1>3, <1>4, <3>1, CutsFirst
  <2>3. BodyUnits(u) = v
    BY <1>6
  <2>4. u \in Seq(SourcedUnit)
    <3> DEFINE a == c[k - 1]
    <3>1. a \in 0..Len(whole)
      BY CutsInto DEF Into
    <3> HIDE DEF a
    <3>2. SubSeq(whole, 1, a) \in Seq(SourcedUnit)
      BY <3>1
    <3> QED BY <3>2 DEF a
  <2> HIDE DEF u, v
  <2>5. BodyUnits(u \o parts[k]) = v \o bs[k]
    BY <1>1, <1>2, <2>3, <2>4, BodyConcat
  <2>6. BodyUnits(SubSeq(whole, 1, c[k])) = SubSeq(B, 1, d[k])
    BY <2>1, <2>2, <2>5
  <2>7. k \in 0..n
    BY <1>1
  <2> QED BY <2>6, <2>7
<1>7. n \in T
  <2> HIDE DEF T, n
  <2> QED BY <1>1, <1>5, <1>6, Reaches
<1>8. c[n] = Len(whole) /\ d[n] = Len(B)
  BY <1>2, <1>4 DEF Cuts
<1>9. SubSeq(whole, 1, Len(whole)) = whole /\ SubSeq(B, 1, Len(B)) = B
  BY <1>3, SubSeqFull
<1>10. BodyUnits(SubSeq(whole, 1, c[n])) = SubSeq(B, 1, d[n])
  BY <1>7
<1>11. BodyUnits(whole) = B
  BY <1>8, <1>9, <1>10
<1> QED BY <1>11 DEF B, bs

-----------------------------------------------------------------------------
(* The chunks of a group of sections                                       *)

SectionFit(s) == s \in Section /\ BodyOK(s.blocks) /\ Len(s.blocks) > 0

SourcesOf(s) == { b.index : b \in Range(s.blocks) }

Titled(s) ==
    (IF s.title = NoTitle THEN <<>> ELSE <<TitleUnit(s.title, SourcesOf(s))>>) \o BuildUnits(s)

LEMMA UnitsTyped ==
    ASSUME NEW s, SectionFit(s)
    PROVE  /\ BuildUnits(s) \in Seq(SourcedUnit) /\ BuildUnits(s) \in Seq(Unit)
           /\ Len(BuildUnits(s)) > 0 /\ Plain(BuildUnits(s))
           /\ \A i \in 1..Len(BuildUnits(s)) : UnitFrom(BuildUnits(s)[i], s)
<1>1. UnitsOf(BuildUnits(s), s)
  BY BuildUnitsAre DEF SectionFit
<1> DEFINE U == BuildUnits(s)
<1> HIDE DEF U
<1>2. U \in Seq(SourcedUnit) /\ Len(U) > 0 /\ \A i \in 1..Len(U) : UnitFrom(U[i], s)
  BY <1>1 DEF UnitsOf, U
<1>3. U \in Seq(Unit)
  BY <1>2, SourcedTyped
<1>4. Plain(U)
  BY <1>2 DEF Plain, UnitFrom
<1> QED BY <1>2, <1>3, <1>4 DEF U

LEMMA TitleUnitIs ==
    ASSUME NEW s, SectionFit(s)
    PROVE  LET t == TitleUnit(s.title, SourcesOf(s))
           IN  /\ t \in SourcedUnit /\ t \in Unit /\ t.heading = TRUE
               /\ t.words = s.title /\ t.title = s.title /\ t.from = SourcesOf(s)
<1> DEFINE t == TitleUnit(s.title, SourcesOf(s))
<1>1. s.title \in Seq(Word) /\ s.blocks \in Seq(SBlock)
  BY SectionFields DEF SectionFit
<1>2. SourcesOf(s) \in SUBSET Nat /\ SourcesOf(s) # {}
  <2> DEFINE bs == s.blocks
  <2>1. 1 \in 1..Len(bs) /\ bs \in Seq(SBlock)
    BY <1>1 DEF SectionFit
  <2>2. \A i \in 1..Len(bs) : bs[i].index \in Nat
    BY <1>1, SBlockFields
  <2> HIDE DEF bs
  <2>3. SourcesOf(s) = { bs[i].index : i \in 1..Len(bs) }
    BY <2>1 DEF SourcesOf, Range, bs
  <2> QED BY <2>1, <2>2, <2>3
<1>3. t = [words |-> s.title, heading |-> TRUE, title |-> s.title, from |-> SourcesOf(s)]
  BY DEF TitleUnit
<1> HIDE DEF t
<1>4. t \in Unit
  BY <1>1, <1>2, <1>3 DEF Unit
<1>5. t.from # {}
  BY <1>2, <1>3
<1> QED BY <1>3, <1>4, <1>5 DEF t, SourcedUnit

\* A heading put before units of text is not in their body.
LEMMA HeadedBody ==
    ASSUME NEW t \in SourcedUnit, t.heading = TRUE, NEW us \in Seq(SourcedUnit), Plain(us)
    PROVE  /\ <<t>> \o us \in Seq(SourcedUnit)
           /\ BodyUnits(<<t>> \o us) = us
           /\ UnitsTokens(<<t>> \o us) = Tokens(t.words) + UnitsTokens(us)
           /\ Len(<<t>> \o us) = Len(us) + 1
           /\ (<<t>> \o us)[1] = t
           /\ \A i \in 1..Len(us) : (<<t>> \o us)[i + 1] = us[i]
<1>1. <<t>> \in Seq(SourcedUnit) /\ <<t>> = Append(<<>>, t) /\ Len(<<t>>) = 1 /\ <<t>>[1] = t
  OBVIOUS
<1>2. BodyUnits(<<t>>) = <<>>
  <2>1. <<>> \in Seq(SourcedUnit)
    OBVIOUS
  <2>2. BodyUnits(Append(<<>>, t)) = BodyUnits(<<>>)
    BY <2>1, BodyAppend
  <2> QED BY <1>1, <2>2, BodyNone
<1>3. BodyUnits(us) = us
  BY BodyAll
<1>4. <<>> \o us = us
  BY ConcatEmptySeq
<1>5. BodyUnits(<<t>> \o us) = us
  BY <1>1, <1>2, <1>3, <1>4, BodyConcat
<1>6. UnitsTokens(<<t>> \o us) = Tokens(t.words) + UnitsTokens(us)
  <2>1. t \in Unit /\ us \in Seq(Unit)
    BY SourcedTyped DEF SourcedUnit
  <2>2. <<t>> \in Seq(Unit)
    BY <2>1
  <2>3. UnitsTokens(<<t>> \o us) = UnitsTokens(<<t>>) + UnitsTokens(us)
    BY <2>1, <2>2, UnitsTokensJoin
  <2> QED BY <2>1, <2>3, UnitsTokensOne
<1> DEFINE v == <<t>>
<1>7. v \in Seq(SourcedUnit) /\ Len(v) = 1 /\ v[1] = t
  BY <1>1
<1> HIDE DEF v
<1>8. /\ v \o us \in Seq(SourcedUnit) /\ Len(v \o us) = Len(us) + 1
      /\ (v \o us)[1] = t
      /\ \A i \in 1..Len(us) : (v \o us)[i + 1] = us[i]
  <2>1. /\ v \o us \in Seq(SourcedUnit) /\ Len(v \o us) = 1 + Len(us)
        /\ \A i \in 1..(1 + Len(us)) : (v \o us)[i] = IF i <= 1 THEN v[i] ELSE us[i - 1]
    <3>1. /\ v \o us \in Seq(SourcedUnit) /\ Len(v \o us) = Len(v) + Len(us)
          /\ \A i \in 1..(Len(v) + Len(us)) : (v \o us)[i] = IF i <= Len(v) THEN v[i] ELSE us[i - Len(v)]
      <4>1. v \in Seq(SourcedUnit) /\ us \in Seq(SourcedUnit)
        BY <1>7
      <4> QED BY ONLY <4>1, ConcatProperties, Zenon
    <3> QED BY <1>7, <3>1
  <2>2. Len(us) \in Nat /\ 1 \in 1..(1 + Len(us))
    OBVIOUS
  <2>3. \A i \in 1..Len(us) : i + 1 \in 1..(1 + Len(us)) /\ ~ (i + 1 <= 1) /\ (i + 1) - 1 = i
    BY <2>2
  <2>4. \A i \in 1..Len(us) : (v \o us)[i + 1] = us[(i + 1) - 1]
    BY <2>1, <2>3
  <2> QED BY <1>7, <2>1, <2>2, <2>3, <2>4
<1> QED BY <1>5, <1>6, <1>8 DEF v

LEMMA TitledIs ==
    ASSUME NEW s, SectionFit(s)
    PROVE  /\ Titled(s) \in Seq(SourcedUnit) /\ Titled(s) \in Seq(Unit) /\ Len(Titled(s)) > 0
           /\ BodyUnits(Titled(s)) = BuildUnits(s)
           /\ UnitsTokens(Titled(s)) = SectionTokens(s)
           /\ s.title = NoTitle => Titled(s) = BuildUnits(s)
           /\ s.title # NoTitle =>
                /\ Len(Titled(s)) = Len(BuildUnits(s)) + 1
                /\ Titled(s)[1] = TitleUnit(s.title, SourcesOf(s))
                /\ \A i \in 1..Len(BuildUnits(s)) : Titled(s)[i + 1] = BuildUnits(s)[i]
<1> DEFINE U == BuildUnits(s)
           t == TitleUnit(s.title, SourcesOf(s))
<1>1. U \in Seq(SourcedUnit) /\ U \in Seq(Unit) /\ Len(U) > 0 /\ Plain(U)
  BY UnitsTyped
<1>2. t \in SourcedUnit /\ t.heading = TRUE /\ t.words = s.title
  BY TitleUnitIs
<1>3. UnitsTokens(U) = BlocksTokens(s.blocks) /\ UnitsTokens(U) \in Nat
  BY <1>1, BuildUnitsAre, UnitsTokensAre DEF SectionFit, UnitsOf
<1>4. Titled(s) = (IF s.title = NoTitle THEN <<>> ELSE <<t>>) \o U
  BY DEF Titled
<1> HIDE DEF U, t
<1>5. CASE s.title = NoTitle
  <2>1. Titled(s) = U
    BY <1>1, <1>4, <1>5, ConcatEmptySeq
  <2>2. BodyUnits(U) = U
    BY <1>1, BodyAll
  <2>3. SectionTokens(s) = 0 + UnitsTokens(U)
    BY <1>3, <1>5, TokensNone DEF SectionTokens, NoTitle
  <2>4. UnitsTokens(Titled(s)) = SectionTokens(s)
    BY <1>3, <2>1, <2>3
  <2> QED BY <1>1, <1>5, <2>1, <2>2, <2>4 DEF U
<1>6. CASE s.title # NoTitle
  <2>1. Titled(s) = <<t>> \o U
    BY <1>4, <1>6
  <2>2. /\ Titled(s) \in Seq(SourcedUnit)
        /\ BodyUnits(Titled(s)) = U
        /\ UnitsTokens(Titled(s)) = Tokens(t.words) + UnitsTokens(U)
        /\ Len(Titled(s)) = Len(U) + 1
        /\ Titled(s)[1] = t
        /\ \A i \in 1..Len(U) : Titled(s)[i + 1] = U[i]
    <3>1. /\ <<t>> \o U \in Seq(SourcedUnit)
          /\ BodyUnits(<<t>> \o U) = U
          /\ UnitsTokens(<<t>> \o U) = Tokens(t.words) + UnitsTokens(U)
          /\ Len(<<t>> \o U) = Len(U) + 1
          /\ (<<t>> \o U)[1] = t
          /\ \A i \in 1..Len(U) : (<<t>> \o U)[i + 1] = U[i]
      BY <1>1, <1>2, HeadedBody
    <3> QED BY <2>1, <3>1
  <2>3. UnitsTokens(Titled(s)) = SectionTokens(s)
    BY <1>2, <1>3, <2>2 DEF SectionTokens
  <2>4. Len(Titled(s)) > 0
    BY <1>1, <2>2
  <2>5. Titled(s) \in Seq(Unit)
    BY <2>2, SourcedTyped
  <2> QED BY <1>6, <2>2, <2>3, <2>4, <2>5 DEF U, t
<1> QED BY <1>5, <1>6

BodyOfGroup(g) == FlattenSeq([k \in 1..Len(g) |-> BuildUnits(g[k])])

LEMMA BuildGroupUnitsAre ==
    ASSUME NEW g \in Seq(Section), Len(g) > 0, \A k \in 1..Len(g) : SectionFit(g[k])
    PROVE  /\ BuildGroupUnits(g) \in Seq(SourcedUnit) /\ Len(BuildGroupUnits(g)) > 0
           /\ \E c : Cuts(c, [k \in 1..Len(g) |-> Titled(g[k])], BuildGroupUnits(g))
           /\ BodyUnits(BuildGroupUnits(g)) = BodyOfGroup(g)
           /\ UnitsTokens(BuildGroupUnits(g)) = GroupTokens(g)
<1> DEFINE n == Len(g)
           TS == [k \in 1..n |-> Titled(g[k])]
           G == BuildGroupUnits(g)
<1>1. n \in Nat /\ n > 0 /\ 1 \in 1..n /\ DOMAIN g = 1..n
  OBVIOUS
<1>2. G = FlattenSeq(TS)
  <2>1. G = FlattenSeq([k \in DOMAIN g |-> Titled(g[k])])
    BY DEF BuildGroupUnits, Titled, SourcesOf
  <2> QED BY <1>1, <2>1
<1>3. \A k \in 1..n : /\ Titled(g[k]) \in Seq(SourcedUnit) /\ Titled(g[k]) \in Seq(Unit)
                      /\ Len(Titled(g[k])) > 0
                      /\ BodyUnits(Titled(g[k])) = BuildUnits(g[k])
                      /\ UnitsTokens(Titled(g[k])) = SectionTokens(g[k])
  BY TitledIs
<1>4. TS \in Seq(Seq(SourcedUnit)) /\ TS \in Seq(Seq(Unit)) /\ Len(TS) = n
  BY <1>1, <1>3
<1>5. \A k \in 1..n : TS[k] = Titled(g[k])
  OBVIOUS
<1> HIDE DEF TS, G
<1>6. G \in Seq(SourcedUnit)
  BY <1>2, <1>4, FlattenCuts
<1>7. G \in Seq(Unit)
  BY <1>2, <1>4, FlattenCuts
<1>8. PICK c : Cuts(c, TS, G)
  BY <1>2, <1>4, FlattenCuts
<1>9. BodyUnits(G) = BodyOfGroup(g)
  <2>1. BodyUnits(G) = FlattenSeq([k \in 1..Len(TS) |-> BodyUnits(TS[k])])
    BY <1>4, <1>6, <1>8, BodyCuts
  <2>2. [k \in 1..Len(TS) |-> BodyUnits(TS[k])] = [k \in 1..n |-> BuildUnits(g[k])]
    BY <1>3, <1>4, <1>5
  <2> QED BY <2>1, <2>2 DEF BodyOfGroup
<1>10. UnitsTokens(G) = GroupTokens(g)
  <2>1. UnitsTokens(G) = Weigh(UnitWeight, G) /\ UnitWeight \in [Unit -> Nat]
    BY <1>7, UnitsWeigh
  <2>2. Weigh(UnitWeight, G) = Total([k \in 1..Len(TS) |-> Weigh(UnitWeight, TS[k])])
    BY <1>4, <1>7, <1>8, <2>1, WeighCuts
  <2>3. \A k \in 1..n : Weigh(UnitWeight, TS[k]) = SectionTokens(g[k])
    BY <1>3, <1>5, UnitsWeigh
  <2>4. [k \in 1..Len(TS) |-> Weigh(UnitWeight, TS[k])] = [k \in 1..n |-> SectionTokens(g[k])]
    BY <1>4, <2>3
  <2>5. GroupTokens(g) = Total([k \in 1..n |-> SectionTokens(g[k])])
    BY <1>1 DEF GroupTokens
  <2> QED BY <2>1, <2>2, <2>4, <2>5
<1>11. Len(G) > 0
  <2> DEFINE a == c[0]
             b == c[1]
  <2>1. Len(TS[1]) > 0
    BY <1>1, <1>3, <1>5
  <2>2. 1 \in 1..Len(TS) /\ 1 - 1 = 0
    BY <1>1, <1>4
  <2>3. /\ c[1] \in 0..Len(G) /\ c[1 - 1] \in 0..Len(G)
        /\ Len(TS[1]) = c[1] - c[1 - 1]
    <3>1. TS \in Seq(Seq(Unit)) /\ G \in Seq(Unit) /\ Cuts(c, TS, G)
      BY <1>4, <1>7, <1>8
    <3>2. Into(c, TS, G, 1)
      BY <2>2, <3>1, CutsInto
    <3> QED BY <3>2 DEF Into
  <2>4. a \in 0..Len(G) /\ b \in 0..Len(G) /\ Len(TS[1]) = b - a /\ Len(G) \in Nat
    BY <1>7, <2>2, <2>3
  <2> HIDE DEF a, b
  <2> QED BY <2>1, <2>4
<1>12. \E d : Cuts(d, TS, G)
  BY <1>8
<1> QED BY <1>6, <1>9, <1>10, <1>11, <1>12 DEF TS, G

\* A chunk of a section: units of its text, few enough or one, under its title.
OfSection(ch, s) ==
    \E us \in Seq(SourcedUnit) :
        /\ us # <<>>
        /\ \A i \in 1..Len(us) : UnitFrom(us[i], s)
        /\ Len(us) = 1 \/ UnitsTokens(us) <= RoomBeside(s.title)
        /\ ch = ApplyStickyHeading(us, s.title)

ChunkOf(ch, g) ==
    IF Len(g) = 1 THEN OfSection(ch, g[1])
    ELSE ch = BuildGroupUnits(g) /\ UnitsTokens(ch) <= Target

\* The bodies of the chunks are windows over the units.
Bodies(chs, U) ==
    \E ws : /\ WindowsTo(ws, Len(U))
            /\ Overlaps(ws, U)
            /\ Len(ws) = Len(chs)
            /\ \A m \in 1..Len(chs) : BodyUnits(chs[m]) = Win(U, ws[m])

\* The chunks of a group.
ChunksFor(chs, g) ==
    /\ chs \in Seq(Seq(SourcedUnit)) /\ Len(chs) > 0
    /\ \A m \in 1..Len(chs) : ChunkOf(chs[m], g)
    /\ Bodies(chs, BodyOfGroup(g))

LEMMA WinTyped ==
    ASSUME NEW C, NEW U \in Seq(C), NEW ws, WindowsTo(ws, Len(U)), NEW m \in 1..Len(ws)
    PROVE  /\ ws[m].lo \in 1..Len(U) /\ ws[m].hi \in ws[m].lo..Len(U)
           /\ Win(U, ws[m]) \in Seq(C) /\ Len(Win(U, ws[m])) = ws[m].hi - ws[m].lo + 1
           /\ Win(U, ws[m]) # <<>>
           /\ \A i \in 1..Len(Win(U, ws[m])) : /\ ws[m].lo + i - 1 \in ws[m].lo..ws[m].hi
                                               /\ ws[m].lo + i - 1 \in 1..Len(U)
                                               /\ Win(U, ws[m])[i] = U[ws[m].lo + i - 1]
<1> DEFINE a == ws[m].lo
           b == ws[m].hi
<1>1. ws \in Seq(Window) /\ 1 <= a /\ a <= b /\ b <= Len(U)
  BY DEF WindowsTo
<1>2. a \in Nat /\ b \in Nat /\ Len(U) \in Nat
  <2>1. a \in Nat
    BY <1>1, WindowFields
  <2>2. b \in Nat
    BY <1>1, WindowFields
  <2> QED BY <2>1, <2>2
<1>3. Win(U, ws[m]) = SubSeq(U, a, b)
  BY DEF Win
<1> HIDE DEF a, b
<1>4. a \in 1..Len(U) /\ b \in a..Len(U)
  BY <1>1, <1>2
<1>5. SubSeq(U, a, b) \in Seq(C) /\ Len(SubSeq(U, a, b)) = b - a + 1
      /\ \A i \in 1..(b - a + 1) : SubSeq(U, a, b)[i] = U[a + i - 1]
  BY <1>1, <1>2, SubSeqProperties
<1>6. \A i \in 1..(b - a + 1) : a + i - 1 \in a..b /\ a + i - 1 \in 1..Len(U)
  BY <1>1, <1>2
<1>7. SubSeq(U, a, b) # <<>>
  BY <1>1, <1>2, <1>5
<1> QED BY <1>3, <1>4, <1>5, <1>6, <1>7 DEF a, b

LEMMA StickyBody ==
    ASSUME NEW us \in Seq(SourcedUnit), us # <<>>, Plain(us), NEW title \in Seq(Word)
    PROVE  /\ BodyUnits(ApplyStickyHeading(us, title)) = us
           /\ UnitsTokens(ApplyStickyHeading(us, title)) = Tokens(title) + UnitsTokens(us)
<1>1. CASE title = NoTitle
  <2>1. ApplyStickyHeading(us, title) = us
    BY <1>1 DEF ApplyStickyHeading
  <2>2. us \in Seq(Unit)
    BY SourcedTyped
  <2>3. UnitsTokens(us) \in Nat /\ Tokens(title) = 0
    BY <1>1, <2>2, UnitsTokensAre, TokensNone DEF NoTitle
  <2> QED BY <2>1, <2>3, BodyAll
<1>2. CASE title # NoTitle
  <2> DEFINE t == TitleUnit(title, {Min(us[1].from)})
  <2>1. ApplyStickyHeading(us, title) = <<t>> \o us
    BY <1>2 DEF ApplyStickyHeading
  <2>2. t \in SourcedUnit
    BY <1>2, StickyTyped
  <2>3. t.heading = TRUE /\ t.words = title
    BY DEF TitleUnit
  <2> HIDE DEF t
  <2>4. /\ BodyUnits(<<t>> \o us) = us
        /\ UnitsTokens(<<t>> \o us) = Tokens(t.words) + UnitsTokens(us)
    <3>1. t \in SourcedUnit /\ t.heading = TRUE /\ us \in Seq(SourcedUnit) /\ Plain(us)
      BY <2>2, <2>3
    <3>2. /\ <<t>> \o us \in Seq(SourcedUnit)
          /\ BodyUnits(<<t>> \o us) = us
          /\ UnitsTokens(<<t>> \o us) = Tokens(t.words) + UnitsTokens(us)
          /\ Len(<<t>> \o us) = Len(us) + 1
          /\ (<<t>> \o us)[1] = t
          /\ \A i \in 1..Len(us) : (<<t>> \o us)[i + 1] = us[i]
      BY <3>1, HeadedBody
    <3> QED BY <3>2
  <2> QED BY <2>1, <2>3, <2>4
<1> QED BY <1>1, <1>2

LEMMA ChunksOfSection ==
    ASSUME NEW g \in Seq(Section), Len(g) = 1, SectionFit(g[1])
    PROVE  ChunksFor(ChunksOfGroup(g), g)
<1> DEFINE s == g[1]
           U == BuildUnits(s)
           chs == GroupUnits(U, s.title)
           V == BodyOfGroup(g)
<1>1. U \in Seq(SourcedUnit) /\ Len(U) > 0 /\ Plain(U) /\ \A i \in 1..Len(U) : UnitFrom(U[i], s)
  BY UnitsTyped
<1>2. s.title \in Seq(Word)
  BY SectionFields DEF SectionFit
<1>3. ChunksOfGroup(g) = chs
  BY DEF ChunksOfGroup
<1>4. V = U
  <2>1. [k \in 1..Len(g) |-> BuildUnits(g[k])] = <<U>>
    OBVIOUS
  <2>2. FlattenSeq(<<U>>) = U
    <3> HIDE DEF U
    <3>1. <<U>> \in Seq(Seq(SourcedUnit))
      BY <1>1
    <3>2. Cuts([k \in {0} |-> 0], <<>>, <<>>)
      BY CutsNone
    <3>3. <<>> \in Seq(Seq(SourcedUnit)) /\ <<>> \in Seq(SourcedUnit)
      OBVIOUS
    <3>4. \E d : Cuts(d, Append(<<>>, U), <<>> \o U)
      BY <1>1, <3>2, <3>3, CutsNext
    <3>5. Append(<<>>, U) = <<U>> /\ <<>> \o U = U
      BY <1>1, ConcatEmptySeq
    <3> QED BY <1>1, <3>1, <3>4, <3>5, FlattenIs
  <2> QED BY <2>1, <2>2 DEF BodyOfGroup
<1> HIDE DEF U, V, chs
<1>5. /\ chs \in Seq(Seq(SourcedUnit))
      /\ \E ws : /\ WindowsOver(ws, U, RoomBeside(s.title), Len(U))
                 /\ Len(chs) = Len(ws)
                 /\ \A i \in 1..Len(ws) : chs[i] = ApplyStickyHeading(Win(U, ws[i]), s.title)
  BY <1>1, <1>2, GroupUnitsAre DEF chs
<1>6. PICK ws : /\ WindowsOver(ws, U, RoomBeside(s.title), Len(U))
                /\ Len(chs) = Len(ws)
                /\ \A i \in 1..Len(ws) : chs[i] = ApplyStickyHeading(Win(U, ws[i]), s.title)
  BY <1>5
<1>7. WindowsTo(ws, Len(U)) /\ Overlaps(ws, U)
  BY <1>6 DEF WindowsOver
<1>8. Len(chs) > 0
  <2>1. Len(ws) = 0 => Len(U) = 0
    BY <1>7 DEF WindowsTo
  <2>2. Len(chs) \in Nat
    BY <1>5
  <2> QED BY <1>1, <1>6, <2>1, <2>2
<1>9. ASSUME NEW m \in 1..Len(ws)
      PROVE  BodyUnits(chs[m]) = Win(U, ws[m]) /\ OfSection(chs[m], s)
  <2> DEFINE w == Win(U, ws[m])
             lo == ws[m].lo
             hi == ws[m].hi
  <2>1. /\ lo \in 1..Len(U) /\ hi \in lo..Len(U)
        /\ w \in Seq(SourcedUnit) /\ Len(w) = hi - lo + 1 /\ w # <<>>
        /\ \A i \in 1..Len(w) : lo + i - 1 \in 1..Len(U) /\ w[i] = U[lo + i - 1]
    BY <1>1, <1>7, WinTyped
  <2>2. Fits(U, ws[m], RoomBeside(s.title))
    BY <1>6 DEF WindowsOver
  <2>3. lo = hi \/ UnitsTokens(w) <= RoomBeside(s.title)
    BY <2>2 DEF Fits
  <2>4. chs[m] = ApplyStickyHeading(w, s.title)
    BY <1>6
  <2> HIDE DEF w, lo, hi
  <2>5. \A i \in 1..Len(w) : UnitFrom(w[i], s)
    BY <1>1, <2>1
  <2>6. Plain(w)
    BY <2>5 DEF Plain, UnitFrom
  <2>7. BodyUnits(chs[m]) = w
    BY <1>2, <2>1, <2>4, <2>6, StickyBody
  <2>8. Len(w) = 1 \/ UnitsTokens(w) <= RoomBeside(s.title)
    <3>1. lo \in Nat /\ (lo = hi => hi - lo + 1 = 1)
      BY <2>1
    <3> QED BY <2>1, <2>3, <3>1
  <2>9. OfSection(chs[m], s)
    BY <2>1, <2>4, <2>5, <2>8 DEF OfSection
  <2> QED BY <2>7, <2>9 DEF w
<1>10. \A m \in 1..Len(chs) : ChunkOf(chs[m], g)
  BY <1>6, <1>9 DEF ChunkOf
<1>11. ChunksFor(chs, g)
  BY <1>4, <1>5, <1>6, <1>7, <1>8, <1>9, <1>10 DEF ChunksFor, Bodies, V
<1> QED BY <1>3, <1>11

LEMMA ChunksOfMany ==
    ASSUME NEW g \in Seq(Section), Len(g) > 1, GroupOK(g), \A k \in 1..Len(g) : SectionFit(g[k])
    PROVE  ChunksFor(ChunksOfGroup(g), g)
<1> DEFINE G == BuildGroupUnits(g)
           V == BodyOfGroup(g)
           w == [lo |-> 1, hi |-> Len(V)]
           chs == <<G>>
           ws == <<w>>
<1>1. /\ G \in Seq(SourcedUnit) /\ Len(G) > 0 /\ BodyUnits(G) = V /\ UnitsTokens(G) <= Target
  BY BuildGroupUnitsAre DEF GroupOK
<1>2. ChunksOfGroup(g) = chs
  <2>1. ChunksOfGroup(g) = GroupUnits(G, NoTitle)
    BY DEF ChunksOfGroup
  <2> HIDE DEF G
  <2> QED BY <1>1, <2>1, WholeGroup
<1>3. V \in Seq(SourcedUnit) /\ Len(V) > 0
  <2>1. V \in Seq(SourcedUnit)
    BY <1>1, BodyTyped
  <2>2. Len(g) \in Nat /\ 1 \in 1..Len(g)
    OBVIOUS
  <2> DEFINE US == [k \in 1..Len(g) |-> BuildUnits(g[k])]
  <2>3. \A k \in 1..Len(g) : BuildUnits(g[k]) \in Seq(SourcedUnit) /\ Len(BuildUnits(g[k])) > 0
    BY UnitsTyped
  <2>4. US \in Seq(Seq(SourcedUnit)) /\ Len(US) = Len(g) /\ US[1] = BuildUnits(g[1])
    BY <2>2, <2>3
  <2>5. V = FlattenSeq(US)
    BY DEF BodyOfGroup
  <2> HIDE DEF US, V
  <2>6. PICK d : Cuts(d, US, V)
    BY <2>4, <2>5, FlattenCuts
  <2> DEFINE a == d[0]
             b == d[1]
  <2>7. 1 \in 1..Len(US) /\ 1 - 1 = 0
    BY <2>2, <2>4
  <2>8. d[1] \in 0..Len(V) /\ d[1 - 1] \in 0..Len(V) /\ Len(US[1]) = d[1] - d[1 - 1]
    <3>1. Into(d, US, V, 1)
      BY <2>1, <2>4, <2>6, <2>7, CutsInto
    <3> QED BY <3>1 DEF Into
  <2>9. a \in 0..Len(V) /\ b \in 0..Len(V) /\ Len(US[1]) = b - a /\ Len(V) \in Nat /\ Len(US[1]) > 0
    BY <2>1, <2>2, <2>3, <2>4, <2>7, <2>8
  <2> HIDE DEF a, b
  <2> QED BY <2>1, <2>9
<1> HIDE DEF G, V
<1>4. chs \in Seq(Seq(SourcedUnit)) /\ Len(chs) = 1 /\ chs[1] = G
  BY <1>1
<1>5. w \in Window /\ w.lo = 1 /\ w.hi = Len(V)
  BY <1>3 DEF Window
<1> HIDE DEF w
<1>6. ws \in Seq(Window) /\ Len(ws) = 1 /\ ws[1] = w
  BY <1>5
<1> HIDE DEF chs, ws
<1>7. WindowsTo(ws, Len(V)) /\ Overlaps(ws, V)
  <2>1. Len(V) \in Nat
    BY <1>3
  <2> QED BY <1>3, <1>5, <1>6, <2>1 DEF WindowsTo, Overlaps
<1>8. Win(V, w) = V
  BY <1>3, <1>5, SubSeqFull DEF Win
<1>9. ChunkOf(G, g)
  BY <1>1 DEF ChunkOf, G
<1>10. \A m \in 1..Len(chs) : ChunkOf(chs[m], g) /\ BodyUnits(chs[m]) = Win(V, ws[m])
  BY <1>1, <1>4, <1>6, <1>8, <1>9
<1>11. ChunksFor(chs, g)
  BY <1>4, <1>6, <1>7, <1>10 DEF ChunksFor, Bodies, V
<1> QED BY <1>2, <1>11

LEMMA ChunksOfGroupAre ==
    ASSUME NEW g \in Seq(Section), GroupOK(g), \A k \in 1..Len(g) : SectionFit(g[k])
    PROVE  ChunksFor(ChunksOfGroup(g), g)
<1>1. Len(g) \in Nat /\ Len(g) > 0
  BY DEF GroupOK
<1>2. CASE Len(g) = 1
  BY <1>2, ChunksOfSection
<1>3. CASE Len(g) > 1
  BY <1>3, ChunksOfMany
<1>4. Len(g) = 1 \/ Len(g) > 1
  <2> DEFINE n == Len(g)
  <2>1. n \in Nat /\ n > 0
    BY <1>1
  <2> HIDE DEF n
  <2>2. n = 1 \/ n > 1
    BY <2>1
  <2> QED BY <2>2 DEF n
<1> QED BY <1>2, <1>3, <1>4

-----------------------------------------------------------------------------
(* Windows of one sequence after those of another                          *)

LEMMA WinLeft ==
    ASSUME NEW C, NEW U \in Seq(C), NEW V \in Seq(C), NEW a \in 1..Len(U), NEW b \in 1..Len(U)
    PROVE  SubSeq(U \o V, a, b) = SubSeq(U, a, b)
BY SubSeqOfConcat1

LEMMA WinRight ==
    ASSUME NEW C, NEW U \in Seq(C), NEW V \in Seq(C), NEW a \in 1..Len(V), NEW b \in 1..Len(V)
    PROVE  SubSeq(U \o V, Len(U) + a, Len(U) + b) = SubSeq(V, a, b)
<1> DEFINE n == Len(U)
           i == n + a
           j == n + b
<1>1. n \in Nat /\ Len(V) \in Nat
  OBVIOUS
<1>2. i \in (n + 1)..(n + Len(V)) /\ j \in (n + 1)..(n + Len(V)) /\ i - n = a /\ j - n = b
  BY <1>1
<1>3. SubSeq(U \o V, i, j) = SubSeq(V, i - n, j - n)
  <2> HIDE DEF i, j
  <2> QED BY <1>2, SubSeqOfConcat2 DEF n
<1> QED BY <1>2, <1>3

\* The windows vs, n units further on.
Moved(vs, n) == [i \in 1..Len(vs) |-> [lo |-> n + vs[i].lo, hi |-> n + vs[i].hi]]

LEMMA MovedAre ==
    ASSUME NEW vs \in Seq(Window), NEW n \in Nat
    PROVE  /\ Moved(vs, n) \in Seq(Window) /\ Len(Moved(vs, n)) = Len(vs)
           /\ \A i \in 1..Len(vs) : /\ Moved(vs, n)[i].lo = n + vs[i].lo
                                    /\ Moved(vs, n)[i].hi = n + vs[i].hi
<1>1. \A i \in 1..Len(vs) : [lo |-> n + vs[i].lo, hi |-> n + vs[i].hi] \in Window
  <2> SUFFICES ASSUME NEW i \in 1..Len(vs)
               PROVE  [lo |-> n + vs[i].lo, hi |-> n + vs[i].hi] \in Window
    OBVIOUS
  <2>1. vs[i].lo \in Nat /\ vs[i].hi \in Nat
    BY WindowFields
  <2> QED BY <2>1, SMTT(30) DEF Window
<1>2. Len(vs) \in Nat
  OBVIOUS
<1> QED BY <1>1, <1>2 DEF Moved

\* Windows us over U and V together: those over U, then those over V.
Joined(us, ws, vs, U, V) ==
    /\ WindowsTo(us, Len(U \o V)) /\ Overlaps(us, U \o V)
    /\ Len(us) = Len(ws) + Len(vs)
    /\ \A i \in 1..Len(ws) : Win(U \o V, us[i]) = Win(U, ws[i])
    /\ \A i \in 1..Len(vs) : Win(U \o V, us[Len(ws) + i]) = Win(V, vs[i])

LEMMA WindowsJoin ==
    ASSUME NEW U \in Seq(Unit), NEW V \in Seq(Unit), NEW ws, NEW vs,
           WindowsTo(ws, Len(U)), WindowsTo(vs, Len(V)), Overlaps(ws, U), Overlaps(vs, V)
    PROVE  \E us : Joined(us, ws, vs, U, V)
<1> DEFINE n == Len(U)
           m == Len(V)
           X == U \o V
           mv == Moved(vs, n)
           p == Len(ws)
           q == Len(vs)
           us == ws \o mv
<1>1. n \in Nat /\ m \in Nat /\ X \in Seq(Unit) /\ Len(X) = n + m
  OBVIOUS
<1>2. ws \in Seq(Window) /\ vs \in Seq(Window) /\ p \in Nat /\ q \in Nat
  BY DEF WindowsTo
<1>3. mv \in Seq(Window) /\ Len(mv) = q
      /\ \A i \in 1..q : mv[i].lo = n + vs[i].lo /\ mv[i].hi = n + vs[i].hi
  BY <1>1, <1>2, MovedAre
<1> HIDE DEF mv
<1>4. /\ us \in Seq(Window) /\ Len(us) = p + q
      /\ \A i \in 1..p : us[i] = ws[i]
      /\ \A i \in 1..q : us[p + i] = mv[i]
  <2>1. /\ ws \o mv \in Seq(Window) /\ Len(ws \o mv) = Len(ws) + Len(mv)
        /\ \A i \in 1..(Len(ws) + Len(mv)) : (ws \o mv)[i] = IF i <= Len(ws) THEN ws[i] ELSE mv[i - Len(ws)]
    <3>1. ws \in Seq(Window) /\ mv \in Seq(Window)
      BY <1>2, <1>3
    <3> QED BY ONLY <3>1, ConcatProperties, Zenon
  <2> HIDE DEF p, q
  <2>2. \A i \in 1..p : i \in 1..(p + q) /\ i <= p
    BY <1>2
  <2>3. \A i \in 1..q : p + i \in 1..(p + q) /\ ~ (p + i <= p) /\ (p + i) - p = i
    BY <1>2
  <2>4. us \in Seq(Window) /\ Len(us) = p + q
    BY <1>3, <2>1 DEF p
  <2>5. \A i \in 1..(p + q) : us[i] = IF i <= p THEN ws[i] ELSE mv[i - p]
    BY <1>3, <2>1 DEF p
  <2>6. \A i \in 1..p : us[i] = ws[i]
    BY <2>2, <2>5
  <2>7. \A i \in 1..q : us[p + i] = mv[(p + i) - p]
    BY <2>3, <2>5
  <2> QED BY <2>3, <2>4, <2>6, <2>7
<1> HIDE DEF us, X
<1>5. ASSUME NEW i \in 1..p
      PROVE  /\ us[i].lo = ws[i].lo /\ us[i].hi = ws[i].hi /\ ws[i].lo \in Nat /\ ws[i].hi \in Nat
             /\ 1 <= ws[i].lo /\ ws[i].lo <= ws[i].hi /\ ws[i].hi <= n
  <2>1. ws[i].lo \in Nat /\ ws[i].hi \in Nat
    BY <1>2, WindowFields
  <2>2. 1 <= ws[i].lo /\ ws[i].lo <= ws[i].hi /\ ws[i].hi <= n
    BY DEF WindowsTo
  <2> QED BY <1>4, <2>1, <2>2
<1>6. ASSUME NEW i \in 1..q
      PROVE  /\ us[p + i].lo = n + vs[i].lo /\ us[p + i].hi = n + vs[i].hi
             /\ vs[i].lo \in Nat /\ vs[i].hi \in Nat
             /\ 1 <= vs[i].lo /\ vs[i].lo <= vs[i].hi /\ vs[i].hi <= m
  <2>1. vs[i].lo \in Nat /\ vs[i].hi \in Nat
    BY <1>2, WindowFields
  <2>2. 1 <= vs[i].lo /\ vs[i].lo <= vs[i].hi /\ vs[i].hi <= m
    BY DEF WindowsTo
  <2> QED BY <1>3, <1>4, <2>1, <2>2
<1>7. ASSUME NEW i \in 2..(p + q)
      PROVE  \/ i \in 2..p
             \/ p > 0 /\ i = p + 1 /\ q > 0
             \/ \E j \in 2..q : i = p + j
  <2> HIDE DEF p, q
  <2>1. CASE i <= p
    BY <1>2, <2>1
  <2>2. CASE i > p /\ p > 0 /\ i = p + 1
    BY <1>2, <2>2
  <2>3. CASE i > p /\ ~ (p > 0 /\ i = p + 1)
    <3>1. i - p \in 2..q /\ i = p + (i - p)
      BY <1>2, <2>3
    <3> QED BY <3>1
  <2>4. i \in Nat
    BY <1>2
  <2> QED BY <1>2, <2>1, <2>2, <2>3, <2>4
<1>8. p > 0 => ws[1].lo = 1 /\ ws[p].hi = n
  BY DEF WindowsTo
<1>9. q > 0 => vs[1].lo = 1 /\ vs[q].hi = m
  BY DEF WindowsTo
<1>10. (p = 0 => n = 0) /\ (q = 0 => m = 0)
  BY DEF WindowsTo
<1>11. ASSUME NEW i \in 2..p
       PROVE  /\ ws[i - 1].lo <= ws[i].lo /\ ws[i].lo <= ws[i - 1].hi + 1
              /\ ws[i - 1].hi < ws[i].hi
  BY DEF WindowsTo
<1>12. ASSUME NEW i \in 2..q
       PROVE  /\ vs[i - 1].lo <= vs[i].lo /\ vs[i].lo <= vs[i - 1].hi + 1
              /\ vs[i - 1].hi < vs[i].hi
  BY DEF WindowsTo
<1>13. \A i \in 2..p : UnitsTokens(SubSeq(U, ws[i].lo + 1, ws[i - 1].hi)) < Overlap \/ ~ (ws[i].lo < ws[i - 1].hi)
  BY DEF Overlaps
<1>14. \A i \in 2..q : UnitsTokens(SubSeq(V, vs[i].lo + 1, vs[i - 1].hi)) < Overlap \/ ~ (vs[i].lo < vs[i - 1].hi)
  BY DEF Overlaps
<1> HIDE DEF p, q, n, m
<1>15. \A i \in 1..(p + q) : 1 <= us[i].lo /\ us[i].lo <= us[i].hi /\ us[i].hi <= n + m
  <2> SUFFICES ASSUME NEW i \in 1..(p + q)
               PROVE  1 <= us[i].lo /\ us[i].lo <= us[i].hi /\ us[i].hi <= n + m
    OBVIOUS
  <2>1. CASE i \in 1..p
    BY <1>1, <1>5, <2>1
  <2>2. CASE i \notin 1..p
    <3> DEFINE j == i - p
    <3>1. j \in 1..q /\ i = p + j
      BY <1>2, <2>2
    <3> HIDE DEF j
    <3>2. /\ us[i].lo = n + vs[j].lo /\ us[i].hi = n + vs[j].hi
          /\ vs[j].lo \in Nat /\ vs[j].hi \in Nat
          /\ 1 <= vs[j].lo /\ vs[j].lo <= vs[j].hi /\ vs[j].hi <= m
      BY <1>6, <3>1
    <3> DEFINE a == vs[j].lo
               b == vs[j].hi
    <3>3. us[i].lo = n + a /\ us[i].hi = n + b /\ a \in Nat /\ b \in Nat /\ 1 <= a /\ a <= b /\ b <= m
      BY <3>2
    <3> HIDE DEF a, b
    <3> QED BY <1>1, <3>3
  <2> QED BY <2>1, <2>2
<1>16. p + q = 0 => n + m = 0
  BY <1>2, <1>10
<1>17. p + q > 0 => us[1].lo = 1 /\ us[p + q].hi = n + m
  <2> SUFFICES ASSUME p + q > 0 PROVE us[1].lo = 1 /\ us[p + q].hi = n + m
    OBVIOUS
  <2>1. us[1].lo = 1
    <3>1. CASE p > 0
      <4>1. 1 \in 1..p
        BY <1>2, <3>1
      <4> QED BY <1>5, <1>8, <3>1, <4>1
    <3>2. CASE p = 0
      <4>1. 1 \in 1..q /\ q > 0 /\ n = 0 /\ p + 1 = 1
        BY <1>2, <1>10, <3>2
      <4> QED BY <1>6, <1>9, <4>1
    <3> QED BY <1>2, <3>1, <3>2
  <2>2. us[p + q].hi = n + m
    <3>1. CASE q > 0
      <4>1. q \in 1..q
        BY <1>2, <3>1
      <4> QED BY <1>6, <1>9, <3>1, <4>1
    <3>2. CASE q = 0
      <4>1. p \in 1..p /\ p > 0 /\ m = 0 /\ p + q = p
        BY <1>2, <1>10, <3>2
      <4> QED BY <1>1, <1>5, <1>8, <4>1
    <3> QED BY <1>2, <3>1, <3>2
  <2> QED BY <2>1, <2>2
<1>18. ASSUME NEW i \in 2..(p + q)
       PROVE  /\ us[i - 1].lo <= us[i].lo /\ us[i].lo <= us[i - 1].hi + 1
              /\ us[i - 1].hi < us[i].hi
              /\ us[i].lo < us[i - 1].hi => UnitsTokens(SubSeq(X, us[i].lo + 1, us[i - 1].hi)) < Overlap
  <2>1. CASE i \in 2..p
    <3>1. i \in 1..p /\ i - 1 \in 1..p
      BY <1>2, <2>1
    <3> DEFINE a == ws[i].lo + 1
               b == ws[i - 1].hi
    <3>2. us[i].lo < us[i - 1].hi => SubSeq(X, a, b) = SubSeq(U, a, b)
      <4> SUFFICES ASSUME us[i].lo < us[i - 1].hi PROVE SubSeq(X, a, b) = SubSeq(U, a, b)
        OBVIOUS
      <4>1. a \in 1..n /\ b \in 1..n
        BY <1>1, <1>5, <3>1, SMTT(30)
      <4> HIDE DEF a, b
      <4> QED BY <4>1, WinLeft DEF n, X
    <3> QED BY <1>5, <1>11, <1>13, <2>1, <3>1, <3>2
  <2>2. CASE p > 0 /\ i = p + 1 /\ q > 0
    <3>1. p \in 1..p /\ 1 \in 1..q /\ i - 1 = p
      BY <1>2, <2>2
    <3>2. us[i - 1].lo = ws[p].lo /\ us[i - 1].hi = n /\ us[i].lo = n + 1 /\ us[i].hi = n + vs[1].hi
          /\ vs[1].hi \in Nat /\ vs[1].hi >= 1 /\ ws[p].lo \in Nat /\ ws[p].lo <= n
      BY <1>5, <1>6, <1>8, <1>9, <2>2, <3>1
    <3> DEFINE a == ws[p].lo
               b == vs[1].hi
    <3>3. us[i - 1].lo = a /\ us[i - 1].hi = n /\ us[i].lo = n + 1 /\ us[i].hi = n + b
          /\ b \in Nat /\ b >= 1 /\ a \in Nat /\ a <= n
      BY <3>2
    <3> HIDE DEF a, b
    <3>4. ~ (us[i].lo < us[i - 1].hi)
      BY <1>1, <3>3
    <3>5. us[i - 1].lo <= us[i].lo /\ us[i].lo <= us[i - 1].hi + 1 /\ us[i - 1].hi < us[i].hi
      BY <1>1, <3>3
    <3> QED BY <3>4, <3>5
  <2>3. ASSUME NEW j \in 2..q, i = p + j
        PROVE  /\ us[i - 1].lo <= us[i].lo /\ us[i].lo <= us[i - 1].hi + 1
               /\ us[i - 1].hi < us[i].hi
               /\ us[i].lo < us[i - 1].hi => UnitsTokens(SubSeq(X, us[i].lo + 1, us[i - 1].hi)) < Overlap
    <3>1. j \in 1..q /\ j - 1 \in 1..q /\ i - 1 = p + (j - 1)
      BY <1>2, <2>3
    <3>2. /\ us[i].lo = n + vs[j].lo /\ us[i].hi = n + vs[j].hi
          /\ us[i - 1].lo = n + vs[j - 1].lo /\ us[i - 1].hi = n + vs[j - 1].hi
          /\ vs[j].lo \in Nat /\ vs[j].hi \in Nat /\ vs[j - 1].lo \in Nat /\ vs[j - 1].hi \in Nat
          /\ vs[j - 1].hi <= m
      BY <1>6, <2>3, <3>1
    <3> DEFINE e == vs[j].lo
               f == vs[j].hi
               d == vs[j - 1].lo
               a == e + 1
               b == vs[j - 1].hi
    <3>2a. /\ us[i].lo = n + e /\ us[i].hi = n + f
           /\ us[i - 1].lo = n + d /\ us[i - 1].hi = n + b
           /\ e \in Nat /\ f \in Nat /\ d \in Nat /\ b \in Nat /\ b <= m
      BY <3>2
    <3>3. us[i].lo < us[i - 1].hi =>
            /\ SubSeq(X, us[i].lo + 1, us[i - 1].hi) = SubSeq(V, a, b)
            /\ vs[j].lo < vs[j - 1].hi
      <4> SUFFICES ASSUME us[i].lo < us[i - 1].hi
                   PROVE  /\ SubSeq(X, us[i].lo + 1, us[i - 1].hi) = SubSeq(V, a, b)
                          /\ vs[j].lo < vs[j - 1].hi
        OBVIOUS
      <4>1. a \in 1..m /\ b \in 1..m /\ us[i].lo + 1 = n + a /\ us[i - 1].hi = n + b
            /\ vs[j].lo < vs[j - 1].hi
        <5>1. n + e < n + b
          BY <3>2a
        <5> HIDE DEF e, b, f, d
        <5>2. a \in 1..m /\ b \in 1..m /\ n + e + 1 = n + a /\ e < b
          BY <1>1, <3>2a, <5>1
        <5> QED BY <3>2a, <5>2 DEF e, b
      <4> HIDE DEF a, b
      <4>2. SubSeq(X, n + a, n + b) = SubSeq(V, a, b)
        BY <4>1, WinRight DEF n, m, X
      <4> QED BY <4>1, <4>2
    <3>4. /\ vs[j - 1].lo <= vs[j].lo /\ vs[j].lo <= vs[j - 1].hi + 1
          /\ vs[j - 1].hi < vs[j].hi
      BY <1>12
    <3>5. us[i].lo < us[i - 1].hi => UnitsTokens(SubSeq(X, us[i].lo + 1, us[i - 1].hi)) < Overlap
      BY <1>14, <3>3
    <3>6. d <= e /\ e <= b + 1 /\ b < f
      BY <3>4
    <3> HIDE DEF d, e, f, b
    <3>7. us[i - 1].lo <= us[i].lo /\ us[i].lo <= us[i - 1].hi + 1 /\ us[i - 1].hi < us[i].hi
      BY <1>1, <3>2a, <3>6
    <3> QED BY <3>5, <3>7
  <2> QED BY <1>7, <2>1, <2>2, <2>3
<1>19. WindowsTo(us, n + m)
  BY <1>4, <1>15, <1>16, <1>17, <1>18 DEF WindowsTo
<1>20. Overlaps(us, X)
  BY <1>4, <1>18 DEF Overlaps
<1>21. \A i \in 1..p : Win(X, us[i]) = Win(U, ws[i])
  <2> SUFFICES ASSUME NEW i \in 1..p PROVE Win(X, us[i]) = Win(U, ws[i])
    OBVIOUS
  <2> DEFINE a == ws[i].lo
             b == ws[i].hi
  <2>1. a \in 1..n /\ b \in 1..n
    BY <1>1, <1>5
  <2>2. Win(X, us[i]) = SubSeq(X, a, b) /\ Win(U, ws[i]) = SubSeq(U, a, b)
    BY <1>5 DEF Win
  <2> HIDE DEF a, b
  <2> QED BY <2>1, <2>2, WinLeft DEF n, X
<1>22. \A i \in 1..q : Win(X, us[p + i]) = Win(V, vs[i])
  <2> SUFFICES ASSUME NEW i \in 1..q PROVE Win(X, us[p + i]) = Win(V, vs[i])
    OBVIOUS
  <2> DEFINE a == vs[i].lo
             b == vs[i].hi
  <2>1. a \in 1..m /\ b \in 1..m
    BY <1>1, <1>6, SMTT(30)
  <2>2. Win(X, us[p + i]) = SubSeq(X, n + a, n + b) /\ Win(V, vs[i]) = SubSeq(V, a, b)
    BY <1>6 DEF Win
  <2> HIDE DEF a, b
  <2> QED BY <2>1, <2>2, WinRight DEF n, m, X
<1>23. /\ WindowsTo(us, Len(X)) /\ Overlaps(us, X) /\ Len(us) = p + q
  BY <1>1, <1>4, <1>19, <1>20
<1>24. Joined(us, ws, vs, U, V)
  BY <1>21, <1>22, <1>23 DEF Joined, X, p, q
<1> QED BY <1>24

LEMMA BodiesJoin ==
    ASSUME NEW chs \in Seq(Seq(SourcedUnit)), NEW dhs \in Seq(Seq(SourcedUnit)),
           NEW U \in Seq(Unit), NEW V \in Seq(Unit), Bodies(chs, U), Bodies(dhs, V)
    PROVE  Bodies(chs \o dhs, U \o V)
<1>1. PICK ws : /\ WindowsTo(ws, Len(U)) /\ Overlaps(ws, U) /\ Len(ws) = Len(chs)
                /\ \A i \in 1..Len(chs) : BodyUnits(chs[i]) = Win(U, ws[i])
  BY DEF Bodies
<1>2. PICK vs : /\ WindowsTo(vs, Len(V)) /\ Overlaps(vs, V) /\ Len(vs) = Len(dhs)
                /\ \A i \in 1..Len(dhs) : BodyUnits(dhs[i]) = Win(V, vs[i])
  BY DEF Bodies
<1> DEFINE X == U \o V
           es == chs \o dhs
           p == Len(chs)
           q == Len(dhs)
<1>3. PICK us : /\ WindowsTo(us, Len(U \o V)) /\ Overlaps(us, U \o V)
                /\ Len(us) = Len(ws) + Len(vs)
                /\ \A i \in 1..Len(ws) : Win(U \o V, us[i]) = Win(U, ws[i])
                /\ \A i \in 1..Len(vs) : Win(U \o V, us[Len(ws) + i]) = Win(V, vs[i])
  <2>1. \E us : Joined(us, ws, vs, U, V)
    BY <1>1, <1>2, WindowsJoin
  <2> QED BY <2>1 DEF Joined
<1>4. /\ Len(es) = p + q /\ p \in Nat /\ q \in Nat
      /\ \A i \in 1..p : es[i] = chs[i]
      /\ \A i \in 1..(p + q) : i \notin 1..p => es[i] = dhs[i - p]
  OBVIOUS
<1> HIDE DEF X, es, p, q
<1>5. ASSUME NEW i \in 1..(p + q)
      PROVE  BodyUnits(es[i]) = Win(X, us[i])
  <2>1. CASE i \in 1..p
    BY <1>1, <1>3, <1>4, <2>1 DEF p, X
  <2>2. CASE i \notin 1..p
    <3> DEFINE j == i - p
    <3>1. j \in 1..q /\ i = p + j /\ es[i] = dhs[j]
      BY <1>4, <2>2
    <3> HIDE DEF j
    <3>2. Len(ws) = p /\ Len(vs) = q
      BY <1>1, <1>2 DEF p, q
    <3>3. Win(X, us[p + j]) = Win(V, vs[j])
      BY <1>3, <3>1, <3>2 DEF X
    <3>4. BodyUnits(dhs[j]) = Win(V, vs[j])
      BY <1>2, <3>1 DEF q
    <3> QED BY <3>1, <3>3, <3>4
  <2> QED BY <2>1, <2>2
<1>6. Len(us) = Len(es)
  BY <1>1, <1>2, <1>3, <1>4 DEF p, q
<1>7. Bodies(es, X)
  BY <1>3, <1>4, <1>5, <1>6 DEF Bodies, X
<1> QED BY <1>7 DEF es, X

-----------------------------------------------------------------------------
(* The units of a document                                                 *)

Ordered(U) == \A i, j \in 1..Len(U) : i < j => Precede(U[i].words, U[j].words)

SameElements(parts, whole) ==
    /\ \A i \in 1..Len(whole) : \E k \in 1..Len(parts) : \E j \in 1..Len(parts[k]) : whole[i] = parts[k][j]
    /\ \A k \in 1..Len(parts) : \A j \in 1..Len(parts[k]) :
         \E i \in 1..Len(whole) : whole[i] = parts[k][j]

LEMMA CutsElements ==
    ASSUME NEW C, NEW parts \in Seq(Seq(C)), NEW whole \in Seq(C), NEW c, Cuts(c, parts, whole)
    PROVE  SameElements(parts, whole)
<1>1. ASSUME NEW i \in 1..Len(whole)
      PROVE  \E k \in 1..Len(parts) : \E j \in 1..Len(parts[k]) : whole[i] = parts[k][j]
  <2>1. \E k \in 1..Len(parts) : /\ i - c[k - 1] \in 1..Len(parts[k])
                                 /\ parts[k][i - c[k - 1]] = whole[i]
    <3>1. Found(c, parts, whole, i)
      BY CutsFrom
    <3> QED BY <3>1 DEF Found
  <2> QED BY <2>1
<1>2. ASSUME NEW k \in 1..Len(parts), NEW j \in 1..Len(parts[k])
      PROVE  \E i \in 1..Len(whole) : whole[i] = parts[k][j]
  <2>1. c[k - 1] + j \in 1..Len(whole) /\ parts[k][j] = whole[c[k - 1] + j]
    <3>1. Into(c, parts, whole, k)
      BY CutsInto
    <3> QED BY <3>1 DEF Into
  <2> QED BY <2>1
<1> QED BY <1>1, <1>2 DEF SameElements

LEMMA CutsOrdered ==
    ASSUME NEW C, NEW parts \in Seq(Seq(C)), NEW whole \in Seq(C), NEW c, Cuts(c, parts, whole),
           \A k \in 1..Len(parts) : Ordered(parts[k]),
           \A k, l \in 1..Len(parts) : k < l =>
              \A i \in 1..Len(parts[k]), j \in 1..Len(parts[l]) :
                 Precede(parts[k][i].words, parts[l][j].words)
    PROVE  Ordered(whole)
<1> SUFFICES ASSUME NEW i \in 1..Len(whole), NEW j \in 1..Len(whole), i < j
             PROVE  Precede(whole[i].words, whole[j].words)
  BY DEF Ordered
<1>1. PICK k \in 1..Len(parts) : i - c[k - 1] \in 1..Len(parts[k]) /\ parts[k][i - c[k - 1]] = whole[i]
  <2>1. \E k \in 1..Len(parts) : /\ i - c[k - 1] \in 1..Len(parts[k])
                                 /\ parts[k][i - c[k - 1]] = whole[i]
    <3>1. Found(c, parts, whole, i)
      BY CutsFrom
    <3> QED BY <3>1 DEF Found
  <2> QED BY <2>1
<1>2. PICK l \in 1..Len(parts) : j - c[l - 1] \in 1..Len(parts[l]) /\ parts[l][j - c[l - 1]] = whole[j]
  <2>1. \E l \in 1..Len(parts) : /\ j - c[l - 1] \in 1..Len(parts[l])
                                 /\ parts[l][j - c[l - 1]] = whole[j]
    <3>1. Found(c, parts, whole, j)
      BY CutsFrom
    <3> QED BY <3>1 DEF Found
  <2> QED BY <2>1
<1>3. k <= l
  BY <1>1, <1>2, CutsOrder
<1>4. CASE k < l
  BY <1>1, <1>2, <1>4
<1>5. CASE k = l
  <2> DEFINE e == c[k - 1]
             a == i - e
             b == j - e
  <2>1. e \in 0..Len(whole) /\ Len(whole) \in Nat
    <3>1. c[k - 1] \in 0..Len(whole)
      BY CutsInto DEF Into
    <3> QED BY <3>1
  <2>2. a \in 1..Len(parts[k]) /\ b \in 1..Len(parts[k]) /\ whole[i] = parts[k][a] /\ whole[j] = parts[k][b]
    BY <1>1, <1>2, <1>5
  <2> HIDE DEF e
  <2>3. a < b
    BY <2>1
  <2> HIDE DEF a, b
  <2> QED BY <2>2, <2>3 DEF Ordered
<1> QED BY <1>3, <1>4, <1>5

\* The words of a unit are words of its section's blocks.
LEMMA UnitWithin ==
    ASSUME NEW x \in Seq(DocBlock), NEW s, SectionOK(s, x), NEW u, UnitFrom(u, s),
           NEW p \in Places(u.words)
    PROVE  \E i \in LoOf(s)..HiOf(s) : i \in u.from /\ p \in Places(x[i].words)
<1> DEFINE bs == s.blocks
           lo == LoOf(s)
<1>1. PICK q \in Seq(SBlock) :
         /\ \E a \in 1..Len(bs), b \in 1..Len(bs) : q = SubSeq(bs, a, b)
         /\ u.from = IndicesOf(q)
         /\ Places(u.words) \subseteq PlacesOf(q)
  BY DEF UnitFrom
<1>2. PICK a \in 1..Len(bs), b \in 1..Len(bs) : q = SubSeq(bs, a, b)
  BY <1>1
<1>3. PICK m \in 1..Len(q) : p \in Places(q[m].words)
  BY <1>1 DEF PlacesOf
<1>4. bs \in Seq(SBlock) /\ Len(bs) \in Nat
  BY SectionFields DEF SectionOK
<1> HIDE DEF bs
<1>5. a + m - 1 \in 1..Len(bs) /\ q[m] = bs[a + m - 1]
  <2>1. Len(q) = (IF a <= b THEN b - a + 1 ELSE 0) /\ \A i \in 1..(b - a + 1) : q[i] = bs[a + i - 1]
    BY <1>2, <1>4, SubSeqProperties
  <2> QED BY <1>4, <2>1
<1> DEFINE k == a + m - 1
           i == lo + k - 1
<1> HIDE DEF k
<1>6. lo \in 1..Len(x) /\ HiOf(s) = lo + Len(bs) - 1 /\ lo \in Nat
  BY SectionEnds DEF HiOf, bs
<1>7. i \in lo..HiOf(s)
  BY <1>4, <1>5, <1>6 DEF k
<1> HIDE DEF lo
<1>8. i \in 1..Len(x) /\ bs[k] = Numbered(x, i)
  <2>1. Stretch(bs, x, lo)
    BY DEF SectionOK, bs, lo
  <2>2. k \in 1..Len(bs)
    BY <1>5 DEF k
  <2> QED BY <2>1, <2>2 DEF Stretch
<1> HIDE DEF i
<1>9. bs[k].words = x[i].words /\ bs[k].index = i
  BY <1>8, NumberedTyped
<1>10. i \in u.from
  <2>1. q[m].index \in IndicesOf(q)
    BY DEF IndicesOf
  <2> QED BY <1>1, <1>5, <1>9, <2>1 DEF k
<1>11. p \in Places(x[i].words)
  BY <1>3, <1>5, <1>9 DEF k
<1> QED BY <1>7, <1>10, <1>11 DEF lo

LEMMA SectionsApart ==
    ASSUME NEW x, BlocksOK(x), NEW S, Sectioned(S, x, Len(x)),
           NEW i \in 1..Len(S), NEW j \in 1..Len(S), i < j,
           NEW u, UnitFrom(u, S[i]), NEW w, UnitFrom(w, S[j])
    PROVE  Precede(u.words, w.words)
<1>1. x \in Seq(DocBlock)
  BY DEF BlocksOK
<1>2. SectionOK(S[i], x) /\ SectionOK(S[j], x) /\ HiOf(S[i]) < LoOf(S[j])
  BY DEF Sectioned
<1> SUFFICES ASSUME NEW p \in Places(u.words), NEW q \in Places(w.words)
             PROVE  Before(p, q)
  BY DEF Precede
<1>3. PICK k \in LoOf(S[i])..HiOf(S[i]) : p \in Places(x[k].words)
  BY <1>1, <1>2, UnitWithin
<1>4. PICK l \in LoOf(S[j])..HiOf(S[j]) : q \in Places(x[l].words)
  BY <1>1, <1>2, UnitWithin
<1>5. k \in 1..Len(x)
  BY <1>1, <1>2, SectionEnds
<1>6. l \in 1..Len(x)
  BY <1>1, <1>2, SectionEnds
<1>7. k < l
  <2>1. LoOf(S[j]) \in Nat /\ HiOf(S[i]) \in Nat
    <3>1. LoOf(S[j]) \in 1..Len(x)
      BY <1>1, <1>2, SectionEnds
    <3>2. LoOf(S[i]) \in 1..Len(x) /\ HiOf(S[i]) \in LoOf(S[i])..Len(x)
      BY <1>1, <1>2, SectionEnds
    <3> QED BY <1>1, <3>1, <3>2
  <2> QED BY <1>1, <1>2, <1>5, <1>6, <2>1
<1> QED BY <1>3, <1>4, <1>5, <1>6, <1>7 DEF BlocksOK, Precede

\* The units of a group are those of its sections.
LEMMA GroupBodyIs ==
    ASSUME NEW g \in Seq(Section), \A k \in 1..Len(g) : SectionFit(g[k])
    PROVE  /\ BodyOfGroup(g) \in Seq(SourcedUnit) /\ BodyOfGroup(g) \in Seq(Unit)
           /\ \E c : Cuts(c, [k \in 1..Len(g) |-> BuildUnits(g[k])], BodyOfGroup(g))
           /\ [k \in 1..Len(g) |-> BuildUnits(g[k])] \in Seq(Seq(SourcedUnit))
           /\ Len([k \in 1..Len(g) |-> BuildUnits(g[k])]) = Len(g)
           /\ SameElements([k \in 1..Len(g) |-> BuildUnits(g[k])], BodyOfGroup(g))
<1> DEFINE n == Len(g)
           US == [k \in 1..n |-> BuildUnits(g[k])]
           V == BodyOfGroup(g)
<1>1. n \in Nat
  OBVIOUS
<1>2. \A k \in 1..n : BuildUnits(g[k]) \in Seq(SourcedUnit)
  BY UnitsTyped
<1>3. US \in Seq(Seq(SourcedUnit)) /\ Len(US) = n
  BY <1>1, <1>2
<1>4. V = FlattenSeq(US)
  BY DEF BodyOfGroup
<1> HIDE DEF US, V
<1>5. V \in Seq(SourcedUnit) /\ \E c : Cuts(c, US, V)
  BY <1>3, <1>4, FlattenCuts
<1>6. V \in Seq(Unit)
  BY <1>5, SourcedTyped
<1>7. SameElements(US, V)
  BY <1>3, <1>5, CutsElements
<1> QED BY <1>3, <1>5, <1>6, <1>7 DEF US, V, n

-----------------------------------------------------------------------------
(* The chunks of a document                                                *)

LEMMA SubNone ==
    ASSUME NEW C, NEW s \in Seq(C)
    PROVE  SubSeq(s, 1, 0) = <<>> /\ SubSeq(s, 1, Len(s)) = s
<1>1. SubSeq(s, 1, 0) = <<>>
  BY SubSeqProperties
<1>2. SubSeq(s, 1, Len(s)) = s
  BY SubSeqProperties
<1> QED BY <1>1, <1>2

LEMMA NoBodies == Bodies(<<>>, <<>>)
<1>1. WindowsTo(<<>>, 0)
  <2>1. <<>> \in Seq(Window) /\ Len(<<>>) = 0
    OBVIOUS
  <2> QED BY <2>1 DEF WindowsTo
<1>2. Overlaps(<<>>, <<>>)
  BY DEF Overlaps
<1> QED BY <1>1, <1>2 DEF Bodies

LEMMA BodiesFlatten ==
    ASSUME NEW parts \in Seq(Seq(Seq(SourcedUnit))), NEW chs \in Seq(Seq(SourcedUnit)),
           NEW e, Cuts(e, parts, chs),
           NEW bs \in Seq(Seq(Unit)), NEW W \in Seq(Unit), NEW d, Cuts(d, bs, W),
           Len(bs) = Len(parts), \A g \in 1..Len(parts) : Bodies(parts[g], bs[g])
    PROVE  Bodies(chs, W)
<1> DEFINE n == Len(parts)
           P(k) == Bodies(SubSeq(chs, 1, e[k]), SubSeq(W, 1, d[k]))
           T == { k \in 0..n : P(k) }
<1>1. n \in Nat
  OBVIOUS
<1>2. 0 \in T
  <2>1. e[0] = 0 /\ d[0] = 0
    BY DEF Cuts
  <2>2. P(0)
    BY <2>1, SubNone, NoBodies
  <2> QED BY <1>1, <2>2
<1>3. ASSUME NEW k \in 1..n, k - 1 \in T
      PROVE  k \in T
  <2>1. P(k - 1)
    BY <1>3
  <2>2. SubSeq(chs, 1, e[k]) = SubSeq(chs, 1, e[k - 1]) \o parts[k]
    BY CutsFirst
  <2>3. SubSeq(W, 1, d[k]) = SubSeq(W, 1, d[k - 1]) \o bs[k]
    BY CutsFirst
  <2>4. SubSeq(chs, 1, e[k - 1]) \in Seq(Seq(SourcedUnit))
    <3>1. e[k - 1] \in 0..Len(chs)
      BY CutsInto DEF Into
    <3> QED BY <3>1, SubSeqProperties, SMTT(30)
  <2>5. SubSeq(W, 1, d[k - 1]) \in Seq(Unit)
    <3>1. d[k - 1] \in 0..Len(W)
      BY CutsInto DEF Into
    <3> QED BY <3>1, SubSeqProperties
  <2>6. parts[k] \in Seq(Seq(SourcedUnit)) /\ bs[k] \in Seq(Unit) /\ Bodies(parts[k], bs[k])
    OBVIOUS
  <2>7. P(k)
    BY <2>1, <2>2, <2>3, <2>4, <2>5, <2>6, BodiesJoin
  <2> QED BY <1>1, <2>7
<1> HIDE DEF T
<1>4. n \in T
  BY <1>1, <1>2, <1>3, Reaches
<1>5. P(n)
  BY <1>4 DEF T
<1>6. e[n] = Len(chs) /\ d[n] = Len(W)
  BY DEF Cuts
<1> QED BY <1>5, <1>6, SubNone

\* Groups of sections of a document.
Groups(gs, S, x) ==
    /\ S \in Seq(Section)
    /\ Sectioned(S, x, Len(x))
    /\ gs \in Seq(Seq(Section))
    /\ \E c : Cuts(c, gs, S)
    /\ \A g \in 1..Len(gs) : GroupOK(gs[g])
    /\ \A g \in 1..Len(gs) : \A k \in 1..Len(gs[g]) : SectionFit(gs[g][k])

LEMMA GroupsFit ==
    ASSUME NEW x, BlocksOK(x)
    PROVE  Groups(MergeSmallSections(BuildSections(x)), BuildSections(x), x)
<1> DEFINE S == BuildSections(x)
           gs == MergeSmallSections(S)
<1>1. S \in Seq(Section) /\ Sectioned(S, x, Len(x))
  BY SectionsAre
<1> HIDE DEF S
<1>2. GroupsOf(gs, S)
  BY <1>1, GroupsAre
<1> HIDE DEF gs
<1>3. /\ gs \in Seq(Seq(Section))
      /\ \E c : Cuts(c, gs, S)
      /\ \A g \in 1..Len(gs) : GroupOK(gs[g])
  BY <1>2 DEF GroupsOf
<1>4. SameElements(gs, S)
  BY <1>1, <1>3, CutsElements
<1>5. ASSUME NEW g \in 1..Len(gs), NEW k \in 1..Len(gs[g])
      PROVE  SectionFit(gs[g][k])
  <2>1. PICK i \in 1..Len(S) : S[i] = gs[g][k]
    BY <1>4 DEF SameElements
  <2>2. SectionOK(S[i], x)
    BY <1>1, <2>1 DEF Sectioned
  <2> QED BY <2>1, <2>2, SectionBody DEF SectionFit
<1> QED BY <1>1, <1>3, <1>5 DEF Groups, S, gs

LEMMA GroupSection ==
    ASSUME NEW x, NEW S, NEW gs, Groups(gs, S, x), NEW c, Cuts(c, gs, S),
           NEW g \in 1..Len(gs), NEW k \in 1..Len(gs[g])
    PROVE  c[g - 1] + k \in 1..Len(S) /\ gs[g][k] = S[c[g - 1] + k] /\ c[g - 1] \in Nat
<1>1. gs \in Seq(Seq(Section)) /\ S \in Seq(Section)
  BY DEF Groups
<1>2. c[g - 1] \in 0..Len(S)
  <2>1. Into(c, gs, S, g)
    BY <1>1, CutsInto
  <2> QED BY <2>1 DEF Into
<1>3. \A m \in 1..Len(gs[g]) : c[g - 1] + m \in 1..Len(S) /\ gs[g][m] = S[c[g - 1] + m]
  <2>1. Into(c, gs, S, g)
    BY <1>1, CutsInto
  <2> QED BY <2>1 DEF Into
<1> QED BY <1>2, <1>3

LEMMA GroupOrdered ==
    ASSUME NEW x, BlocksOK(x), NEW S, NEW gs, Groups(gs, S, x), NEW g \in 1..Len(gs)
    PROVE  Ordered(BodyOfGroup(gs[g]))
<1> DEFINE h == gs[g]
           US == [k \in 1..Len(h) |-> BuildUnits(h[k])]
           V == BodyOfGroup(h)
<1>1. h \in Seq(Section) /\ \A k \in 1..Len(h) : SectionFit(h[k])
  BY DEF Groups
<1>2. PICK c : Cuts(c, gs, S)
  BY DEF Groups
<1>3. \A k \in 1..Len(h) : c[g - 1] + k \in 1..Len(S) /\ h[k] = S[c[g - 1] + k]
  BY <1>2, GroupSection
<1>4. Len(h) > 0 => c[g - 1] \in Nat
  <2>1. Len(h) > 0 => 1 \in 1..Len(h)
    BY <1>1
  <2> QED BY <1>2, <2>1, GroupSection
<1> HIDE DEF h
<1>5. V \in Seq(SourcedUnit) /\ US \in Seq(Seq(SourcedUnit)) /\ Len(US) = Len(h)
  BY <1>1, GroupBodyIs
<1>6. PICK d : Cuts(d, US, V)
  BY <1>1, GroupBodyIs
<1>7. \A k \in 1..Len(US) : Ordered(US[k])
  <2> SUFFICES ASSUME NEW k \in 1..Len(US) PROVE Ordered(US[k])
    OBVIOUS
  <2>1. k \in 1..Len(h) /\ SectionFit(h[k])
    BY <1>1, <1>5
  <2>2. UnitsOf(BuildUnits(h[k]), h[k])
    BY <2>1, BuildUnitsAre DEF SectionFit
  <2> QED BY <2>1, <2>2 DEF UnitsOf, Ordered
<1>8. ASSUME NEW k \in 1..Len(US), NEW l \in 1..Len(US), k < l,
             NEW i \in 1..Len(US[k]), NEW j \in 1..Len(US[l])
      PROVE  Precede(US[k][i].words, US[l][j].words)
  <2> DEFINE a == c[g - 1] + k
             b == c[g - 1] + l
  <2>1. k \in 1..Len(h) /\ l \in 1..Len(h)
    BY <1>5
  <2>2. a \in 1..Len(S) /\ b \in 1..Len(S) /\ a < b /\ h[k] = S[a] /\ h[l] = S[b]
    BY <1>3, <1>4, <1>8, <2>1
  <2>3. US[k] = BuildUnits(h[k]) /\ US[l] = BuildUnits(h[l])
    BY <2>1
  <2> HIDE DEF a, b, US
  <2>4. UnitFrom(US[k][i], S[a]) /\ UnitFrom(US[l][j], S[b])
    <3>1. UnitFrom(US[k][i], h[k])
      BY <1>1, <2>1, <2>3, UnitsTyped
    <3>2. UnitFrom(US[l][j], h[l])
      BY <1>1, <2>1, <2>3, UnitsTyped
    <3> QED BY <2>2, <3>1, <3>2
  <2> QED BY <2>2, <2>4, SectionsApart DEF Groups
<1> HIDE DEF US, V
<1>9. Ordered(V)
  BY <1>5, <1>6, <1>7, <1>8, CutsOrdered
<1> QED BY <1>9 DEF V, h

\* A unit of a group is a unit of one of its sections.
LEMMA GroupUnitFrom ==
    ASSUME NEW h \in Seq(Section), \A k \in 1..Len(h) : SectionFit(h[k]),
           NEW i \in 1..Len(BodyOfGroup(h))
    PROVE  \E k \in 1..Len(h) : UnitFrom(BodyOfGroup(h)[i], h[k])
<1> DEFINE US == [k \in 1..Len(h) |-> BuildUnits(h[k])]
           V == BodyOfGroup(h)
<1>1. SameElements(US, V) /\ Len(US) = Len(h)
  BY GroupBodyIs
<1>2. PICK k \in 1..Len(US) : \E j \in 1..Len(US[k]) : V[i] = US[k][j]
  BY <1>1 DEF SameElements
<1>3. k \in 1..Len(h) /\ US[k] = BuildUnits(h[k])
  BY <1>1
<1> HIDE DEF US
<1>4. PICK j \in 1..Len(US[k]) : V[i] = US[k][j]
  BY <1>2
<1>5. UnitFrom(US[k][j], h[k])
  BY <1>3, UnitsTyped
<1> QED BY <1>3, <1>4, <1>5

LEMMA GroupsApart ==
    ASSUME NEW x, BlocksOK(x), NEW S, NEW gs, Groups(gs, S, x),
           NEW g \in 1..Len(gs), NEW h \in 1..Len(gs), g < h,
           NEW i \in 1..Len(BodyOfGroup(gs[g])), NEW j \in 1..Len(BodyOfGroup(gs[h]))
    PROVE  Precede(BodyOfGroup(gs[g])[i].words, BodyOfGroup(gs[h])[j].words)
<1>1. /\ S \in Seq(Section) /\ Sectioned(S, x, Len(x)) /\ gs \in Seq(Seq(Section))
      /\ \A k \in 1..Len(gs[g]) : SectionFit(gs[g][k])
      /\ \A k \in 1..Len(gs[h]) : SectionFit(gs[h][k])
  BY DEF Groups
<1>2. PICK c : Cuts(c, gs, S)
  BY DEF Groups
<1>3. gs[g] \in Seq(Section) /\ gs[h] \in Seq(Section)
  BY <1>1
<1>4. PICK k \in 1..Len(gs[g]) : UnitFrom(BodyOfGroup(gs[g])[i], gs[g][k])
  BY <1>1, <1>3, GroupUnitFrom
<1>5. PICK l \in 1..Len(gs[h]) : UnitFrom(BodyOfGroup(gs[h])[j], gs[h][l])
  BY <1>1, <1>3, GroupUnitFrom
<1> DEFINE a == c[g - 1] + k
           b == c[h - 1] + l
<1>6. a \in 1..Len(S) /\ gs[g][k] = S[a]
  BY <1>2, <1>4, GroupSection
<1>7. b \in 1..Len(S) /\ gs[h][l] = S[b]
  BY <1>2, <1>5, GroupSection, SMTT(30)
<1>8. a < b
  BY <1>1, <1>2, CutsApart
<1> HIDE DEF a, b
<1> QED BY <1>1, <1>4, <1>5, <1>6, <1>7, <1>8, SectionsApart

-----------------------------------------------------------------------------
(* A document: its units in order, and its chunks                          *)

DocGroups(x) == MergeSmallSections(BuildSections(x))

DocUnits(x) == FlattenSeq([g \in 1..Len(DocGroups(x)) |-> BodyOfGroup(DocGroups(x)[g])])

\* What the chunks of a document are.
Chunked(chs, x) ==
    /\ chs \in Seq(Seq(SourcedUnit))
    /\ \A m \in 1..Len(chs) : \E g \in 1..Len(DocGroups(x)) : ChunkOf(chs[m], DocGroups(x)[g])
    /\ \A g \in 1..Len(DocGroups(x)) : \E m \in 1..Len(chs) : ChunkOf(chs[m], DocGroups(x)[g])

LEMMA DocUnitsAre ==
    ASSUME NEW x, BlocksOK(x)
    PROVE  /\ DocUnits(x) \in Seq(SourcedUnit) /\ DocUnits(x) \in Seq(Unit)
           /\ [g \in 1..Len(DocGroups(x)) |-> BodyOfGroup(DocGroups(x)[g])] \in Seq(Seq(SourcedUnit))
           /\ Len([g \in 1..Len(DocGroups(x)) |-> BodyOfGroup(DocGroups(x)[g])]) = Len(DocGroups(x))
           /\ \E d : Cuts(d, [g \in 1..Len(DocGroups(x)) |-> BodyOfGroup(DocGroups(x)[g])], DocUnits(x))
           /\ Ordered(DocUnits(x))
<1> DEFINE gs == DocGroups(x)
           S == BuildSections(x)
           n == Len(gs)
           BS == [g \in 1..n |-> BodyOfGroup(gs[g])]
           W == DocUnits(x)
<1>1. Groups(gs, S, x)
  BY GroupsFit DEF DocGroups
<1> HIDE DEF gs, S
<1>2. gs \in Seq(Seq(Section)) /\ n \in Nat
  BY <1>1 DEF Groups
<1>3. \A g \in 1..n : BodyOfGroup(gs[g]) \in Seq(SourcedUnit)
  <2> SUFFICES ASSUME NEW g \in 1..n PROVE BodyOfGroup(gs[g]) \in Seq(SourcedUnit)
    OBVIOUS
  <2>1. gs[g] \in Seq(Section) /\ \A k \in 1..Len(gs[g]) : SectionFit(gs[g][k])
    BY <1>1 DEF Groups
  <2> QED BY <2>1, GroupBodyIs
<1>4. BS \in Seq(Seq(SourcedUnit)) /\ Len(BS) = n
  BY <1>2, <1>3
<1>5. W = FlattenSeq(BS)
  BY DEF DocUnits, gs
<1> HIDE DEF BS, W
<1>6. W \in Seq(SourcedUnit) /\ \E d : Cuts(d, BS, W)
  BY <1>4, <1>5, FlattenCuts
<1>7. W \in Seq(Unit)
  BY <1>6, SourcedTyped
<1>8. \A g \in 1..Len(BS) : Ordered(BS[g])
  <2> SUFFICES ASSUME NEW g \in 1..Len(BS) PROVE Ordered(BS[g])
    OBVIOUS
  <2>1. g \in 1..n /\ BS[g] = BodyOfGroup(gs[g])
    BY <1>4 DEF BS
  <2> QED BY <1>1, <2>1, GroupOrdered
<1>9. ASSUME NEW g \in 1..Len(BS), NEW h \in 1..Len(BS), g < h,
             NEW i \in 1..Len(BS[g]), NEW j \in 1..Len(BS[h])
      PROVE  Precede(BS[g][i].words, BS[h][j].words)
  <2>1. g \in 1..n /\ BS[g] = BodyOfGroup(gs[g]) /\ h \in 1..n /\ BS[h] = BodyOfGroup(gs[h])
    BY <1>4 DEF BS
  <2> QED BY <1>1, <1>9, <2>1, GroupsApart
<1>10. Ordered(W)
  <2>1. PICK d : Cuts(d, BS, W)
    BY <1>6
  <2> QED BY <1>4, <1>6, <1>8, <1>9, <2>1, CutsOrdered
<1> QED BY <1>4, <1>6, <1>7, <1>10 DEF BS, W, n, gs

LEMMA ChunksAre ==
    ASSUME NEW x, BlocksOK(x)
    PROVE  Chunked(ChunkDocument(x), x) /\ Bodies(ChunkDocument(x), DocUnits(x))
<1> DEFINE gs == DocGroups(x)
           S == BuildSections(x)
           n == Len(gs)
           BS == [g \in 1..n |-> BodyOfGroup(gs[g])]
           CS == [g \in 1..n |-> ChunksOfGroup(gs[g])]
           W == DocUnits(x)
           CH == ChunkDocument(x)
<1>1. Groups(gs, S, x)
  BY GroupsFit DEF DocGroups
<1>2. gs \in Seq(Seq(Section)) /\ n \in Nat
  BY <1>1 DEF Groups
<1>3. CH = FlattenSeq(CS)
  <2>1. DOMAIN gs = 1..n
    BY <1>2
  <2> QED BY <2>1 DEF ChunkDocument, DocGroups
<1>4. W \in Seq(Unit) /\ BS \in Seq(Seq(SourcedUnit)) /\ Len(BS) = n
  BY DocUnitsAre
<1>5. PICK d : Cuts(d, BS, W)
  BY DocUnitsAre
<1> HIDE DEF gs, S, W, CH
<1>6. \A g \in 1..n : ChunksFor(ChunksOfGroup(gs[g]), gs[g])
  <2> SUFFICES ASSUME NEW g \in 1..n PROVE ChunksFor(ChunksOfGroup(gs[g]), gs[g])
    OBVIOUS
  <2>1. gs[g] \in Seq(Section) /\ GroupOK(gs[g]) /\ \A k \in 1..Len(gs[g]) : SectionFit(gs[g][k])
    BY <1>1 DEF Groups
  <2> QED BY <2>1, ChunksOfGroupAre
<1>7. CS \in Seq(Seq(Seq(SourcedUnit))) /\ Len(CS) = n
  <2>1. \A g \in 1..n : ChunksOfGroup(gs[g]) \in Seq(Seq(SourcedUnit))
    BY <1>6 DEF ChunksFor
  <2> QED BY <1>2, <2>1
<1>8. \A g \in 1..n : CS[g] = ChunksOfGroup(gs[g]) /\ BS[g] = BodyOfGroup(gs[g])
  OBVIOUS
<1> HIDE DEF CS, BS, n
<1>9. CH \in Seq(Seq(SourcedUnit)) /\ \E e : Cuts(e, CS, CH)
  BY <1>3, <1>7, FlattenCuts
<1>10. PICK e : Cuts(e, CS, CH)
  BY <1>9
<1>11. BS \in Seq(Seq(Unit))
  <2> SUFFICES ASSUME NEW g \in 1..Len(BS) PROVE BS[g] \in Seq(Unit)
    BY <1>4
  <2>1. BS[g] \in Seq(SourcedUnit)
    BY <1>4
  <2> QED BY <2>1, SourcedTyped
<1>12. Bodies(CH, W)
  <2>1. \A g \in 1..Len(CS) : Bodies(CS[g], BS[g])
    BY <1>6, <1>7, <1>8 DEF ChunksFor
  <2> QED BY <1>4, <1>5, <1>7, <1>9, <1>10, <1>11, <2>1, BodiesFlatten
<1>13. SameElements(CS, CH)
  BY <1>7, <1>9, <1>10, CutsElements
<1>14. ASSUME NEW m \in 1..Len(CH)
       PROVE  \E g \in 1..n : ChunkOf(CH[m], gs[g])
  <2>1. PICK g \in 1..Len(CS) : \E j \in 1..Len(CS[g]) : CH[m] = CS[g][j]
    BY <1>13 DEF SameElements
  <2>2. g \in 1..n /\ CS[g] = ChunksOfGroup(gs[g])
    BY <1>7, <1>8, <2>1
  <2> QED BY <1>6, <2>1, <2>2 DEF ChunksFor
<1>15. ASSUME NEW g \in 1..n
       PROVE  \E m \in 1..Len(CH) : ChunkOf(CH[m], gs[g])
  <2>1. g \in 1..Len(CS) /\ CS[g] = ChunksOfGroup(gs[g])
    BY <1>7, <1>8
  <2>2. Len(CS[g]) > 0 /\ ChunksFor(CS[g], gs[g]) /\ Len(CS[g]) \in Nat
    <3>1. CS[g] \in Seq(Seq(SourcedUnit))
      BY <1>7, <2>1
    <3> QED BY <1>6, <2>1, <3>1 DEF ChunksFor
  <2>3. 1 \in 1..Len(CS[g])
    BY <2>2
  <2>4. PICK m \in 1..Len(CH) : CH[m] = CS[g][1]
    BY <1>13, <2>1, <2>3 DEF SameElements
  <2> QED BY <2>2, <2>3, <2>4 DEF ChunksFor
<1> QED BY <1>9, <1>12, <1>14, <1>15 DEF Chunked, gs, W, CH, n

LEMMA ChunksTyped ==
    ASSUME NEW x, BlocksOK(x)
    PROVE  ChunkDocument(x) \in Seq(Seq(Unit))
<1> DEFINE CH == ChunkDocument(x)
<1>1. CH \in Seq(Seq(SourcedUnit))
  BY ChunksAre DEF Chunked
<1> HIDE DEF CH
<1>2. \A m \in 1..Len(CH) : CH[m] \in Seq(Unit)
  <2> SUFFICES ASSUME NEW m \in 1..Len(CH) PROVE CH[m] \in Seq(Unit)
    OBVIOUS
  <2>1. CH[m] \in Seq(SourcedUnit)
    BY <1>1
  <2> QED BY <2>1, SourcedTyped
<1>3. CH \in Seq(Seq(Unit))
  BY <1>1, <1>2
<1> QED BY <1>3 DEF CH

=============================================================================
