--------------------------- MODULE EvidenceProofs ---------------------------
(***************************************************************************)
(* Proofs about Evidence: what a question retrieves, cites and earns, for   *)
(* any corpus, question, scores and answer of a model.                      *)
(*                                                                         *)
(* The state of Evidence moves on in a few steps; all that is hard is in    *)
(* the operators.  They go through sequences with folds and put sets in an  *)
(* order.  Of a fold, the first part shows that it has a value for every    *)
(* sequence and takes one element after the other: induction over naturals  *)
(* is a statement about the least number that a set leaves out.             *)
(***************************************************************************)
EXTENDS Evidence, WellFoundedInduction, FiniteSetTheorems, SequenceTheorems, TLAPS

-----------------------------------------------------------------------------
(* Numbers, folds                                                          *)

LessThan == {p \in Nat \X Nat : p[1] < p[2]}

\* Numbers do not descend for ever.
LEMMA Least ==
    ASSUME NEW U, U \subseteq Nat, U # {}
    PROVE  \E x \in U : \A y \in U : x <= y
<1>1. IsWellFoundedOn(LessThan, Nat)
  BY NatLessThanWellFounded DEF OpToRel, LessThan
<1>2. PICK x \in U : \A y \in U : ~ (<<y, x>> \in LessThan)
  BY <1>1, WFMin
<1>3. ASSUME NEW y \in U
      PROVE  x <= y
  <2>1. x \in Nat /\ y \in Nat
    OBVIOUS
  <2>2. y < x => <<y, x>> \in LessThan
    BY <2>1 DEF LessThan
  <2> QED BY <1>2, <2>1, <2>2
<1> QED BY <1>3

\* A set of naturals that has zero and every successor has them all.
LEMMA Induct ==
    ASSUME NEW T, 0 \in T, \A n \in Nat : n \in T => n + 1 \in T
    PROVE  Nat \subseteq T
<1> DEFINE U == Nat \ T
<1> SUFFICES ASSUME U # {}
             PROVE  FALSE
  OBVIOUS
<1>1. PICK x \in U : \A y \in U : x <= y
  BY Least
<1>2. x # 0 /\ x - 1 \in Nat \ U
  BY <1>1
<1> QED BY <1>1, <1>2

\* The largest of some numbers.
LEMMA MaxOf ==
    ASSUME NEW n \in Nat, NEW s \in SUBSET (1..n), s # {}
    PROVE  Max(s) \in s /\ \A y \in s : Max(s) >= y
<1> DEFINE U == {m \in Nat : \A y \in s : y <= m}
<1>1. n \in U /\ U \subseteq Nat
  OBVIOUS
<1>2. PICK x \in U : \A y \in U : x <= y
  <2> HIDE DEF U
  <2> QED BY <1>1, Least
<1>3. x \in s
  <2> SUFFICES ASSUME x \notin s
               PROVE  FALSE
    OBVIOUS
  <2>1. \A y \in s : y \in Nat /\ y > 0 /\ y < x
    OBVIOUS
  <2>2. x > 0 /\ x - 1 \in Nat /\ \A y \in s : y <= x - 1
    <3>1. PICK y \in s : TRUE
      OBVIOUS
    <3>2. y > 0 /\ y < x /\ x \in Nat
      BY <2>1
    <3>3. x > 0 /\ x - 1 \in Nat
      BY <3>2, <2>1
    <3>4. \A z \in s : z <= x - 1
      BY <2>1, <3>3
    <3> QED BY <3>3, <3>4
  <2>3. ~ x <= x - 1 /\ x - 1 \in U
    BY <2>2
  <2> QED BY <1>2, <2>3
<1>4. \A y \in s : x >= y
  OBVIOUS
<1> QED BY <1>3, <1>4 DEF Max

SolvesFold(h, n, E, b, G) ==
    /\ h \in [SUBSET (1..n) -> E]
    /\ \A s \in SUBSET (1..n) : h[s] = IF s = {} THEN b ELSE G[<<Max(s), h[s \ {Max(s)}]>>]

LEMMA FoldSolved ==
    ASSUME NEW n \in Nat, NEW E, NEW b \in E, NEW G \in [(1..n) \X E -> E]
    PROVE  \E h : SolvesFold(h, n, E, b, G)
<1> DEFINE T == {k \in Nat : k <= n => \E h : SolvesFold(h, k, E, b, G)}
<1>1. 0 \in T
  <2>1. SUBSET (1..0) = {{}}
    OBVIOUS
  <2>2. SolvesFold([s \in SUBSET (1..0) |-> b], 0, E, b, G)
    BY <2>1 DEF SolvesFold
  <2> QED BY <2>2
<1>2. ASSUME NEW k \in Nat, k \in T
      PROVE  k + 1 \in T
  <2> SUFFICES ASSUME k + 1 <= n
               PROVE  \E h : SolvesFold(h, k + 1, E, b, G)
    BY <1>2
  <2>1. PICK h : SolvesFold(h, k, E, b, G)
    BY <1>2
  <2> DEFINE g == [s \in SUBSET (1..(k + 1)) |->
                    IF k + 1 \in s THEN G[<<k + 1, h[s \ {k + 1}]>>] ELSE h[s]]
  <2>2. \A s \in SUBSET (1..(k + 1)) : s \ {k + 1} \in SUBSET (1..k)
    OBVIOUS
  <2>3. \A s \in SUBSET (1..(k + 1)) : k + 1 \notin s => s \in SUBSET (1..k)
    OBVIOUS
  <2>4. g \in [SUBSET (1..(k + 1)) -> E]
    BY <2>1, <2>2, <2>3 DEF SolvesFold
  <2>5. ASSUME NEW s \in SUBSET (1..(k + 1))
        PROVE  g[s] = IF s = {} THEN b ELSE G[<<Max(s), g[s \ {Max(s)}]>>]
    <3>1. CASE k + 1 \in s
      <4>1. Max(s) = k + 1
        <5>1. Max(s) \in s /\ Max(s) >= k + 1
          BY <3>1, MaxOf, k + 1 \in Nat
        <5>2. Max(s) \in 1..(k + 1)
          BY <5>1
        <5> QED BY <5>1, <5>2
      <4>2. g[s \ {k + 1}] = h[s \ {k + 1}]
        BY <2>2
      <4> QED BY <3>1, <4>1, <4>2
    <3>2. CASE k + 1 \notin s
      <4>1. s \in SUBSET (1..k) /\ g[s] = h[s]
        BY <2>3, <3>2
      <4>2. s \ {Max(s)} \in SUBSET (1..k) /\ s \ {Max(s)} \in SUBSET (1..(k + 1))
        BY <4>1
      <4>3. g[s \ {Max(s)}] = h[s \ {Max(s)}]
        BY <3>2, <4>2
      <4> QED BY <2>1, <4>1, <4>3 DEF SolvesFold
    <3> QED BY <3>1, <3>2
  <2>6. SolvesFold(g, k + 1, E, b, G)
    BY <2>4, <2>5 DEF SolvesFold
  <2> QED BY <2>6
<1>3. n \in T
  <2> HIDE DEF T
  <2> QED BY <1>1, <1>2, Induct
<1> QED BY <1>3

\* A statement that holds of 0 and passes on up to n holds up to n.
LEMMA UpTo ==
    ASSUME NEW n \in Nat, NEW T, 0 \in T, \A k \in 1..n : k - 1 \in T => k \in T
    PROVE  0..n \subseteq T
<1> DEFINE U == {k \in Nat : k <= n => k \in T}
<1>1. 0 \in U
  OBVIOUS
<1>2. ASSUME NEW k \in Nat, k \in U
      PROVE  k + 1 \in U
  <2>1. CASE k + 1 <= n
    <3>1. k + 1 \in 1..n /\ (k + 1) - 1 = k /\ k <= n
      BY <2>1
    <3> QED BY <1>2, <3>1
  <2> QED BY <2>1
<1>3. Nat \subseteq U
  <2> HIDE DEF U
  <2> QED BY <1>1, <1>2, Induct
<1> QED BY <1>3

\* How a fold reads the places of a sequence.
LEMMA FirstPlaces ==
    ASSUME NEW n \in Nat, NEW k \in 1..n
    PROVE  /\ 1..k \in SUBSET (1..n) /\ 1..k # {}
           /\ Max(1..k) = k
           /\ 1..k \ {k} = 1..(k - 1) /\ 1..(k - 1) \in SUBSET (1..n)
<1>1. 1..k \in SUBSET (1..n) /\ k \in 1..k /\ 1..k \ {k} = 1..(k - 1)
      /\ 1..(k - 1) \in SUBSET (1..n)
  OBVIOUS
<1>2. Max(1..k) \in 1..k /\ Max(1..k) >= k
  BY <1>1, MaxOf
<1> QED BY <1>1, <1>2

\* A run of a fold: what it has after every element.
Run(r, n, E, b, G) ==
    /\ r \in [0..n -> E]
    /\ r[0] = b
    /\ \A k \in 1..n : r[k] = G[<<k, r[k - 1]>>]

\* What takes the steps of a fold on sets of places, has a run of it.
StepsFold(it, n, E, b, G) ==
    /\ it[{}] = b
    /\ \A s \in SUBSET (1..n) : s # {} /\ it[s \ {Max(s)}] \in E =>
            it[s] = G[<<Max(s), it[s \ {Max(s)}]>>]

RunOf(r, it, n, E, b, G) == Run(r, n, E, b, G) /\ r[n] = it[1..n]

LEMMA FoldRuns ==
    ASSUME NEW n \in Nat, NEW E, NEW b \in E, NEW G \in [(1..n) \X E -> E],
           NEW it, StepsFold(it, n, E, b, G)
    PROVE  \E r : RunOf(r, it, n, E, b, G)
<1> DEFINE r == [k \in 0..n |-> it[1..k]]
           T == {k \in 0..n : r[k] \in E}
<1>1. r[0] = b /\ r[n] = it[1..n] /\ 0 \in 0..n
  <2>1. 1..0 = {} /\ 0 \in 0..n /\ n \in 0..n
    OBVIOUS
  <2> QED BY <2>1 DEF StepsFold
<1>2. ASSUME NEW k \in 1..n, r[k - 1] \in E
      PROVE  r[k] = G[<<k, r[k - 1]>>] /\ r[k] \in E
  <2>1. /\ 1..k \in SUBSET (1..n) /\ 1..k # {} /\ Max(1..k) = k
        /\ 1..k \ {k} = 1..(k - 1) /\ k \in 0..n /\ k - 1 \in 0..n
    BY FirstPlaces
  <2>2. r[k] = G[<<k, r[k - 1]>>]
    BY <1>2, <2>1 DEF StepsFold
  <2> QED BY <1>2, <2>2
<1>3. 0..n \subseteq T
  <2>1. \A k \in 1..n : k \in 0..n /\ k - 1 \in 0..n
    OBVIOUS
  <2>2. 0 \in T
    BY <1>1
  <2>3. \A k \in 1..n : k - 1 \in T => k \in T
    <3> HIDE DEF r
    <3> QED BY <1>2, <2>1
  <2> HIDE DEF T
  <2> QED BY <2>2, <2>3, UpTo
<1>4. \A k \in 1..n : k - 1 \in 0..n
  OBVIOUS
<1>5. r \in [0..n -> E]
  BY <1>3
<1> HIDE DEF r
<1>6. Run(r, n, E, b, G)
  BY <1>1, <1>2, <1>3, <1>4, <1>5 DEF Run
<1> QED BY <1>1, <1>6 DEF RunOf

\* Suppressing duplicates, one candidate after the other.
Kept(kept, c) == IF \E e \in ToSet(kept) : Repeats(e, c) THEN kept ELSE Append(kept, c)

LEMMA SuppressSteps ==
    ASSUME NEW C, NEW sorted \in Seq(C)
    PROVE  \E r \in [0..Len(sorted) -> Seq(C)] :
             /\ r[0] = <<>>
             /\ \A k \in 1..Len(sorted) : r[k] = Kept(r[k - 1], sorted[k])
             /\ SuppressDuplicates(sorted) = r[Len(sorted)]
<1> DEFINE n == Len(sorted)
           E == Seq(C)
           G == [p \in (1..n) \X E |-> Kept(p[2], sorted[p[1]])]
           Step(s, it) == IF s = {} THEN <<>> ELSE Kept(it[s \ {Max(s)}], sorted[Max(s)])
           iter == CHOOSE it : it = [s \in SUBSET DOMAIN sorted |-> Step(s, it)]
<1>1. SuppressDuplicates(sorted) = iter[DOMAIN sorted]
  BY Zenon DEF SuppressDuplicates, FoldLeft, MapThenFoldSet, Kept
<1>2. n \in Nat /\ DOMAIN sorted = 1..n /\ <<>> \in E
  OBVIOUS
<1>3. ASSUME NEW k \in 1..n, NEW e \in E
      PROVE  Kept(e, sorted[k]) \in E /\ G[<<k, e>>] = Kept(e, sorted[k])
  BY DEF Kept
<1>4. G \in [(1..n) \X E -> E]
  BY <1>3
<1> HIDE DEF n, E
<1>5. PICK h : SolvesFold(h, n, E, <<>>, G)
  BY <1>2, <1>4, FoldSolved
<1> HIDE DEF G
<1>6. \A s \in SUBSET (1..n) : h[s] = Step(s, h)
  <2>1. ASSUME NEW s \in SUBSET (1..n), s # {}
        PROVE  h[s] = Step(s, h)
    <3>1. Max(s) \in 1..n /\ h[s \ {Max(s)}] \in E
      BY <1>2, <1>5, <2>1, MaxOf DEF SolvesFold
    <3> QED BY <1>3, <1>5, <2>1, <3>1 DEF SolvesFold
  <2> QED BY <1>5, <2>1 DEF SolvesFold
<1>7. h = [s \in SUBSET DOMAIN sorted |-> Step(s, h)]
  <2> HIDE DEF Step
  <2> QED BY <1>2, <1>5, <1>6 DEF SolvesFold
<1>8. iter = [s \in SUBSET DOMAIN sorted |-> Step(s, iter)]
  <2> HIDE DEF Step
  <2> QED BY <1>7
<1> HIDE DEF iter
<1>9. \A s \in SUBSET (1..n) : iter[s] = Step(s, iter)
  <2> HIDE DEF Step
  <2> QED BY <1>2, <1>8
<1>10. \A s \in SUBSET (1..n) : s # {} /\ iter[s \ {Max(s)}] \in E =>
            iter[s] = G[<<Max(s), iter[s \ {Max(s)}]>>]
  BY <1>2, <1>3, <1>9, MaxOf
<1>11. {} \in SUBSET (1..n) /\ iter[{}] = <<>>
  BY <1>9
<1> HIDE DEF Step
<1>12. PICK r : RunOf(r, iter, n, E, <<>>, G)
  <2>1. StepsFold(iter, n, E, <<>>, G)
    BY <1>10, <1>11 DEF StepsFold
  <2> QED BY <1>2, <1>4, <2>1, FoldRuns
<1>13. ASSUME NEW k \in 1..n
       PROVE  r[k] = Kept(r[k - 1], sorted[k])
  <2>1. k - 1 \in 0..n
    BY <1>2
  <2> QED BY <1>3, <1>12, <2>1 DEF Run, RunOf
<1> QED BY <1>1, <1>2, <1>12, <1>13 DEF Run, RunOf, n, E

-----------------------------------------------------------------------------
(* Orders                                                                  *)

\* Of keys of one length, Precedes is a strict total order.
LEMMA KeysOrdered ==
    ASSUME NEW n \in Nat, NEW K, K \subseteq [1..n -> Int]
    PROVE  /\ \A k \in K : ~ Precedes(k, k)
           /\ \A k, l, m \in K : Precedes(k, l) /\ Precedes(l, m) => Precedes(k, m)
           /\ \A k, l \in K : k # l => Precedes(k, l) \/ Precedes(l, k)
<1>0. \A k \in K : Len(k) = n /\ \A i \in 1..n : k[i] \in Int
  OBVIOUS
<1>1. ASSUME NEW k \in K
      PROVE  ~ Precedes(k, k)
  BY <1>0 DEF Precedes
<1>2. ASSUME NEW k \in K, NEW l \in K, NEW m \in K, Precedes(k, l), Precedes(l, m)
      PROVE  Precedes(k, m)
  <2>1. PICK i \in 1..n : k[i] > l[i] /\ \A j \in 1..(i - 1) : k[j] = l[j]
    BY <1>0, <1>2 DEF Precedes
  <2>2. PICK h \in 1..n : l[h] > m[h] /\ \A j \in 1..(h - 1) : l[j] = m[j]
    BY <1>0, <1>2 DEF Precedes
  <2>3. CASE i <= h
    <3>1. \A j \in 1..(i - 1) : j \in 1..(h - 1)
      BY <2>3
    <3>2. l[i] >= m[i]
      <4>1. i = h \/ i \in 1..(h - 1)
        BY <2>3
      <4> QED BY <1>0, <2>2, <4>1
    <3>3. k[i] > m[i]
      <4>1. k[i] \in Int /\ l[i] \in Int /\ m[i] \in Int
        BY <1>0
      <4> QED BY <2>1, <3>2, <4>1
    <3>4. \A j \in 1..(i - 1) : k[j] = m[j]
      BY <2>1, <2>2, <3>1
    <3> QED BY <1>0, <3>3, <3>4 DEF Precedes
  <2>4. CASE h < i
    <3>1. \A j \in 1..(h - 1) : j \in 1..(i - 1)
      BY <2>4
    <3>2. h \in 1..(i - 1)
      BY <2>4
    <3>3. k[h] > m[h] /\ \A j \in 1..(h - 1) : k[j] = m[j]
      BY <1>0, <2>1, <2>2, <3>1, <3>2
    <3> QED BY <1>0, <3>3 DEF Precedes
  <2> QED BY <2>3, <2>4
<1>3. ASSUME NEW k \in K, NEW l \in K, k # l
      PROVE  Precedes(k, l) \/ Precedes(l, k)
  <2> DEFINE U == {i \in 1..n : k[i] # l[i]}
  <2>1. U # {}
    BY SMTT(30), <1>3
  <2>2. PICK i \in U : \A j \in U : i <= j
    <3> U \subseteq Nat
      OBVIOUS
    <3> HIDE DEF U
    <3> QED BY <2>1, Least
  <2>3. ASSUME NEW j \in 1..(i - 1)
        PROVE  k[j] = l[j]
    <3>1. j \in 1..n /\ ~ i <= j
      OBVIOUS
    <3> QED BY <2>2, <3>1
  <2>4. k[i] > l[i] \/ l[i] > k[i]
    BY <1>0
  <2> QED BY <1>0, <2>3, <2>4 DEF Precedes
<1> QED BY <1>1, <1>2, <1>3

\* The elements of a finite set before one of them, in an order of the set.
Earlier(S, R, c) == {e \in S : <<e, c>> \in R}

StrictOrder(S, R) ==
    /\ \A c \in S : <<c, c>> \notin R
    /\ \A c, d, e \in S : <<c, d>> \in R /\ <<d, e>> \in R => <<c, e>> \in R
    /\ \A c, d \in S : c # d => <<c, d>> \in R \/ <<d, c>> \in R

\* Their numbers are all those below the size of the set, each once.
LEMMA EveryRank ==
    ASSUME NEW S, IsFiniteSet(S), NEW R, StrictOrder(S, R)
    PROVE  /\ \A c \in S : Cardinality(Earlier(S, R, c)) \in 0..(Cardinality(S) - 1)
           /\ \A c, d \in S : <<c, d>> \in R =>
                Cardinality(Earlier(S, R, c)) < Cardinality(Earlier(S, R, d))
           /\ \A i \in 1..Cardinality(S) : \E c \in S : Cardinality(Earlier(S, R, c)) = i - 1
<1> DEFINE rank(c) == Cardinality(Earlier(S, R, c))
           n == Cardinality(S)
<1>0. n \in Nat
  BY FS_CardinalityType
<1>1. ASSUME NEW c \in S
      PROVE  IsFiniteSet(Earlier(S, R, c)) /\ rank(c) \in Nat /\ rank(c) <= n - 1
  <2>1. Earlier(S, R, c) \in SUBSET (S \ {c})
    BY DEF Earlier, StrictOrder
  <2>2. IsFiniteSet(S \ {c}) /\ Cardinality(S \ {c}) = n - 1
    BY FS_RemoveElement
  <2>3. IsFiniteSet(Earlier(S, R, c)) /\ rank(c) <= n - 1
    BY <2>1, <2>2, FS_Subset
  <2> QED BY <2>3, FS_CardinalityType
<1>2. ASSUME NEW c \in S, NEW d \in S, <<c, d>> \in R
      PROVE  rank(c) < rank(d)
  <2>1. Earlier(S, R, c) \cup {c} \in SUBSET Earlier(S, R, d) /\ c \notin Earlier(S, R, c)
    BY <1>2 DEF Earlier, StrictOrder
  <2>2. Cardinality(Earlier(S, R, c) \cup {c}) = rank(c) + 1
    BY <1>1, <2>1, FS_AddElement
  <2>3. Cardinality(Earlier(S, R, c) \cup {c}) <= rank(d)
    BY <1>1, <2>1, FS_Subset
  <2> QED BY <1>1, <2>2, <2>3
<1>3. ASSUME NEW i \in 1..n
      PROVE  \E c \in S : rank(c) = i - 1
  <2> DEFINE f == [c \in S |-> rank(c) + 1]
  <2>1. f \in [S -> 1..n]
    <3>1. \A c \in S : rank(c) + 1 \in 1..n
      <4> HIDE DEF rank, n
      <4> QED BY <1>0, <1>1
    <3> HIDE DEF rank, n
    <3> QED BY <3>1
  <2>2. \A c, d \in S : c # d => f[c] # f[d]
    <3> SUFFICES ASSUME NEW c \in S, NEW d \in S, c # d
                 PROVE  rank(c) + 1 # rank(d) + 1
      OBVIOUS
    <3>1. <<c, d>> \in R \/ <<d, c>> \in R
      BY DEF StrictOrder
    <3>2. rank(c) \in Nat /\ rank(d) \in Nat /\ (rank(c) < rank(d) \/ rank(d) < rank(c))
      BY <1>1, <1>2, <3>1
    <3> HIDE DEF rank
    <3> QED BY <3>2
  <2>3. f \in Injection(S, 1..n)
    <3> HIDE DEF f
    <3> QED BY <2>1, <2>2 DEF Injection, IsInjective
  <2>4. IsFiniteSet(1..n) /\ Cardinality(1..n) = n
    BY <1>0, FS_Interval
  <2>5. f \in Surjection(S, 1..n)
    <3> HIDE DEF f
    <3> QED BY <2>3, <2>4, FS_Injection
  <2>6. PICK c \in S : f[c] = i
    <3> HIDE DEF f
    <3> QED BY <2>5 DEF Surjection
  <2>7. rank(c) + 1 = i /\ rank(c) \in Nat
    BY <1>1, <2>6
  <2> HIDE DEF rank
  <2> QED BY <2>7
<1> QED BY <1>0, <1>1, <1>2, <1>3

\* A sequence whose elements have their ranks is the set in its order.
LEMMA RanksInOrder ==
    ASSUME NEW S, IsFiniteSet(S), NEW R, StrictOrder(S, R), NEW q \in [1..Cardinality(S) -> S],
           \A i \in 1..Cardinality(S) : Cardinality(Earlier(S, R, q[i])) = i - 1
    PROVE  /\ q \in Seq(S) /\ Len(q) = Cardinality(S) /\ ToSet(q) = S
           /\ \A i, j \in 1..Len(q) : i < j => <<q[i], q[j]>> \in R
<1>0. Cardinality(S) \in Nat
  BY FS_CardinalityType
<1>1. q \in Seq(S) /\ Len(q) = Cardinality(S)
  BY <1>0
<1>2. ASSUME NEW i \in 1..Cardinality(S), NEW j \in 1..Cardinality(S), i < j
      PROVE  <<q[i], q[j]>> \in R
  <2>1. q[i] \in S /\ q[j] \in S
    OBVIOUS
  <2>2. i - 1 # j - 1 /\ ~ j - 1 < i - 1
    BY <1>2
  <2>3. q[i] # q[j]
    BY <2>2
  <2>4. <<q[j], q[i]>> \in R => j - 1 < i - 1
    BY <2>1, EveryRank
  <2> QED BY <2>1, <2>2, <2>3, <2>4 DEF StrictOrder
<1>3. ASSUME NEW c \in S
      PROVE  \E i \in 1..Cardinality(S) : q[i] = c
  <2> DEFINE rank == Cardinality(Earlier(S, R, c))
             i == rank + 1
  <2>1. rank \in 0..(Cardinality(S) - 1)
    BY EveryRank
  <2>2. i \in 1..Cardinality(S) /\ i - 1 = rank /\ ~ rank < rank
    <3> HIDE DEF rank
    <3> QED BY <1>0, <2>1
  <2>3. q[i] \in S /\ Cardinality(Earlier(S, R, q[i])) = rank
    <3> HIDE DEF rank, i
    <3> QED BY <2>2
  <2>4. ~ <<q[i], c>> \in R /\ ~ <<c, q[i]>> \in R
    <3> HIDE DEF i
    <3> QED BY <2>2, <2>3, EveryRank
  <2> HIDE DEF i, rank
  <2> QED BY <2>2, <2>3, <2>4 DEF StrictOrder
<1> QED BY <1>0, <1>1, <1>2, <1>3 DEF ToSet

-----------------------------------------------------------------------------
(* Scores                                                                  *)

\* Division of naturals: the quotient is the largest that fits.
LEMMA Quotient ==
    ASSUME NEW a \in Nat, NEW d \in Nat \ {0}
    PROVE  /\ a \div d \in Nat
           /\ (a \div d) * d <= a
           /\ \A k \in Nat : k * d <= a => k <= a \div d
<1> DEFINE q == a \div d
           m == a % d
<1>1. q \in Int /\ m \in Int /\ a = d * q + m /\ 0 <= m /\ m < d
  OBVIOUS
<1> HIDE DEF q, m
<1>2. q >= 0
  <2>1. ASSUME q <= -1
        PROVE  FALSE
    <3>1. d * q <= d * (-1)
      BY <1>1, <2>1
    <3> QED BY <1>1, <3>1
  <2> QED BY <1>1, <2>1
<1>3. q * d <= a
  <2>1. q * d = d * q
    BY <1>1
  <2> QED BY <1>1, <2>1
<1>4. ASSUME NEW k \in Nat, k * d <= a
      PROVE  k <= q
  <2>1. ASSUME k >= q + 1
        PROVE  FALSE
    <3>1. k * d >= (q + 1) * d
      BY <1>1, <2>1
    <3>2. (q + 1) * d = d * q + d
      BY <1>1
    <3> QED BY <1>1, <1>4, <3>1, <3>2
  <2> QED BY <1>1, <2>1
<1> QED BY <1>1, <1>2, <1>3, <1>4 DEF q

LEMMA ShareOf ==
    ASSUME NEW part \in Nat, NEW whole \in Nat \ {0}
    PROVE  Share(part, whole) \in Nat
BY Quotient, One * part \in Nat DEF Share, One

LEMMA WeightedOf ==
    ASSUME NEW percent \in Nat, NEW score \in Nat, NEW other \in Nat, score <= other
    PROVE  /\ Weighted(percent, score) \in Nat
           /\ Weighted(percent, score) <= Weighted(percent, other)
<1>1. percent * score \in Nat /\ percent * other \in Nat /\ percent * score <= percent * other
  OBVIOUS
<1>2. /\ (percent * score) \div 100 \in Nat
      /\ ((percent * score) \div 100) * 100 <= percent * score
  BY <1>1, Quotient
<1>3. ((percent * score) \div 100) * 100 <= percent * other
  BY <1>1, <1>2
<1>4. (percent * score) \div 100 <= (percent * other) \div 100
  BY <1>1, <1>2, <1>3, Quotient
<1> QED BY <1>2, <1>4 DEF Weighted

LEMMA WeightedNat ==
    ASSUME NEW percent \in Nat, NEW score \in Nat
    PROVE  Weighted(percent, score) \in Nat
<1>1. score <= score
  OBVIOUS
<1> QED BY <1>1, WeightedOf

\* The score of a lexical rank grows with it.
LEMMA FtsGrows ==
    ASSUME NEW r \in Nat \cup {NoValue}, NEW q \in Nat \cup {NoValue}, r <= q
    PROVE  FtsScore(r) \in Nat /\ FtsScore(r) <= FtsScore(q)
<1>1. CASE r <= 0
  <2>1. FtsScore(r) = 0
    BY <1>1 DEF FtsScore
  <2>2. FtsScore(q) \in Nat
    <3>1. CASE q > 0
      <4>1. q \in Nat /\ q + 100 \in Nat \ {0}
        BY <3>1 DEF NoValue
      <4> QED BY <3>1, <4>1, ShareOf DEF FtsScore
    <3>2. CASE ~ q > 0
      <4>1. q <= 0
        BY <3>2 DEF NoValue
      <4> QED BY <4>1 DEF FtsScore
    <3> QED BY <3>1, <3>2
  <2> QED BY <2>1, <2>2
<1>2. CASE ~ r <= 0
  <2>1. r \in Nat /\ q \in Nat /\ r > 0 /\ q > 0
    BY <1>2 DEF NoValue
  <2> DEFINE k == Share(r, r + 100)
  <2>2. r + 100 \in Nat \ {0} /\ q + 100 \in Nat \ {0} /\ One * r \in Nat /\ One * q \in Nat
    BY <2>1 DEF One
  <2>3. k \in Nat /\ k * (r + 100) <= One * r
    BY <2>2, Quotient DEF Share
  <2>4. k <= One
    <3> HIDE DEF k
    <3>1. ASSUME k >= One + 1
          PROVE  FALSE
      <4>1. k * (r + 100) >= (One + 1) * (r + 100)
        BY <2>1, <2>3, <3>1 DEF One
      <4>2. (One + 1) * (r + 100) > One * r
        BY <2>1 DEF One
      <4>3. k * (r + 100) \in Nat /\ (One + 1) * (r + 100) \in Nat
        BY <2>1, <2>3 DEF One
      <4> QED BY <2>2, <2>3, <4>1, <4>2, <4>3
    <3> QED BY <2>3, <3>1 DEF One
  <2>5. k * (q + 100) <= One * q
    <3> HIDE DEF k
    <3>1. k * (q + 100) = k * (r + 100) + k * (q - r)
      BY <2>1, <2>3
    <3>2. q - r \in Nat /\ k * (q - r) <= One * (q - r)
      BY <2>1, <2>3, <2>4 DEF One
    <3>3. One * q = One * r + One * (q - r)
      BY <2>1 DEF One
    <3>4. k * (r + 100) \in Nat /\ k * (q - r) \in Nat /\ One * (q - r) \in Nat
      BY <2>1, <2>3, <3>2 DEF One
    <3> QED BY <2>2, <2>3, <3>1, <3>2, <3>3, <3>4
  <2>6. k <= Share(q, q + 100)
    <3> HIDE DEF k
    <3> QED BY <2>2, <2>3, <2>5, Quotient DEF Share
  <2> QED BY <1>2, <2>1, <2>3, <2>6 DEF FtsScore
<1> QED BY <1>1, <1>2 DEF NoValue

\* The score of a date falls with its age.
LEMMA AgeFalls ==
    ASSUME NEW a \in Nat, NEW b \in Nat, a <= b
    PROVE  Share(180, 180 + b) \in Nat /\ Share(180, 180 + b) <= Share(180, 180 + a)
<1> DEFINE k == Share(180, 180 + b)
<1>1. 180 + a \in Nat \ {0} /\ 180 + b \in Nat \ {0} /\ One * 180 \in Nat
  BY DEF One
<1>2. k \in Nat /\ k * (180 + b) <= One * 180
  BY <1>1, Quotient DEF Share
<1> HIDE DEF k
<1>3. k * (180 + a) <= k * (180 + b)
  BY <1>2
<1>4. k * (180 + a) <= One * 180
  <2>1. k * (180 + a) \in Nat /\ k * (180 + b) \in Nat
    BY <1>2
  <2> QED BY <1>1, <1>2, <1>3, <2>1
<1>5. k <= Share(180, 180 + a)
  BY <1>1, <1>2, <1>4, Quotient DEF Share
<1> QED BY <1>2, <1>5 DEF k

\* What a function makes of a finite set is finite.
LEMMA ImageFinite ==
    ASSUME NEW S, IsFiniteSet(S), NEW f
    PROVE  /\ IsFiniteSet({f[x] : x \in S})
           /\ Cardinality({f[x] : x \in S}) <= Cardinality(S)
<1> DEFINE T == {f[x] : x \in S}
           g == [x \in S |-> f[x]]
<1>1. g \in Surjection(S, T)
  BY DEF Surjection
<1> HIDE DEF T, g
<1>2. IsFiniteSet(T) /\ Cardinality(T) <= Cardinality(S)
  BY <1>1, FS_Surjection
<1> QED BY <1>2 DEF T

LEMMA SequenceFinite ==
    ASSUME NEW S, NEW s \in Seq(S)
    PROVE  IsFiniteSet(ToSet(s)) /\ Cardinality(ToSet(s)) <= Len(s)
<1>1. DOMAIN s = 1..Len(s) /\ Len(s) \in Nat
  OBVIOUS
<1>2. IsFiniteSet(1..Len(s)) /\ Cardinality(1..Len(s)) = Len(s)
  BY <1>1, FS_Interval
<1>3. ToSet(s) = {s[i] : i \in 1..Len(s)}
  BY <1>1 DEF ToSet
<1> QED BY <1>2, <1>3, ImageFinite

LEMMA TermsFinite ==
    ASSUME NEW text, IsText(text)
    PROVE  IsFiniteSet(TermsOf(text))
<1> DEFINE W == ToSet(text)
           f == [w \in W |-> w.term]
<1>1. IsFiniteSet(W)
  BY SequenceFinite DEF IsText
<1>2. {w.term : w \in W} = {f[w] : w \in W}
  OBVIOUS
<1>3. IsFiniteSet({w.term : w \in W})
  <2> HIDE DEF f, W
  <2> QED BY <1>1, <1>2, ImageFinite
<1> QED BY <1>3, FS_Difference DEF TermsOf

IsQuestion(q) ==
    /\ IsFiniteSet(q.tokens) /\ IsFiniteSet(q.phrases) /\ q.filters \in Nat
    /\ \A p \in q.phrases : Len(p) \in Nat \ {0}

LEMMA CoverageOf ==
    ASSUME NEW text, NEW tokens, IsFiniteSet(tokens)
    PROVE  TokenCoverage(text, tokens) \in Nat
<1>1. CASE tokens = {}
  BY <1>1 DEF TokenCoverage
<1>2. CASE tokens # {}
  <2>1. Cardinality(tokens) \in Nat \ {0}
    BY <1>2, FS_CardinalityType, FS_EmptySet
  <2>2. Cardinality(tokens \cap TermsOf(text)) \in Nat
    BY FS_Intersection, FS_CardinalityType
  <2> QED BY <1>2, <2>1, <2>2, ShareOf DEF TokenCoverage
<1> QED BY <1>1, <1>2

LEMMA PhraseCoverageOf ==
    ASSUME NEW text, NEW phrases, IsFiniteSet(phrases)
    PROVE  PhraseCoverage(text, phrases) \in Nat
<1>1. CASE phrases = {}
  BY <1>1 DEF PhraseCoverage
<1>2. CASE phrases # {}
  <2>1. Cardinality(phrases) \in Nat \ {0}
    BY <1>2, FS_CardinalityType, FS_EmptySet
  <2> DEFINE found == {p \in phrases : Occurs(p, text)}
  <2>2. IsFiniteSet(found)
    BY FS_Subset
  <2>3. Cardinality(found) \in Nat
    BY <2>2, FS_CardinalityType
  <2> QED BY <1>2, <2>1, <2>3, ShareOf DEF PhraseCoverage
<1> QED BY <1>1, <1>2

LEMMA QuestionCoverage ==
    ASSUME NEW text, NEW q, IsQuestion(q)
    PROVE  Coverage(text, q) \in Nat
BY CoverageOf, PhraseCoverageOf DEF Coverage, Larger, IsQuestion

\* A row of a query, for a chunk of the corpus.
Row(S) == [chunk : S, semantic : Nat, rank : Nat \cup {NoValue}, age : Nat]

LEMMA LexicalOf ==
    ASSUME NEW S, NEW r \in Row(S), NEW t \in Row(S), NEW q, IsQuestion(q),
           r.chunk = t.chunk, r.rank <= t.rank
    PROVE  LexicalScore(r, q) \in Nat /\ LexicalScore(r, q) <= LexicalScore(t, q)
<1>1. /\ FtsScore(r.rank) \in Nat /\ FtsScore(t.rank) \in Nat
      /\ FtsScore(r.rank) <= FtsScore(t.rank)
  <2>1. r.rank \in Nat \cup {NoValue} /\ t.rank \in Nat \cup {NoValue} /\ t.rank <= t.rank
    BY DEF Row, NoValue
  <2> QED BY <2>1, FtsGrows
<1>2. TokenCoverage(r.chunk.text, q.tokens) \in Nat /\ PhraseCoverage(r.chunk.text, q.phrases) \in Nat
  BY CoverageOf, PhraseCoverageOf DEF IsQuestion
<1>3. /\ Weighted(55, FtsScore(r.rank)) \in Nat /\ Weighted(55, FtsScore(t.rank)) \in Nat
      /\ Weighted(55, FtsScore(r.rank)) <= Weighted(55, FtsScore(t.rank))
  BY <1>1, WeightedOf
<1>4. /\ Weighted(25, TokenCoverage(r.chunk.text, q.tokens)) \in Nat
      /\ Weighted(20, PhraseCoverage(r.chunk.text, q.phrases)) \in Nat
  BY <1>2, WeightedNat
<1> QED BY <1>3, <1>4 DEF LexicalScore

LEMMA RecencyOf ==
    ASSUME NEW S, NEW r \in Row(S), NEW t \in Row(S), NEW q, t.age <= r.age
    PROVE  RecencyScore(r, q) \in Nat /\ RecencyScore(r, q) <= RecencyScore(t, q)
<1>1. r.age \in Nat /\ t.age \in Nat
  BY DEF Row
<1> QED BY <1>1, AgeFalls DEF RecencyScore

LEMMA MetadataOf ==
    ASSUME NEW S, NEW r \in Row(S), NEW t \in Row(S), NEW q, IsQuestion(q), r.chunk = t.chunk
    PROVE  MetadataScore(r, q) \in Nat /\ MetadataScore(r, q) = MetadataScore(t, q)
<1>1. MetadataScore(r, q) = MetadataScore(t, q)
  BY DEF MetadataScore
<1> DEFINE tagged == r.chunk.tags # <<>> /\ (q.tokens # {} \/ q.phrases # {})
           points == One * q.filters + IF tagged THEN Coverage(r.chunk.tags, q) ELSE 0
           signals == q.filters + IF tagged THEN 1 ELSE 0
<1>2. points \in Nat /\ signals \in Nat
  BY QuestionCoverage DEF IsQuestion, One
<1>3. MetadataScore(r, q) = IF signals = 0 THEN 0 ELSE points \div signals
  BY DEF MetadataScore
<1> HIDE DEF points, signals, tagged
<1>4. MetadataScore(r, q) \in Nat
  BY <1>2, <1>3, Quotient
<1> QED BY <1>1, <1>4

LEMMA StructuralOf ==
    ASSUME NEW S, NEW r \in Row(S), NEW t \in Row(S), NEW q, IsQuestion(q), r.chunk = t.chunk
    PROVE  StructuralScore(r, q) \in Nat /\ StructuralScore(r, q) = StructuralScore(t, q)
<1>1. StructuralScore(r, q) = StructuralScore(t, q)
  BY DEF StructuralScore
<1>2. Coverage(r.chunk.section, q) \in Nat /\ Coverage(r.chunk.title, q) \in Nat /\ One \in Nat
  BY QuestionCoverage DEF One
<1>3. /\ Weighted(55, Coverage(r.chunk.section, q)) \in Nat
      /\ Weighted(30, Coverage(r.chunk.title, q)) \in Nat
      /\ Weighted(15, One) \in Nat
  BY <1>2, WeightedNat
<1> QED BY <1>1, <1>3 DEF StructuralScore

\* Scores are numbers, and what is found by both queries is not worse for it.
LEMMA ScoreOf ==
    ASSUME NEW S, NEW r \in Row(S), NEW t \in Row(S), NEW q, IsQuestion(q), r.chunk = t.chunk,
           r.semantic <= t.semantic, r.rank <= t.rank, t.age <= r.age
    PROVE  /\ Scored(r, q).chunk = r.chunk
           /\ Scored(r, q).hybrid \in Nat /\ Scored(r, q).semantic \in Nat
           /\ Scored(r, q).lexical \in Nat /\ Scored(r, q).metadata \in Nat
           /\ Scored(r, q).structural \in Nat /\ Scored(r, q).age \in Nat
           /\ Scored(r, q).phrase \in Nat
           /\ Scored(r, q).hybrid <= Scored(t, q).hybrid
<1>0. r.semantic \in Nat /\ t.semantic \in Nat /\ r.age \in Nat
  BY DEF Row
<1>1. LexicalScore(r, q) \in Nat /\ LexicalScore(r, q) <= LexicalScore(t, q)
      /\ LexicalScore(t, q) \in Nat
  <2>1. t.rank <= t.rank
    BY DEF Row, NoValue
  <2> QED BY <2>1, LexicalOf
<1>2. RecencyScore(r, q) \in Nat /\ RecencyScore(r, q) <= RecencyScore(t, q)
      /\ RecencyScore(t, q) \in Nat
  <2>1. t.age <= t.age
    BY DEF Row
  <2> QED BY <2>1, RecencyOf
<1>3. MetadataScore(r, q) \in Nat /\ MetadataScore(r, q) = MetadataScore(t, q)
  BY MetadataOf
<1>4. StructuralScore(r, q) \in Nat /\ StructuralScore(r, q) = StructuralScore(t, q)
  BY StructuralOf
<1>5. /\ Weighted(40, r.semantic) \in Nat /\ Weighted(40, r.semantic) <= Weighted(40, t.semantic)
      /\ Weighted(40, t.semantic) \in Nat
  <2>1. Weighted(40, r.semantic) \in Nat /\ Weighted(40, t.semantic) \in Nat
    BY <1>0, WeightedNat
  <2>2. Weighted(40, r.semantic) <= Weighted(40, t.semantic)
    BY <1>0, WeightedOf
  <2> QED BY <2>1, <2>2
<1>6. /\ Weighted(40, LexicalScore(r, q)) \in Nat /\ Weighted(40, LexicalScore(t, q)) \in Nat
      /\ Weighted(40, LexicalScore(r, q)) <= Weighted(40, LexicalScore(t, q))
  BY <1>1, WeightedOf
<1>7. /\ Weighted(3, RecencyScore(r, q)) \in Nat /\ Weighted(3, RecencyScore(t, q)) \in Nat
      /\ Weighted(3, RecencyScore(r, q)) <= Weighted(3, RecencyScore(t, q))
  BY <1>2, WeightedOf
<1>8. Weighted(10, MetadataScore(r, q)) \in Nat /\ Weighted(7, StructuralScore(r, q)) \in Nat
  BY <1>3, <1>4, WeightedNat
<1>9. PhraseCoverage(r.chunk.text, q.phrases) \in Nat
  BY PhraseCoverageOf DEF IsQuestion
<1> HIDE DEF Row
<1> QED BY <1>0, <1>1, <1>3, <1>4, <1>5, <1>6, <1>7, <1>8, <1>9 DEF Scored

LEMMA KeyOf ==
    ASSUME NEW S, \A c \in S : IsChunk(c), NEW r \in Row(S), NEW q, IsQuestion(q)
    PROVE  SortKey(Scored(r, q)) \in [1..7 -> Int]
<1>1. r.semantic <= r.semantic /\ r.rank <= r.rank /\ r.age <= r.age /\ r.chunk \in S
  BY DEF Row, NoValue
<1>2. /\ Scored(r, q).chunk = r.chunk
      /\ Scored(r, q).hybrid \in Nat /\ Scored(r, q).semantic \in Nat
      /\ Scored(r, q).lexical \in Nat /\ Scored(r, q).metadata \in Nat
      /\ Scored(r, q).structural \in Nat /\ Scored(r, q).age \in Nat
  BY <1>1, ScoreOf
<1>3. Scored(r, q).chunk.id \in Nat
  BY <1>1, <1>2 DEF IsChunk
<1> QED BY <1>2, <1>3 DEF SortKey

-----------------------------------------------------------------------------
(* The order of the candidates                                             *)

\* At most one row for a chunk.
RowsOK(rows, S) ==
    /\ rows \subseteq Row(S)
    /\ \A r, t \in rows : r.chunk = t.chunk => r = t

LEMMA RowsFinite ==
    ASSUME NEW S, IsFiniteSet(S), NEW rows, RowsOK(rows, S)
    PROVE  IsFiniteSet(rows)
<1> DEFINE f == [r \in rows |-> r.chunk]
<1>1. f \in Injection(rows, S)
  BY DEF RowsOK, Row, Injection, IsInjective
<1> HIDE DEF f
<1> QED BY <1>1, FS_Injection

\* A row that merges two is not behind either.
LEMMA MergedOf ==
    ASSUME NEW S, NEW r \in Row(S), NEW t \in Row(S), r.chunk = t.chunk
    PROVE  /\ Merged(r, t) \in Row(S) /\ Merged(r, t).chunk = r.chunk
           /\ \A u \in {r, t} : /\ u.semantic <= Merged(r, t).semantic
                                /\ u.rank <= Merged(r, t).rank
                                /\ Merged(r, t).age <= u.age
<1>1. DOMAIN r = {"chunk", "semantic", "rank", "age"}
  BY DEF Row
<1>2. /\ Merged(r, t).chunk = r.chunk
      /\ Merged(r, t).semantic = Larger(r.semantic, t.semantic)
      /\ Merged(r, t).rank = Larger(r.rank, t.rank)
      /\ Merged(r, t).age = IF t.age < r.age THEN t.age ELSE r.age
  BY <1>1 DEF Merged
<1>3. /\ r.semantic \in Nat /\ t.semantic \in Nat /\ r.age \in Nat /\ t.age \in Nat
      /\ r.rank \in Nat \cup {NoValue} /\ t.rank \in Nat \cup {NoValue} /\ r.chunk \in S
  BY DEF Row
<1>4. /\ Larger(r.semantic, t.semantic) \in Nat
      /\ Larger(r.rank, t.rank) \in Nat \cup {NoValue}
      /\ (IF t.age < r.age THEN t.age ELSE r.age) \in Nat
  BY <1>3 DEF Larger
<1>5. Merged(r, t) \in Row(S)
  BY <1>4 DEF Merged, Row
<1> QED BY <1>2, <1>3, <1>5 DEF Larger, NoValue

\* One row for every chunk that was found, the best of what was found of it.
LEMMA UnionOf ==
    ASSUME NEW S, IsFiniteSet(S), NEW sem, NEW lex, RowsOK(sem, S), RowsOK(lex, S)
    PROVE  /\ RowsOK(Union(sem, lex), S) /\ IsFiniteSet(Union(sem, lex))
           /\ {u.chunk : u \in Union(sem, lex)} = {r.chunk : r \in sem \cup lex}
           /\ \A u \in Union(sem, lex), r \in sem \cup lex : r.chunk = u.chunk =>
                r.semantic <= u.semantic /\ r.rank <= u.rank /\ u.age <= r.age
<1> DEFINE A == {r \in sem : RowsOfChunk(lex, r.chunk) = {}}
           B == {r \in lex : RowsOfChunk(sem, r.chunk) = {}}
           P == {p \in sem \X lex : p[1].chunk = p[2].chunk}
           M == {Merged(p[1], p[2]) : p \in P}
<1>0. Union(sem, lex) = A \cup B \cup M
  BY DEF Union
<1>1. \A r \in A : r \in sem /\ r \in Row(S) /\ \A t \in lex : t.chunk # r.chunk
  BY DEF RowsOK, RowsOfChunk
<1>2. \A r \in B : r \in lex /\ r \in Row(S) /\ \A t \in sem : t.chunk # r.chunk
  BY DEF RowsOK, RowsOfChunk
<1>3. ASSUME NEW m \in M
      PROVE  \E r \in sem, t \in lex :
                /\ m = Merged(r, t) /\ m.chunk = r.chunk /\ m.chunk = t.chunk /\ m \in Row(S)
                /\ \A u \in {r, t} : u.semantic <= m.semantic /\ u.rank <= m.rank /\ m.age <= u.age
  <2>1. PICK p \in P : m = Merged(p[1], p[2])
    OBVIOUS
  <2>2. p[1] \in sem /\ p[2] \in lex /\ p[1].chunk = p[2].chunk
    BY <2>1
  <2>3. p[1] \in Row(S) /\ p[2] \in Row(S)
    BY <2>2 DEF RowsOK
  <2> HIDE DEF P, M
  <2> QED BY <2>1, <2>2, <2>3, MergedOf
<1>4. \A r \in sem, t \in lex : r.chunk = t.chunk => Merged(r, t) \in M /\ Merged(r, t).chunk = r.chunk
  <2> SUFFICES ASSUME NEW r \in sem, NEW t \in lex, r.chunk = t.chunk
               PROVE  Merged(r, t) \in M /\ Merged(r, t).chunk = r.chunk
    OBVIOUS
  <2>1. <<r, t>> \in P
    OBVIOUS
  <2>2. Merged(r, t) \in M
    BY <2>1
  <2>3. Merged(r, t).chunk = r.chunk
    BY MergedOf DEF RowsOK
  <2> QED BY <2>2, <2>3
<1>5. \A r \in sem : r \in A \/ \E t \in lex : r.chunk = t.chunk
  BY DEF RowsOfChunk
<1>6. \A t \in lex : t \in B \/ \E r \in sem : r.chunk = t.chunk
  BY DEF RowsOfChunk
<1> HIDE DEF A, B, M
<1>7. RowsOK(Union(sem, lex), S)
  <2>1. Union(sem, lex) \subseteq Row(S)
    BY <1>0, <1>1, <1>2, <1>3
  <2>2. ASSUME NEW r \in Union(sem, lex), NEW t \in Union(sem, lex), r.chunk = t.chunk
        PROVE  r = t
    <3>1. CASE r \in A
      <4>1. t \in A
        BY <1>0, <1>1, <1>2, <1>3, <2>2, <3>1
      <4> QED BY <1>1, <2>2, <3>1, <4>1 DEF RowsOK
    <3>2. CASE r \in B
      <4>1. t \in B
        BY <1>0, <1>1, <1>2, <1>3, <2>2, <3>2
      <4> QED BY <1>2, <2>2, <3>2, <4>1 DEF RowsOK
    <3>3. CASE r \in M
      <4>1. t \in M
        BY <1>0, <1>1, <1>2, <1>3, <2>2, <3>3
      <4>2. PICK x \in sem, y \in lex : r = Merged(x, y) /\ r.chunk = x.chunk /\ r.chunk = y.chunk
        BY <1>3, <3>3
      <4>3. PICK v \in sem, w \in lex : t = Merged(v, w) /\ t.chunk = v.chunk /\ t.chunk = w.chunk
        BY <1>3, <4>1
      <4>4. x = v /\ y = w
        BY <2>2, <4>2, <4>3 DEF RowsOK
      <4> QED BY <4>2, <4>3, <4>4
    <3> QED BY <1>0, <3>1, <3>2, <3>3
  <2> QED BY <2>1, <2>2 DEF RowsOK
<1>8. {u.chunk : u \in Union(sem, lex)} = {r.chunk : r \in sem \cup lex}
  <2>1. \A u \in Union(sem, lex) : \E r \in sem \cup lex : u.chunk = r.chunk
    BY <1>0, <1>1, <1>2, <1>3
  <2>2. \A r \in sem \cup lex : \E u \in Union(sem, lex) : u.chunk = r.chunk
    BY <1>0, <1>4, <1>5, <1>6
  <2> QED BY <2>1, <2>2
<1>9. ASSUME NEW u \in Union(sem, lex), NEW r \in sem \cup lex, r.chunk = u.chunk
      PROVE  r.semantic <= u.semantic /\ r.rank <= u.rank /\ u.age <= r.age
  <2>1. CASE u \in A \/ u \in B
    <3>1. u = r
      BY <1>1, <1>2, <1>9, <2>1 DEF RowsOK
    <3>2. r \in Row(S)
      BY DEF RowsOK
    <3> QED BY <3>1, <3>2 DEF Row, NoValue
  <2>2. CASE u \in M
    <3>1. PICK x \in sem, y \in lex :
            /\ u.chunk = x.chunk /\ u.chunk = y.chunk
            /\ \A v \in {x, y} : v.semantic <= u.semantic /\ v.rank <= u.rank /\ u.age <= v.age
      BY <1>3, <2>2
    <3>2. r = x \/ r = y
      BY <1>9, <3>1 DEF RowsOK
    <3> QED BY <3>1, <3>2
  <2> QED BY <1>0, <2>1, <2>2
<1> QED BY <1>7, <1>8, <1>9, RowsFinite

\* What can be put in order: the keys are numbers, and differ.
Sortable(C) ==
    /\ IsFiniteSet(C)
    /\ \A c \in C : SortKey(c) \in [1..7 -> Int]
    /\ \A c, d \in C : c # d => SortKey(c) # SortKey(d)

BetterThan(C) == {p \in C \X C : Better(p[1], p[2])}

LEMMA BetterOrders ==
    ASSUME NEW C, Sortable(C)
    PROVE  StrictOrder(C, BetterThan(C))
<1> DEFINE K == {SortKey(c) : c \in C}
<1>1. K \subseteq [1..7 -> Int] /\ \A c \in C : SortKey(c) \in K
  BY DEF Sortable
<1> HIDE DEF K
<1>2. /\ \A k \in K : ~ Precedes(k, k)
      /\ \A k, l, m \in K : Precedes(k, l) /\ Precedes(l, m) => Precedes(k, m)
      /\ \A k, l \in K : k # l => Precedes(k, l) \/ Precedes(l, k)
  BY <1>1, KeysOrdered, 7 \in Nat
<1>3. \A c, d \in C : <<c, d>> \in BetterThan(C) <=> Precedes(SortKey(c), SortKey(d))
  BY DEF BetterThan, Better
<1> QED BY <1>1, <1>2, <1>3 DEF StrictOrder, Sortable

\* The candidates in order.
LEMMA SortedCandidates ==
    ASSUME NEW C, Sortable(C)
    PROVE  LET q == InOrder(C, Better)
           IN  /\ q \in Seq(C) /\ Len(q) = Cardinality(C) /\ ToSet(q) = C
               /\ \A i, j \in 1..Len(q) : i < j => Better(q[i], q[j])
<1> DEFINE q == InOrder(C, Better)
           R == BetterThan(C)
<1>1. StrictOrder(C, R) /\ IsFiniteSet(C)
  BY BetterOrders DEF Sortable
<1>2. \A c \in C : {e \in C : Better(e, c)} = Earlier(C, R, c)
  BY DEF Earlier, BetterThan
<1>3. ASSUME NEW i \in 1..Cardinality(C)
      PROVE  q[i] \in C /\ Cardinality(Earlier(C, R, q[i])) = i - 1
  <2>1. \E c \in C : Cardinality({e \in C : Better(e, c)}) = i - 1
    <3>1. PICK c \in C : Cardinality(Earlier(C, R, c)) = i - 1
      <4> HIDE DEF R
      <4> QED BY <1>1, EveryRank
    <3>2. Cardinality({e \in C : Better(e, c)}) = i - 1
      BY <1>2, <3>1
    <3> QED BY <3>2
  <2>2. q[i] = CHOOSE c \in C : Cardinality({e \in C : Better(e, c)}) = i - 1
    BY DEF InOrder
  <2>3. q[i] \in C /\ Cardinality({e \in C : Better(e, q[i])}) = i - 1
    <3> HIDE DEF q
    <3> QED BY <2>1, <2>2
  <2> HIDE DEF q
  <2> QED BY <1>2, <2>3
<1>4. q \in [1..Cardinality(C) -> C]
  <2> DEFINE place(i) == CHOOSE c \in C : Cardinality({e \in C : Better(e, c)}) = i - 1
  <2>1. q = [i \in 1..Cardinality(C) |-> place(i)]
    BY Zenon DEF InOrder
  <2> HIDE DEF q, place
  <2> QED BY <1>3, <2>1
<1> HIDE DEF q
<1>5. /\ q \in Seq(C) /\ Len(q) = Cardinality(C) /\ ToSet(q) = C
      /\ \A i, j \in 1..Len(q) : i < j => <<q[i], q[j]>> \in R
  BY <1>1, <1>3, <1>4, RanksInOrder
<1>6. \A i, j \in 1..Len(q) : i < j => Better(q[i], q[j])
  BY <1>5 DEF BetterThan
<1> QED BY <1>5, <1>6 DEF q

LEMMA FirstOfSequence ==
    ASSUME NEW S, NEW s \in Seq(S), NEW n \in Nat
    PROVE  /\ FirstOf(s, n) \in Seq(S)
           /\ Len(FirstOf(s, n)) = IF Len(s) < n THEN Len(s) ELSE n
           /\ \A i \in 1..Len(FirstOf(s, n)) : FirstOf(s, n)[i] = s[i]
           /\ ToSet(FirstOf(s, n)) = {s[i] : i \in 1..Len(FirstOf(s, n))}
<1> DEFINE k == IF Len(s) < n THEN Len(s) ELSE n
           f == SubSeq(s, 1, k)
<1>1. k \in 0..Len(s) /\ k <= Len(s) /\ k \in Nat
  OBVIOUS
<1>2. f \in Seq(S) /\ Len(f) = k /\ \A i \in 1..k : f[i] = s[i]
  <2> HIDE DEF k
  <2> QED BY <1>1, SubSeqProperties
<1>3. ToSet(f) = {s[i] : i \in 1..Len(f)}
  <2> HIDE DEF k, f
  <2> QED BY <1>2 DEF ToSet
<1> QED BY <1>2, <1>3 DEF FirstOf

Candidates(sem, lex, q) == {Scored(r, q) : r \in Union(sem, lex)}

LEMMA CandidatesOf ==
    ASSUME NEW S \in Corpora, NEW q \in Questions, NEW sem, NEW lex, RowsOK(sem, S), RowsOK(lex, S)
    PROVE  LET C == Candidates(sem, lex, q)
           IN  /\ Sortable(C)
               /\ \A c, d \in C : c.chunk.id = d.chunk.id => c = d
               /\ {c.chunk : c \in C} = {r.chunk : r \in sem \cup lex}
               /\ \A c \in C : /\ c.chunk \in S /\ c.hybrid \in Nat
                               /\ \A r \in sem \cup lex :
                                    r.chunk = c.chunk => Scored(r, q).hybrid <= c.hybrid
<1> DEFINE U == Union(sem, lex)
           C == Candidates(sem, lex, q)
           f == [r \in U |-> Scored(r, q)]
<1>1. IsFiniteSet(S) /\ (\A c \in S : IsChunk(c)) /\ IsQuestion(q)
      /\ \A c, e \in S : c.id = e.id => c = e
  BY EvidenceAssumption DEF IsQuestion
<1>2. /\ RowsOK(U, S) /\ IsFiniteSet(U)
      /\ {u.chunk : u \in U} = {r.chunk : r \in sem \cup lex}
      /\ \A u \in U, r \in sem \cup lex : r.chunk = u.chunk =>
                r.semantic <= u.semantic /\ r.rank <= u.rank /\ u.age <= r.age
  <2> HIDE DEF U
  <2> QED BY <1>1, UnionOf DEF U
<1>3. \A u \in U : u \in Row(S) /\ u.chunk \in S
  BY <1>2 DEF RowsOK, Row
<1>4. ASSUME NEW u \in U
      PROVE  /\ Scored(u, q).chunk = u.chunk /\ Scored(u, q).hybrid \in Nat
             /\ SortKey(Scored(u, q)) \in [1..7 -> Int]
  <2>1. u.semantic <= u.semantic /\ u.rank <= u.rank /\ u.age <= u.age
    BY <1>3 DEF Row, NoValue
  <2> HIDE DEF U
  <2> QED BY <1>1, <1>3, <2>1, ScoreOf, KeyOf
<1>5. \A c \in C : \E u \in U : c = Scored(u, q)
  BY DEF Candidates
<1>6. \A u \in U : Scored(u, q) \in C
  BY DEF Candidates
<1> HIDE DEF U
<1>7. IsFiniteSet(C)
  <2>1. C = {f[r] : r \in U}
    BY DEF Candidates, U
  <2> HIDE DEF C, f
  <2> QED BY <1>2, <2>1, ImageFinite
<1> HIDE DEF C, f
<1>8. ASSUME NEW c \in C, NEW d \in C, c.chunk.id = d.chunk.id
      PROVE  c = d
  <2>1. PICK u \in U, v \in U : c = Scored(u, q) /\ d = Scored(v, q)
    BY <1>5
  <2>2. u.chunk \in S /\ v.chunk \in S /\ u.chunk.id = v.chunk.id
    BY <1>3, <1>4, <1>8, <2>1
  <2>3. u = v
    BY <1>1, <1>2, <2>2 DEF RowsOK
  <2> QED BY <2>1, <2>3
<1>9. \A c \in C : SortKey(c) \in [1..7 -> Int]
  BY <1>4, <1>5
<1>10. ASSUME NEW c \in C, NEW d \in C, SortKey(c) = SortKey(d)
       PROVE  c = d
  <2>1. SortKey(c)[7] = - c.chunk.id /\ SortKey(d)[7] = - d.chunk.id
    BY DEF SortKey
  <2>2. c.chunk.id \in Nat /\ d.chunk.id \in Nat
    BY <1>1, <1>3, <1>4, <1>5 DEF IsChunk
  <2>3. c.chunk.id = d.chunk.id
    BY <1>10, <2>1, <2>2
  <2> QED BY <1>8, <2>3
<1>11. {c.chunk : c \in C} = {r.chunk : r \in sem \cup lex}
  <2>1. {c.chunk : c \in C} = {u.chunk : u \in U}
    BY <1>4, <1>5, <1>6
  <2> QED BY <1>2, <2>1
<1>12. ASSUME NEW c \in C, NEW r \in sem \cup lex, r.chunk = c.chunk
       PROVE  Scored(r, q).hybrid <= c.hybrid
  <2>1. PICK u \in U : c = Scored(u, q)
    BY <1>5
  <2>2. r \in Row(S) /\ r.chunk = u.chunk /\ u \in Row(S)
    BY <1>3, <1>4, <1>12, <2>1 DEF RowsOK
  <2>3. r.semantic <= u.semantic /\ r.rank <= u.rank /\ u.age <= r.age
    BY <1>2, <2>2
  <2> QED BY <1>1, <2>1, <2>2, <2>3, ScoreOf
<1>13. \A c \in C : c.chunk \in S /\ c.hybrid \in Nat
  BY <1>3, <1>4, <1>5
<1> QED BY <1>7, <1>8, <1>9, <1>10, <1>11, <1>12, <1>13 DEF Sortable, C

\* The best candidates in their order, as many as are ranked again.
RankedFrom(C, s) ==
    /\ s \in Seq(C)
    /\ Len(s) = IF Cardinality(C) < RerankLimit THEN Cardinality(C) ELSE RerankLimit
    /\ \A i, j \in 1..Len(s) : i < j => Better(s[i], s[j])
    /\ \A c \in C \ ToSet(s) : Len(s) = RerankLimit /\ \A i \in 1..Len(s) : Better(s[i], c)

LEMMA RankedBest ==
    ASSUME NEW sem, NEW lex, NEW q, Sortable(Candidates(sem, lex, q))
    PROVE  RankedFrom(Candidates(sem, lex, q), Ranked(sem, lex, q))
<1> DEFINE C == Candidates(sem, lex, q)
           o == InOrder(C, Better)
           s == FirstOf(o, RerankLimit)
<1>1. /\ o \in Seq(C) /\ Len(o) = Cardinality(C) /\ ToSet(o) = C
      /\ \A i, j \in 1..Len(o) : i < j => Better(o[i], o[j])
  BY SortedCandidates
<1>2. Ranked(sem, lex, q) = s
  BY Zenon DEF Ranked, Candidates
<1> HIDE DEF C, o
<1>3. RerankLimit \in Nat
  BY RelevanceAssumption
<1>4. /\ s \in Seq(C) /\ Len(s) = IF Len(o) < RerankLimit THEN Len(o) ELSE RerankLimit
      /\ \A i \in 1..Len(s) : s[i] = o[i]
  BY <1>1, <1>3, FirstOfSequence
<1> HIDE DEF s
<1>5. \A i \in 1..Len(s) : i \in 1..Len(o)
  BY <1>1, <1>3, <1>4
<1>6. ASSUME NEW c \in C \ ToSet(s)
      PROVE  Len(s) = RerankLimit /\ \A i \in 1..Len(s) : Better(s[i], c)
  <2>1. PICK j \in 1..Len(o) : o[j] = c
    BY <1>1 DEF ToSet
  <2>2. j \notin 1..Len(s)
    BY <1>4, <1>6, <2>1 DEF ToSet
  <2>3. Len(s) = RerankLimit /\ \A i \in 1..Len(s) : i < j
    BY <1>1, <1>3, <1>4, <2>1, <2>2
  <2> QED BY <1>1, <1>4, <1>5, <2>1, <2>3
<1>7. RankedFrom(C, s)
  BY <1>1, <1>4, <1>5, <1>6 DEF RankedFrom
<1> QED BY <1>2, <1>7 DEF C

-----------------------------------------------------------------------------
(* The grounding set                                                       *)

LEMMA AppendOf ==
    ASSUME NEW S, NEW s \in Seq(S), NEW e \in S
    PROVE  /\ Append(s, e) \in Seq(S) /\ Len(Append(s, e)) = Len(s) + 1 /\ Len(s) \in Nat
           /\ \A i \in 1..Len(s) : Append(s, e)[i] = s[i]
           /\ Append(s, e)[Len(s) + 1] = e
           /\ ToSet(Append(s, e)) = ToSet(s) \cup {e}
<1>1. /\ Append(s, e) \in Seq(S) /\ Len(Append(s, e)) = Len(s) + 1 /\ Len(s) \in Nat
      /\ \A i \in 1..Len(s) : Append(s, e)[i] = s[i]
      /\ Append(s, e)[Len(s) + 1] = e
  OBVIOUS
<1>2. DOMAIN Append(s, e) = 1..Len(s) \cup {Len(s) + 1} /\ DOMAIN s = 1..Len(s)
  OBVIOUS
<1>3. ToSet(Append(s, e)) = ToSet(s) \cup {e}
  <2> DEFINE a == Append(s, e)
  <2> HIDE DEF a
  <2>1. \A x \in ToSet(a) : x \in ToSet(s) \cup {e}
    BY <1>1, <1>2 DEF ToSet, a
  <2>2. \A x \in ToSet(s) \cup {e} : x \in ToSet(a)
    BY <1>1, <1>2 DEF ToSet, a
  <2> QED BY <2>1, <2>2 DEF a
<1> QED BY <1>1, <1>3

Descending(s) == \A i, j \in 1..Len(s) : i < j => Better(s[i], s[j])
WithoutRepeats(s) == \A i, j \in 1..Len(s) : i < j => ~ Repeats(s[i], s[j])

\* Of the first n of a sequence, those are kept that repeat nothing better.
KeptOf(k, s, n, C) ==
    /\ k \in Seq(C)
    /\ ToSet(k) \subseteq {s[i] : i \in 1..n}
    /\ Descending(k) /\ WithoutRepeats(k)
    /\ \A i \in 1..n : s[i] \in ToSet(k)
                       \/ \E e \in ToSet(k) : Better(e, s[i]) /\ Repeats(e, s[i])

LEMMA KeptBest ==
    ASSUME NEW C, NEW s \in Seq(C), Descending(s)
    PROVE  KeptOf(SuppressDuplicates(s), s, Len(s), C)
<1> DEFINE n == Len(s)
<1>1. PICK r \in [0..n -> Seq(C)] :
        /\ r[0] = <<>>
        /\ \A k \in 1..n : r[k] = Kept(r[k - 1], s[k])
        /\ SuppressDuplicates(s) = r[n]
  BY SuppressSteps
<1> DEFINE T == {k \in 0..n : KeptOf(r[k], s, k, C)}
<1>2. n \in Nat
  OBVIOUS
<1>3. 0 \in T
  <2>1. KeptOf(<<>>, s, 0, C)
    <3>1. <<>> \in Seq(C) /\ Len(<<>>) = 0 /\ 1..0 = {} /\ ToSet(<<>>) = {}
      BY DEF ToSet
    <3> QED BY <3>1 DEF KeptOf, Descending, WithoutRepeats
  <2> QED BY <1>1, <1>2, <2>1
<1>4. ASSUME NEW k \in 1..n, k - 1 \in T
      PROVE  k \in T
  <2> DEFINE a == r[k - 1]
             c == s[k]
  <2>1. /\ KeptOf(a, s, k - 1, C) /\ c \in C /\ k \in 0..n /\ r[k] = Kept(a, c)
        /\ 1..k = 1..(k - 1) \cup {k} /\ k - 1 \in Nat
    BY <1>1, <1>4
  <2>2. \A e \in ToSet(a) : Better(e, c)
    <3>1. \A i \in 1..(k - 1) : i \in 1..n /\ i < k
      BY <1>2
    <3> QED BY <2>1, <3>1 DEF KeptOf, Descending
  <2> HIDE DEF a, c
  <2>3. CASE \E e \in ToSet(a) : Repeats(e, c)
    <3>1. r[k] = a
      BY <2>1, <2>3 DEF Kept
    <3>2. \A i \in 1..k : s[i] \in ToSet(a)
                          \/ \E e \in ToSet(a) : Better(e, s[i]) /\ Repeats(e, s[i])
      BY <2>1, <2>2, <2>3 DEF KeptOf, c
    <3>3. KeptOf(a, s, k, C)
      BY <2>1, <3>2 DEF KeptOf
    <3> QED BY <2>1, <3>1, <3>3
  <2>4. CASE ~ \E e \in ToSet(a) : Repeats(e, c)
    <3> DEFINE b == Append(a, c)
    <3>1. r[k] = b /\ a \in Seq(C)
      BY <2>1, <2>4 DEF Kept, KeptOf
    <3>2. /\ b \in Seq(C) /\ Len(b) = Len(a) + 1 /\ Len(a) \in Nat
          /\ \A i \in 1..Len(a) : b[i] = a[i] /\ a[i] \in ToSet(a)
          /\ b[Len(a) + 1] = c /\ ToSet(b) = ToSet(a) \cup {c}
      <4>1. \A i \in 1..Len(a) : a[i] \in ToSet(a)
        BY <3>1 DEF ToSet
      <4> QED BY <2>1, <3>1, <4>1, AppendOf
    <3> HIDE DEF b
    <3>3. \A i, j \in 1..Len(b) : i < j =>
            i \in 1..Len(a) /\ (j \in 1..Len(a) \/ j = Len(a) + 1)
      <4> DEFINE l == Len(a)
                 m == Len(b)
      <4>1. l \in Nat /\ m = l + 1
        BY <3>2
      <4> HIDE DEF l, m
      <4>2. \A i, j \in 1..m : i < j => i \in 1..l /\ (j \in 1..l \/ j = l + 1)
        BY <4>1
      <4> QED BY <4>2 DEF l, m
    <3>4. Descending(b)
      BY <2>1, <2>2, <3>2, <3>3 DEF KeptOf, Descending
    <3>5. WithoutRepeats(b)
      BY <2>1, <2>4, <3>2, <3>3 DEF KeptOf, WithoutRepeats
    <3>6. ToSet(b) \subseteq {s[i] : i \in 1..k}
      BY <2>1, <3>2 DEF KeptOf, c
    <3>7. \A i \in 1..k : s[i] \in ToSet(b)
                          \/ \E e \in ToSet(b) : Better(e, s[i]) /\ Repeats(e, s[i])
      BY <2>1, <3>2 DEF KeptOf, c
    <3>8. KeptOf(b, s, k, C)
      BY <3>2, <3>4, <3>5, <3>6, <3>7 DEF KeptOf
    <3> QED BY <2>1, <3>1, <3>8
  <2> QED BY <2>3, <2>4
<1>5. 0..n \subseteq T
  <2> HIDE DEF T, n
  <2> QED BY <1>2, <1>3, <1>4, UpTo
<1>6. n \in T
  <2> HIDE DEF T
  <2> QED BY <1>2, <1>5
<1> QED BY <1>1, <1>6

\* A sequence without repetitions is as long as its set is large.
LEMMA LengthIsSize ==
    ASSUME NEW S, NEW s \in Seq(S), \A i, j \in 1..Len(s) : i < j => s[i] # s[j]
    PROVE  IsFiniteSet(ToSet(s)) /\ Cardinality(ToSet(s)) = Len(s)
<1>1. Len(s) \in Nat /\ DOMAIN s = 1..Len(s) /\ s \in [1..Len(s) -> ToSet(s)]
  BY DEF ToSet
<1>2. IsFiniteSet(1..Len(s)) /\ Cardinality(1..Len(s)) = Len(s)
  BY <1>1, FS_Interval
<1>3. s \in Surjection(1..Len(s), ToSet(s))
  BY <1>1 DEF Surjection, ToSet
<1>4. \A i, j \in 1..Len(s) : s[i] = s[j] => i = j
  <2> SUFFICES ASSUME NEW i \in 1..Len(s), NEW j \in 1..Len(s), s[i] = s[j]
               PROVE  i = j
    OBVIOUS
  <2>1. ~ i < j /\ ~ j < i
    OBVIOUS
  <2> QED BY <2>1
<1>5. s \in Injection(1..Len(s), ToSet(s))
  BY <1>1, <1>4 DEF Injection, IsInjective
<1> QED BY <1>2, <1>3, <1>5, FS_Surjection

\* What Grounding makes of the ranked candidates.
GroundingOf(g, s, C) ==
    /\ g \in Seq(C) /\ Len(g) <= GroundingLimit
    /\ ToSet(g) \subseteq ToSet(s)
    /\ Descending(g) /\ WithoutRepeats(g)
    /\ IsFiniteSet(ToSet(g)) /\ Cardinality(ToSet(g)) = Len(g)
    /\ \A c \in ToSet(s) \ ToSet(g) :
        \/ \E e \in ToSet(g) : Better(e, c) /\ Repeats(e, c)
        \/ Len(g) = GroundingLimit /\ \A e \in ToSet(g) : Better(e, c)

LEMMA GroundingBest ==
    ASSUME NEW C, Sortable(C), NEW s \in Seq(C), Descending(s)
    PROVE  GroundingOf(Grounding(s), s, C)
<1> DEFINE k == SuppressDuplicates(s)
           g == FirstOf(k, GroundingLimit)
<1>1. KeptOf(k, s, Len(s), C)
  BY KeptBest
<1>2. GroundingLimit \in Nat
  BY RelevanceAssumption
<1>3. Grounding(s) = g
  BY DEF Grounding
<1> HIDE DEF k
<1>4. k \in Seq(C) /\ Len(k) \in Nat
  BY <1>1 DEF KeptOf
<1>5. /\ g \in Seq(C) /\ Len(g) = IF Len(k) < GroundingLimit THEN Len(k) ELSE GroundingLimit
      /\ \A i \in 1..Len(g) : g[i] = k[i]
      /\ ToSet(g) = {k[i] : i \in 1..Len(g)}
  BY <1>2, <1>4, FirstOfSequence
<1> HIDE DEF g
<1>6. 1..Len(g) \subseteq 1..Len(k) /\ Len(g) <= GroundingLimit
  BY <1>2, <1>4, <1>5
<1>7. Descending(g) /\ WithoutRepeats(g)
  BY <1>1, <1>5, <1>6 DEF KeptOf, Descending, WithoutRepeats
<1>8. ToSet(g) \subseteq ToSet(k) /\ ToSet(k) \subseteq ToSet(s)
  <2>1. ToSet(k) = {k[i] : i \in 1..Len(k)} /\ ToSet(s) = {s[i] : i \in 1..Len(s)}
    BY <1>4 DEF ToSet
  <2> QED BY <1>1, <1>5, <1>6, <2>1 DEF KeptOf
<1>9. StrictOrder(C, BetterThan(C))
  BY BetterOrders
<1>10. \A c, d, e \in C : ~ Better(c, c) /\ (Better(c, d) /\ Better(d, e) => Better(c, e))
  BY <1>9 DEF StrictOrder, BetterThan
<1>11. IsFiniteSet(ToSet(g)) /\ Cardinality(ToSet(g)) = Len(g)
  <2>1. \A i, j \in 1..Len(g) : i < j => g[i] # g[j]
    <3>1. \A i \in 1..Len(g) : g[i] \in C
      BY <1>5
    <3> QED BY <1>7, <1>10, <3>1 DEF Descending
  <2> QED BY <1>5, <2>1, LengthIsSize
<1>12. ASSUME NEW c \in ToSet(k) \ ToSet(g)
       PROVE  Len(g) = GroundingLimit /\ \A e \in ToSet(g) : Better(e, c)
  <2>1. PICK j \in 1..Len(k) : k[j] = c
    BY <1>4 DEF ToSet
  <2>2. j \notin 1..Len(g)
    BY <1>5, <1>12, <2>1
  <2>3. Len(g) = GroundingLimit /\ \A i \in 1..Len(g) : i \in 1..Len(k) /\ i < j
    BY <1>2, <1>4, <1>5, <2>1, <2>2
  <2> QED BY <1>1, <1>5, <2>1, <2>3 DEF KeptOf, Descending
<1>13. ASSUME NEW c \in ToSet(s) \ ToSet(g)
       PROVE  \/ \E e \in ToSet(g) : Better(e, c) /\ Repeats(e, c)
              \/ Len(g) = GroundingLimit /\ \A e \in ToSet(g) : Better(e, c)
  <2>1. CASE c \in ToSet(k)
    BY <1>12, <1>13, <2>1
  <2>2. CASE c \notin ToSet(k)
    <3>1. PICK i \in 1..Len(s) : s[i] = c
      BY DEF ToSet
    <3>2. PICK e \in ToSet(k) : Better(e, c) /\ Repeats(e, c)
      BY <1>1, <2>2, <3>1 DEF KeptOf
    <3>3. CASE e \in ToSet(g)
      BY <3>2, <3>3
    <3>4. CASE e \notin ToSet(g)
      <4>1. Len(g) = GroundingLimit /\ \A d \in ToSet(g) : Better(d, e)
        BY <1>12, <3>4
      <4>2. c \in C /\ e \in C /\ ToSet(g) \subseteq C
        BY <1>4, <1>5, <3>1 DEF ToSet
      <4> QED BY <1>10, <3>2, <4>1, <4>2
    <3> QED BY <3>3, <3>4
  <2> QED BY <2>1, <2>2
<1>14. ToSet(g) \subseteq ToSet(s)
  BY <1>8
<1> QED BY <1>3, <1>5, <1>6, <1>7, <1>11, <1>13, <1>14 DEF GroundingOf

-----------------------------------------------------------------------------
(* What a request has found                                                *)

Searching == {"embedding", "fetching", "fetched"}

\* The rows are of the corpus, and the ranking is that of the rows.
Searched ==
    /\ pc \in Searching \cup {"retrieved", "done"}
    /\ corpus \in Corpora /\ question \in Questions
    /\ RowsOK(semantic, corpus) /\ RowsOK(lexical, corpus)
    /\ question.blank => pc \notin {"fetching", "fetched"}
    /\ IF pc \in Searching \/ question.blank THEN ranked = <<>> /\ selected = <<>>
       ELSE ranked = Ranked(semantic, lexical, question) /\ selected = Grounding(ranked)

LEMMA SemanticRows ==
    ASSUME NEW S \in Corpora,
           NEW distance \in [{c \in S : c.embedded} -> Distances]
    PROVE  RowsOK({SemanticRow(c, distance[c], c.age) : c \in DOMAIN distance}, S)
<1>1. ASSUME NEW c \in DOMAIN distance
      PROVE  /\ SemanticRow(c, distance[c], c.age) \in Row(S)
             /\ SemanticRow(c, distance[c], c.age).chunk = c
  <2>1. c \in S /\ distance[c] \in 0..200 /\ c.age \in Nat
    BY EvidenceAssumption DEF IsChunk
  <2>2. One - (One * distance[c]) \div 200 \in Nat
    <3> DEFINE d == distance[c]
    <3> HIDE DEF d
    <3>1. d \in 0..200
      BY <2>1 DEF d
    <3>2. 120000 - (120000 * d) \div 200 \in Nat
      BY <3>1
    <3> QED BY <3>2 DEF One, d
  <2> QED BY <2>1, <2>2 DEF SemanticRow, Row
<1> QED BY <1>1 DEF RowsOK

LEMMA LexicalRows ==
    ASSUME NEW S \in Corpora, NEW T \in SUBSET S, NEW rank \in [T -> Ranks], NEW renewed
    PROVE  RowsOK({LexicalRow(c, rank[c], IF renewed THEN 0 ELSE c.age) : c \in DOMAIN rank}, S)
<1>1. ASSUME NEW c \in DOMAIN rank
      PROVE  /\ LexicalRow(c, rank[c], IF renewed THEN 0 ELSE c.age) \in Row(S)
             /\ LexicalRow(c, rank[c], IF renewed THEN 0 ELSE c.age).chunk = c
  <2>1. c \in S /\ rank[c] \in Nat /\ c.age \in Nat
    BY EvidenceAssumption DEF IsChunk
  <2> QED BY <2>1 DEF LexicalRow, Row
<1> QED BY <1>1 DEF RowsOK

LEMMA SearchedInit == EvidenceInit => Searched
BY DEF EvidenceInit, Searched, Searching, RowsOK

LEMMA SearchedStep == Searched /\ [EvidenceNext]_evidenceVars => Searched'
<1> SUFFICES ASSUME Searched, [EvidenceNext]_evidenceVars
             PROVE  Searched'
  OBVIOUS
<1> USE DEF searchVars, replyVars, Goto
<1>1. CASE SkipEmpty
  BY <1>1 DEF SkipEmpty, Searched, Searching
<1>2. CASE FetchSemantic
  <2>1. RowsOK(semantic', corpus)
    <3>1. corpus \in Corpora /\ RowsOK(semantic, corpus)
      BY DEF Searched
    <3>2. \/ semantic' = semantic
          \/ \E distance \in [{c \in corpus : c.embedded} -> Distances] :
                semantic' = {SemanticRow(c, distance[c], c.age) : c \in DOMAIN distance}
      BY <1>2 DEF FetchSemantic
    <3> QED BY <3>1, <3>2, SemanticRows
  <2> QED BY <1>2, <2>1 DEF FetchSemantic, Searched, Searching
<1>3. CASE FetchLexical
  <2>1. RowsOK(lexical', corpus)
    <3> DEFINE T == {c \in corpus : FoundBy(question, c)}
    <3>1. corpus \in Corpora /\ T \in SUBSET corpus
      BY DEF Searched
    <3>2. \E rank \in [T -> Ranks], renewed \in BOOLEAN :
            lexical' = {LexicalRow(c, rank[c], IF renewed THEN 0 ELSE c.age) : c \in DOMAIN rank}
      BY <1>3 DEF FetchLexical
    <3> HIDE DEF T
    <3> QED BY <3>1, <3>2, LexicalRows
  <2> QED BY <1>3, <2>1 DEF FetchLexical, Searched, Searching
<1>4. CASE Rank
  BY <1>4 DEF Rank, Searched, Searching
<1>5. CASE RefuseUnindexed \/ RefuseWeak \/ ModelAnswers \/ ModelRefuses \/ LocalAnswers
  <2>1. pc = "retrieved" /\ pc' = "done" /\ UNCHANGED searchVars
    BY <1>5 DEF RefuseUnindexed, RefuseWeak, ModelAnswers, ModelRefuses, LocalAnswers,
                Refuse, Cite, Finish, Enough
  <2> QED BY <2>1 DEF Searched, Searching
<1>6. CASE UNCHANGED evidenceVars
  BY <1>6 DEF evidenceVars, Searched
<1> QED BY <1>1, <1>2, <1>3, <1>4, <1>5, <1>6 DEF EvidenceNext

\* The instance counts as this module does.
LEMMA SameSize ==
    ASSUME NEW S
    PROVE  Corpus!Cardinality(S) = Cardinality(S)
BY Zenon DEF Corpus!Cardinality, Cardinality

\* A chunk is known by its place in its version.
LEMMA ChunksApart ==
    ASSUME NEW S \in Corpora, NEW T \in SUBSET S
    PROVE  /\ IsFiniteSet(T) /\ IsFiniteSet(AsChunks(T))
           /\ Cardinality(AsChunks(T)) = Cardinality(T)
           /\ \A c, e \in S : AsChunk(c) = AsChunk(e) => c = e
<1> DEFINE f == [c \in T |-> AsChunk(c)]
<1>1. \A c, e \in S : AsChunk(c) = AsChunk(e) => c = e
  BY EvidenceAssumption DEF AsChunk
<1>2. IsFiniteSet(T)
  BY EvidenceAssumption, FS_Subset
<1>3. f \in Bijection(T, AsChunks(T))
  BY <1>1 DEF AsChunks, Bijection, Injection, Surjection, IsInjective
<1> HIDE DEF f
<1>4. ExistsBijection(T, AsChunks(T))
  BY <1>3 DEF ExistsBijection
<1> QED BY <1>1, <1>2, <1>4, FS_Bijection

\* The grounding set and what it was chosen from.
Chosen(C) ==
    /\ Sortable(C)
    /\ \A c, d \in C : c.chunk.id = d.chunk.id => c = d
    /\ {c.chunk : c \in C} = FoundChunks
    /\ \A c \in C : /\ c.chunk \in corpus /\ c.hybrid \in Nat
                    /\ \A r \in semantic \cup lexical :
                         r.chunk = c.chunk => Scored(r, question).hybrid <= c.hybrid
    /\ RankedFrom(C, ranked)
    /\ GroundingOf(selected, ranked, C)

LEMMA SelectionChosen ==
    ASSUME Searched, pc \in {"retrieved", "done"}, ~ question.blank
    PROVE  Chosen(Candidates(semantic, lexical, question))
<1> DEFINE C == Candidates(semantic, lexical, question)
<1>1. /\ Sortable(C)
      /\ \A c, d \in C : c.chunk.id = d.chunk.id => c = d
      /\ {c.chunk : c \in C} = FoundChunks
      /\ \A c \in C : /\ c.chunk \in corpus /\ c.hybrid \in Nat
                      /\ \A r \in semantic \cup lexical :
                           r.chunk = c.chunk => Scored(r, question).hybrid <= c.hybrid
  BY CandidatesOf DEF Searched, FoundChunks
<1>2. ranked = Ranked(semantic, lexical, question) /\ selected = Grounding(ranked)
  BY DEF Searched, Searching
<1> HIDE DEF C
<1>3. RankedFrom(C, ranked)
  BY <1>1, <1>2, RankedBest DEF C
<1>4. ranked \in Seq(C) /\ Descending(ranked)
  BY <1>3 DEF RankedFrom, Descending
<1>5. GroundingOf(selected, ranked, C)
  BY <1>1, <1>2, <1>4, GroundingBest
<1>6. Chosen(C)
  BY <1>1, <1>3, <1>5 DEF Chosen
<1> QED BY <1>6 DEF C

\* Chunks of one set, found by their candidates.
LEMMA ChunksOf ==
    ASSUME NEW C, IsFiniteSet(C), \A c, d \in C : c.chunk.id = d.chunk.id => c = d,
           NEW T \in SUBSET C
    PROVE  /\ IsFiniteSet({c.chunk : c \in T})
           /\ Cardinality({c.chunk : c \in T}) = Cardinality(T)
<1> DEFINE f == [c \in T |-> c.chunk]
           H == {c.chunk : c \in T}
<1>1. IsFiniteSet(T)
  BY FS_Subset
<1>2. f \in Bijection(T, H)
  BY DEF Bijection, Injection, Surjection, IsInjective
<1> HIDE DEF f, H
<1>3. ExistsBijection(T, H)
  BY <1>2 DEF ExistsBijection
<1>4. IsFiniteSet(H) /\ Cardinality(H) = Cardinality(T)
  BY <1>1, <1>3, FS_Bijection
<1> QED BY <1>4 DEF H

LEMMA SelectionAllowed ==
    ASSUME Searched, NEW C, Chosen(C)
    PROVE  AsChunks({c.chunk : c \in ToSet(selected)}) \in
                Corpus!Selections(AsChunks(FoundChunks))
<1> DEFINE found == AsChunks(FoundChunks)
           pool == AsChunks({c.chunk : c \in ToSet(ranked)})
           sel == AsChunks({c.chunk : c \in ToSet(selected)})
<1>1. IsFiniteSet(C) /\ \A c, d \in C : c.chunk.id = d.chunk.id => c = d
  BY DEF Chosen, Sortable
<1>2. /\ FoundChunks = {c.chunk : c \in C} /\ corpus \in Corpora
      /\ \A c \in C : c.chunk \in corpus
  BY DEF Chosen, Searched
<1>3. /\ ranked \in Seq(C) /\ GroundingOf(selected, ranked, C)
      /\ ToSet(ranked) \in SUBSET C /\ ToSet(selected) \in SUBSET ToSet(ranked)
  <2>1. ranked \in Seq(C) /\ GroundingOf(selected, ranked, C)
    BY DEF Chosen, RankedFrom
  <2>2. ToSet(ranked) \in SUBSET C
    BY <2>1 DEF ToSet
  <2> QED BY <2>1, <2>2 DEF GroundingOf
<1>4. Cardinality(ToSet(ranked)) = Len(ranked)
  <2>1. \A c, d, e \in C : ~ Better(c, c) /\ (Better(c, d) /\ Better(d, e) => Better(c, e))
    <3>1. StrictOrder(C, BetterThan(C))
      BY BetterOrders DEF Chosen
    <3> QED BY <3>1 DEF StrictOrder, BetterThan
  <2>2. \A i, j \in 1..Len(ranked) : i < j => ranked[i] # ranked[j]
    <3>1. \A i \in 1..Len(ranked) : ranked[i] \in C
      BY <1>3
    <3> QED BY <2>1, <3>1 DEF Chosen, RankedFrom
  <2> QED BY <1>3, <2>2, LengthIsSize
<1>5. pool \in Corpus!TopOf(found, RerankLimit)
  <2>1. Cardinality(found) = Cardinality(C)
    <3>1. FoundChunks \in SUBSET corpus
      BY <1>2
    <3>2. Cardinality(found) = Cardinality(FoundChunks)
      BY <1>2, <3>1, ChunksApart
    <3> QED BY <1>1, <1>2, <3>2, ChunksOf
  <2>2. Cardinality(pool) = Len(ranked)
    <3> DEFINE T == {c.chunk : c \in ToSet(ranked)}
    <3>1. T \in SUBSET corpus
      BY <1>2, <1>3
    <3>2. Cardinality(AsChunks(T)) = Cardinality(T)
      <4> HIDE DEF T
      <4> QED BY <1>2, <3>1, ChunksApart
    <3> QED BY <1>1, <1>3, <1>4, <3>2, ChunksOf
  <2>3. pool \in SUBSET found
    BY <1>2, <1>3 DEF AsChunks
  <2>4. Len(ranked) = IF Cardinality(C) < RerankLimit THEN Cardinality(C) ELSE RerankLimit
    BY DEF Chosen, RankedFrom
  <2> HIDE DEF pool, found
  <2> QED BY <2>1, <2>2, <2>3, <2>4, SameSize DEF Corpus!TopOf
<1>6. sel \in Corpus!SelectionsOf(pool)
  <2>1. sel \in SUBSET pool
    BY <1>3 DEF AsChunks
  <2>2. Cardinality(sel) = Len(selected)
    <3> DEFINE T == {c.chunk : c \in ToSet(selected)}
    <3>1. T \in SUBSET corpus /\ ToSet(selected) \in SUBSET C
      BY <1>2, <1>3
    <3>2. Cardinality(AsChunks(T)) = Cardinality(T)
      <4> HIDE DEF T
      <4> QED BY <1>2, <3>1, ChunksApart
    <3>3. Cardinality(ToSet(selected)) = Len(selected)
      BY <1>3 DEF GroundingOf
    <3> QED BY <1>1, <3>1, <3>2, <3>3, ChunksOf
  <2>3. Len(selected) <= GroundingLimit
    BY <1>3 DEF GroundingOf
  <2>4. \A x \in sel : \E c \in ToSet(selected) : x = AsChunk(c.chunk)
    BY DEF AsChunks
  <2>5. ASSUME NEW x \in sel, NEW y \in sel, Corpus!Identical(x, y)
        PROVE  x = y
    <3>1. PICK i, j \in 1..Len(selected) :
            x = AsChunk(selected[i].chunk) /\ y = AsChunk(selected[j].chunk)
      BY <1>3, <2>4 DEF GroundingOf, ToSet
    <3>2. CASE x.text = y.text
      <4>1. selected[i].chunk.checksum = selected[j].chunk.checksum
        BY <3>1, <3>2 DEF AsChunk
      <4>2. Repeats(selected[i], selected[j]) /\ Repeats(selected[j], selected[i])
        BY <4>1 DEF Repeats
      <4>3. ~ i < j /\ ~ j < i
        BY <1>3, <4>2 DEF GroundingOf, WithoutRepeats
      <4>4. i = j
        BY <4>3
      <4> QED BY <3>1, <4>4
    <3> QED BY <2>5, <3>2 DEF Corpus!Identical
  <2>6. ASSUME NEW x \in pool \ sel, Cardinality(sel) # GroundingLimit
        PROVE  \E y \in sel : Corpus!Identical(x, y) \/ Corpus!Neighbours(x, y)
    <3>1. PICK c \in ToSet(ranked) : x = AsChunk(c.chunk)
      BY DEF AsChunks
    <3>2. c \notin ToSet(selected)
      BY <2>6, <3>1 DEF AsChunks
    <3>3. PICK e \in ToSet(selected) : Repeats(e, c)
      BY <1>3, <2>2, <2>6, <3>2 DEF GroundingOf
    <3>4. AsChunk(e.chunk) \in sel
      BY DEF AsChunks
    <3>5. e.chunk.id # c.chunk.id
      BY <1>1, <1>3, <3>2
    <3>6. \/ e.chunk.checksum = c.chunk.checksum
          \/ Adjacent(e.chunk, c.chunk)
      BY <3>3, <3>5 DEF Repeats
    <3>7. \/ Corpus!Identical(x, AsChunk(e.chunk))
          \/ Corpus!Neighbours(x, AsChunk(e.chunk))
      BY <3>1, <3>6 DEF AsChunk, Adjacent, Corpus!Identical, Corpus!Neighbours
    <3> QED BY <3>4, <3>7
  <2> HIDE DEF sel, pool
  <2> QED BY <2>1, <2>2, <2>3, <2>5, <2>6, SameSize DEF Corpus!SelectionsOf
<1> HIDE DEF sel, pool, found
<1>7. sel \in Corpus!Selections(found)
  BY <1>5, <1>6 DEF Corpus!Selections
<1> QED BY <1>7 DEF sel, found

LEMMA SelectionBest ==
    ASSUME Searched, NEW C, Chosen(C)
    PROVE  IsBest(ToSet(selected), C)
<1>1. /\ ranked \in Seq(C) /\ GroundingOf(selected, ranked, C)
      /\ ToSet(selected) \in SUBSET ToSet(ranked)
  BY DEF Chosen, RankedFrom, GroundingOf
<1>2. ASSUME NEW c \in C \ ToSet(selected)
      PROVE  \/ \E e \in ToSet(selected) : Better(e, c) /\ Repeats(e, c)
             \/ /\ Cardinality(ToSet(selected)) = GroundingLimit \/ Len(ranked) = RerankLimit
                /\ \A e \in ToSet(selected) : Better(e, c)
  <2>1. CASE c \in ToSet(ranked)
    BY <1>1, <1>2, <2>1 DEF GroundingOf
  <2>2. CASE c \notin ToSet(ranked)
    <3>1. Len(ranked) = RerankLimit /\ \A i \in 1..Len(ranked) : Better(ranked[i], c)
      BY <2>2 DEF Chosen, RankedFrom
    <3>2. \A e \in ToSet(selected) : \E i \in 1..Len(ranked) : e = ranked[i]
      BY SMTT(30), <1>1 DEF ToSet
    <3> QED BY <3>1, <3>2
  <2> QED BY <2>1, <2>2
<1>3. ASSUME NEW c \in C, NEW r \in semantic \cup lexical, r.chunk = c.chunk
      PROVE  c.hybrid >= Scored(r, question).hybrid
  BY <1>3 DEF Chosen
<1> QED BY <1>2, <1>3 DEF IsBest

\* What is searched stays of the corpus, and what is selected is what the rows
\* and the question make of it (Searched is the inductive invariant).
THEOREM SearchInductive == EvidenceSpec => []Searched
<1> QED BY SearchedInit, SearchedStep, PTL DEF EvidenceSpec

\* Retrieval keeps the best, and leaves out only what is worse than all that it
\* keeps or repeats something better (retrieval-scoring.utils.ts): for every
\* corpus, every question, every score and every limit.
THEOREM BestIsSelected == EvidenceSpec => []GroundingIsBest
<1>1. Searched => GroundingIsBest
  <2> SUFFICES ASSUME Searched, pc \in {"retrieved", "done"}, ~ question.blank
               PROVE  GroundingIsBest
    BY DEF GroundingIsBest
  <2> DEFINE C == Candidates(semantic, lexical, question)
  <2>1. Chosen(C)
    BY SelectionChosen
  <2>2. C = {Scored(r, question) : r \in Union(semantic, lexical)}
    BY DEF Candidates
  <2> HIDE DEF C
  <2>3. IsBest(ToSet(selected), C)
    BY <2>1, SelectionBest
  <2>4. AsChunks({c.chunk : c \in ToSet(selected)}) \in
                Corpus!Selections(AsChunks(FoundChunks))
    BY <2>1, SelectionAllowed
  <2> QED BY <2>2, <2>3, <2>4 DEF GroundingIsBest
<1> QED BY <1>1, SearchInductive, PTL

-----------------------------------------------------------------------------
(* Places in a text                                                        *)

WordLength(n, w) == n + w.len + 1
TextLength(text) == FoldLeft(LAMBDA n, w : n + w.len + 1, 0, text)

Lengths(r, text) ==
    /\ r \in [0..Len(text) -> Nat]
    /\ r[0] = 0
    /\ \A k \in 1..Len(text) : r[k] = WordLength(r[k - 1], text[k])

LEMMA LengthSteps ==
    ASSUME NEW W, \A w \in W : w.len \in Nat, NEW text \in Seq(W)
    PROVE  \E r : Lengths(r, text) /\ TextLength(text) = r[Len(text)]
<1> DEFINE n == Len(text)
           G == [p \in (1..n) \X Nat |-> WordLength(p[2], text[p[1]])]
           Step(s, it) == IF s = {} THEN 0 ELSE WordLength(it[s \ {Max(s)}], text[Max(s)])
           iter == CHOOSE it : it = [s \in SUBSET DOMAIN text |-> Step(s, it)]
<1>1. TextLength(text) = iter[DOMAIN text]
  BY Zenon DEF TextLength, FoldLeft, MapThenFoldSet, WordLength
<1>2. n \in Nat /\ DOMAIN text = 1..n
  OBVIOUS
<1>3. ASSUME NEW k \in 1..n, NEW e \in Nat
      PROVE  WordLength(e, text[k]) \in Nat /\ G[<<k, e>>] = WordLength(e, text[k])
  <2>1. text[k].len \in Nat
    OBVIOUS
  <2> QED BY <2>1 DEF WordLength
<1>4. G \in [(1..n) \X Nat -> Nat]
  BY <1>3
<1> HIDE DEF n
<1>5. PICK h : SolvesFold(h, n, Nat, 0, G)
  BY <1>2, <1>4, FoldSolved
<1> HIDE DEF G
<1>6. \A s \in SUBSET (1..n) : h[s] = Step(s, h)
  <2>1. ASSUME NEW s \in SUBSET (1..n), s # {}
        PROVE  h[s] = Step(s, h)
    <3>1. Max(s) \in 1..n /\ h[s \ {Max(s)}] \in Nat
      BY <1>2, <1>5, <2>1, MaxOf DEF SolvesFold
    <3> QED BY <1>3, <1>5, <2>1, <3>1 DEF SolvesFold
  <2> QED BY <1>5, <2>1 DEF SolvesFold
<1>7. h = [s \in SUBSET DOMAIN text |-> Step(s, h)]
  <2> HIDE DEF Step
  <2> QED BY <1>2, <1>5, <1>6 DEF SolvesFold
<1>8. iter = [s \in SUBSET DOMAIN text |-> Step(s, iter)]
  <2> HIDE DEF Step
  <2> QED BY <1>7
<1> HIDE DEF iter
<1>9. \A s \in SUBSET (1..n) : iter[s] = Step(s, iter)
  <2> HIDE DEF Step
  <2> QED BY <1>2, <1>8
<1>10. StepsFold(iter, n, Nat, 0, G)
  <2>1. {} \in SUBSET (1..n) /\ iter[{}] = 0
    BY <1>9
  <2>2. ASSUME NEW s \in SUBSET (1..n), s # {}, iter[s \ {Max(s)}] \in Nat
        PROVE  iter[s] = G[<<Max(s), iter[s \ {Max(s)}]>>]
    BY <1>2, <1>3, <1>9, <2>2, MaxOf
  <2> QED BY <2>1, <2>2 DEF StepsFold
<1> HIDE DEF Step
<1>11. PICK r : RunOf(r, iter, n, Nat, 0, G)
  BY <1>2, <1>4, <1>10, FoldRuns
<1>12. ASSUME NEW k \in 1..n
       PROVE  r[k] = WordLength(r[k - 1], text[k])
  <2>1. k - 1 \in 0..n
    BY <1>2
  <2> QED BY <1>3, <1>11, <2>1 DEF Run, RunOf
<1> QED BY <1>1, <1>2, <1>11, <1>12 DEF Lengths, Run, RunOf, n

\* A word starts one character after the end of the one before it.
LEMMA Starts ==
    ASSUME NEW text, IsText(text)
    PROVE  /\ Len(text) \in Nat
           /\ \A i \in 1..Len(text) : /\ text[i].len \in Nat
                                      /\ StartOf(text, i) \in Nat
                                      /\ EndOf(text, i) = StartOf(text, i) + text[i].len
           /\ Len(text) > 0 => StartOf(text, 1) = 0
           /\ \A i \in 1..(Len(text) - 1) : StartOf(text, i + 1) = EndOf(text, i) + 1
<1> DEFINE W == ToSet(text)
           n == Len(text)
<1>0. text \in Seq(W) /\ (\A w \in W : w.len \in Nat) /\ n \in Nat
  BY DEF IsText
<1> HIDE DEF W
<1>1. PICK p : Lengths(p, text)
  BY <1>0, LengthSteps
<1>2. ASSUME NEW k \in 0..(n - 1)
      PROVE  StartOf(text, k + 1) = p[k]
  <2> DEFINE s == SubSeq(text, 1, k)
  <2>1. k <= n /\ k \in Nat /\ (k + 1) - 1 = k
    BY <1>0
  <2>2. s \in Seq(W) /\ Len(s) = k /\ \A i \in 1..k : s[i] = text[i]
    BY <1>0, <2>1, SubSeqProperties
  <2>3. StartOf(text, k + 1) = TextLength(s)
    BY <2>1 DEF StartOf, TextLength
  <2> HIDE DEF s
  <2>4. PICK r : Lengths(r, s) /\ TextLength(s) = r[Len(s)]
    BY <1>0, <2>2, LengthSteps
  <2> DEFINE T == {j \in 0..k : r[j] = p[j]}
  <2>5. 0 \in T
    BY <1>1, <2>1, <2>4 DEF Lengths
  <2>6. ASSUME NEW j \in 1..k, j - 1 \in T
        PROVE  j \in T
    <3>1. j \in 1..n /\ j \in 0..k
      BY <1>0, <2>1
    <3> QED BY <1>1, <2>2, <2>4, <2>6, <3>1 DEF Lengths
  <2>7. k \in T
    <3>1. 0..k \subseteq T
      <4> HIDE DEF T
      <4> QED BY <2>1, <2>5, <2>6, UpTo
    <3> QED BY <2>1, <3>1
  <2> QED BY <2>2, <2>3, <2>4, <2>7
<1>3. ASSUME NEW i \in 1..n
      PROVE  StartOf(text, i) = p[i - 1] /\ p[i - 1] \in Nat /\ text[i].len \in Nat
  <2>1. i - 1 \in 0..(n - 1) /\ (i - 1) + 1 = i /\ i - 1 \in 0..n
    BY <1>0
  <2>2. StartOf(text, i) = p[i - 1]
    BY <1>2, <2>1
  <2> QED BY <1>0, <1>1, <2>1, <2>2 DEF Lengths
<1>4. ASSUME NEW i \in 1..(n - 1)
      PROVE  StartOf(text, i + 1) = EndOf(text, i) + 1
  <2>1. i \in 1..n /\ i + 1 \in 1..n /\ (i + 1) - 1 = i
    BY <1>0
  <2>2. p[i] = p[i - 1] + text[i].len + 1
    BY <1>1, <2>1 DEF Lengths, WordLength
  <2> QED BY <1>3, <2>1, <2>2 DEF EndOf
<1>5. n > 0 => StartOf(text, 1) = 0
  BY <1>0, <1>1, <1>2 DEF Lengths
<1> QED BY <1>0, <1>3, <1>4, <1>5 DEF EndOf

LEMMA WordsApart ==
    ASSUME NEW text, IsText(text), NEW i \in 1..Len(text), NEW j \in 1..Len(text), i < j
    PROVE  EndOf(text, i) < StartOf(text, j)
<1> DEFINE n == Len(text)
           m == j - i
           T == {k \in 0..m : k = 0 \/ EndOf(text, i) < StartOf(text, i + k)}
<1>1. /\ n \in Nat
      /\ \A k \in 1..n : /\ text[k].len \in Nat /\ StartOf(text, k) \in Nat
                         /\ EndOf(text, k) = StartOf(text, k) + text[k].len
      /\ \A k \in 1..(n - 1) : StartOf(text, k + 1) = EndOf(text, k) + 1
  BY Starts
<1> HIDE DEF n
<1>2. m \in Nat /\ m > 0 /\ i + m = j /\ i \in 1..n /\ j \in 1..n
  BY <1>1 DEF n
<1>3. ASSUME NEW k \in 1..m, k - 1 \in T
      PROVE  k \in T
  <2>1. (i + (k - 1)) + 1 = i + k /\ i + (k - 1) \in 1..(n - 1) /\ i + (k - 1) \in 1..n
        /\ i + k \in 1..n
    BY <1>1, <1>2
  <2>2. StartOf(text, i + k) = EndOf(text, i + (k - 1)) + 1
    BY <1>1, <2>1
  <2>3. EndOf(text, i + (k - 1)) >= StartOf(text, i + (k - 1))
        /\ StartOf(text, i + (k - 1)) \in Nat /\ EndOf(text, i + (k - 1)) \in Nat
        /\ EndOf(text, i) \in Nat
    <3>1. \A h \in 1..n : EndOf(text, h) >= StartOf(text, h) /\ StartOf(text, h) \in Nat
                          /\ EndOf(text, h) \in Nat
      <4> SUFFICES ASSUME NEW h \in 1..n
                   PROVE  EndOf(text, h) >= StartOf(text, h) /\ StartOf(text, h) \in Nat
                          /\ EndOf(text, h) \in Nat
        OBVIOUS
      <4>1. /\ text[h].len \in Nat /\ StartOf(text, h) \in Nat
            /\ EndOf(text, h) = StartOf(text, h) + text[h].len
        BY <1>1
      <4> QED BY <4>1
    <3> QED BY <1>2, <2>1, <3>1
  <2>4. CASE k - 1 = 0
    <3>1. EndOf(text, i + (k - 1)) = EndOf(text, i)
      BY <2>4
    <3> QED BY <2>2, <2>3, <3>1
  <2>5. CASE EndOf(text, i) < StartOf(text, i + (k - 1))
    BY <2>2, <2>3, <2>5
  <2> QED BY <1>3, <2>4, <2>5
<1>4. 0..m \subseteq T
  <2>1. 0 \in T
    BY <1>2
  <2> HIDE DEF T, m
  <2> QED BY <1>2, <1>3, <2>1, UpTo
<1> QED BY <1>2, <1>4

\* Every position is in a word, or at its end.
LEMMA WordFound ==
    ASSUME NEW text, IsText(text), Len(text) > 0, NEW at \in 0..EndOf(text, Len(text))
    PROVE  /\ WordAt(text, at) \in 1..Len(text)
           /\ StartOf(text, WordAt(text, at)) <= at /\ at <= EndOf(text, WordAt(text, at))
<1> DEFINE n == Len(text)
           U == {i \in 1..n : at <= EndOf(text, i)}
<1>1. /\ n \in Nat /\ StartOf(text, 1) = 0
      /\ \A k \in 1..n : /\ StartOf(text, k) \in Nat
                         /\ EndOf(text, k) = StartOf(text, k) + text[k].len
                         /\ text[k].len \in Nat
      /\ \A k \in 1..(n - 1) : StartOf(text, k + 1) = EndOf(text, k) + 1
  BY Starts
<1>2. n \in U /\ U \subseteq Nat
  BY <1>1
<1>3. PICK x \in U : \A y \in U : x <= y
  <2> HIDE DEF U
  <2> QED BY <1>2, Least
<1>4. StartOf(text, x) <= at
  <2>1. CASE x = 1
    BY <1>1, <2>1
  <2>2. CASE x # 1
    <3>1. x - 1 \in 1..(n - 1) /\ x - 1 \in 1..n /\ (x - 1) + 1 = x
      BY <1>1, <2>2
    <3>2. x - 1 \notin U
      BY <1>3, <3>1
    <3>3. StartOf(text, x) = EndOf(text, x - 1) + 1 /\ ~ at <= EndOf(text, x - 1)
          /\ EndOf(text, x - 1) \in Nat /\ at \in Nat
      BY <1>1, <3>1, <3>2
    <3> QED BY <3>3
  <2> QED BY <2>1, <2>2
<1>5. x \in 1..n /\ at \in StartOf(text, x)..EndOf(text, x)
  BY <1>1, <1>4
<1>6. WordAt(text, at) \in 1..n /\ at \in StartOf(text, WordAt(text, at))..EndOf(text, WordAt(text, at))
  BY <1>5 DEF WordAt
<1> QED BY <1>1, <1>6

\* What the excerpt of some characters is.
LEMMA Trimmed ==
    ASSUME NEW text, IsText(text), Len(text) > 0,
           NEW start \in Nat, NEW end \in Nat,
           start <= end, start <= EndOf(text, Len(text))
    PROVE  LET s == TrimExcerpt(text, start, end)
           IN  /\ s \in (1..Len(text)) \X (1..Len(text)) /\ s[1] <= s[2]
               /\ StartOf(text, s[1]) <= start /\ start <= EndOf(text, s[1])
               /\ StartOf(text, s[2]) <= end
               /\ end <= EndOf(text, s[2]) \/ EndOf(text, Len(text)) <= EndOf(text, s[2])
<1> DEFINE n == Len(text)
           last == EndOf(text, n)
           to == IF end < last THEN end ELSE last
           a == WordAt(text, start)
           b == WordAt(text, to)
<1>1. last \in Nat /\ n \in Nat
  BY Starts
<1> HIDE DEF last
<1>2. start \in 0..last /\ to \in 0..last /\ start <= to /\ to <= end /\ (to = end \/ to = last)
      /\ to \in Nat
  BY <1>1 DEF last
<1> HIDE DEF to
<1>3. /\ a \in 1..n /\ StartOf(text, a) <= start /\ start <= EndOf(text, a)
      /\ b \in 1..n /\ StartOf(text, b) <= to /\ to <= EndOf(text, b)
  BY <1>2, WordFound DEF last
<1>4. /\ StartOf(text, a) \in Nat /\ EndOf(text, b) \in Nat /\ StartOf(text, b) \in Nat
  BY <1>3, Starts
<1> HIDE DEF a, b
<1>5. a <= b
  <2>1. b < a => EndOf(text, b) < StartOf(text, a)
    BY <1>3, WordsApart
  <2>2. ~ b < a
    <3> DEFINE e == EndOf(text, b)
               s == StartOf(text, a)
    <3>1. e \in Nat /\ s \in Nat /\ s <= start /\ to <= e
      BY <1>3, <1>4
    <3> HIDE DEF e, s
    <3> QED BY <1>2, <2>1, <3>1 DEF e, s
  <2> QED BY <1>1, <1>3, <2>2
<1>6. StartOf(text, b) <= end
  BY <1>2, <1>3, <1>4
<1>7. TrimExcerpt(text, start, end) = <<a, b>>
  BY DEF TrimExcerpt, a, b, to, last
<1> QED BY <1>2, <1>3, <1>5, <1>6, <1>7 DEF last

-----------------------------------------------------------------------------
(* Windows and excerpts                                                    *)

Window(text) == {w \in (1..Len(text)) \X (1..Len(text)) : w[1] <= w[2]}

LEMMA WindowRange ==
    ASSUME NEW text, IsText(text)
    PROVE  Windows(text) \subseteq Window(text) /\ IsFiniteSet(Windows(text))
<1> DEFINE n == Len(text)
<1>1. n \in Nat
  BY Starts
<1> HIDE DEF n
<1>2. Sentences(text) \subseteq Window(text)
  BY DEF Sentences, Window
<1>3. ASSUME NEW s \in Sentences(text), NEW t \in Sentences(text), t[1] = s[2] + 1
      PROVE  <<s[1], t[2]>> \in Window(text)
  <2>1. /\ s[1] \in 1..n /\ s[2] \in 1..n /\ s[1] <= s[2]
        /\ t[1] \in 1..n /\ t[2] \in 1..n /\ t[1] <= t[2]
    BY <1>2 DEF Window, n
  <2>2. s[1] <= t[2]
    BY <1>1, <1>3, <2>1
  <2> QED BY <2>1, <2>2 DEF Window, n
<1>4. Windows(text) \subseteq Window(text)
  <2>1. ASSUME NEW w \in Windows(text), w \notin Sentences(text)
        PROVE  w \in Window(text)
    <3>1. /\ \E s, t \in Sentences(text) : w = <<s[1], t[2]>>
          /\ \E s, t \in Sentences(text) : s[1] = w[1] /\ t[2] = w[2] /\ t[1] = s[2] + 1
      BY <2>1 DEF Windows
    <3>2. w = <<w[1], w[2]>>
      BY <3>1
    <3> QED BY <1>3, <3>1, <3>2
  <2> QED BY <1>2, <2>1
<1>5. IsFiniteSet((1..n) \X (1..n))
  <2>1. IsFiniteSet(1..n)
    BY <1>1, FS_Interval
  <2> HIDE DEF n
  <2> QED BY <2>1, FS_Product
<1> QED BY <1>4, <1>5, FS_Subset DEF Window, n

\* Every word is in a sentence.
LEMMA SentenceOf ==
    ASSUME NEW text, IsText(text), NEW i \in 1..Len(text)
    PROVE  \E w \in Sentences(text) : w[1] <= i /\ i <= w[2]
<1> DEFINE n == Len(text)
           Ends(k) == text[k].ends \/ k = n
           A == {a \in 1..i : \A k \in a..(i - 1) : ~ Ends(k)}
           B == {b \in i..n : Ends(b)}
<1>0. n \in Nat
  BY Starts
<1> HIDE DEF n
<1>1. i \in A /\ A \subseteq Nat
  BY <1>0 DEF n
<1>2. n \in B /\ B \subseteq Nat
  BY <1>0 DEF n
<1> HIDE DEF Ends
<1>3. PICK a \in A : \A x \in A : a <= x
  <2> HIDE DEF A
  <2> QED BY <1>1, Least
<1>4. PICK b \in B : \A x \in B : b <= x
  <2> HIDE DEF B
  <2> QED BY <1>2, Least
<1>5. a = 1 \/ Ends(a - 1)
  <2> SUFFICES ASSUME a # 1, ~ Ends(a - 1)
               PROVE  FALSE
    OBVIOUS
  <2>1. a - 1 \in 1..i /\ \A k \in (a - 1)..(i - 1) : k = a - 1 \/ k \in a..(i - 1)
    BY <1>0, <1>3 DEF n
  <2>2. a - 1 \in A
    BY <1>3, <2>1
  <2>3. a \in Nat /\ ~ a <= a - 1
    BY <1>3
  <2> QED BY <1>3, <2>2, <2>3
<1>6. ASSUME NEW k \in a..(b - 1)
      PROVE  ~ Ends(k)
  <2>1. k \in a..(i - 1) \/ k \in i..n
    BY <1>0, <1>3, <1>4 DEF n
  <2>2. k \in i..n => k \notin B
    BY <1>4
  <2> QED BY <1>3, <2>1, <2>2
<1>7. /\ a \in 1..n /\ b \in 1..n /\ a <= b /\ Ends(b) /\ a <= i /\ i <= b
  BY <1>0, <1>3, <1>4 DEF n
<1>8. <<a, b>> \in Sentences(text)
  BY <1>5, <1>6, <1>7 DEF Sentences, Ends, n
<1> QED BY <1>7, <1>8

LEMMA WithinOf ==
    ASSUME NEW text, IsText(text), NEW w \in Window(text)
    PROVE  /\ Len(Within(text, w)) = w[2] - w[1] + 1
           /\ \A i \in 1..(w[2] - w[1] + 1) : Within(text, w)[i] = text[w[1] + i - 1]
           /\ IsText(Within(text, w))
           /\ ToSet(Within(text, w)) = {text[i] : i \in w[1]..w[2]}
<1> DEFINE a == w[1]
           b == w[2]
           s == SubSeq(text, a, b)
           W == ToSet(text)
<1>1. /\ a \in 1..Len(text) /\ b \in 1..Len(text) /\ a <= b /\ Len(text) \in Nat
      /\ text \in Seq(W)
      /\ \A x \in W : x.len \in Nat /\ (x.term # Stop => x.term \in x.prefixes)
  BY Starts DEF Window, IsText
<1> HIDE DEF W, a, b
<1>2. /\ s \in Seq(W) /\ Len(s) = b - a + 1
      /\ \A i \in 1..(b - a + 1) : s[i] = text[a + i - 1]
  <2>1. \A i \in a..b : text[i] \in W
    BY <1>1
  <2>2. a \in Int /\ b \in Int
    BY <1>1
  <2> QED BY <1>1, <2>1, <2>2, SubSeqProperties
<1>3. Within(text, w) = s
  BY DEF Within, a, b
<1> HIDE DEF s
<1>4. ToSet(s) = {text[i] : i \in a..b}
  <2>1. ToSet(s) = {s[i] : i \in 1..Len(s)}
    BY <1>2 DEF ToSet
  <2>2. \A i \in 1..(b - a + 1) : a + i - 1 \in a..b
    BY <1>1
  <2>3. \A i \in a..b : i - a + 1 \in 1..(b - a + 1) /\ a + (i - a + 1) - 1 = i
    BY <1>1
  <2>4. \A x \in ToSet(s) : x \in {text[i] : i \in a..b}
    BY <1>2, <2>1, <2>2
  <2>5. \A i \in a..b : text[i] \in ToSet(s)
    BY <1>2, <2>1, <2>3
  <2> QED BY <2>4, <2>5
<1>5. /\ s \in Seq(ToSet(s))
      /\ \A x \in ToSet(s) : x.len \in Nat /\ (x.term # Stop => x.term \in x.prefixes)
  <2>1. ToSet(s) \subseteq W
    BY <1>2 DEF ToSet
  <2>2. DOMAIN s = 1..Len(s) /\ Len(s) \in Nat
    BY <1>2
  <2>3. s \in Seq(ToSet(s))
    BY <1>2, <2>2 DEF ToSet
  <2> QED BY <1>1, <2>1, <2>3
<1> QED BY <1>2, <1>3, <1>4, <1>5 DEF IsText, a, b

LEMMA ProductPositive ==
    ASSUME NEW x \in Nat, NEW y \in Nat \ {0}, NEW z \in Nat \ {0}
    PROVE  x * y * z \in Nat /\ (x * y * z > 0 <=> x > 0)
<1>1. x * y \in Nat /\ (x * y > 0 <=> x > 0)
  OBVIOUS
<1> DEFINE m == x * y
<1>2. m \in Nat /\ (m > 0 <=> x > 0)
  BY <1>1
<1> HIDE DEF m
<1>3. m * z \in Nat /\ (m * z > 0 <=> m > 0)
  BY <1>2
<1> QED BY <1>2, <1>3 DEF m

LEMMA WindowScoreOf ==
    ASSUME NEW text, IsText(text), NEW w \in Window(text), NEW reply, IsFiniteSet(reply),
           NEW q, IsQuestion(q)
    PROVE  /\ WindowScore(text, w, reply, q) \in Nat
           /\ WindowScore(text, w, reply, q) > 0 <=>
                \/ (reply \cup q.tokens) \cap TermsOf(Within(text, w)) # {}
                \/ \E p \in q.phrases : Occurs(p, Within(text, w))
<1> DEFINE words == Within(text, w)
           Size(S) == Larger(1, Cardinality(S))
           a == Cardinality(reply \cap TermsOf(words))
           t == Cardinality(q.tokens \cap TermsOf(words))
           p == Cardinality({phrase \in q.phrases : Occurs(phrase, words)})
           A == Size(reply)
           T == Size(q.tokens)
           P == Size(q.phrases)
<1>1. ASSUME NEW S, IsFiniteSet(S)
      PROVE  Cardinality(S) \in Nat /\ (Cardinality(S) > 0 <=> S # {}) /\ Size(S) \in Nat \ {0}
  <2>1. Cardinality(S) \in Nat /\ (Cardinality(S) = 0 <=> S = {})
    BY <1>1, FS_CardinalityType, FS_EmptySet
  <2> QED BY <2>1 DEF Larger
<1>2. /\ a \in Nat /\ (a > 0 <=> reply \cap TermsOf(words) # {})
      /\ t \in Nat /\ (t > 0 <=> q.tokens \cap TermsOf(words) # {})
      /\ p \in Nat /\ (p > 0 <=> \E phrase \in q.phrases : Occurs(phrase, words))
  <2>1. IsFiniteSet(reply \cap TermsOf(words)) /\ IsFiniteSet(q.tokens \cap TermsOf(words))
    BY FS_Intersection DEF IsQuestion
  <2>2. IsFiniteSet({phrase \in q.phrases : Occurs(phrase, words)})
    BY FS_Subset DEF IsQuestion
  <2> HIDE DEF words
  <2> QED BY <1>1, <2>1, <2>2
<1>3. A \in Nat \ {0} /\ T \in Nat \ {0} /\ P \in Nat \ {0}
  BY <1>1 DEF IsQuestion
<1>4. WindowScore(text, w, reply, q) = 5 * a * T * P + 3 * t * A * P + 2 * p * A * T
  BY DEF WindowScore
<1> HIDE DEF a, t, p, A, T, P
<1>5. 5 * a \in Nat /\ (5 * a > 0 <=> a > 0) /\ 3 * t \in Nat /\ (3 * t > 0 <=> t > 0)
      /\ 2 * p \in Nat /\ (2 * p > 0 <=> p > 0)
  BY <1>2
<1>6. /\ 5 * a * T * P \in Nat /\ (5 * a * T * P > 0 <=> 5 * a > 0)
      /\ 3 * t * A * P \in Nat /\ (3 * t * A * P > 0 <=> 3 * t > 0)
      /\ 2 * p * A * T \in Nat /\ (2 * p * A * T > 0 <=> 2 * p > 0)
  BY <1>3, <1>5, ProductPositive
<1>7. WindowScore(text, w, reply, q) \in Nat
      /\ (WindowScore(text, w, reply, q) > 0 <=> a > 0 \/ t > 0 \/ p > 0)
  <2> DEFINE x == 5 * a * T * P
             y == 3 * t * A * P
             z == 2 * p * A * T
  <2>1. x \in Nat /\ y \in Nat /\ z \in Nat
        /\ (x > 0 <=> a > 0) /\ (y > 0 <=> t > 0) /\ (z > 0 <=> p > 0)
    BY <1>5, <1>6
  <2>2. WindowScore(text, w, reply, q) = x + y + z
    BY <1>4
  <2> HIDE DEF x, y, z
  <2> QED BY <2>1, <2>2
<1> QED BY <1>2, <1>7

\* The best of finitely many windows.
LEMMA BestOfKeys ==
    ASSUME NEW S, IsFiniteSet(S), S # {}, NEW key \in [S -> [1..3 -> Int]],
           \A v, w \in S : key[v] = key[w] => v = w
    PROVE  BestOf(key) \in S /\ \A v \in S : v # BestOf(key) => Precedes(key[BestOf(key)], key[v])
<1> DEFINE K == {key[w] : w \in S}
           R == {p \in S \X S : Precedes(key[p[1]], key[p[2]])}
<1>1. K \subseteq [1..3 -> Int] /\ \A w \in S : key[w] \in K
  OBVIOUS
<1>2. /\ \A k \in K : ~ Precedes(k, k)
      /\ \A k, l, m \in K : Precedes(k, l) /\ Precedes(l, m) => Precedes(k, m)
      /\ \A k, l \in K : k # l => Precedes(k, l) \/ Precedes(l, k)
  <2> HIDE DEF K
  <2> QED BY <1>1, KeysOrdered, 3 \in Nat
<1>3. \A v, w \in S : <<v, w>> \in R <=> Precedes(key[v], key[w])
  OBVIOUS
<1> HIDE DEF R, K
<1>4. StrictOrder(S, R)
  BY <1>1, <1>2, <1>3 DEF StrictOrder
<1>5. 1 \in 1..Cardinality(S) /\ 1 - 1 = 0
  <2>1. Cardinality(S) \in Nat /\ Cardinality(S) # 0
    BY FS_CardinalityType, FS_EmptySet
  <2> QED BY <2>1
<1>6. PICK w \in S : Cardinality(Earlier(S, R, w)) = 0
  BY <1>4, <1>5, EveryRank
<1>7. Earlier(S, R, w) = {}
  <2>1. IsFiniteSet(Earlier(S, R, w))
    BY FS_Subset DEF Earlier
  <2> QED BY <1>6, <2>1, FS_EmptySet
<1>8. \A v \in S \ {w} : Precedes(key[w], key[v])
  BY <1>3, <1>4, <1>7 DEF StrictOrder, Earlier
<1>9. DOMAIN key = S
  OBVIOUS
<1> QED BY <1>8, <1>9 DEF BestOf

LEMMA BestWindowOf ==
    ASSUME NEW text, IsText(text), Len(text) > 0, NEW reply, IsFiniteSet(reply),
           NEW q, IsQuestion(q)
    PROVE  LET b == BestWindow(text, reply, q)
           IN  /\ b \in Window(text)
               /\ \A w \in Windows(text) :
                    WindowScore(text, w, reply, q) <= WindowScore(text, b, reply, q)
<1> DEFINE score(w) == WindowScore(text, w, reply, q)
           key == [w \in Windows(text) |->
                    << score(w), - StartOf(text, w[1]), - LengthOf(text, w) >>]
           b == BestOf(key)
<1>1. Windows(text) \subseteq Window(text) /\ IsFiniteSet(Windows(text))
  BY WindowRange
<1>2. Windows(text) # {}
  <2>1. 1 \in 1..Len(text)
    BY Starts
  <2>2. Sentences(text) # {}
    BY <2>1, SentenceOf
  <2>3. Sentences(text) \subseteq Windows(text)
    BY DEF Windows
  <2> QED BY <2>2, <2>3
<1>3. ASSUME NEW w \in Windows(text)
      PROVE  /\ w[1] \in 1..Len(text) /\ w[2] \in 1..Len(text) /\ w = <<w[1], w[2]>>
             /\ StartOf(text, w[1]) \in Nat /\ EndOf(text, w[2]) \in Nat
             /\ LengthOf(text, w) = EndOf(text, w[2]) - StartOf(text, w[1])
             /\ score(w) \in Nat
  <2>1. w \in Window(text)
    BY <1>1
  <2>2. w[1] \in 1..Len(text) /\ w[2] \in 1..Len(text) /\ w = <<w[1], w[2]>>
    BY <2>1 DEF Window
  <2>3. StartOf(text, w[1]) \in Nat /\ EndOf(text, w[2]) \in Nat
    BY <2>2, Starts
  <2>4. score(w) \in Nat
    BY <2>1, WindowScoreOf
  <2> QED BY <2>2, <2>3, <2>4 DEF LengthOf
<1> HIDE DEF score
<1>4. key \in [Windows(text) -> [1..3 -> Int]]
  BY <1>3
<1>5. ASSUME NEW v \in Windows(text), NEW w \in Windows(text), key[v] = key[w]
      PROVE  v = w
  <2>1. - StartOf(text, v[1]) = - StartOf(text, w[1]) /\ - LengthOf(text, v) = - LengthOf(text, w)
    BY <1>5
  <2>2. StartOf(text, v[1]) = StartOf(text, w[1]) /\ EndOf(text, v[2]) = EndOf(text, w[2])
    BY SMTT(30), <1>3, <2>1
  <2>3. ASSUME NEW i \in 1..Len(text), NEW j \in 1..Len(text), i < j
        PROVE  StartOf(text, i) # StartOf(text, j) /\ EndOf(text, i) # EndOf(text, j)
    <3>1. EndOf(text, i) < StartOf(text, j)
      BY <2>3, WordsApart
    <3>2. /\ StartOf(text, i) \in Nat /\ StartOf(text, j) \in Nat
          /\ text[i].len \in Nat /\ text[j].len \in Nat
          /\ EndOf(text, i) = StartOf(text, i) + text[i].len
          /\ EndOf(text, j) = StartOf(text, j) + text[j].len
      BY Starts
    <3> QED BY <3>1, <3>2
  <2>4. \A i, j \in 1..Len(text) : i # j => i < j \/ j < i
    OBVIOUS
  <2>5. v[1] = w[1] /\ v[2] = w[2]
    BY <1>3, <2>2, <2>3, <2>4
  <2> QED BY <1>3, <2>5
<1>6. b \in Windows(text) /\ \A v \in Windows(text) : v # b => Precedes(key[b], key[v])
  <2> HIDE DEF key
  <2> QED BY <1>1, <1>2, <1>4, <1>5, BestOfKeys
<1>7. ASSUME NEW w \in Windows(text)
      PROVE  score(w) <= score(b)
  <2>1. CASE w = b
    BY <1>3, <2>1
  <2>2. CASE w # b
    <3> HIDE DEF b
    <3>1. key[b][1] = score(b) /\ key[w][1] = score(w) /\ Len(key[b]) = 3
      BY <1>6
    <3>2. PICK i \in 1..3 : key[b][i] > key[w][i] /\ \A j \in 1..(i - 1) : key[b][j] = key[w][j]
      BY <1>6, <2>2, <3>1 DEF Precedes
    <3> HIDE DEF key
    <3>3. CASE i = 1
      <4>1. score(b) \in Nat /\ score(w) \in Nat /\ score(b) > score(w)
        BY <1>3, <1>6, <3>1, <3>2, <3>3
      <4> QED BY <4>1
    <3>4. CASE i # 1
      <4>1. 1 \in 1..(i - 1)
        BY <3>4
      <4>2. score(b) = score(w) /\ score(w) \in Nat
        BY <1>3, <3>1, <3>2, <4>1
      <4> QED BY <4>2
    <3> QED BY <3>3, <3>4
  <2> QED BY <2>1, <2>2
<1>8. BestWindow(text, reply, q) = b
  BY DEF BestWindow, score
<1> QED BY <1>1, <1>6, <1>7, <1>8 DEF score

\* Where l words stand that begin i words after the first of a window.
LEMMA PhraseWithin ==
    ASSUME NEW a \in Nat, NEW b \in Nat, NEW l \in Nat \ {0}, NEW i \in Nat,
           i <= (b - a + 1) - l
    PROVE  /\ a + i \in a..b /\ a + i + l - 1 <= b /\ i + l <= b - a + 1
           /\ \A j \in 1..l : i + j \in 1..(b - a + 1) /\ a + (i + j) - 1 = a + i + j - 1
OBVIOUS

\* The places where an excerpt may begin.
Places(text, w, terms, phrases) == Anchors(text, w, terms) \cup PhrasesAt(text, w, phrases)

LEMMA PlaceFound ==
    ASSUME NEW text, IsText(text), NEW w \in Window(text), NEW reply, IsFiniteSet(reply),
           NEW q, IsQuestion(q)
    PROVE  LET terms == reply \cup q.tokens
               f == FirstPlace(text, w, terms, q.phrases)
           IN  /\ f \in w[1]..w[2]
               /\ WindowScore(text, w, reply, q) > 0 => f \in Places(text, w, terms, q.phrases)
<1> DEFINE terms == reply \cup q.tokens
           F == Places(text, w, terms, q.phrases)
           words == Within(text, w)
           f == FirstPlace(text, w, terms, q.phrases)
<1>1. w[1] \in 1..Len(text) /\ w[2] \in 1..Len(text) /\ w[1] <= w[2] /\ Len(text) \in Nat
  BY Starts DEF Window
<1>2. F \subseteq w[1]..w[2] /\ F \subseteq Nat
  BY <1>1 DEF Places, Anchors, PhrasesAt
<1>3. f = IF F = {} THEN w[1] ELSE CHOOSE i \in F : \A j \in F : i <= j
  BY DEF FirstPlace, FirstAnchor, Places
<1>4. F # {} => f \in F
  <2> SUFFICES ASSUME F # {}
               PROVE  f \in F
    OBVIOUS
  <2> HIDE DEF F, f
  <2>1. \E i \in F : \A j \in F : i <= j
    BY <1>2, Least
  <2> QED BY <1>3, <2>1
<1>5. f \in w[1]..w[2]
  <2> HIDE DEF F, f
  <2>1. CASE F = {}
    <3>1. f = w[1] /\ w[1] \in w[1]..w[2]
      BY <1>1, <1>3, <2>1
    <3> QED BY <3>1
  <2>2. CASE F # {}
    BY <1>2, <1>4, <2>2
  <2> QED BY <2>1, <2>2
<1>6. /\ Len(words) = w[2] - w[1] + 1
      /\ \A i \in 1..(w[2] - w[1] + 1) : words[i] = text[w[1] + i - 1]
      /\ ToSet(words) = {text[i] : i \in w[1]..w[2]}
  BY WithinOf
<1> HIDE DEF words
<1>7. ASSUME terms \cap TermsOf(words) # {}
      PROVE  F # {}
  <2>1. PICK t \in terms : t \in TermsOf(words)
    BY <1>7
  <2>2. PICK i \in w[1]..w[2] : text[i].term = t /\ t # Stop
    BY <1>6, <2>1 DEF TermsOf
  <2>3. text[i] \in ToSet(text)
    BY <1>1 DEF IsText, ToSet
  <2>4. t \in text[i].prefixes
    BY <2>2, <2>3 DEF IsText
  <2>5. i \in Anchors(text, w, terms)
    BY <2>1, <2>4 DEF Anchors
  <2> QED BY <2>5 DEF Places
<1>8. ASSUME NEW p \in q.phrases, Occurs(p, words)
      PROVE  F # {}
  <2> DEFINE l == Len(p)
  <2>1. l \in Nat \ {0}
    BY DEF IsQuestion
  <2>2. PICK i \in 0..(Len(words) - l) : \A j \in 1..l : words[i + j].term = p[j]
    BY <1>8 DEF Occurs
  <2> DEFINE k == w[1] + i
             m == Len(words)
  <2> HIDE DEF l
  <2>3. /\ k \in w[1]..w[2] /\ k + l - 1 <= w[2]
        /\ \A j \in 1..l : /\ i + j \in 1..(w[2] - w[1] + 1)
                           /\ w[1] + (i + j) - 1 = k + j - 1
    <3>1. m = w[2] - w[1] + 1 /\ i \in 0..(m - l)
      BY <1>6
    <3> HIDE DEF m
    <3>2. w[1] \in Nat /\ w[2] \in Nat
      BY <1>1
    <3>3. i \in Nat /\ i <= (w[2] - w[1] + 1) - l
      BY <2>1, <3>1, <3>2
    <3> DEFINE a == w[1]
               b == w[2]
    <3>4. a \in Nat /\ b \in Nat /\ i <= (b - a + 1) - l
      BY <3>2, <3>3
    <3> HIDE DEF a, b
    <3>5. /\ a + i \in a..b /\ a + i + l - 1 <= b
          /\ \A j \in 1..l : i + j \in 1..(b - a + 1) /\ a + (i + j) - 1 = a + i + j - 1
      BY <2>1, <3>3, <3>4, PhraseWithin
    <3> QED BY <3>5 DEF a, b
  <2>4. ASSUME NEW j \in 1..l
        PROVE  text[k + j - 1].term = p[j]
    <3>1. i + j \in 1..(w[2] - w[1] + 1) /\ w[1] + (i + j) - 1 = k + j - 1
      BY <2>3
    <3>2. words[i + j] = text[k + j - 1]
      BY <1>6, <3>1
    <3> QED BY <2>2, <3>2
  <2>5. k \in PhrasesAt(text, w, q.phrases)
    <3> HIDE DEF k
    <3> QED BY <2>3, <2>4 DEF PhrasesAt, l
  <2> QED BY <2>5 DEF Places
<1>9. WindowScore(text, w, reply, q) > 0 => F # {}
  BY <1>7, <1>8, WindowScoreOf DEF words
<1> QED BY <1>4, <1>5, <1>9

\* An excerpt of a text, and what it owes to the reply and the question.
ExcerptOf(s, text, terms, phrases) ==
    /\ s \in Window(text)
    /\ LengthOf(text, s) <= SnippetLimit + text[s[1]].len + text[s[2]].len
    /\ TermsOf(text) \cap terms # {} =>
        \E k \in s[1]..s[2] : k \in Places(text, <<1, Len(text)>>, terms, phrases)

LEMMA TrimmedLength ==
    ASSUME NEW text, IsText(text), Len(text) > 0, NEW start \in Nat, NEW end \in Nat,
           start <= end, start <= EndOf(text, Len(text)), end <= start + SnippetLimit
    PROVE  LET s == TrimExcerpt(text, start, end)
           IN  /\ s \in Window(text)
               /\ LengthOf(text, s) <= SnippetLimit + text[s[1]].len + text[s[2]].len
<1> DEFINE s == TrimExcerpt(text, start, end)
           a == s[1]
           b == s[2]
<1>1. /\ s \in (1..Len(text)) \X (1..Len(text)) /\ a <= b
      /\ StartOf(text, a) <= start /\ start <= EndOf(text, a) /\ StartOf(text, b) <= end
  BY Trimmed
<1> HIDE DEF s
<1>2. a \in 1..Len(text) /\ b \in 1..Len(text)
  BY <1>1
<1> HIDE DEF a, b
<1>3. /\ StartOf(text, a) \in Nat /\ text[a].len \in Nat
      /\ EndOf(text, a) = StartOf(text, a) + text[a].len
      /\ StartOf(text, b) \in Nat /\ text[b].len \in Nat
      /\ EndOf(text, b) = StartOf(text, b) + text[b].len
  BY <1>2, Starts
<1>4. SnippetLimit \in Nat
  BY CitingAssumption
<1>5. EndOf(text, b) - StartOf(text, a) <= SnippetLimit + text[a].len + text[b].len
  <2> DEFINE x == StartOf(text, a)
             y == StartOf(text, b)
             m == text[a].len
             n == text[b].len
  <2>1. x \in Nat /\ y \in Nat /\ m \in Nat /\ n \in Nat /\ start <= x + m /\ y <= end
    BY <1>1, <1>3
  <2> HIDE DEF x, y, m, n
  <2>2. (y + n) - x <= SnippetLimit + m + n
    BY <1>4, <2>1
  <2> QED BY <1>3, <2>2 DEF x, y, m, n
<1> QED BY <1>1, <1>5 DEF Window, LengthOf, s, a, b

\* A window that is too long is cut around the place of its match.
LEMMA CutAround ==
    ASSUME NEW text, IsText(text), NEW w \in Window(text), NEW f \in w[1]..w[2]
    PROVE  LET from == Larger(StartOf(text, w[1]), StartOf(text, f) - SnippetLimit \div 3)
               s == CutWindow(text, w, from)
           IN  /\ s \in Window(text)
               /\ LengthOf(text, s) <= SnippetLimit + text[s[1]].len + text[s[2]].len
               /\ f \in s[1]..s[2]
<1> DEFINE n == Len(text)
           x == StartOf(text, w[1])
           y == StartOf(text, f)
           z == EndOf(text, w[2])
           last == EndOf(text, n)
           from == Larger(x, y - SnippetLimit \div 3)
           to == IF from + SnippetLimit < z THEN from + SnippetLimit ELSE z
           s == TrimExcerpt(text, from, to)
<1>1. /\ w[1] \in 1..n /\ w[2] \in 1..n /\ w[1] <= w[2] /\ f \in 1..n /\ w[1] <= f /\ f <= w[2]
      /\ n \in 1..n /\ n \in Nat
  BY Starts DEF Window
<1>2. \A i \in 1..n : /\ StartOf(text, i) \in Nat /\ EndOf(text, i) \in Nat
                      /\ StartOf(text, i) <= EndOf(text, i)
  <2> SUFFICES ASSUME NEW i \in 1..n
               PROVE  /\ StartOf(text, i) \in Nat /\ EndOf(text, i) \in Nat
                      /\ StartOf(text, i) <= EndOf(text, i)
    OBVIOUS
  <2>1. /\ StartOf(text, i) \in Nat /\ text[i].len \in Nat
        /\ EndOf(text, i) = StartOf(text, i) + text[i].len
    BY Starts
  <2> QED BY <2>1
<1> HIDE DEF n
<1>3. \A i, j \in 1..n : i < j => EndOf(text, i) < StartOf(text, j)
  BY WordsApart DEF n
<1>4. x \in Nat /\ y \in Nat /\ z \in Nat /\ last \in Nat /\ x <= y /\ y <= z /\ z <= last
  <2>1. x <= y
    <3>1. w[1] = f \/ w[1] < f
      BY <1>1
    <3> QED BY <1>1, <1>2, <1>3, <3>1
  <2>2. y <= z
    <3>1. w[2] = f \/ f < w[2]
      BY <1>1
    <3> QED BY <1>1, <1>2, <1>3, <3>1
  <2>3. z <= last
    <3>1. w[2] = n \/ w[2] < n
      BY <1>1
    <3> QED BY <1>1, <1>2, <1>3, <3>1
  <2> QED BY <1>1, <1>2, <2>1, <2>2, <2>3
<1> HIDE DEF x, y, z, last
<1>5. SnippetLimit \in Nat /\ SnippetLimit \div 3 \in Nat /\ SnippetLimit \div 3 <= SnippetLimit
  BY CitingAssumption
<1>6. from \in Nat /\ x <= from /\ from <= y /\ y <= from + SnippetLimit
  BY <1>4, <1>5 DEF Larger
<1> HIDE DEF from
<1>7. to \in Nat /\ from <= to /\ y <= to /\ to <= last /\ to <= from + SnippetLimit /\ from <= last
  BY <1>4, <1>5, <1>6
<1> HIDE DEF to
<1>8. Len(text) > 0
  BY <1>1 DEF n
<1>9. /\ s \in Window(text)
      /\ LengthOf(text, s) <= SnippetLimit + text[s[1]].len + text[s[2]].len
  BY <1>6, <1>7, <1>8, TrimmedLength DEF last, n
<1>10. /\ s[1] \in 1..n /\ s[2] \in 1..n
       /\ StartOf(text, s[1]) <= from
       /\ to <= EndOf(text, s[2]) \/ last <= EndOf(text, s[2])
  <2>1. s \in (1..Len(text)) \X (1..Len(text))
        /\ StartOf(text, s[1]) <= from
        /\ (to <= EndOf(text, s[2]) \/ EndOf(text, Len(text)) <= EndOf(text, s[2]))
    BY <1>6, <1>7, <1>8, Trimmed DEF last, n
  <2> HIDE DEF s
  <2> QED BY <2>1 DEF last, n
<1> HIDE DEF s
<1>11. ~ f < s[1]
  <2> SUFFICES ASSUME f < s[1]
               PROVE  FALSE
    OBVIOUS
  <2>1. EndOf(text, f) < StartOf(text, s[1])
    BY <1>1, <1>3, <1>10
  <2> QED BY <1>1, <1>2, <1>4, <1>6, <1>10, <2>1 DEF y
<1>12. ~ s[2] < f
  <2> SUFFICES ASSUME s[2] < f
               PROVE  FALSE
    OBVIOUS
  <2>1. EndOf(text, s[2]) < StartOf(text, f)
    BY <1>1, <1>3, <1>10
  <2>2. EndOf(text, s[2]) \in Nat /\ y \in Nat /\ EndOf(text, s[2]) < y
    BY <1>2, <1>4, <1>10, <2>1 DEF y
  <2> QED BY <1>4, <1>7, <1>10, <2>2
<1>13. f \in s[1]..s[2]
  BY <1>1, <1>10, <1>11, <1>12
<1>14. CutWindow(text, w, from) = s
  BY DEF CutWindow, s, to, z
<1> QED BY <1>9, <1>13, <1>14 DEF from, x, y

LEMMA SnippetIsExcerpt ==
    ASSUME NEW text, IsText(text), Len(text) > 0, NEW reply, IsFiniteSet(reply),
           NEW q, IsQuestion(q)
    PROVE  ExcerptOf(Snippet(text, reply, q), text, reply \cup q.tokens, q.phrases)
<1> DEFINE terms == reply \cup q.tokens
           w == BestWindow(text, reply, q)
           score == WindowScore(text, w, reply, q)
           f == FirstPlace(text, w, terms, q.phrases)
           s == Excerpt(text, w, score, terms, q.phrases)
<1>1. /\ w \in Window(text)
      /\ \A v \in Windows(text) : WindowScore(text, v, reply, q) <= score
  BY BestWindowOf
<1>2. Snippet(text, reply, q) = s
  BY DEF Snippet, SnippetOf
<1> HIDE DEF w
<1>3. w[1] \in 1..Len(text) /\ w[2] \in 1..Len(text) /\ w[1] <= w[2] /\ Len(text) \in Nat
  BY <1>1, Starts DEF Window
<1>4. score \in Nat
  BY <1>1, WindowScoreOf
<1>5. f \in w[1]..w[2] /\ (score > 0 => f \in Places(text, w, terms, q.phrases))
  BY <1>1, PlaceFound
<1>6. TermsOf(text) \cap terms # {} => score > 0
  <2> SUFFICES ASSUME NEW t \in TermsOf(text), t \in terms
               PROVE  score > 0
    OBVIOUS
  <2>1. PICK i \in 1..Len(text) : text[i].term = t /\ t # Stop
    BY DEF TermsOf, ToSet, IsText
  <2>2. PICK v \in Sentences(text) : v[1] <= i /\ i <= v[2]
    BY SentenceOf
  <2>3. v \in Windows(text) /\ v \in Window(text)
    <3>1. v \in Windows(text)
      BY DEF Windows
    <3> QED BY <3>1, WindowRange
  <2>4. v[1] \in Nat /\ v[2] \in Nat
    BY <2>3, <1>3 DEF Window
  <2>5. i \in v[1]..v[2]
    BY <2>2, <2>4
  <2>6. t \in TermsOf(Within(text, v))
    BY <2>1, <2>3, <2>5, WithinOf DEF TermsOf
  <2>7. WindowScore(text, v, reply, q) > 0 /\ WindowScore(text, v, reply, q) \in Nat
    BY <2>3, <2>6, WindowScoreOf
  <2> QED BY <1>1, <1>4, <2>3, <2>7
<1> HIDE DEF score, f
<1>7. \A k \in w[1]..w[2] : k \in Places(text, w, terms, q.phrases) =>
            /\ k \in 1..Len(text) /\ k \in Nat
            /\ k \in Places(text, <<1, Len(text)>>, terms, q.phrases)
  <2> SUFFICES ASSUME NEW k \in w[1]..w[2], k \in Places(text, w, terms, q.phrases)
               PROVE  /\ k \in 1..Len(text) /\ k \in Nat
                      /\ k \in Places(text, <<1, Len(text)>>, terms, q.phrases)
    OBVIOUS
  <2>1. k \in 1..Len(text) /\ k \in Nat
    BY <1>3
  <2>2. CASE k \in Anchors(text, w, terms)
    BY <2>1, <2>2 DEF Anchors, Places
  <2>3. CASE k \in PhrasesAt(text, w, q.phrases)
    <3>1. PICK p \in q.phrases : /\ k + Len(p) - 1 <= w[2]
                                 /\ \A j \in 1..Len(p) : text[k + j - 1].term = p[j]
      BY <2>3 DEF PhrasesAt
    <3>2. Len(p) \in Nat
      BY DEF IsQuestion
    <3>3. k + Len(p) - 1 <= Len(text)
      <4> DEFINE l == Len(p)
                 n == Len(text)
      <4>1. l \in Nat /\ n \in Nat /\ w[2] <= n /\ w[2] \in Nat /\ k + l - 1 <= w[2]
        BY <1>3, <3>1, <3>2
      <4> HIDE DEF l, n
      <4> QED BY <2>1, <4>1 DEF l, n
    <3> QED BY <2>1, <3>1, <3>3 DEF PhrasesAt, Places
  <2> QED BY <2>2, <2>3 DEF Places
<1>8. CASE score = 0
  <2> DEFINE r == TrimExcerpt(text, 0, SnippetLimit)
  <2>1. s = r
    BY <1>8 DEF Excerpt
  <2>2. SnippetLimit \in Nat /\ 0 <= SnippetLimit /\ SnippetLimit <= 0 + SnippetLimit
    BY CitingAssumption
  <2>3. EndOf(text, Len(text)) >= 0
    <3>1. Len(text) \in 1..Len(text)
      BY <1>3
    <3> QED BY <3>1, Starts
  <2>4. /\ r \in Window(text)
        /\ LengthOf(text, r) <= SnippetLimit + text[r[1]].len + text[r[2]].len
    BY <2>2, <2>3, TrimmedLength
  <2> HIDE DEF r, s
  <2> QED BY <1>2, <1>6, <1>8, <2>1, <2>4 DEF ExcerptOf
<1>9. CASE score # 0 /\ LengthOf(text, w) <= SnippetLimit
  <2>1. s = w
    BY <1>9 DEF Excerpt
  <2>2. LengthOf(text, w) <= SnippetLimit + text[w[1]].len + text[w[2]].len
    <3>1. /\ LengthOf(text, w) \in Int /\ SnippetLimit \in Nat
          /\ text[w[1]].len \in Nat /\ text[w[2]].len \in Nat
      <4>1. StartOf(text, w[1]) \in Nat /\ text[w[1]].len \in Nat /\ text[w[2]].len \in Nat
        BY <1>3, Starts
      <4>2. EndOf(text, w[2]) \in Nat
        <5>1. /\ StartOf(text, w[2]) \in Nat /\ text[w[2]].len \in Nat
              /\ EndOf(text, w[2]) = StartOf(text, w[2]) + text[w[2]].len
          BY <1>3, Starts
        <5> QED BY <5>1
      <4> QED BY <4>1, <4>2, CitingAssumption DEF LengthOf
    <3> DEFINE l == LengthOf(text, w)
               m == text[w[1]].len
               n == text[w[2]].len
    <3>2. l \in Int /\ SnippetLimit \in Nat /\ m \in Nat /\ n \in Nat /\ l <= SnippetLimit
      BY <1>9, <3>1
    <3> HIDE DEF l, m, n
    <3>3. l <= SnippetLimit + m + n
      BY <3>2
    <3> QED BY <3>3 DEF l, m, n
  <2>3. f \in Places(text, w, terms, q.phrases)
    BY <1>4, <1>5, <1>9
  <2> HIDE DEF s
  <2> QED BY <1>1, <1>2, <1>5, <1>7, <2>1, <2>2, <2>3 DEF ExcerptOf
<1>10. CASE score # 0 /\ ~ LengthOf(text, w) <= SnippetLimit
  <2> DEFINE from == Larger(StartOf(text, w[1]), StartOf(text, f) - SnippetLimit \div 3)
             r == CutWindow(text, w, from)
  <2>1. s = r
    BY <1>10 DEF Excerpt, AnchorStart, f
  <2>2. /\ r \in Window(text) /\ f \in r[1]..r[2]
        /\ LengthOf(text, r) <= SnippetLimit + text[r[1]].len + text[r[2]].len
    BY <1>1, <1>5, CutAround
  <2>3. f \in Places(text, w, terms, q.phrases)
    BY <1>4, <1>5, <1>10
  <2> HIDE DEF s, r
  <2> QED BY <1>2, <1>5, <1>7, <2>1, <2>2, <2>3 DEF ExcerptOf
<1> QED BY <1>8, <1>9, <1>10

-----------------------------------------------------------------------------
(* The local answer                                                        *)

\* What SelectChunks makes of one chunk.
Taken(chosen, c, s, tokens) ==
    LET covered == UNION {Matched(e.chunk.text, tokens) : e \in ToSet(chosen)} IN
    IF \/ chosen = <<>>
       \/ /\ Len(chosen) < LocalLimit
          /\ StrongEnough(c, s[1].hybrid)
          /\ Matched(c.chunk.text, tokens) \ covered # {}
    THEN Append(chosen, c) ELSE chosen

LEMMA TakenSteps ==
    ASSUME NEW C, NEW chunks \in Seq(C), NEW tokens
    PROVE  \E r \in [0..Len(chunks) -> Seq(C)] :
             /\ r[0] = <<>>
             /\ \A k \in 1..Len(chunks) : r[k] = Taken(r[k - 1], chunks[k], chunks, tokens)
             /\ SelectChunks(chunks, tokens) = r[Len(chunks)]
<1> DEFINE n == Len(chunks)
           E == Seq(C)
           G == [p \in (1..n) \X E |-> Taken(p[2], chunks[p[1]], chunks, tokens)]
           Step(s, it) ==
                IF s = {} THEN <<>> ELSE Taken(it[s \ {Max(s)}], chunks[Max(s)], chunks, tokens)
           iter == CHOOSE it : it = [s \in SUBSET DOMAIN chunks |-> Step(s, it)]
<1>1. SelectChunks(chunks, tokens) = iter[DOMAIN chunks]
  BY Zenon DEF SelectChunks, FoldLeft, MapThenFoldSet, Taken
<1>2. n \in Nat /\ DOMAIN chunks = 1..n /\ <<>> \in E
  OBVIOUS
<1>3. ASSUME NEW k \in 1..n, NEW e \in E
      PROVE  /\ Taken(e, chunks[k], chunks, tokens) \in E
             /\ G[<<k, e>>] = Taken(e, chunks[k], chunks, tokens)
  BY DEF Taken
<1>4. G \in [(1..n) \X E -> E]
  BY <1>3
<1> HIDE DEF n, E
<1>5. PICK h : SolvesFold(h, n, E, <<>>, G)
  BY <1>2, <1>4, FoldSolved
<1> HIDE DEF G
<1>6. \A s \in SUBSET (1..n) : h[s] = Step(s, h)
  <2>1. ASSUME NEW s \in SUBSET (1..n), s # {}
        PROVE  h[s] = Step(s, h)
    <3>1. Max(s) \in 1..n /\ h[s \ {Max(s)}] \in E
      BY <1>2, <1>5, <2>1, MaxOf DEF SolvesFold
    <3> QED BY <1>3, <1>5, <2>1, <3>1 DEF SolvesFold
  <2> QED BY <1>5, <2>1 DEF SolvesFold
<1>7. h = [s \in SUBSET DOMAIN chunks |-> Step(s, h)]
  <2> HIDE DEF Step
  <2> QED BY <1>2, <1>5, <1>6 DEF SolvesFold
<1>8. iter = [s \in SUBSET DOMAIN chunks |-> Step(s, iter)]
  <2> HIDE DEF Step
  <2> QED BY <1>7
<1> HIDE DEF iter
<1>9. \A s \in SUBSET (1..n) : iter[s] = Step(s, iter)
  <2> HIDE DEF Step
  <2> QED BY <1>2, <1>8
<1>10. StepsFold(iter, n, E, <<>>, G)
  <2>1. {} \in SUBSET (1..n) /\ iter[{}] = <<>>
    BY <1>9
  <2>2. ASSUME NEW s \in SUBSET (1..n), s # {}, iter[s \ {Max(s)}] \in E
        PROVE  iter[s] = G[<<Max(s), iter[s \ {Max(s)}]>>]
    BY <1>2, <1>3, <1>9, <2>2, MaxOf
  <2> QED BY <2>1, <2>2 DEF StepsFold
<1> HIDE DEF Step
<1>11. PICK r : RunOf(r, iter, n, E, <<>>, G)
  BY <1>2, <1>4, <1>10, FoldRuns
<1>12. ASSUME NEW k \in 1..n
       PROVE  r[k] = Taken(r[k - 1], chunks[k], chunks, tokens)
  <2>1. k - 1 \in 0..n
    BY <1>2
  <2> QED BY <1>3, <1>11, <2>1 DEF Run, RunOf
<1> QED BY <1>1, <1>2, <1>11, <1>12 DEF Run, RunOf, n, E

\* Some of the first n chunks, not too many: the first, and others that are
\* strong.
TakenOf(k, s, n, C) ==
    /\ k \in Seq(C) /\ Len(k) <= LocalLimit
    /\ ToSet(k) \subseteq {s[i] : i \in 1..n}
    /\ n > 0 => s[1] \in ToSet(k)
    /\ \A e \in ToSet(k) : e = s[1] \/ StrongEnough(e, s[1].hybrid)

LEMMA SelectionTaken ==
    ASSUME NEW C, NEW s \in Seq(C), NEW tokens
    PROVE  TakenOf(SelectChunks(s, tokens), s, Len(s), C)
<1> DEFINE n == Len(s)
<1>1. PICK r \in [0..n -> Seq(C)] :
        /\ r[0] = <<>>
        /\ \A k \in 1..n : r[k] = Taken(r[k - 1], s[k], s, tokens)
        /\ SelectChunks(s, tokens) = r[n]
  BY TakenSteps
<1> DEFINE T == {k \in 0..n : TakenOf(r[k], s, k, C)}
<1>2. n \in Nat /\ LocalLimit \in Nat \ {0}
  BY CitingAssumption
<1>3. 0 \in T
  <2>1. <<>> \in Seq(C) /\ Len(<<>>) = 0 /\ 1..0 = {} /\ ToSet(<<>>) = {}
    BY DEF ToSet
  <2>2. TakenOf(<<>>, s, 0, C)
    BY <1>2, <2>1 DEF TakenOf
  <2> QED BY <1>1, <1>2, <2>2
<1>4. ASSUME NEW k \in 1..n, k - 1 \in T
      PROVE  k \in T
  <2> DEFINE a == r[k - 1]
             c == s[k]
  <2>1. /\ TakenOf(a, s, k - 1, C) /\ c \in C /\ k \in 0..n /\ r[k] = Taken(a, c, s, tokens)
        /\ 1..k = 1..(k - 1) \cup {k} /\ k - 1 \in Nat
    BY <1>1, <1>4
  <2> HIDE DEF a, c
  <2>2. CASE r[k] = a /\ a # <<>>
    <3>1. k > 1
      <4> SUFFICES ASSUME k = 1
                   PROVE  FALSE
        OBVIOUS
      <4>1. ToSet(a) = {}
        BY <2>1 DEF TakenOf
      <4>2. a \in Seq(C) /\ 1 \in DOMAIN a
        BY <2>1, <2>2 DEF TakenOf
      <4> QED BY <4>1, <4>2 DEF ToSet
    <3>2. TakenOf(a, s, k, C)
      BY <2>1, <3>1 DEF TakenOf
    <3> QED BY <2>1, <2>2, <3>2
  <2>3. CASE r[k] = Append(a, c) /\ (a = <<>> \/ (Len(a) < LocalLimit /\ StrongEnough(c, s[1].hybrid)))
    <3> DEFINE b == Append(a, c)
    <3>1. b \in Seq(C) /\ Len(b) = Len(a) + 1 /\ Len(a) \in Nat /\ ToSet(b) = ToSet(a) \cup {c}
      BY <2>1, AppendOf DEF TakenOf
    <3> HIDE DEF b
    <3>2. CASE a = <<>>
      <4>1. k = 1
        <5> SUFFICES ASSUME k > 1
                     PROVE  FALSE
          BY <2>1
        <5>1. s[1] \in ToSet(a)
          BY <2>1 DEF TakenOf
        <5> QED BY <3>2, <5>1 DEF ToSet
      <4>2. ToSet(b) = {s[1]} /\ Len(b) = 1
        BY <3>1, <3>2, <4>1 DEF ToSet, c
      <4>3. 1 <= LocalLimit
        BY <1>2
      <4>4. {s[i] : i \in 1..k} = {s[1]}
        BY <4>1
      <4>5. TakenOf(b, s, k, C)
        BY <3>1, <4>2, <4>3, <4>4 DEF TakenOf
      <4> QED BY <2>1, <2>3, <4>5 DEF b
    <3>3. CASE a # <<>>
      <4>1. Len(a) < LocalLimit /\ StrongEnough(c, s[1].hybrid)
        BY <2>3, <3>3
      <4>2. k > 1
        <5> SUFFICES ASSUME k = 1
                     PROVE  FALSE
          OBVIOUS
        <5>1. ToSet(a) = {}
          BY <2>1 DEF TakenOf
        <5>2. a \in Seq(C) /\ 1 \in DOMAIN a
          BY <2>1, <3>3 DEF TakenOf
        <5> QED BY <5>1, <5>2 DEF ToSet
      <4>3. Len(b) <= LocalLimit
        <5> DEFINE l == Len(a)
                   m == Len(b)
        <5>1. l \in Nat /\ m = l + 1 /\ l < LocalLimit
          BY <3>1, <4>1
        <5> HIDE DEF l, m
        <5>2. m <= LocalLimit
          BY <1>2, <5>1
        <5> QED BY <5>2 DEF m
      <4>4. TakenOf(b, s, k, C)
        BY <2>1, <3>1, <4>1, <4>2, <4>3 DEF TakenOf, c
      <4> QED BY <2>1, <2>3, <4>4 DEF b
    <3> QED BY <3>2, <3>3
  <2>4. \/ r[k] = a /\ a # <<>>
        \/ /\ r[k] = Append(a, c)
           /\ a = <<>> \/ (Len(a) < LocalLimit /\ StrongEnough(c, s[1].hybrid))
    BY <2>1 DEF Taken
  <2>5. TakenOf(r[k], s, k, C)
    BY <2>2, <2>3, <2>4, <2>1
  <2> QED BY <2>1, <2>5
<1>5. n \in T
  <2>1. 0..n \subseteq T
    <3> HIDE DEF T, n
    <3> QED BY <1>2, <1>3, <1>4, UpTo
  <2> HIDE DEF T
  <2> QED BY <1>2, <2>1
<1> QED BY <1>1, <1>5

LEMMA LocalTermsFinite ==
    ASSUME NEW text, IsText(text), Len(text) > 0, NEW q, IsQuestion(q)
    PROVE  IsFiniteSet(LocalTerms(text, q))
<1>1. Snippet(text, q.tokens, q) \in Window(text)
  BY SnippetIsExcerpt DEF ExcerptOf, IsQuestion
<1>2. IsText(Within(text, Snippet(text, q.tokens, q)))
  BY <1>1, WithinOf
<1> QED BY <1>2, TermsFinite DEF LocalTerms

LEMMA LocalAnswerFinite ==
    ASSUME NEW C, NEW s \in Seq(C), NEW q, IsQuestion(q),
           \A c \in C : IsText(c.chunk.text) /\ Len(c.chunk.text) > 0
    PROVE  /\ IsFiniteSet(LocalAnswer(s, q).used) /\ IsFiniteSet(LocalAnswer(s, q).answer)
           /\ LocalAnswer(s, q).used = {c.chunk.id : c \in ToSet(SelectChunks(s, q.tokens))}
           /\ LocalAnswer(s, q).answer =
                UNION {LocalTerms(c.chunk.text, q) : c \in ToSet(SelectChunks(s, q.tokens))}
<1> DEFINE k == SelectChunks(s, q.tokens)
           K == ToSet(k)
           f == [c \in K |-> c.chunk.id]
           g == [c \in K |-> LocalTerms(c.chunk.text, q)]
<1>1. k \in Seq(C)
  BY SelectionTaken DEF TakenOf
<1> HIDE DEF k
<1>2. IsFiniteSet(K) /\ K \subseteq C
  <2>1. IsFiniteSet(K)
    BY <1>1, SequenceFinite
  <2>2. K \subseteq C
    BY <1>1 DEF ToSet
  <2> QED BY <2>1, <2>2
<1> HIDE DEF K
<1>3. {c.chunk.id : c \in K} = {f[c] : c \in K}
      /\ {LocalTerms(c.chunk.text, q) : c \in K} = {g[c] : c \in K}
  OBVIOUS
<1>4. \A c \in K : IsFiniteSet(LocalTerms(c.chunk.text, q))
  BY <1>2, LocalTermsFinite
<1> HIDE DEF f, g
<1>5. IsFiniteSet({c.chunk.id : c \in K}) /\ IsFiniteSet({LocalTerms(c.chunk.text, q) : c \in K})
  <2>1. IsFiniteSet({f[c] : c \in K})
    BY <1>2, ImageFinite
  <2>2. IsFiniteSet({g[c] : c \in K})
    BY <1>2, ImageFinite
  <2> QED BY <1>3, <2>1, <2>2
<1>6. IsFiniteSet(UNION {LocalTerms(c.chunk.text, q) : c \in K})
  BY <1>4, <1>5, FS_UNION
<1> QED BY <1>5, <1>6 DEF LocalAnswer, LocalAnswerFrom, K, k

-----------------------------------------------------------------------------
(* Citations                                                               *)

LEMMA MinOf ==
    ASSUME NEW s, s \subseteq Nat, s # {}
    PROVE  Min(s) \in s /\ \A y \in s : Min(s) <= y
<1>1. PICK x \in s : \A y \in s : x <= y
  BY Least
<1> QED BY <1>1 DEF Min

LEMMA Mirrored ==
    ASSUME NEW c, NEW d, IsChunk(c), IsChunk(d)
    PROVE  Redundant(c, d) <=> Redundant(d, c)
<1>1. Adjacent(c, d) <=> Adjacent(d, c)
  BY DEF Adjacent, IsChunk
<1>2. \A n \in {82, 90} : Overlap(c.text, d.text, n) <=> Overlap(d.text, c.text, n)
  <2>1. TermsOf(c.text) \cap TermsOf(d.text) = TermsOf(d.text) \cap TermsOf(c.text)
        /\ TermsOf(c.text) \cup TermsOf(d.text) = TermsOf(d.text) \cup TermsOf(c.text)
    OBVIOUS
  <2> QED BY <2>1 DEF Overlap
<1> QED BY <1>1, <1>2 DEF Redundant

\* What comparePreparedCandidates compares tells the candidates apart, as their
\* ids do.
SupportKey(c) == <<c.support, c.hybrid, c.answer, c.query, - c.rank>>

Citable(P) ==
    /\ IsFiniteSet(P)
    /\ \A c \in P : SupportKey(c) \in [1..5 -> Int] /\ IsChunk(c.chunk)
    /\ \A c, d \in P : c # d => SupportKey(c) # SupportKey(d)
    /\ \A c, d \in P : c.chunk.id = d.chunk.id => c = d

SupportedMore(P) == {p \in P \X P : Supported(p[1], p[2])}

LEMMA SupportOrders ==
    ASSUME NEW P, Citable(P)
    PROVE  StrictOrder(P, SupportedMore(P))
<1> DEFINE K == {SupportKey(c) : c \in P}
<1>1. K \subseteq [1..5 -> Int] /\ \A c \in P : SupportKey(c) \in K
  BY DEF Citable
<1> HIDE DEF K
<1>2. /\ \A k \in K : ~ Precedes(k, k)
      /\ \A k, l, m \in K : Precedes(k, l) /\ Precedes(l, m) => Precedes(k, m)
      /\ \A k, l \in K : k # l => Precedes(k, l) \/ Precedes(l, k)
  BY <1>1, KeysOrdered, 5 \in Nat
<1>3. \A c, d \in P : <<c, d>> \in SupportedMore(P) <=> Precedes(SupportKey(c), SupportKey(d))
  BY DEF SupportedMore, Supported, SupportKey
<1> QED BY <1>1, <1>2, <1>3 DEF StrictOrder, Citable

\* The candidates in order, each once.
Enumerates(q, P) ==
    /\ q \in Seq(P) /\ ToSet(q) = P
    /\ \A i, j \in 1..Len(q) : i < j => q[i] # q[j]

LEMMA SortedSupport ==
    ASSUME NEW P, Citable(P)
    PROVE  Enumerates(InOrder(P, Supported), P)
<1> DEFINE q == InOrder(P, Supported)
           R == SupportedMore(P)
<1>1. StrictOrder(P, R) /\ IsFiniteSet(P)
  BY SupportOrders DEF Citable
<1>2. \A c \in P : {e \in P : Supported(e, c)} = Earlier(P, R, c)
  BY DEF Earlier, SupportedMore
<1>3. ASSUME NEW i \in 1..Cardinality(P)
      PROVE  q[i] \in P /\ Cardinality(Earlier(P, R, q[i])) = i - 1
  <2>1. \E c \in P : Cardinality({e \in P : Supported(e, c)}) = i - 1
    <3>1. PICK c \in P : Cardinality(Earlier(P, R, c)) = i - 1
      <4> HIDE DEF R
      <4> QED BY <1>1, EveryRank
    <3>2. Cardinality({e \in P : Supported(e, c)}) = i - 1
      BY <1>2, <3>1
    <3> QED BY <3>2
  <2>2. q[i] = CHOOSE c \in P : Cardinality({e \in P : Supported(e, c)}) = i - 1
    BY DEF InOrder
  <2>3. q[i] \in P /\ Cardinality({e \in P : Supported(e, q[i])}) = i - 1
    <3> HIDE DEF q
    <3> QED BY <2>1, <2>2
  <2> HIDE DEF q
  <2> QED BY <1>2, <2>3
<1>4. q \in [1..Cardinality(P) -> P]
  <2> DEFINE place(i) == CHOOSE c \in P : Cardinality({e \in P : Supported(e, c)}) = i - 1
  <2>1. q = [i \in 1..Cardinality(P) |-> place(i)]
    BY Zenon DEF InOrder
  <2> HIDE DEF q, place
  <2> QED BY <1>3, <2>1
<1> HIDE DEF q
<1>5. /\ q \in Seq(P) /\ Len(q) = Cardinality(P) /\ ToSet(q) = P
      /\ \A i, j \in 1..Len(q) : i < j => <<q[i], q[j]>> \in R
  BY <1>1, <1>3, <1>4, RanksInOrder
<1>6. \A i, j \in 1..Len(q) : i < j => q[i] # q[j]
  <2>1. \A c \in P : <<c, c>> \notin R
    BY <1>1 DEF StrictOrder
  <2>2. \A i \in 1..Len(q) : q[i] \in P
    BY <1>5
  <2> HIDE DEF R
  <2> QED BY <1>5, <2>1, <2>2
<1>7. Enumerates(q, P)
  BY <1>5, <1>6 DEF Enumerates
<1> QED BY <1>7 DEF q

Reasons ==
    {"not_in_grounding_set", "support_too_weak", "redundant_with", "citation_limit_exceeded"}
Rejections(I) == [id : I, why : Reasons, of : I \cup {NoId}]
Rounds(P, I) == [citations : Seq(P), rejected : SUBSET Rejections(I)]

\* What a round r makes of a candidate: the three cases of Judged.
Repeating(r, c) == \E e \in ToSet(r.citations) : Redundant(e.chunk, c.chunk)

ConsideredAs(r, c, n) ==
    \/ /\ n.citations = r.citations
       /\ \E e \in ToSet(r.citations) :
            /\ Redundant(e.chunk, c.chunk)
            /\ n.rejected = r.rejected \cup {Rejected(c.chunk.id, "redundant_with", e.chunk.id)}
    \/ /\ ~ Repeating(r, c) /\ Len(r.citations) >= CitationLimit
       /\ n.citations = r.citations
       /\ n.rejected = r.rejected \cup {Rejected(c.chunk.id, "citation_limit_exceeded", NoId)}
    \/ /\ ~ Repeating(r, c) /\ Len(r.citations) < CitationLimit
       /\ n.citations = Append(r.citations, c)
       /\ n.rejected = r.rejected

LEMMA Considered ==
    ASSUME NEW P, NEW I, \A c \in P : c.chunk.id \in I, NEW r \in Rounds(P, I), NEW c \in P
    PROVE  Consider(r, c) \in Rounds(P, I) /\ ConsideredAs(r, c, Consider(r, c))
<1> DEFINE k == r.citations
           m == RedundantWith(k, c)
           n == Consider(r, c)
<1>1. k \in Seq(P) /\ r.rejected \in SUBSET Rejections(I) /\ r = [citations |-> k, rejected |-> r.rejected]
  BY DEF Rounds
<1>2. n = Judged(r, c, m)
  BY DEF Consider
<1>3. /\ m \subseteq DOMAIN k
      /\ m # {} <=> Repeating(r, c)
      /\ \A i \in m : k[i] \in ToSet(k) /\ k[i] \in P /\ Redundant(k[i].chunk, c.chunk)
  BY <1>1 DEF RedundantWith, Repeating, ToSet
<1>4. DOMAIN k = 1..Len(k) /\ Len(k) \in Nat /\ CitationLimit \in Nat
  BY <1>1, CitingAssumption
<1> HIDE DEF m, n
<1>5. CASE m # {}
  <2>1. m \subseteq Nat
    BY <1>3, <1>4
  <2>2. Min(m) \in m
    BY <1>5, <2>1, MinOf
  <2> DEFINE e == k[Min(m)]
  <2>3. e \in ToSet(k) /\ e \in P /\ Redundant(e.chunk, c.chunk)
    BY <1>3, <2>2
  <2>4. n = [r EXCEPT !.rejected = @ \cup {Rejected(c.chunk.id, "redundant_with", e.chunk.id)}]
    BY <1>2, <1>5 DEF Judged
  <2> HIDE DEF e
  <2>5. Rejected(c.chunk.id, "redundant_with", e.chunk.id) \in Rejections(I)
    BY <2>3 DEF Rejected, Rejections, Reasons
  <2>6. n.citations = k
        /\ n.rejected = r.rejected \cup {Rejected(c.chunk.id, "redundant_with", e.chunk.id)}
    BY <2>4, <1>1
  <2>7. n \in Rounds(P, I)
    BY <1>1, <2>4, <2>5 DEF Rounds
  <2>8. ConsideredAs(r, c, n)
    BY <2>3, <2>6 DEF ConsideredAs
  <2> QED BY <2>7, <2>8 DEF n
<1>6. CASE m = {} /\ Len(k) >= CitationLimit
  <2>1. n = [r EXCEPT !.rejected = @ \cup {Rejected(c.chunk.id, "citation_limit_exceeded", NoId)}]
    BY <1>2, <1>6 DEF Judged
  <2>2. Rejected(c.chunk.id, "citation_limit_exceeded", NoId) \in Rejections(I)
    BY DEF Rejected, Rejections, Reasons
  <2>3. n.citations = k
        /\ n.rejected = r.rejected \cup {Rejected(c.chunk.id, "citation_limit_exceeded", NoId)}
    BY <2>1, <1>1
  <2>4. n \in Rounds(P, I)
    BY <1>1, <2>1, <2>2 DEF Rounds
  <2>5. ConsideredAs(r, c, n)
    BY <1>3, <1>6, <2>3 DEF ConsideredAs
  <2> QED BY <2>4, <2>5 DEF n
<1>7. CASE m = {} /\ ~ Len(k) >= CitationLimit
  <2>1. n = [r EXCEPT !.citations = Append(@, c)]
    BY <1>2, <1>7 DEF Judged
  <2>2. Append(k, c) \in Seq(P)
    BY <1>1
  <2>3. n.citations = Append(k, c) /\ n.rejected = r.rejected
    BY <2>1, <1>1
  <2>4. n \in Rounds(P, I)
    BY <1>1, <2>1, <2>2 DEF Rounds
  <2>5. Len(k) < CitationLimit
    BY <1>4, <1>7
  <2>6. ConsideredAs(r, c, n)
    BY <1>3, <1>7, <2>3, <2>5 DEF ConsideredAs
  <2> QED BY <2>4, <2>6 DEF n
<1> QED BY <1>5, <1>6, <1>7

\* The rounds of a sequence of candidates.
RoundsOf(r, b, q, P, I) ==
    /\ r \in [0..Len(q) -> Rounds(P, I)]
    /\ r[0] = b
    /\ \A k \in 1..Len(q) : r[k] = Consider(r[k - 1], q[k])

LEMMA ConsiderSteps ==
    ASSUME NEW P, NEW I, \A c \in P : c.chunk.id \in I, NEW b \in Rounds(P, I), NEW q \in Seq(P)
    PROVE  \E r : RoundsOf(r, b, q, P, I) /\ FoldLeft(Consider, b, q) = r[Len(q)]
<1> DEFINE n == Len(q)
           E == Rounds(P, I)
           G == [p \in (1..n) \X E |-> Consider(p[2], q[p[1]])]
           Step(s, it) == IF s = {} THEN b ELSE Consider(it[s \ {Max(s)}], q[Max(s)])
           iter == CHOOSE it : it = [s \in SUBSET DOMAIN q |-> Step(s, it)]
<1>1. FoldLeft(Consider, b, q) = iter[DOMAIN q]
  BY Zenon DEF FoldLeft, MapThenFoldSet
<1>2. n \in Nat /\ DOMAIN q = 1..n
  OBVIOUS
<1>3. ASSUME NEW k \in 1..n, NEW e \in E
      PROVE  Consider(e, q[k]) \in E /\ G[<<k, e>>] = Consider(e, q[k])
  <2>1. q[k] \in P
    OBVIOUS
  <2>2. Consider(e, q[k]) \in E
    BY <2>1, Considered
  <2> HIDE DEF E
  <2> QED BY <2>2
<1>4. G \in [(1..n) \X E -> E]
  <2> HIDE DEF E
  <2> QED BY <1>3
<1>5. b \in E
  OBVIOUS
<1> HIDE DEF n, E
<1>6. PICK h : SolvesFold(h, n, E, b, G)
  BY <1>2, <1>4, <1>5, FoldSolved
<1> HIDE DEF G
<1>7. \A s \in SUBSET (1..n) : h[s] = Step(s, h)
  <2>1. ASSUME NEW s \in SUBSET (1..n), s # {}
        PROVE  h[s] = Step(s, h)
    <3>1. Max(s) \in 1..n /\ h[s \ {Max(s)}] \in E
      BY <1>2, <1>6, <2>1, MaxOf DEF SolvesFold
    <3> QED BY <1>3, <1>6, <2>1, <3>1 DEF SolvesFold
  <2> QED BY <1>6, <2>1 DEF SolvesFold
<1>8. h = [s \in SUBSET DOMAIN q |-> Step(s, h)]
  <2> HIDE DEF Step
  <2> QED BY <1>2, <1>6, <1>7 DEF SolvesFold
<1>9. iter = [s \in SUBSET DOMAIN q |-> Step(s, iter)]
  <2> HIDE DEF Step
  <2> QED BY <1>8
<1> HIDE DEF iter
<1>10. \A s \in SUBSET (1..n) : iter[s] = Step(s, iter)
  <2> HIDE DEF Step
  <2> QED BY <1>2, <1>9
<1>11. StepsFold(iter, n, E, b, G)
  <2>1. {} \in SUBSET (1..n) /\ iter[{}] = b
    BY <1>10
  <2>2. ASSUME NEW s \in SUBSET (1..n), s # {}, iter[s \ {Max(s)}] \in E
        PROVE  iter[s] = G[<<Max(s), iter[s \ {Max(s)}]>>]
    BY <1>2, <1>3, <1>10, <2>2, MaxOf
  <2> QED BY <2>1, <2>2 DEF StepsFold
<1> HIDE DEF Step
<1>12. PICK r : RunOf(r, iter, n, E, b, G)
  BY <1>2, <1>4, <1>5, <1>11, FoldRuns
<1>13. ASSUME NEW k \in 1..n
       PROVE  r[k] = Consider(r[k - 1], q[k])
  <2>1. k - 1 \in 0..n
    BY <1>2
  <2> QED BY <1>3, <1>12, <2>1 DEF Run, RunOf
<1>14. RoundsOf(r, b, q, P, I)
  BY <1>12, <1>13 DEF Run, RunOf, RoundsOf, n, E
<1> QED BY <1>1, <1>2, <1>12, <1>14 DEF RunOf, n

\* What is rejected while the citations are k.
RejectedFor(x, c, k) ==
    /\ x.id = c.chunk.id
    /\ \/ /\ x.why = "redundant_with"
          /\ \E e \in ToSet(k) : e.chunk.id = x.of /\ Redundant(e.chunk, c.chunk)
       \/ /\ x.why = "citation_limit_exceeded" /\ Len(k) = CitationLimit
          /\ \A e \in ToSet(k) : ~ Redundant(e.chunk, c.chunk)

\* The account of a round r over the candidates D, when b was rejected before.
IdsIn(r) == {c.chunk.id : c \in ToSet(r.citations)} \cup {x.id : x \in r.rejected}

AccountOf(r, b, D) ==
    /\ Len(r.citations) <= CitationLimit
    /\ ToSet(r.citations) \subseteq D
    /\ D # {} => r.citations # <<>>
    /\ IdsIn(r) = {x.id : x \in b} \cup {c.chunk.id : c \in D}
    /\ \A x, y \in r.rejected : x.id = y.id => x = y
    /\ \A x \in r.rejected : \A c \in ToSet(r.citations) : x.id # c.chunk.id
    /\ \A i, j \in 1..Len(r.citations) : i < j =>
            /\ r.citations[i] # r.citations[j]
            /\ ~ Redundant(r.citations[i].chunk, r.citations[j].chunk)
    /\ \A x \in r.rejected \ b : \E c \in D : RejectedFor(x, c, r.citations)

\* A candidate that is rejected.
LEMMA AccountRejects ==
    ASSUME NEW P, NEW I, NEW r \in Rounds(P, I), NEW b, NEW D \in SUBSET P, AccountOf(r, b, D),
           NEW c \in P, c.chunk.id \notin IdsIn(r),
           NEW x, RejectedFor(x, c, r.citations), r.citations # <<>>,
           NEW n \in Rounds(P, I), n.citations = r.citations, n.rejected = r.rejected \cup {x}
    PROVE  AccountOf(n, b, D \cup {c})
<1>1. x.id = c.chunk.id
  BY DEF RejectedFor
<1>2. IdsIn(n) = IdsIn(r) \cup {c.chunk.id}
  BY <1>1 DEF IdsIn
<1>3. \A y \in r.rejected : y.id # x.id
  BY <1>1 DEF IdsIn
<1>4. \A e \in ToSet(r.citations) : x.id # e.chunk.id
  BY <1>1 DEF IdsIn
<1>5. IdsIn(n) = {y.id : y \in b} \cup {e.chunk.id : e \in D \cup {c}}
  BY <1>2 DEF AccountOf
<1>6. \A y, z \in n.rejected : y.id = z.id => y = z
  BY <1>3 DEF AccountOf
<1>7. \A y \in n.rejected : \A e \in ToSet(n.citations) : y.id # e.chunk.id
  BY <1>4 DEF AccountOf
<1>8. \A y \in n.rejected \ b : \E e \in D \cup {c} : RejectedFor(y, e, n.citations)
  BY DEF AccountOf
<1>9. /\ Len(n.citations) <= CitationLimit /\ ToSet(n.citations) \subseteq D \cup {c}
      /\ D \cup {c} # {} => n.citations # <<>>
      /\ \A i, j \in 1..Len(n.citations) : i < j =>
            /\ n.citations[i] # n.citations[j]
            /\ ~ Redundant(n.citations[i].chunk, n.citations[j].chunk)
  BY DEF AccountOf
<1> QED BY <1>5, <1>6, <1>7, <1>8, <1>9 DEF AccountOf

\* A candidate that becomes a citation.
LEMMA AccountCites ==
    ASSUME NEW P, NEW I, NEW r \in Rounds(P, I), NEW b, NEW D \in SUBSET P, AccountOf(r, b, D),
           NEW c \in P, c.chunk.id \notin IdsIn(r), ~ Repeating(r, c),
           Len(r.citations) < CitationLimit,
           NEW n \in Rounds(P, I), n.citations = Append(r.citations, c), n.rejected = r.rejected
    PROVE  AccountOf(n, b, D \cup {c})
<1> DEFINE k == r.citations
           m == n.citations
<1>1. k \in Seq(P) /\ m \in Seq(P) /\ CitationLimit \in Nat
  BY CitingAssumption DEF Rounds
<1>2. /\ Len(m) = Len(k) + 1 /\ Len(k) \in Nat
      /\ \A i \in 1..Len(k) : m[i] = k[i] /\ k[i] \in ToSet(k)
      /\ m[Len(k) + 1] = c /\ ToSet(m) = ToSet(k) \cup {c}
  <2>1. \A i \in 1..Len(k) : k[i] \in ToSet(k)
    BY <1>1 DEF ToSet
  <2> QED BY <1>1, <2>1, AppendOf
<1>3. \A e \in ToSet(k) : e # c /\ ~ Redundant(e.chunk, c.chunk)
  BY DEF IdsIn, Repeating
<1>4. IdsIn(n) = IdsIn(r) \cup {c.chunk.id}
  BY <1>2 DEF IdsIn
<1>5. IdsIn(n) = {y.id : y \in b} \cup {e.chunk.id : e \in D \cup {c}}
  BY <1>4 DEF AccountOf
<1>6. \A y \in n.rejected : \A e \in ToSet(m) : y.id # e.chunk.id
  <2>1. \A y \in r.rejected : y.id # c.chunk.id
    BY DEF IdsIn
  <2> QED BY <1>2, <2>1 DEF AccountOf
<1>7. ASSUME NEW y \in r.rejected \ b
      PROVE  \E e \in D : RejectedFor(y, e, m)
  <2>1. PICK e \in D : RejectedFor(y, e, k)
    BY DEF AccountOf
  <2>2. Len(k) # CitationLimit
    BY <1>1, <1>2
  <2>3. RejectedFor(y, e, m)
    BY <1>2, <2>1, <2>2 DEF RejectedFor
  <2> QED BY <2>3
<1>8. Len(m) <= CitationLimit /\ m # <<>>
  <2> DEFINE l == Len(k)
             h == Len(m)
  <2>1. h = l + 1 /\ l \in Nat /\ l < CitationLimit
    BY <1>2
  <2> HIDE DEF l, h
  <2>2. h <= CitationLimit /\ h # 0
    BY <1>1, <2>1
  <2>3. Len(m) <= CitationLimit /\ Len(m) # 0
    BY <2>2 DEF h
  <2> HIDE DEF m
  <2>4. m = <<>> => Len(m) = 0
    OBVIOUS
  <2> QED BY <2>3, <2>4
<1>9. \A i, j \in 1..Len(m) : i < j =>
        i \in 1..Len(k) /\ (j \in 1..Len(k) \/ j = Len(k) + 1)
  <2> DEFINE l == Len(k)
             h == Len(m)
  <2>1. l \in Nat /\ h = l + 1
    BY <1>2
  <2> HIDE DEF l, h
  <2>2. \A i, j \in 1..h : i < j => i \in 1..l /\ (j \in 1..l \/ j = l + 1)
    BY <2>1
  <2> QED BY <2>2 DEF l, h
<1>10. \A i, j \in 1..Len(k) : i < j => k[i] # k[j] /\ ~ Redundant(k[i].chunk, k[j].chunk)
  BY DEF AccountOf
<1> HIDE DEF k, m
<1>11. ASSUME NEW i \in 1..Len(m), NEW j \in 1..Len(m), i < j
       PROVE  m[i] # m[j] /\ ~ Redundant(m[i].chunk, m[j].chunk)
  <2>1. i \in 1..Len(k) /\ (j \in 1..Len(k) \/ j = Len(k) + 1)
    BY <1>9, <1>11
  <2>2. CASE j \in 1..Len(k)
    BY <1>2, <1>10, <1>11, <2>1, <2>2
  <2>3. CASE j = Len(k) + 1
    BY <1>2, <1>3, <2>1, <2>3
  <2> QED BY <2>1, <2>2, <2>3
<1>12. /\ ToSet(m) \subseteq D \cup {c}
       /\ \A x, y \in n.rejected : x.id = y.id => x = y
       /\ \A y \in n.rejected \ b : \E e \in D \cup {c} : RejectedFor(y, e, m)
  <2>1. ToSet(k) \subseteq D
    BY DEF AccountOf, k
  <2>2. \A x, y \in n.rejected : x.id = y.id => x = y
    BY DEF AccountOf
  <2> QED BY <1>2, <1>7, <2>1, <2>2
<1> QED BY <1>5, <1>6, <1>8, <1>11, <1>12 DEF AccountOf, m

\* What is rejected before the rounds begin.
IsBase(b, P) ==
    /\ \A x, y \in b : x.id = y.id => x = y
    /\ \A x \in b, c \in P : x.id # c.chunk.id

LEMMA AccountSteps ==
    ASSUME NEW P, Citable(P), NEW I, NEW r \in Rounds(P, I), NEW b, IsBase(b, P),
           NEW D \in SUBSET P, AccountOf(r, b, D), NEW c \in P \ D,
           NEW n \in Rounds(P, I), ConsideredAs(r, c, n)
    PROVE  AccountOf(n, b, D \cup {c})
<1>1. c.chunk.id \notin IdsIn(r)
  <2>1. \A x \in b : x.id # c.chunk.id
    BY DEF IsBase
  <2>2. \A e \in D : e.chunk.id # c.chunk.id
    BY DEF Citable
  <2> QED BY <2>1, <2>2 DEF AccountOf
<1>2. r.citations \in Seq(P) /\ Len(r.citations) \in Nat /\ CitationLimit \in Nat \ {0}
  BY CitingAssumption DEF Rounds
<1>3. CASE /\ n.citations = r.citations
           /\ \E e \in ToSet(r.citations) :
                /\ Redundant(e.chunk, c.chunk)
                /\ n.rejected = r.rejected \cup {Rejected(c.chunk.id, "redundant_with", e.chunk.id)}
  <2>1. PICK e \in ToSet(r.citations) :
          /\ Redundant(e.chunk, c.chunk)
          /\ n.rejected = r.rejected \cup {Rejected(c.chunk.id, "redundant_with", e.chunk.id)}
    BY <1>3
  <2> DEFINE x == Rejected(c.chunk.id, "redundant_with", e.chunk.id)
  <2>2. x.id = c.chunk.id /\ x.why = "redundant_with" /\ x.of = e.chunk.id
    BY DEF Rejected
  <2>3. n.rejected = r.rejected \cup {x}
    BY <2>1
  <2> HIDE DEF x
  <2>4. RejectedFor(x, c, r.citations)
    BY <2>1, <2>2 DEF RejectedFor
  <2>5. r.citations # <<>>
    BY <2>1 DEF ToSet
  <2> QED BY <1>1, <1>3, <2>3, <2>4, <2>5, AccountRejects
<1>4. CASE /\ ~ Repeating(r, c) /\ Len(r.citations) >= CitationLimit
           /\ n.citations = r.citations
           /\ n.rejected = r.rejected \cup {Rejected(c.chunk.id, "citation_limit_exceeded", NoId)}
  <2> DEFINE x == Rejected(c.chunk.id, "citation_limit_exceeded", NoId)
             l == Len(r.citations)
  <2>1. x.id = c.chunk.id /\ x.why = "citation_limit_exceeded"
    BY DEF Rejected
  <2>2. n.rejected = r.rejected \cup {x}
    BY <1>4
  <2> HIDE DEF x
  <2>3. l \in Nat /\ l >= CitationLimit /\ l <= CitationLimit
    BY <1>2, <1>4 DEF AccountOf
  <2> HIDE DEF l
  <2>4. l = CitationLimit /\ l # 0
    BY <1>2, <2>3
  <2>5. r.citations # <<>>
    BY <2>4 DEF l
  <2>6. Len(r.citations) = CitationLimit
    BY <2>4 DEF l
  <2>7. RejectedFor(x, c, r.citations)
    BY <1>4, <2>1, <2>6 DEF RejectedFor, Repeating
  <2> QED BY <1>1, <1>4, <2>2, <2>5, <2>7, AccountRejects
<1>5. CASE /\ ~ Repeating(r, c) /\ Len(r.citations) < CitationLimit
           /\ n.citations = Append(r.citations, c)
           /\ n.rejected = r.rejected
  BY <1>1, <1>5, AccountCites
<1> QED BY <1>3, <1>4, <1>5 DEF ConsideredAs

LEMMA Accounted ==
    ASSUME NEW P, Citable(P), NEW I, \A c \in P : c.chunk.id \in I,
           NEW q, Enumerates(q, P), NEW b, b \subseteq Rejections(I), IsBase(b, P)
    PROVE  LET n == FoldLeft(Consider, [citations |-> <<>>, rejected |-> b], q)
           IN  n \in Rounds(P, I) /\ AccountOf(n, b, P)
<1> DEFINE e == [citations |-> <<>>, rejected |-> b]
           n == Len(q)
           D(k) == {q[i] : i \in 1..k}
<1>1. q \in Seq(P) /\ ToSet(q) = P /\ n \in Nat
  BY DEF Enumerates
<1>2. e \in Rounds(P, I)
  BY DEF Rounds
<1>3. PICK r : RoundsOf(r, e, q, P, I) /\ FoldLeft(Consider, e, q) = r[n]
  BY <1>1, <1>2, ConsiderSteps
<1>4. e.citations = <<>> /\ e.rejected = b
  OBVIOUS
<1> HIDE DEF e
<1> DEFINE T == {k \in 0..n : AccountOf(r[k], b, D(k))}
<1>5. 0 \in T
  <2>1. D(0) = {} /\ ToSet(<<>>) = {} /\ Len(<<>>) = 0 /\ 1..0 = {} /\ 0 <= CitationLimit
    BY CitingAssumption DEF ToSet
  <2> HIDE DEF D
  <2>2. IdsIn(e) = {x.id : x \in b}
    BY <1>4, <2>1 DEF IdsIn
  <2>3. AccountOf(e, b, D(0))
    BY <1>4, <2>1, <2>2 DEF AccountOf, IsBase
  <2> QED BY <1>1, <1>3, <2>3 DEF RoundsOf
<1>6. ASSUME NEW k \in 1..n, k - 1 \in T
      PROVE  k \in T
  <2>1. /\ k \in 0..n /\ k - 1 \in 0..n /\ q[k] \in P
        /\ 1..k = 1..(k - 1) \cup {k} /\ \A i \in 1..(k - 1) : i \in 1..n /\ i < k
    BY <1>1
  <2>2. /\ r[k - 1] \in Rounds(P, I) /\ r[k] \in Rounds(P, I)
        /\ r[k] = Consider(r[k - 1], q[k])
    BY <1>3, <2>1 DEF RoundsOf
  <2>3. D(k) = D(k - 1) \cup {q[k]} /\ D(k - 1) \in SUBSET P
    BY <1>1, <2>1
  <2>4. q[k] \notin D(k - 1)
    BY <2>1 DEF Enumerates
  <2>5. ConsideredAs(r[k - 1], q[k], r[k])
    BY <2>1, <2>2, Considered
  <2>6. AccountOf(r[k - 1], b, D(k - 1))
    BY <1>6
  <2> HIDE DEF D, T
  <2>7. AccountOf(r[k], b, D(k - 1) \cup {q[k]})
    BY <2>1, <2>2, <2>3, <2>4, <2>5, <2>6, AccountSteps
  <2> QED BY <2>1, <2>3, <2>7 DEF T
<1>7. 0..n \subseteq T
  <2> HIDE DEF T, n
  <2> QED BY <1>1, <1>5, <1>6, UpTo
<1>8. D(n) = P
  BY <1>1 DEF ToSet
<1>9. n \in 0..n
  BY <1>1
<1>10. AccountOf(r[n], b, P) /\ r[n] \in Rounds(P, I)
  BY <1>3, <1>7, <1>8, <1>9 DEF RoundsOf
<1> QED BY <1>3, <1>10 DEF e

-----------------------------------------------------------------------------
(* The citations of an answer                                              *)

\* A grounding set: chunks, each once, from the best to the worst.
IsSelection(s) ==
    /\ s \in Seq(ToSet(s))
    /\ \A c \in ToSet(s) : IsChunk(c.chunk) /\ c.hybrid \in Nat
    /\ \A i, j \in 1..Len(s) : i < j =>
            s[i].chunk.id # s[j].chunk.id /\ s[j].hybrid <= s[i].hybrid

LEMMA SupportNat ==
    ASSUME NEW h \in Nat, NEW a \in Nat, NEW q \in Nat
    PROVE  (75 * h + 15 * a + 10 * q) \div 100 \in Nat
<1>1. 75 * h + 15 * a + 10 * q \in Nat
  OBVIOUS
<1> QED BY <1>1, Quotient, 100 \in Nat \ {0}

LEMMA PreparedOf ==
    ASSUME NEW s, IsSelection(s), NEW q, IsQuestion(q), NEW reply, IsFiniteSet(reply),
           NEW i \in 1..Len(s)
    PROVE  LET p == Prepared(s[i], i, reply, q)
           IN  /\ p.chunk = s[i].chunk /\ p.rank = i /\ p.hybrid = s[i].hybrid
               /\ p.snippet = Snippet(s[i].chunk.text, reply, q)
               /\ p.answer = TokenCoverage(s[i].chunk.text, reply) /\ p.query \in Nat
               /\ p.support = (75 * p.hybrid + 15 * p.answer + 10 * p.query) \div 100
               /\ p.support \in Nat /\ SupportKey(p) \in [1..5 -> Int] /\ IsChunk(p.chunk)
<1> DEFINE t == s[i].chunk.text
           h == s[i].hybrid
           a == TokenCoverage(t, reply)
           v == Coverage(t, q)
           f == Snippet(t, reply, q)
           p == Prepared(s[i], i, reply, q)
<1>1. s[i] \in ToSet(s) /\ i \in Nat
  BY DEF IsSelection, ToSet
<1>2. h \in Nat /\ IsChunk(s[i].chunk)
  BY <1>1 DEF IsSelection
<1>3. a \in Nat /\ v \in Nat
  BY CoverageOf, QuestionCoverage
<1>4. p = PreparedAs(s[i], i, a, v, f)
  BY DEF Prepared
<1> HIDE DEF t, h, a, v, f, p
<1>5. /\ p.chunk = s[i].chunk /\ p.rank = i /\ p.hybrid = h /\ p.snippet = f
      /\ p.answer = a /\ p.query = v
      /\ p.support = (75 * h + 15 * a + 10 * v) \div 100
  BY <1>4 DEF PreparedAs, h
<1>6. p.support \in Nat
  BY <1>2, <1>3, <1>5, SupportNat
<1>7. SupportKey(p) \in [1..5 -> Int]
  <2>1. - i \in Int
    BY <1>1
  <2> QED BY <1>2, <1>3, <1>5, <1>6, <2>1 DEF SupportKey
<1>8. p.support = (75 * p.hybrid + 15 * p.answer + 10 * p.query) \div 100
  BY <1>5
<1>9. p.answer = TokenCoverage(s[i].chunk.text, reply) /\ p.hybrid = s[i].hybrid
      /\ p.snippet = Snippet(s[i].chunk.text, reply, q)
  BY <1>5 DEF a, h, f, t
<1>10. IsChunk(p.chunk) /\ p.query \in Nat
  BY <1>2, <1>3, <1>5
<1> QED BY <1>5, <1>6, <1>7, <1>8, <1>9, <1>10 DEF p

PreparedFor(ids, s, reply, q) ==
    {Prepared(s[i], i, reply, q) : i \in {i \in 1..Len(s) : s[i].chunk.id \in ids}}

LEMMA PreparedCitable ==
    ASSUME NEW s, IsSelection(s), NEW q, IsQuestion(q), NEW reply, IsFiniteSet(reply), NEW ids
    PROVE  Citable(PreparedFor(ids, s, reply, q))
<1> DEFINE K == {i \in 1..Len(s) : s[i].chunk.id \in ids}
           p == [i \in K |-> Prepared(s[i], i, reply, q)]
           P == PreparedFor(ids, s, reply, q)
<1>1. Len(s) \in Nat /\ K \in SUBSET (1..Len(s))
  BY DEF IsSelection
<1>2. IsFiniteSet(K)
  <2>1. IsFiniteSet(1..Len(s))
    BY <1>1, FS_Interval
  <2> QED BY <1>1, <2>1, FS_Subset
<1>3. P = {p[i] : i \in K}
  BY DEF PreparedFor
<1>4. \A i \in K : /\ p[i].chunk = s[i].chunk /\ p[i].rank = i
                   /\ SupportKey(p[i]) \in [1..5 -> Int] /\ IsChunk(p[i].chunk)
  BY <1>1, PreparedOf
<1> HIDE DEF K, p, P
<1>5. IsFiniteSet(P)
  BY <1>2, <1>3, ImageFinite
<1>6. \A c \in P : SupportKey(c) \in [1..5 -> Int] /\ IsChunk(c.chunk)
  BY <1>3, <1>4
<1>7. ASSUME NEW i \in K, NEW j \in K, p[i].chunk.id = p[j].chunk.id
      PROVE  p[i] = p[j]
  <2>1. s[i].chunk.id = s[j].chunk.id /\ i \in 1..Len(s) /\ j \in 1..Len(s)
    BY <1>1, <1>4, <1>7
  <2>2. ~ i < j /\ ~ j < i
    BY <2>1 DEF IsSelection
  <2>3. i = j
    BY <1>1, <2>1, <2>2
  <2> QED BY <2>3
<1>8. ASSUME NEW i \in K, NEW j \in K, SupportKey(p[i]) = SupportKey(p[j])
      PROVE  p[i] = p[j]
  <2>1. - p[i].rank = - p[j].rank
    <3>1. SupportKey(p[i])[5] = - p[i].rank /\ SupportKey(p[j])[5] = - p[j].rank
      BY DEF SupportKey
    <3> QED BY <1>8, <3>1
  <2>2. i \in Nat /\ j \in Nat /\ - i = - j
    <3>1. i \in 1..Len(s) /\ j \in 1..Len(s)
      BY <1>1
    <3>2. p[i].rank = i /\ p[j].rank = j
      BY <1>4
    <3> QED BY <1>1, <2>1, <3>1, <3>2
  <2>3. i = j
    BY <2>2
  <2> QED BY <2>3
<1>9. Citable(P)
  BY <1>3, <1>5, <1>6, <1>7, <1>8 DEF Citable
<1> QED BY <1>9 DEF P

\* The ids that are refused from the start are those that are not of strong
\* candidates, each once.
StrongOf(P) == {c \in P : c.support >= MinSupport}

LEMMA RefusedOf ==
    ASSUME NEW P, Citable(P), NEW ids, \A c \in P : c.chunk.id \in ids
    PROVE  LET b == Refused(ids, P)
           IN  /\ b \subseteq Rejections(ids) /\ IsBase(b, StrongOf(P))
               /\ {x.id : x \in b} \cup {c.chunk.id : c \in StrongOf(P)} = ids
               /\ \A x \in b :
                    \/ x.why = "not_in_grounding_set" /\ \A c \in P : c.chunk.id # x.id
                    \/ x.why = "support_too_weak" /\ \E c \in P : c.chunk.id = x.id
<1> DEFINE I == ids \ {c.chunk.id : c \in P}
           W == {c \in P : c.support < MinSupport}
           A == {Rejected(id, "not_in_grounding_set", NoId) : id \in I}
           B == {Rejected(c.chunk.id, "support_too_weak", NoId) : c \in W}
           b == Refused(ids, P)
           S == StrongOf(P)
<1>1. b = A \cup B
  BY DEF Refused
<1>2. \A c \in P : (c \in W \/ c \in S) /\ ~ (c \in W /\ c \in S)
  <2>1. MinSupport \in Int
    BY DEF MinSupport, Weighted, One
  <2>2. \A c \in P : c.support \in Int
    <3>1. \A c \in P : SupportKey(c) \in [1..5 -> Int] /\ SupportKey(c)[1] = c.support
      BY DEF Citable, SupportKey
    <3> QED BY <3>1
  <2> QED BY <2>1, <2>2 DEF StrongOf
<1>3. W \subseteq P /\ S \subseteq P
  BY DEF StrongOf
<1> HIDE DEF W, S
<1>4. \A x \in A : /\ x \in Rejections(ids) /\ x.id \in I /\ x.why = "not_in_grounding_set"
                   /\ x.of = NoId
  BY DEF Rejected, Rejections, Reasons
<1>5. \A x \in B : \E c \in W : /\ x.id = c.chunk.id /\ x.why = "support_too_weak" /\ x.of = NoId
                               /\ x \in Rejections(ids)
  BY <1>3 DEF Rejected, Rejections, Reasons
<1>6. /\ \A id \in I : \E x \in A : x.id = id
      /\ \A c \in W : \E x \in B : x.id = c.chunk.id
  <2>1. ASSUME NEW id \in I
        PROVE  \E x \in A : x.id = id
    <3>1. Rejected(id, "not_in_grounding_set", NoId) \in A
      OBVIOUS
    <3>2. Rejected(id, "not_in_grounding_set", NoId).id = id
      BY DEF Rejected
    <3> QED BY <3>1, <3>2
  <2>2. ASSUME NEW c \in W
        PROVE  \E x \in B : x.id = c.chunk.id
    <3>1. Rejected(c.chunk.id, "support_too_weak", NoId) \in B
      OBVIOUS
    <3>2. Rejected(c.chunk.id, "support_too_weak", NoId).id = c.chunk.id
      BY DEF Rejected
    <3> QED BY <3>1, <3>2
  <2> QED BY <2>1, <2>2
<1>7. \A x, y \in Rejections(ids) : x.id = y.id /\ x.why = y.why /\ x.of = y.of => x = y
  BY DEF Rejections
<1> HIDE DEF A, B, b
<1>8. b \subseteq Rejections(ids)
  BY <1>1, <1>4, <1>5
<1>9. \A c, d \in P : c.chunk.id = d.chunk.id => c = d
  BY DEF Citable
<1>10. \A x \in A, y \in B : x.id # y.id
  <2>1. ASSUME NEW x \in A, NEW y \in B
        PROVE  x.id # y.id
    <3>1. PICK c \in W : y.id = c.chunk.id
      BY <1>5
    <3> QED BY <1>3, <1>4, <3>1
  <2> QED BY <2>1
<1>11. \A x, y \in b : x.id = y.id => x = y
  <2>1. ASSUME NEW x \in A, NEW y \in A, x.id = y.id
        PROVE  x = y
    BY <1>4, <1>7, <2>1
  <2>2. ASSUME NEW x \in B, NEW y \in B, x.id = y.id
        PROVE  x = y
    BY <1>5, <1>7, <2>2
  <2> QED BY <1>1, <1>10, <2>1, <2>2
<1>12. \A x \in b, c \in S : x.id # c.chunk.id
  <2>1. ASSUME NEW x \in A, NEW c \in S
        PROVE  x.id # c.chunk.id
    BY <1>3, <1>4
  <2>2. ASSUME NEW x \in B, NEW c \in S
        PROVE  x.id # c.chunk.id
    <3>1. PICK d \in W : x.id = d.chunk.id
      BY <1>5
    <3> QED BY <1>2, <1>3, <1>9, <3>1
  <2> QED BY <1>1, <2>1, <2>2
<1>13. {x.id : x \in b} \cup {c.chunk.id : c \in S} = ids
  <2>1. ASSUME NEW id \in ids
        PROVE  (\E x \in b : x.id = id) \/ \E c \in S : c.chunk.id = id
    <3>1. CASE id \in I
      BY <1>1, <1>6, <3>1
    <3>2. CASE id \notin I
      <4>1. PICK c \in P : id = c.chunk.id
        BY <3>2
      <4> QED BY <1>1, <1>2, <1>6, <4>1
    <3> QED BY <3>1, <3>2
  <2>2. \A x \in b : x.id \in ids
    BY <1>1, <1>3, <1>4, <1>5
  <2>3. \A c \in S : c.chunk.id \in ids
    BY <1>3
  <2> QED BY <2>1, <2>2, <2>3
<1>14. \A x \in b :
         \/ x.why = "not_in_grounding_set" /\ \A c \in P : c.chunk.id # x.id
         \/ x.why = "support_too_weak" /\ \E c \in P : c.chunk.id = x.id
  BY <1>1, <1>3, <1>4, <1>5
<1> QED BY <1>8, <1>11, <1>12, <1>13, <1>14 DEF IsBase, b, S

LEMMA AssembleOf ==
    ASSUME NEW s, IsSelection(s), NEW q, IsQuestion(q), NEW reply, IsFiniteSet(reply), NEW ids
    PROVE  LET P == PreparedFor(ids, s, reply, q)
               n == Assemble(ids, s, reply, q)
           IN  n \in Rounds(StrongOf(P), ids) /\ AccountOf(n, Refused(ids, P), StrongOf(P))
<1> DEFINE P == PreparedFor(ids, s, reply, q)
           S == StrongOf(P)
           b == Refused(ids, P)
           n == Assemble(ids, s, reply, q)
<1>1. n = Cited(ids, P)
  BY Zenon DEF Assemble, PreparedFor
<1>2. Citable(P)
  BY PreparedCitable
<1>3. \A c \in P : c.chunk.id \in ids
  <2>1. ASSUME NEW i \in 1..Len(s), s[i].chunk.id \in ids
        PROVE  Prepared(s[i], i, reply, q).chunk.id \in ids
    BY <2>1, PreparedOf
  <2> QED BY <2>1 DEF PreparedFor
<1> HIDE DEF P, n
<1>4. b \subseteq Rejections(ids) /\ IsBase(b, S)
  BY <1>2, <1>3, RefusedOf
<1>5. S \subseteq P
  BY DEF StrongOf
<1>6. Citable(S) /\ \A c \in S : c.chunk.id \in ids
  <2>1. IsFiniteSet(S)
    BY <1>2, <1>5, FS_Subset DEF Citable
  <2> HIDE DEF S
  <2> QED BY <1>2, <1>3, <1>5, <2>1 DEF Citable
<1>7. Enumerates(InOrder(S, Supported), S)
  BY <1>6, SortedSupport
<1>8. n = FoldLeft(Consider, [citations |-> <<>>, rejected |-> b], InOrder(S, Supported))
  BY <1>1, Zenon DEF Cited, StrongOf
<1> DEFINE o == InOrder(S, Supported)
<1>9. n = FoldLeft(Consider, [citations |-> <<>>, rejected |-> b], o) /\ Enumerates(o, S)
  BY <1>7, <1>8
<1> HIDE DEF S, b, o
<1>10. n \in Rounds(S, ids) /\ AccountOf(n, b, S)
  BY <1>4, <1>6, <1>9, Accounted
<1> QED BY <1>10 DEF S, b, P, n

\* Where a citation comes from.
CitationOf(c, ids, s, reply, q) ==
    \E i \in 1..Len(s) : /\ c = Prepared(s[i], i, reply, q)
                         /\ c.chunk = s[i].chunk /\ c.chunk.id \in ids
                         /\ c.snippet = Snippet(c.chunk.text, reply, q)

\* The account in terms of the ids and the grounding set.
AssembledFrom(n, ids, s, reply, q) ==
    /\ n.citations \in Seq(ToSet(n.citations)) /\ Len(n.citations) <= CitationLimit
    /\ \A c \in ToSet(n.citations) : CitationOf(c, ids, s, reply, q)
    /\ \A c, d \in ToSet(n.citations) : c.chunk.id = d.chunk.id => c = d
    /\ \A i, j \in 1..Len(n.citations) : i < j =>
            n.citations[i] # n.citations[j]
            /\ ~ Redundant(n.citations[i].chunk, n.citations[j].chunk)
    /\ {c.chunk.id : c \in ToSet(n.citations)} \cup {x.id : x \in n.rejected} = ids
    /\ {c.chunk.id : c \in ToSet(n.citations)} \cap {x.id : x \in n.rejected} = {}
    /\ \A x, y \in n.rejected : x.id = y.id => x = y

\* Why an id was rejected, in terms of the citations k.
ReasonOf(x, k, s) ==
    \/ x.why = "not_in_grounding_set" /\ \A c \in ToSet(s) : c.chunk.id # x.id
    \/ x.why = "support_too_weak" /\ \E c \in ToSet(s) : c.chunk.id = x.id
    \/ /\ x.why = "redundant_with"
       /\ \E c \in ToSet(s), e \in ToSet(k) :
            c.chunk.id = x.id /\ e.chunk.id = x.of /\ Redundant(e.chunk, c.chunk)
    \/ /\ x.why = "citation_limit_exceeded" /\ Len(k) = CitationLimit
       /\ \A c \in ToSet(s), e \in ToSet(k) : c.chunk.id = x.id => ~ Redundant(e.chunk, c.chunk)

LEMMA AssembleAccount ==
    ASSUME NEW s, IsSelection(s), NEW q, IsQuestion(q), NEW reply, IsFiniteSet(reply), NEW ids
    PROVE  LET n == Assemble(ids, s, reply, q)
           IN  /\ AssembledFrom(n, ids, s, reply, q)
               /\ \A x \in n.rejected : x.id \in ids /\ ReasonOf(x, n.citations, s)
               /\ (\E c \in PreparedFor(ids, s, reply, q) : c.support >= MinSupport) =>
                        n.citations # <<>>
<1> DEFINE P == PreparedFor(ids, s, reply, q)
           S == StrongOf(P)
           b == Refused(ids, P)
           n == Assemble(ids, s, reply, q)
           k == n.citations
<1>1. n \in Rounds(S, ids) /\ AccountOf(n, b, S)
  BY AssembleOf
<1>2. Citable(P) /\ S \subseteq P
  BY PreparedCitable DEF StrongOf
<1>3. ASSUME NEW c \in P
      PROVE  CitationOf(c, ids, s, reply, q)
  <2>1. PICK i \in 1..Len(s) : c = Prepared(s[i], i, reply, q) /\ s[i].chunk.id \in ids
    BY DEF PreparedFor
  <2>2. c.chunk = s[i].chunk /\ c.snippet = Snippet(s[i].chunk.text, reply, q)
    BY <2>1, PreparedOf
  <2> QED BY <2>1, <2>2 DEF CitationOf
<1>4. \A i \in 1..Len(s) : s[i].chunk.id \in ids =>
        \E c \in P : c.chunk = s[i].chunk
  <2>1. ASSUME NEW i \in 1..Len(s), s[i].chunk.id \in ids
        PROVE  \E c \in P : c.chunk = s[i].chunk
    <3>1. Prepared(s[i], i, reply, q) \in P
      BY <2>1 DEF PreparedFor
    <3>2. Prepared(s[i], i, reply, q).chunk = s[i].chunk
      BY PreparedOf
    <3> QED BY <3>1, <3>2
  <2> QED BY <2>1
<1>5. \A c \in P : c.chunk.id \in ids /\ \E e \in ToSet(s) : e.chunk = c.chunk
  <2>1. \A i \in 1..Len(s) : s[i] \in ToSet(s)
    BY DEF IsSelection, ToSet
  <2> QED BY <1>3, <2>1 DEF CitationOf
<1>6. \A e \in ToSet(s) : e.chunk.id \in ids => \E c \in P : c.chunk = e.chunk
  <2>1. \A e \in ToSet(s) : \E i \in 1..Len(s) : e = s[i]
    BY DEF IsSelection, ToSet
  <2> QED BY <1>4, <2>1
<1> HIDE DEF P, n
<1>7. /\ {x.id : x \in b} \cup {c.chunk.id : c \in S} = ids
      /\ \A x \in b :
            \/ x.why = "not_in_grounding_set" /\ \A c \in P : c.chunk.id # x.id
            \/ x.why = "support_too_weak" /\ \E c \in P : c.chunk.id = x.id
  BY <1>2, <1>5, RefusedOf
<1> HIDE DEF S, b
<1>8. /\ k \in Seq(S) /\ ToSet(k) \subseteq S
  BY <1>1 DEF Rounds, AccountOf
<1>9. k \in Seq(ToSet(k))
  BY <1>8 DEF ToSet
<1>10. AssembledFrom(n, ids, s, reply, q)
  <2>1. \A c \in ToSet(k) : CitationOf(c, ids, s, reply, q)
    BY <1>2, <1>3, <1>8
  <2>2. \A c, d \in ToSet(k) : c.chunk.id = d.chunk.id => c = d
    BY <1>2, <1>8 DEF Citable
  <2>3. {c.chunk.id : c \in ToSet(k)} \cup {x.id : x \in n.rejected} = ids
    BY <1>1, <1>7 DEF AccountOf, IdsIn
  <2>4. {c.chunk.id : c \in ToSet(k)} \cap {x.id : x \in n.rejected} = {}
    BY <1>1 DEF AccountOf
  <2> QED BY <1>1, <1>9, <2>1, <2>2, <2>3, <2>4 DEF AssembledFrom, AccountOf
<1>11. ASSUME NEW x \in n.rejected
       PROVE  x.id \in ids /\ ReasonOf(x, k, s)
  <2>1. x.id \in ids
    BY <1>10 DEF AssembledFrom
  <2>2. CASE x \in b
    <3>1. CASE x.why = "not_in_grounding_set" /\ \A c \in P : c.chunk.id # x.id
      BY <1>6, <2>1, <3>1 DEF ReasonOf
    <3>2. CASE x.why = "support_too_weak" /\ \E c \in P : c.chunk.id = x.id
      BY <1>5, <3>2 DEF ReasonOf
    <3> QED BY <1>7, <2>1, <2>2, <3>1, <3>2
  <2>3. CASE x \notin b
    <3>1. PICK c \in S : RejectedFor(x, c, k)
      BY <1>1, <2>3 DEF AccountOf
    <3>2. c \in P /\ x.id = c.chunk.id
      BY <1>2, <3>1 DEF RejectedFor
    <3>3. PICK e \in ToSet(s) : e.chunk = c.chunk
      BY <1>5, <3>2
    <3>4. \A d \in ToSet(s) : d.chunk.id = x.id => d.chunk = c.chunk
      BY <1>2, <1>6, <2>1, <3>2 DEF Citable
    <3>5. CASE /\ x.why = "redundant_with"
               /\ \E d \in ToSet(k) : d.chunk.id = x.of /\ Redundant(d.chunk, c.chunk)
      BY <2>1, <3>2, <3>3, <3>5 DEF ReasonOf
    <3>6. CASE /\ x.why = "citation_limit_exceeded" /\ Len(k) = CitationLimit
               /\ \A d \in ToSet(k) : ~ Redundant(d.chunk, c.chunk)
      BY <2>1, <3>4, <3>6 DEF ReasonOf
    <3>7. ReasonOf(x, k, s)
      BY <3>1, <3>5, <3>6 DEF RejectedFor
    <3> QED BY <2>1, <3>7
  <2> QED BY <2>2, <2>3
<1>12. (\E c \in P : c.support >= MinSupport) => k # <<>>
  BY <1>1 DEF AccountOf, S, StrongOf
<1> QED BY <1>10, <1>11, <1>12 DEF P, n

-----------------------------------------------------------------------------
(* What is answered                                                        *)

LEMMA BetterIsHigher ==
    ASSUME NEW c, NEW d, SortKey(c) \in [1..7 -> Int], SortKey(d) \in [1..7 -> Int], Better(c, d)
    PROVE  d.hybrid <= c.hybrid
<1> DEFINE k == SortKey(c)
           l == SortKey(d)
<1>1. Len(k) = 7 /\ k[1] = c.hybrid /\ l[1] = d.hybrid
  BY DEF SortKey
<1>2. k[1] \in Int /\ l[1] \in Int
  OBVIOUS
<1> HIDE DEF k, l
<1>3. PICK i \in 1..7 : k[i] > l[i] /\ \A j \in 1..(i - 1) : k[j] = l[j]
  BY <1>1 DEF Better, Precedes, k, l
<1>4. CASE i = 1
  BY <1>1, <1>2, <1>3, <1>4
<1>5. CASE i # 1
  <2>1. 1 \in 1..(i - 1)
    BY <1>5
  <2> QED BY <1>1, <1>2, <1>3, <2>1
<1> QED BY <1>4, <1>5

LEMMA SelectedIs ==
    ASSUME Searched
    PROVE  /\ IsSelection(selected) /\ \A c \in ToSet(selected) : c.chunk \in corpus
           /\ IsQuestion(question) /\ IsFiniteSet(corpus)
<1>1. /\ IsQuestion(question) /\ IsFiniteSet(corpus) /\ \A c \in corpus : IsChunk(c)
  BY EvidenceAssumption DEF Searched, IsQuestion
<1>2. CASE pc \in Searching \/ question.blank
  <2>1. selected = <<>>
    BY <1>2 DEF Searched
  <2>2. ToSet(<<>>) = {} /\ Len(<<>>) = 0 /\ <<>> \in Seq({}) /\ 1..0 = {}
    BY DEF ToSet
  <2>3. IsSelection(<<>>)
    BY <2>2 DEF IsSelection
  <2> QED BY <1>1, <2>1, <2>2, <2>3
<1>3. CASE ~ (pc \in Searching \/ question.blank)
  <2> DEFINE C == Candidates(semantic, lexical, question)
  <2>1. pc \in {"retrieved", "done"} /\ ~ question.blank
    BY <1>3 DEF Searched
  <2>2. Chosen(C)
    BY <2>1, SelectionChosen
  <2> HIDE DEF C
  <2>3. /\ Sortable(C) /\ \A c \in C : c.chunk \in corpus /\ c.hybrid \in Nat
        /\ selected \in Seq(C) /\ Descending(selected) /\ WithoutRepeats(selected)
    BY <2>2 DEF Chosen, GroundingOf
  <2>4. /\ ToSet(selected) \subseteq C /\ selected \in Seq(ToSet(selected))
        /\ \A i \in 1..Len(selected) : selected[i] \in C
    BY <2>3 DEF ToSet
  <2>5. ASSUME NEW i \in 1..Len(selected), NEW j \in 1..Len(selected), i < j
        PROVE  /\ selected[i].chunk.id # selected[j].chunk.id
               /\ selected[j].hybrid <= selected[i].hybrid
    <3>1. selected[i].chunk.id # selected[j].chunk.id
      BY <2>3, <2>5 DEF WithoutRepeats, Repeats
    <3>2. Better(selected[i], selected[j])
      BY <2>3, <2>5 DEF Descending
    <3>3. SortKey(selected[i]) \in [1..7 -> Int] /\ SortKey(selected[j]) \in [1..7 -> Int]
      BY <2>3, <2>4 DEF Sortable
    <3> QED BY <3>1, <3>2, <3>3, BetterIsHigher
  <2>6. \A c \in ToSet(selected) : IsChunk(c.chunk) /\ c.hybrid \in Nat /\ c.chunk \in corpus
    BY <1>1, <2>3, <2>4
  <2>7. IsSelection(selected)
    BY <2>4, <2>5, <2>6 DEF IsSelection
  <2> QED BY <1>1, <2>6, <2>7
<1> QED BY <1>2, <1>3

\* The terms that the answer may have had before its citations were asked for.
AnswerTerms == IF local THEN {LocalAnswer(selected, question).answer} ELSE Answers

RepliedWith(terms) ==
    LET result == Assemble(used, selected, terms, question) IN
    /\ citations = result.citations /\ rejected = result.rejected
    /\ answer = IF result.citations = <<>> THEN {} ELSE terms
    /\ status = Finalized("grounded", result.citations)

NoReply == local = FALSE /\ used = {} /\ citations = <<>> /\ rejected = {}

\* A refusal has no citations; an answer has those that are assembled for it,
\* and was asked for with enough evidence only.
Replied ==
    /\ pc # "done" => NoReply
    /\ pc = "done" =>
        \/ NoReply /\ status \in Statuses \ {"grounded"}
        \/ /\ corpus # {} /\ ~ TooWeak /\ IsFiniteSet(used)
           /\ local \in BOOLEAN
           /\ local => caller = "chat" /\ used = LocalAnswer(selected, question).used
           /\ \E terms \in AnswerTerms : IsFiniteSet(terms) /\ RepliedWith(terms)

LEMMA RepliedInit == EvidenceInit => Replied
BY DEF EvidenceInit, Replied, NoReply

LEMMA FinishReplies ==
    ASSUME NEW ids, IsFiniteSet(ids), NEW terms, IsFiniteSet(terms), Enough, Cite(ids, terms),
           local' \in BOOLEAN,
           IF local' THEN /\ caller = "chat" /\ ids = LocalAnswer(selected, question).used
                          /\ terms = LocalAnswer(selected, question).answer
           ELSE terms \in Answers
    PROVE  Replied'
<1> DEFINE result == Assemble(ids, selected, terms, question)
<1>1. Finish(ids, terms, result)
  BY DEF Cite
<1>2. pc' = "done" /\ corpus' # {} /\ used' = ids /\ selected' = selected /\ question' = question
  BY <1>1 DEF Finish, Enough, Goto, searchVars
<1>3. ~ TooWeak'
  BY <1>1 DEF Finish, Enough, searchVars, TooWeak, TopScore, Threshold
<1>4. RepliedWith(terms)'
  <2>1. citations' = result.citations /\ rejected' = result.rejected
        /\ answer' = (IF result.citations = <<>> THEN {} ELSE terms)
        /\ status' = Finalized("grounded", result.citations)
    BY <1>1 DEF Finish
  <2>2. result = Assemble(used', selected', terms, question')
    BY <1>2
  <2> HIDE DEF result
  <2> QED BY <2>1, <2>2 DEF RepliedWith
<1>5. terms \in AnswerTerms'
  BY <1>2 DEF AnswerTerms
<1>6. local' => caller' = "chat" /\ used' = LocalAnswer(selected', question').used
  BY <1>1, <1>2 DEF Finish, searchVars
<1> QED BY <1>2, <1>3, <1>4, <1>5, <1>6 DEF Replied

LEMMA RepliedStep == Searched /\ Replied /\ [EvidenceNext]_evidenceVars => Replied'
<1> SUFFICES ASSUME Searched, Replied, [EvidenceNext]_evidenceVars
             PROVE  Replied'
  OBVIOUS
<1>1. IsSelection(selected) /\ IsQuestion(question) /\ IsFiniteSet(corpus)
  BY SelectedIs
<1>2. CASE SkipEmpty
  BY <1>2 DEF SkipEmpty, Goto, replyVars, Replied, NoReply
<1>3. CASE FetchSemantic
  BY <1>3 DEF FetchSemantic, Goto, replyVars, Replied, NoReply
<1>4. CASE FetchLexical
  BY <1>4 DEF FetchLexical, Goto, replyVars, Replied, NoReply
<1>5. CASE Rank
  BY <1>5 DEF Rank, Goto, replyVars, Replied, NoReply
<1>6. CASE RefuseUnindexed
  BY <1>6 DEF RefuseUnindexed, Refuse, Goto, Replied, NoReply, Statuses
<1>7. CASE RefuseWeak
  BY <1>7 DEF RefuseWeak, Refuse, Goto, Replied, NoReply, Statuses
<1>8. CASE ModelRefuses
  BY <1>8 DEF ModelRefuses, Enough, Goto, Replied, NoReply
<1>9. CASE ModelAnswers
  <2>1. PICK ids \in SUBSET ({c.id : c \in corpus} \cup {UnknownId}), terms \in Answers :
          Cite(ids, terms)
    BY <1>9 DEF ModelAnswers
  <2>2. Enough /\ pc = "retrieved" /\ local' = local
    BY <1>9 DEF ModelAnswers, Enough
  <2>3. local' = FALSE
    BY <2>2 DEF Replied, NoReply
  <2>4. IsFiniteSet({c.id : c \in corpus})
    <3> DEFINE f == [c \in corpus |-> c.id]
    <3>1. {c.id : c \in corpus} = {f[c] : c \in corpus}
      OBVIOUS
    <3> HIDE DEF f
    <3> QED BY ZenonT(30), <1>1, <3>1, ImageFinite
  <2>5. IsFiniteSet(ids)
    <3>1. IsFiniteSet({c.id : c \in corpus} \cup {UnknownId})
      BY <2>4, FS_AddElement
    <3> QED BY <2>1, <3>1, FS_Subset
  <2>6. IsFiniteSet(terms)
    BY EvidenceAssumption
  <2> QED BY <2>1, <2>2, <2>3, <2>5, <2>6, FinishReplies
<1>10. CASE LocalAnswers
  <2> DEFINE given == LocalAnswer(selected, question)
  <2>1. Enough /\ caller = "chat" /\ local' = TRUE /\ Cite(given.used, given.answer)
    BY <1>10 DEF LocalAnswers
  <2>2. IsFiniteSet(given.used) /\ IsFiniteSet(given.answer)
    <3>1. \A c \in ToSet(selected) : IsText(c.chunk.text) /\ Len(c.chunk.text) > 0
      <4>1. ASSUME NEW c \in ToSet(selected)
            PROVE  IsText(c.chunk.text) /\ Len(c.chunk.text) > 0
        <5>1. IsText(c.chunk.text) /\ c.chunk.text # <<>>
          BY <1>1 DEF IsSelection, IsChunk
        <5> QED BY <5>1 DEF IsText
      <4> QED BY <4>1
    <3>2. selected \in Seq(ToSet(selected))
      BY <1>1 DEF IsSelection
    <3> QED BY <1>1, <3>1, <3>2, LocalAnswerFinite
  <2> HIDE DEF given
  <2>3. given = LocalAnswer(selected, question)
    BY DEF given
  <2> QED BY <2>1, <2>2, <2>3, FinishReplies
<1>11. CASE UNCHANGED evidenceVars
  <2>1. /\ pc' = pc /\ caller' = caller /\ question' = question /\ corpus' = corpus
        /\ semantic' = semantic /\ lexical' = lexical /\ selected' = selected
        /\ local' = local /\ used' = used /\ answer' = answer /\ status' = status
        /\ citations' = citations /\ rejected' = rejected
    BY <1>11 DEF evidenceVars, searchVars, replyVars
  <2> QED BY <2>1 DEF Replied, NoReply, TooWeak, TopScore, Threshold, AnswerTerms, RepliedWith
<1> QED BY <1>2, <1>3, <1>4, <1>5, <1>6, <1>7, <1>8, <1>9, <1>10, <1>11 DEF EvidenceNext

\* What is cited and replied is what assemble and finalizeAnswer make of the
\* selection and the ids of the answer, and a refusal cites nothing (Searched
\* and Replied are the inductive invariant).
THEOREM ReplyInductive == EvidenceSpec => [](Searched /\ Replied)
<1>1. EvidenceInit => Searched /\ Replied
  BY SearchedInit, RepliedInit
<1>2. Searched /\ Replied /\ [EvidenceNext]_evidenceVars => (Searched /\ Replied)'
  BY SearchedStep, RepliedStep
<1> QED BY <1>1, <1>2, PTL DEF EvidenceSpec

\* A set that an inverse is known of.
LEMMA SameNumber ==
    ASSUME NEW S, IsFiniteSet(S), NEW f, \A x, y \in S : f[x] = f[y] => x = y
    PROVE  /\ IsFiniteSet({f[x] : x \in S})
           /\ Cardinality({f[x] : x \in S}) = Cardinality(S)
<1> DEFINE T == {f[x] : x \in S}
           g == [t \in T |-> CHOOSE x \in S : f[x] = t]
<1>1. IsFiniteSet(T) /\ Cardinality(T) <= Cardinality(S)
  BY ImageFinite
<1>2. \A x \in S : g[f[x]] = x
  <2>1. ASSUME NEW x \in S
        PROVE  g[f[x]] = x
    <3>1. f[x] \in T /\ g[f[x]] = CHOOSE y \in S : f[y] = f[x]
      OBVIOUS
    <3>2. g[f[x]] \in S /\ f[g[f[x]]] = f[x]
      <4> HIDE DEF g
      <4> QED BY <3>1
    <3> HIDE DEF g
    <3> QED BY <3>2
  <2> QED BY <2>1
<1> HIDE DEF g
<1>3. {g[t] : t \in T} = S
  <2>1. \A t \in T : g[t] \in S
    BY <1>2
  <2>2. \A x \in S : \E t \in T : x = g[t]
    BY <1>2
  <2> QED BY <2>1, <2>2
<1>4. Cardinality({g[t] : t \in T}) <= Cardinality(T)
  <2> HIDE DEF T
  <2> QED BY <1>1, ImageFinite
<1>5. Cardinality(S) <= Cardinality(T)
  BY <1>3, <1>4
<1>6. Cardinality(S) \in Nat /\ Cardinality(T) \in Nat
  BY <1>1, FS_CardinalityType
<1>7. Cardinality(T) = Cardinality(S)
  <2> HIDE DEF T
  <2> QED BY <1>1, <1>5, <1>6
<1> QED BY <1>1, <1>7

\* As many rejections as rejected ids.
LEMMA RejectedNumber ==
    ASSUME NEW R, NEW ids, IsFiniteSet(ids), \A x \in R : x.id \in ids,
           \A x, y \in R : x.id = y.id => x = y
    PROVE  IsFiniteSet(R) /\ Cardinality(R) = Cardinality({x.id : x \in R})
<1> DEFINE J == {x.id : x \in R}
           f == [i \in J |-> CHOOSE x \in R : x.id = i]
<1>1. IsFiniteSet(J)
  <2>1. J \subseteq ids
    OBVIOUS
  <2> QED BY <2>1, FS_Subset
<1>2. \A x \in R : x.id \in J /\ f[x.id] = x
  <2>1. ASSUME NEW x \in R
        PROVE  f[x.id] = x
    <3>1. f[x.id] = CHOOSE y \in R : y.id = x.id
      OBVIOUS
    <3> HIDE DEF f
    <3>2. f[x.id] \in R /\ f[x.id].id = x.id
      BY <3>1
    <3> QED BY <3>2
  <2> QED BY <2>1
<1>3. \A i \in J : \E x \in R : i = x.id
  OBVIOUS
<1> HIDE DEF f, J
<1>4. {f[i] : i \in J} = R
  <2>1. \A i \in J : f[i] \in R
    BY <1>2, <1>3
  <2>2. \A x \in R : \E i \in J : x = f[i]
    BY <1>2
  <2> QED BY <2>1, <2>2
<1>5. \A i, j \in J : f[i] = f[j] => i = j
  BY <1>2, <1>3
<1>6. IsFiniteSet({f[i] : i \in J}) /\ Cardinality({f[i] : i \in J}) = Cardinality(J)
  BY <1>1, <1>5, SameNumber
<1> QED BY <1>4, <1>6 DEF J

\* As many citations as cited ids and cited chunks.
LEMMA CitedNumber ==
    ASSUME NEW n, NEW ids, IsFiniteSet(ids), NEW s, NEW reply, NEW q,
           AssembledFrom(n, ids, s, reply, q)
    PROVE  /\ IsFiniteSet(ToSet(n.citations)) /\ Len(n.citations) \in Nat
           /\ Cardinality(ToSet(n.citations)) = Len(n.citations)
           /\ Cardinality({c.chunk : c \in ToSet(n.citations)}) = Len(n.citations)
           /\ Cardinality({c.chunk.id : c \in ToSet(n.citations)}) = Len(n.citations)
           /\ IsFiniteSet(n.rejected)
           /\ Len(n.citations) + Cardinality(n.rejected) = Cardinality(ids)
<1> DEFINE k == n.citations
           K == ToSet(k)
           A == {c.chunk.id : c \in K}
           B == {x.id : x \in n.rejected}
<1>1. /\ k \in Seq(K) /\ \A c, d \in K : c.chunk.id = d.chunk.id => c = d
      /\ \A i, j \in 1..Len(k) : i < j => k[i] # k[j]
      /\ A \cup B = ids /\ A \cap B = {}
      /\ \A x, y \in n.rejected : x.id = y.id => x = y
  BY DEF AssembledFrom
<1>2. Len(k) \in Nat /\ B \subseteq ids /\ A \subseteq ids
  BY <1>1
<1> HIDE DEF k
<1>3. IsFiniteSet(K) /\ Cardinality(K) = Len(k)
  BY <1>1, LengthIsSize
<1> HIDE DEF K
<1>4. Cardinality({c.chunk : c \in K}) = Cardinality(K)
  BY <1>1, <1>3, ChunksOf
<1>5. Cardinality(A) = Cardinality(K)
  <2> DEFINE f == [c \in K |-> c.chunk.id]
  <2>1. {f[c] : c \in K} = A /\ \A c, d \in K : f[c] = f[d] => c = d
    BY <1>1
  <2> HIDE DEF f, A
  <2> QED BY <1>3, <2>1, SameNumber
<1>6. \A x \in n.rejected : x.id \in ids
  BY <1>2
<1>7. IsFiniteSet(n.rejected) /\ Cardinality(n.rejected) = Cardinality(B)
  BY <1>1, <1>6, RejectedNumber
<1> HIDE DEF A, B
<1>8. Cardinality(A) + Cardinality(B) = Cardinality(ids)
  <2>1. IsFiniteSet(A) /\ IsFiniteSet(B)
    BY <1>2, FS_Subset
  <2>2. Cardinality(A \cup B) = Cardinality(A) + Cardinality(B) - Cardinality(A \cap B)
    BY <2>1, FS_Union
  <2>3. Cardinality(A \cap B) = 0
    BY <1>1, FS_EmptySet
  <2>4. Cardinality(A) \in Nat /\ Cardinality(B) \in Nat
    BY <2>1, FS_CardinalityType
  <2>5. Cardinality(A \cup B) = Cardinality(ids)
    BY <1>1
  <2>6. Cardinality(A \cup B) = Cardinality(A) + Cardinality(B) - 0
    BY <2>2, <2>3
  <2> DEFINE a == Cardinality(A)
             b == Cardinality(B)
             m == Cardinality(ids)
  <2>7. a \in Nat /\ b \in Nat /\ m = a + b - 0
    BY <2>4, <2>5, <2>6
  <2> HIDE DEF a, b, m
  <2>8. a + b = m
    BY <2>7
  <2> QED BY <2>8 DEF a, b, m
<1> QED BY <1>2, <1>3, <1>4, <1>5, <1>7, <1>8 DEF k, K, A

\* The ways a request can have ended.
AnsweredBy(terms) ==
    LET n == Assemble(used, selected, terms, question) IN
    /\ RepliedWith(terms) /\ IsFiniteSet(terms) /\ terms \in AnswerTerms
    /\ corpus # {} /\ ~ TooWeak /\ IsFiniteSet(used)
    /\ AssembledFrom(n, used, selected, terms, question)
    /\ \A x \in n.rejected : x.id \in used /\ ReasonOf(x, n.citations, selected)
    /\ (\E c \in PreparedFor(used, selected, terms, question) : c.support >= MinSupport) =>
            n.citations # <<>>

LEMMA Ended ==
    ASSUME Searched, Replied, pc = "done"
    PROVE  \/ NoReply /\ status \in Statuses \ {"grounded"}
           \/ \E terms : AnsweredBy(terms)
<1>1. CASE NoReply /\ status \in Statuses \ {"grounded"}
  BY <1>1
<1>2. CASE ~ (NoReply /\ status \in Statuses \ {"grounded"})
  <2>1. /\ corpus # {} /\ ~ TooWeak /\ IsFiniteSet(used)
        /\ \E terms \in AnswerTerms : IsFiniteSet(terms) /\ RepliedWith(terms)
    BY <1>2 DEF Replied
  <2>2. PICK terms \in AnswerTerms : IsFiniteSet(terms) /\ RepliedWith(terms)
    BY <2>1
  <2>3. IsSelection(selected) /\ IsQuestion(question)
    BY SelectedIs
  <2> DEFINE n == Assemble(used, selected, terms, question)
  <2>4. /\ AssembledFrom(n, used, selected, terms, question)
        /\ \A x \in n.rejected : x.id \in used /\ ReasonOf(x, n.citations, selected)
        /\ (\E c \in PreparedFor(used, selected, terms, question) : c.support >= MinSupport) =>
                n.citations # <<>>
    BY <2>2, <2>3, AssembleAccount
  <2>5. AnsweredBy(terms)
    BY <2>1, <2>2, <2>4 DEF AnsweredBy
  <2> QED BY <2>5
<1> QED BY <1>1, <1>2

LEMMA NothingCited == NoReply /\ status \in Statuses \ {"grounded"} => CitationsAccounted
<1> SUFFICES ASSUME NoReply, status \in Statuses \ {"grounded"}
             PROVE  CitationsAccounted
  OBVIOUS
<1> DEFINE inSet == {c.chunk : c \in ToSet(selected)}
           U == AsChunks({e \in inSet : e.id \in used})
           V == AsChunks(inSet)
<1>1. ToSet(<<>>) = {} /\ Len(<<>>) = 0
  BY DEF ToSet
<1>2. /\ {c.chunk : c \in ToSet(citations)} = {} /\ Len(citations) = 0
      /\ rejected = {} /\ used = {} /\ citations = <<>> /\ status # "grounded"
  BY <1>1 DEF NoReply
<1>3. Cardinality({}) = 0
  BY FS_EmptySet
<1>4. AsChunks({}) \in Corpus!CitationsFrom(U, V)
  <2>1. AsChunks({}) = {} /\ Corpus!Cardinality({}) = 0
    BY <1>3, SameSize DEF AsChunks
  <2>2. 0 <= CitationLimit
    BY CitingAssumption
  <2> HIDE DEF U, V
  <2> QED BY <2>1, <2>2 DEF Corpus!CitationsFrom
<1> HIDE DEF U, V
<1>5. CitationsAccounted <=>
        (Done => /\ {e.id : e \in {c.chunk : c \in ToSet(citations)}} \cup {r.id : r \in rejected} = used
                 /\ Len(citations) + Cardinality(rejected) = Cardinality(used)
                 /\ AsChunks({c.chunk : c \in ToSet(citations)}) \in Corpus!CitationsFrom(U, V)
                 /\ \A d, e \in {c.chunk : c \in ToSet(citations)} : d # e => ~ Redundant(d, e)
                 /\ \A r \in rejected : ReasonHolds(r, {c.chunk : c \in ToSet(citations)})
                 /\ status = "grounded" <=> citations # <<>>)
  BY Zenon DEF CitationsAccounted, U, V
<1>6. {e.id : e \in {c.chunk : c \in ToSet(citations)}} \cup {r.id : r \in rejected} = used
  BY <1>2
<1>7. Len(citations) + Cardinality(rejected) = Cardinality(used)
  BY <1>2, <1>3
<1>8. AsChunks({c.chunk : c \in ToSet(citations)}) \in Corpus!CitationsFrom(U, V)
  BY <1>2, <1>4
<1>9. /\ \A d, e \in {c.chunk : c \in ToSet(citations)} : d # e => ~ Redundant(d, e)
      /\ \A r \in rejected : ReasonHolds(r, {c.chunk : c \in ToSet(citations)})
      /\ status = "grounded" <=> citations # <<>>
  BY <1>2
<1> QED BY <1>5, <1>6, <1>7, <1>8, <1>9

\* The chunks of the citations are some of the corpus.
LEMMA CitedChunks ==
    ASSUME Searched, NEW terms, AnsweredBy(terms)
    PROVE  LET cited == {c.chunk : c \in ToSet(citations)}
           IN  /\ \A c \in ToSet(citations) :
                    /\ c.chunk \in {e.chunk : e \in ToSet(selected)} /\ c.chunk.id \in used
                    /\ IsChunk(c.chunk) /\ c.chunk \in corpus
                    /\ c.snippet = Snippet(c.chunk.text, terms, question)
               /\ cited \subseteq {e.chunk : e \in ToSet(selected)} /\ cited \in SUBSET corpus
               /\ Cardinality(cited) = Len(citations) /\ Len(citations) \in Nat
               /\ Len(citations) <= CitationLimit
               /\ Len(citations) + Cardinality(rejected) = Cardinality(used)
<1> DEFINE n == Assemble(used, selected, terms, question)
<1>1. /\ AssembledFrom(n, used, selected, terms, question) /\ IsFiniteSet(used)
      /\ citations = n.citations /\ rejected = n.rejected
  BY DEF AnsweredBy, RepliedWith
<1>2. IsSelection(selected) /\ \A c \in ToSet(selected) : c.chunk \in corpus
  BY SelectedIs
<1> HIDE DEF n
<1>3. ASSUME NEW c \in ToSet(citations)
      PROVE  /\ c.chunk \in {e.chunk : e \in ToSet(selected)} /\ c.chunk.id \in used
             /\ IsChunk(c.chunk) /\ c.chunk \in corpus
             /\ c.snippet = Snippet(c.chunk.text, terms, question)
  <2>1. PICK i \in 1..Len(selected) : /\ c.chunk = selected[i].chunk /\ c.chunk.id \in used
                                      /\ c.snippet = Snippet(c.chunk.text, terms, question)
    BY <1>1 DEF AssembledFrom, CitationOf
  <2>2. selected[i] \in ToSet(selected)
    BY <1>2 DEF IsSelection, ToSet
  <2> QED BY <1>2, <2>1, <2>2 DEF IsSelection
<1>4. /\ Cardinality({c.chunk : c \in ToSet(citations)}) = Len(citations)
      /\ Len(citations) \in Nat
      /\ Len(citations) + Cardinality(rejected) = Cardinality(used)
  BY <1>1, CitedNumber
<1>5. Len(citations) <= CitationLimit
  BY <1>1 DEF AssembledFrom
<1> QED BY <1>3, <1>4, <1>5

LEMMA ReasonsHold ==
    ASSUME Searched, NEW terms, AnsweredBy(terms), NEW x \in rejected
    PROVE  ReasonHolds(x, {c.chunk : c \in ToSet(citations)})
<1> DEFINE cited == {c.chunk : c \in ToSet(citations)}
<1>1. ReasonOf(x, citations, selected)
  BY DEF AnsweredBy, RepliedWith
<1>2. Cardinality(cited) = Len(citations)
  BY CitedChunks
<1>3. CASE x.why = "not_in_grounding_set" /\ \A c \in ToSet(selected) : c.chunk.id # x.id
  BY <1>3 DEF ReasonHolds
<1>4. CASE x.why = "support_too_weak" /\ \E c \in ToSet(selected) : c.chunk.id = x.id
  BY <1>4 DEF ReasonHolds
<1>5. CASE /\ x.why = "redundant_with"
           /\ \E c \in ToSet(selected), e \in ToSet(citations) :
                c.chunk.id = x.id /\ e.chunk.id = x.of /\ Redundant(e.chunk, c.chunk)
  <2>1. \E c \in ToSet(selected), e \in cited :
            c.chunk.id = x.id /\ e.id = x.of /\ Redundant(e, c.chunk)
    BY <1>5
  <2> HIDE DEF cited
  <2>2. ReasonHolds(x, cited)
    BY <1>5, <2>1 DEF ReasonHolds
  <2> QED BY <2>2 DEF cited
<1>6. CASE /\ x.why = "citation_limit_exceeded" /\ Len(citations) = CitationLimit
           /\ \A c \in ToSet(selected), e \in ToSet(citations) :
                c.chunk.id = x.id => ~ Redundant(e.chunk, c.chunk)
  <2>1. Cardinality(cited) = CitationLimit /\ \A c \in ToSet(selected), e \in cited :
            c.chunk.id = x.id => ~ Redundant(e, c.chunk)
    BY <1>2, <1>6
  <2> HIDE DEF cited
  <2>2. ReasonHolds(x, cited)
    BY <1>6, <2>1 DEF ReasonHolds
  <2> QED BY <2>2 DEF cited
<1> QED BY <1>1, <1>3, <1>4, <1>5, <1>6 DEF ReasonOf

LEMMA AnswerAccounted ==
    ASSUME Searched, NEW terms, AnsweredBy(terms)
    PROVE  CitationsAccounted
<1> DEFINE n == Assemble(used, selected, terms, question)
           cited == {c.chunk : c \in ToSet(citations)}
           inSet == {c.chunk : c \in ToSet(selected)}
           U == AsChunks({e \in inSet : e.id \in used})
           V == AsChunks(inSet)
<1>1. /\ AssembledFrom(n, used, selected, terms, question)
      /\ citations = n.citations /\ rejected = n.rejected
      /\ status = Finalized("grounded", citations)
  BY DEF AnsweredBy, RepliedWith
<1> HIDE DEF n
<1>2. /\ {e.id : e \in cited} \cup {r.id : r \in rejected} = used
      /\ Len(citations) + Cardinality(rejected) = Cardinality(used)
  <2>1. {e.id : e \in cited} = {c.chunk.id : c \in ToSet(citations)}
    OBVIOUS
  <2>2. {c.chunk.id : c \in ToSet(citations)} \cup {r.id : r \in rejected} = used
    BY <1>1 DEF AssembledFrom
  <2>3. Len(citations) + Cardinality(rejected) = Cardinality(used)
    BY CitedChunks
  <2> HIDE DEF cited
  <2> QED BY <2>1, <2>2, <2>3
<1>3. AsChunks(cited) \in Corpus!CitationsFrom(U, V)
  <2>1. cited \subseteq inSet /\ \A e \in cited : e.id \in used
    BY CitedChunks
  <2>2. AsChunks(cited) \subseteq U \cap V
    <3> HIDE DEF cited, inSet
    <3> QED BY <2>1 DEF AsChunks
  <2>3. Cardinality(AsChunks(cited)) = Cardinality(cited)
    <3>1. corpus \in Corpora /\ cited \in SUBSET corpus
      BY CitedChunks DEF Searched
    <3> HIDE DEF cited
    <3> QED BY <3>1, ChunksApart
  <2>4. Cardinality(cited) <= CitationLimit
    BY CitedChunks
  <2> HIDE DEF cited, U, V
  <2>5. Corpus!Cardinality(AsChunks(cited)) <= CitationLimit
    BY <2>3, <2>4, SameSize
  <2> QED BY <2>2, <2>5 DEF Corpus!CitationsFrom
<1>4. \A d, e \in cited : d # e => ~ Redundant(d, e)
  <2>1. ASSUME NEW c \in ToSet(citations), NEW d \in ToSet(citations), c.chunk # d.chunk
        PROVE  ~ Redundant(c.chunk, d.chunk)
    <3>1. PICK i \in 1..Len(citations), j \in 1..Len(citations) :
            c = citations[i] /\ d = citations[j]
      BY <1>1 DEF AssembledFrom, ToSet
    <3>2. Len(citations) \in Nat
      BY CitedChunks
    <3>3. i < j \/ j < i
      BY <2>1, <3>1, <3>2
    <3>4. ~ Redundant(c.chunk, d.chunk) \/ ~ Redundant(d.chunk, c.chunk)
      BY <1>1, <3>1, <3>3 DEF AssembledFrom
    <3>5. IsChunk(c.chunk) /\ IsChunk(d.chunk)
      BY CitedChunks
    <3> QED BY <3>4, <3>5, Mirrored
  <2> QED BY <2>1
<1>5. \A r \in rejected : ReasonHolds(r, cited)
  BY ReasonsHold
<1>6. status = "grounded" <=> citations # <<>>
  BY <1>1 DEF Finalized
<1>7. CitationsAccounted <=>
        (Done => /\ {e.id : e \in cited} \cup {r.id : r \in rejected} = used
                 /\ Len(citations) + Cardinality(rejected) = Cardinality(used)
                 /\ AsChunks(cited) \in Corpus!CitationsFrom(U, V)
                 /\ \A d, e \in cited : d # e => ~ Redundant(d, e)
                 /\ \A r \in rejected : ReasonHolds(r, cited)
                 /\ status = "grounded" <=> citations # <<>>)
  BY Zenon DEF CitationsAccounted
<1> HIDE DEF cited, U, V
<1> QED BY <1>2, <1>3, <1>4, <1>5, <1>6, <1>7

\* Every id that an answer names is cited or rejected once and for a reason
\* that holds, no two citations repeat each other, and an answer is grounded
\* exactly when it has citations (assemble and finalizeAnswer).
THEOREM EveryIdAccounted == EvidenceSpec => []CitationsAccounted
<1>1. Searched /\ Replied => CitationsAccounted
  <2>1. ASSUME Searched, Replied, pc = "done"
        PROVE  CitationsAccounted
    BY <2>1, Ended, NothingCited, AnswerAccounted
  <2>2. pc # "done" => CitationsAccounted
    BY DEF CitationsAccounted, Done
  <2> QED BY <2>1, <2>2
<1> QED BY <1>1, ReplyInductive, PTL

LEMMA SnippetsShow ==
    ASSUME Searched, NEW terms, AnsweredBy(terms)
    PROVE  SnippetShowsTheMatch
<1>1. SUFFICES ASSUME NEW i \in DOMAIN citations
               PROVE  LET text == citations[i].chunk.text
                          all == answer \cup question.tokens
                          snippet == citations[i].snippet
                      IN  /\ TermsOf(text) \cap all # {} =>
                                \/ Anchors(text, snippet, all) # {}
                                \/ \E k \in snippet[1]..snippet[2] :
                                     k \in PhrasesAt(text, <<1, Len(text)>>, question.phrases)
                          /\ LengthOf(text, snippet) <=
                                SnippetLimit + text[snippet[1]].len + text[snippet[2]].len
  BY DEF SnippetShowsTheMatch
<1> DEFINE text == citations[i].chunk.text
           all == answer \cup question.tokens
           s == citations[i].snippet
<1>2. /\ AssembledFrom(Assemble(used, selected, terms, question), used, selected, terms, question)
      /\ citations = Assemble(used, selected, terms, question).citations
      /\ answer = IF citations = <<>> THEN {} ELSE terms
      /\ IsFiniteSet(terms)
  BY DEF AnsweredBy, RepliedWith
<1>3. citations[i] \in ToSet(citations) /\ citations # <<>>
  BY <1>2 DEF AssembledFrom, ToSet
<1>4. IsChunk(citations[i].chunk) /\ s = Snippet(text, terms, question)
  BY <1>3, CitedChunks
<1>5. IsText(text) /\ Len(text) > 0
  <2>1. IsText(text) /\ text # <<>>
    BY <1>4 DEF IsChunk
  <2> HIDE DEF text
  <2> QED BY <2>1 DEF IsText
<1>6. answer = terms
  BY <1>2, <1>3
<1>7. IsQuestion(question)
  BY SelectedIs
<1> HIDE DEF text, s
<1>8. ExcerptOf(s, text, all, question.phrases)
  BY <1>2, <1>4, <1>5, <1>6, <1>7, SnippetIsExcerpt
<1>9. LengthOf(text, s) <= SnippetLimit + text[s[1]].len + text[s[2]].len
  BY <1>8 DEF ExcerptOf
<1>10. ASSUME TermsOf(text) \cap all # {}
       PROVE  \/ Anchors(text, s, all) # {}
              \/ \E k \in s[1]..s[2] : k \in PhrasesAt(text, <<1, Len(text)>>, question.phrases)
  <2>1. PICK k \in s[1]..s[2] : k \in Places(text, <<1, Len(text)>>, all, question.phrases)
    BY <1>8, <1>10 DEF ExcerptOf
  <2>2. CASE k \in Anchors(text, <<1, Len(text)>>, all)
    <3>1. k \in Anchors(text, s, all)
      BY <2>1, <2>2 DEF Anchors
    <3> QED BY <3>1
  <2> QED BY <2>1, <2>2 DEF Places
<1> QED BY <1>9, <1>10 DEF text, s

\* The excerpt of a citation is not longer than the limit and two words, and
\* shows a term of the answer or of the question, or a phrase, when its chunk
\* has such a term (buildSnippet and findBestAnchorIndex).
THEOREM MatchIsShown == EvidenceSpec => []SnippetShowsTheMatch
<1>1. Searched /\ Replied => SnippetShowsTheMatch
  <2>1. ASSUME NoReply
        PROVE  SnippetShowsTheMatch
    BY <2>1 DEF NoReply, SnippetShowsTheMatch
  <2>2. ASSUME Searched, Replied
        PROVE  SnippetShowsTheMatch
    <3>1. CASE pc # "done"
      BY <2>1, <2>2, <3>1 DEF Replied
    <3>2. CASE pc = "done"
      BY <2>1, <2>2, <3>2, Ended, SnippetsShow
    <3> QED BY <3>1, <3>2
  <2> QED BY <2>2
<1> QED BY <1>1, ReplyInductive, PTL

-----------------------------------------------------------------------------
(* The grade of an execution                                               *)

LEMMA ExecutionOf ==
    /\ Execution.status = status /\ Execution.citations = citations
    /\ Execution.refusalLike = (answer = {}) /\ Execution.top = TopScore
    /\ Execution.sources =
            (IF TooWeak THEN <<>> ELSE [i \in DOMAIN selected |-> selected[i].chunk])
BY DEF Execution

LEMMA CardParts ==
    ASSUME NEW case, NEW e
    PROVE  LET card == CardOf(case, e)
               graded == case.outcome = "grounded_answer"
           IN  /\ card.outcome = case.outcome
               /\ card.hit = (IF SourceHit(case, e) THEN 1 ELSE 0)
               /\ card.grounded = (IF graded THEN Groundedness(case, e) ELSE 0)
               /\ card.refusal = (IF ~ graded THEN RefusalQuality(case, e) ELSE 0)
               /\ card.cite = CitationPoints(case, e)
               /\ card.rules = (~ MustCiteAndDoesNot(case, e) /\ ~ TooFewDocuments(case, e))
BY DEF CardOf

\* What a pass says about the parts of a card.
LEMMA PassedParts ==
    ASSUME NEW card, Passed(card)
    PROVE  IF card.outcome = "refusal" THEN card.refusal = 2
           ELSE card.hit # 0 /\ card.rules /\ ~ card.grounded < 2
<1>1. CASE card.outcome = "refusal"
  BY <1>1 DEF Passed
<1>2. CASE card.outcome # "refusal"
  <2>1. FailureReasons(card) = {}
    BY <1>2 DEF Passed
  <2>2. "source" \notin FailureReasons(card) /\ "rules" \notin FailureReasons(card)
        /\ "grounded" \notin FailureReasons(card)
    BY <2>1
  <2>3. card.hit # 0 /\ card.rules /\ ~ card.grounded < 2
    BY <2>2 DEF FailureReasons
  <2> QED BY <1>2, <2>3
<1> QED BY <1>1, <1>2

LEMMA RefusalGrade ==
    ASSUME NEW case, RefusalQuality(case, Execution) = 2
    PROVE  status \in case.statuses /\ citations = <<>>
BY ExecutionOf DEF RefusalQuality

LEMMA GroundedGrade ==
    ASSUME NEW case, ~ Groundedness(case, Execution) < 2
    PROVE  status = "grounded" /\ citations # <<>>
BY ExecutionOf DEF Groundedness

\* The sources of an answer are the chunks of the grounding set.
LEMMA SourcesOf ==
    ASSUME Searched, NEW terms, AnsweredBy(terms)
    PROVE  ToSet(Execution.sources) = {c.chunk : c \in ToSet(selected)}
<1>1. selected \in Seq(ToSet(selected)) /\ ~ TooWeak
  BY SelectedIs DEF IsSelection, AnsweredBy
<1> DEFINE s == [i \in DOMAIN selected |-> selected[i].chunk]
<1>2. Execution.sources = s
  BY <1>1, ExecutionOf
<1>3. ToSet(s) = {s[i] : i \in DOMAIN selected}
  BY DEF ToSet
<1>4. ToSet(s) = {c.chunk : c \in ToSet(selected)}
  BY <1>3 DEF ToSet
<1> QED BY <1>2, <1>4

LEMMA CitedGrade ==
    ASSUME Searched, NEW terms, AnsweredBy(terms), NEW case, case.outcome # "refusal",
           status = "grounded"
    PROVE  CitationPoints(case, Execution) = 2
<1> DEFINE cited == {c.chunk : c \in ToSet(citations)}
           l == Len(citations)
           size == Cardinality(cited)
<1>1. Execution.citations = citations
  BY ExecutionOf
<1>2. citations # <<>>
  BY DEF AnsweredBy, RepliedWith, Finalized
<1>3. cited \subseteq ToSet(Execution.sources)
  BY SourcesOf, CitedChunks
<1>4. size = l /\ l \in Nat /\ l <= CitationLimit
  BY CitedChunks
<1>5. CitationPoints(case, Execution) =
        IF citations = <<>> \/ ~ cited \subseteq ToSet(Execution.sources) THEN 0
        ELSE IF size < l \/ l > CitationLimit THEN 1 ELSE 2
  BY <1>1 DEF CitationPoints
<1>6. ~ (size < l \/ l > CitationLimit)
  <2> CitationLimit \in Nat
    BY CitingAssumption
  <2> HIDE DEF size, l
  <2> QED BY <1>4
<1> HIDE DEF cited, size, l
<1> QED BY <1>2, <1>3, <1>5, <1>6

LEMMA DocumentGrade ==
    ASSUME Searched, NEW terms, AnsweredBy(terms), NEW case \in EvalCases,
           SourceHit(case, Execution), ~ MustCiteAndDoesNot(case, Execution),
           ~ TooFewDocuments(case, Execution)
    PROVE  /\ case.doc # NoDocument => case.doc \in {c.chunk.doc : c \in ToSet(selected)}
           /\ case.mustCite /\ case.doc # NoDocument =>
                    case.doc \in {c.chunk.doc : c \in ToSet(citations)}
           /\ Cardinality({c.chunk.doc : c \in ToSet(citations)}) >= case.minDocuments
<1> DEFINE D == {c.chunk.doc : c \in ToSet(citations)}
<1>1. CitedDocuments(Execution) = D
  BY ExecutionOf DEF CitedDocuments
<1>2. case.doc # NoDocument => case.doc \in {c.chunk.doc : c \in ToSet(selected)}
  <2>1. DocumentsOf(Execution.sources) = {e.doc : e \in ToSet(Execution.sources)}
    BY DEF DocumentsOf
  <2>2. \A d \in DocumentsOf(Execution.sources) : d \in {c.chunk.doc : c \in ToSet(selected)}
    BY <2>1, SourcesOf
  <2> QED BY <2>2 DEF SourceHit
<1>3. case.mustCite /\ case.doc # NoDocument => case.doc \in D
  BY <1>1 DEF MustCiteAndDoesNot, ExpectedSourceCited
<1>4. Cardinality(D) >= case.minDocuments
  <2>1. IsFiniteSet(ToSet(citations))
    BY CitedNumber DEF AnsweredBy, RepliedWith
  <2> DEFINE f == [c \in ToSet(citations) |-> c.chunk.doc]
  <2>2. D = {f[c] : c \in ToSet(citations)}
    OBVIOUS
  <2> HIDE DEF f, D
  <2>3. IsFiniteSet(D)
    BY <2>1, <2>2, ImageFinite
  <2>4. Cardinality(D) \in Nat /\ case.minDocuments \in Nat
    BY <2>3, FS_CardinalityType, EvidenceAssumption
  <2>5. ~ Cardinality(D) < case.minDocuments
    BY <1>1 DEF TooFewDocuments
  <2> QED BY <2>4, <2>5
<1> QED BY <1>2, <1>3, <1>4

LEMMA GradeOf ==
    ASSUME Searched, Replied, pc = "done", NEW case \in EvalCases
    PROVE  LET card == CardOf(case, Execution) IN
           /\ Passed(card) =>
                IF case.outcome = "refusal" THEN status \in case.statuses /\ citations = <<>>
                ELSE /\ status = "grounded" /\ citations # <<>>
                     /\ case.doc # NoDocument =>
                            case.doc \in {c.chunk.doc : c \in ToSet(selected)}
                     /\ case.mustCite /\ case.doc # NoDocument =>
                            case.doc \in {c.chunk.doc : c \in ToSet(citations)}
                     /\ Cardinality({c.chunk.doc : c \in ToSet(citations)}) >= case.minDocuments
           /\ status = "grounded" /\ case.outcome = "grounded_answer" => card.cite = 2
<1> DEFINE card == CardOf(case, Execution)
<1>1. /\ card.outcome = case.outcome
      /\ card.hit = (IF SourceHit(case, Execution) THEN 1 ELSE 0)
      /\ card.grounded =
            (IF case.outcome = "grounded_answer" THEN Groundedness(case, Execution) ELSE 0)
      /\ card.refusal =
            (IF case.outcome # "grounded_answer" THEN RefusalQuality(case, Execution) ELSE 0)
      /\ card.cite = CitationPoints(case, Execution)
      /\ card.rules = (~ MustCiteAndDoesNot(case, Execution) /\ ~ TooFewDocuments(case, Execution))
  BY CardParts
<1> HIDE DEF card
<1>2. status = "grounded" => \E terms : AnsweredBy(terms)
  BY Ended
<1>3. CASE Passed(card) /\ case.outcome = "refusal"
  <2>1. card.refusal = 2
    BY <1>1, <1>3, PassedParts
  <2>2. RefusalQuality(case, Execution) = 2
    BY <1>1, <2>1
  <2>3. status \in case.statuses /\ citations = <<>>
    BY <2>2, RefusalGrade
  <2> QED BY <1>3, <2>3 DEF card
<1>4. ASSUME Passed(card), case.outcome # "refusal"
      PROVE  /\ status = "grounded" /\ citations # <<>>
             /\ case.doc # NoDocument => case.doc \in {c.chunk.doc : c \in ToSet(selected)}
             /\ case.mustCite /\ case.doc # NoDocument =>
                    case.doc \in {c.chunk.doc : c \in ToSet(citations)}
             /\ Cardinality({c.chunk.doc : c \in ToSet(citations)}) >= case.minDocuments
  <2>1. card.hit # 0 /\ card.rules /\ ~ card.grounded < 2
    BY <1>1, <1>4, PassedParts
  <2>2. case.outcome = "grounded_answer" /\ ~ Groundedness(case, Execution) < 2
    BY <1>1, <2>1
  <2>3. SourceHit(case, Execution) /\ ~ MustCiteAndDoesNot(case, Execution)
        /\ ~ TooFewDocuments(case, Execution)
    BY <1>1, <2>1
  <2>4. status = "grounded" /\ citations # <<>>
    BY <2>2, GroundedGrade
  <2>5. PICK terms : AnsweredBy(terms)
    BY <1>2, <2>4
  <2> QED BY <2>3, <2>4, <2>5, DocumentGrade
<1>5. status = "grounded" /\ case.outcome = "grounded_answer" => card.cite = 2
  <2>1. ASSUME status = "grounded", case.outcome = "grounded_answer"
        PROVE  CitationPoints(case, Execution) = 2
    <3>1. PICK terms : AnsweredBy(terms)
      BY <1>2, <2>1
    <3> QED BY <2>1, <3>1, CitedGrade
  <2> QED BY <1>1, <2>1
<1> QED BY <1>3, <1>4, <1>5 DEF card

\* A case passes only with what its category asks for, and what the pipeline
\* returns as grounded loses no point for its citations (EvalScoringService).
THEOREM PassIsEarned == EvidenceSpec => []GradeIsEarned
<1>1. Searched /\ Replied => GradeIsEarned
  BY GradeOf, Zenon DEF GradeIsEarned, Done
<1> QED BY <1>1, ReplyInductive, PTL

-----------------------------------------------------------------------------
(* The citations of the local answer                                       *)

\* One of three parts is at least a third of the whole.
LEMMA OneOfThree ==
    ASSUME NEW A, IsFiniteSet(A), NEW B, IsFiniteSet(B), NEW C, IsFiniteSet(C),
           NEW W, W \subseteq A \cup B \cup C
    PROVE  \E S \in {A, B, C} : Cardinality(W) <= 3 * Cardinality(S)
<1> DEFINE a == Cardinality(A)
           b == Cardinality(B)
           c == Cardinality(C)
           w == Cardinality(W)
<1>1. a \in Nat /\ b \in Nat /\ c \in Nat
  BY FS_CardinalityType
<1>2. IsFiniteSet(A \cup B) /\ Cardinality(A \cup B) <= a + b
  <2>1. IsFiniteSet(A \cup B) /\ IsFiniteSet(A \cap B)
    BY FS_Union, FS_Intersection
  <2>2. Cardinality(A \cup B) = a + b - Cardinality(A \cap B) /\ Cardinality(A \cap B) \in Nat
    BY <2>1, FS_Union, FS_CardinalityType
  <2> QED BY <1>1, <2>1, <2>2
<1>3. /\ IsFiniteSet((A \cup B) \cup C)
      /\ Cardinality((A \cup B) \cup C) <= Cardinality(A \cup B) + c
  <2>1. IsFiniteSet((A \cup B) \cup C) /\ IsFiniteSet((A \cup B) \cap C)
    BY <1>2, FS_Union, FS_Intersection
  <2>2. /\ Cardinality((A \cup B) \cup C) =
                Cardinality(A \cup B) + c - Cardinality((A \cup B) \cap C)
        /\ Cardinality((A \cup B) \cap C) \in Nat /\ Cardinality(A \cup B) \in Nat
    BY <1>2, <2>1, FS_Union, FS_CardinalityType
  <2> QED BY <1>1, <2>1, <2>2
<1>4. w \in Nat /\ w <= Cardinality((A \cup B) \cup C)
  BY <1>3, FS_Subset, FS_CardinalityType
<1>5. w <= a + b + c
  <2>1. Cardinality((A \cup B) \cup C) \in Nat /\ Cardinality(A \cup B) \in Nat
    BY <1>2, <1>3, FS_CardinalityType
  <2> DEFINE x == Cardinality((A \cup B) \cup C)
             y == Cardinality(A \cup B)
  <2>2. x \in Nat /\ y \in Nat /\ y <= a + b /\ x <= y + c /\ w <= x
    BY <1>2, <1>3, <1>4, <2>1
  <2> HIDE DEF x, y, a, b, c, w
  <2> QED BY <1>1, <1>4, <2>2
<1> HIDE DEF a, b, c, w
<1>6. w <= 3 * a \/ w <= 3 * b \/ w <= 3 * c
  BY <1>1, <1>4, <1>5
<1> QED BY <1>6 DEF a, b, c, w

\* The shares that a citation is supported by.
LEMMA SharesAtLeast ==
    ASSUME NEW part \in Nat, NEW whole \in Nat \ {0}
    PROVE  /\ whole <= 3 * part => Share(part, whole) >= 40000
           /\ whole <= part => Share(part, whole) >= 120000
<1>1. One * part \in Nat /\ One = 120000
  BY DEF One
<1>2. \A k \in Nat : k * whole <= One * part => k <= Share(part, whole)
  BY <1>1, Quotient DEF Share
<1>3. Share(part, whole) \in Nat
  BY ShareOf
<1>4. ASSUME whole <= 3 * part
      PROVE  40000 * whole <= One * part
  BY <1>1, <1>4
<1>5. ASSUME whole <= part
      PROVE  120000 * whole <= One * part
  BY <1>1, <1>5
<1> QED BY <1>2, <1>3, <1>4, <1>5

SupportOf(h, a, v) == (75 * h + 15 * a + 10 * v) \div 100

LEMMA SupportAtLeast ==
    ASSUME NEW h \in Nat, NEW a \in Nat, NEW v \in Nat,
           (h >= MinFollowOnScore /\ a >= 40000) \/ a >= 120000
    PROVE  SupportOf(h, a, v) >= MinSupport
<1> DEFINE w == 75 * h + 15 * a + 10 * v
<1>1. MinFollowOnScore = 9600 /\ MinSupport = 12000
  BY DEF MinFollowOnScore, MinSupport, Weighted, One
<1>2. w \in Nat /\ 12000 * 100 <= w
  BY <1>1
<1> HIDE DEF w
<1>3. w \div 100 \in Nat /\ 12000 <= w \div 100
  BY <1>2, Quotient, 100 \in Nat \ {0}, 12000 \in Nat
<1> QED BY <1>1, <1>3 DEF w, SupportOf

LEMMA LocalTermsOf ==
    ASSUME NEW text, IsText(text), Len(text) > 0, NEW q, IsQuestion(q)
    PROVE  LocalTerms(text, q) \subseteq TermsOf(text) /\ IsFiniteSet(LocalTerms(text, q))
<1>1. Snippet(text, q.tokens, q) \in Window(text)
  BY SnippetIsExcerpt DEF ExcerptOf, IsQuestion
<1> DEFINE w == Snippet(text, q.tokens, q)
<1>2. ToSet(Within(text, w)) = {text[i] : i \in w[1]..w[2]}
  BY <1>1, WithinOf
<1>3. w[1] \in 1..Len(text) /\ w[2] \in 1..Len(text) /\ Len(text) \in Nat
  BY <1>1 DEF Window, IsText
<1> HIDE DEF w
<1>4. \A i \in w[1]..w[2] : text[i] \in ToSet(text)
  <2>1. \A i \in w[1]..w[2] : i \in 1..Len(text)
    BY <1>3
  <2> QED BY <2>1 DEF IsText, ToSet
<1>5. ToSet(Within(text, w)) \subseteq ToSet(text)
  BY <1>2, <1>4
<1>6. TermsOf(Within(text, w)) \subseteq TermsOf(text)
  BY <1>5 DEF TermsOf
<1>7. LocalTerms(text, q) = TermsOf(Within(text, w))
  BY DEF LocalTerms, w
<1> QED BY <1>6, <1>7, LocalTermsFinite

\* Of the chunks of a local answer one covers enough of it: all, when it is the
\* only one, and a third of it otherwise.
LEMMA OneCovers ==
    ASSUME NEW s, IsSelection(s), Len(s) > 0, NEW q, IsQuestion(q), LocalLimit <= 3,
           \A c \in ToSet(s) : LocalTerms(c.chunk.text, q) # {}
    PROVE  LET K == ToSet(SelectChunks(s, q.tokens))
               A == UNION {LocalTerms(c.chunk.text, q) : c \in K}
           IN  /\ IsFiniteSet(A) /\ A # {}
               /\ \E e \in K :
                    /\ e \in ToSet(s)
                    /\ \/ Cardinality(A) <= Cardinality(LocalTerms(e.chunk.text, q))
                       \/ /\ Cardinality(A) <= 3 * Cardinality(LocalTerms(e.chunk.text, q))
                          /\ e.hybrid >= MinFollowOnScore
<1> DEFINE C == ToSet(s)
           k == SelectChunks(s, q.tokens)
           K == ToSet(k)
           T(c) == LocalTerms(c.chunk.text, q)
           A == UNION {T(c) : c \in K}
<1>1. /\ s \in Seq(C) /\ Len(s) \in Nat /\ 1 \in 1..Len(s)
      /\ \A c \in C : IsText(c.chunk.text) /\ c.chunk.text # <<>> /\ c.hybrid \in Nat
      /\ \A i \in 1..Len(s) : s[i] \in C
  BY DEF IsSelection, IsChunk, ToSet
<1>2. \A c \in C : IsFiniteSet(T(c)) /\ T(c) # {}
  <2>1. ASSUME NEW c \in C
        PROVE  IsFiniteSet(T(c)) /\ T(c) # {}
    <3>1. Len(c.chunk.text) > 0 /\ IsText(c.chunk.text)
      BY <1>1 DEF IsText
    <3> QED BY <3>1, LocalTermsOf
  <2> QED BY <2>1
<1>3. TakenOf(k, s, Len(s), C)
  BY <1>1, SelectionTaken
<1> HIDE DEF k, T
<1>4. /\ k \in Seq(C) /\ Len(k) <= LocalLimit /\ Len(k) \in Nat /\ LocalLimit \in Nat
      /\ K \subseteq C /\ s[1] \in K
      /\ \A e \in K : e = s[1] \/ e.hybrid >= MinFollowOnScore
  <2>1. k \in Seq(C) /\ s[1] \in K /\ Len(k) <= LocalLimit
        /\ \A e \in K : e = s[1] \/ StrongEnough(e, s[1].hybrid)
    BY <1>1, <1>3 DEF TakenOf
  <2>2. \A e \in K : e = s[1] \/ e.hybrid >= MinFollowOnScore
    BY <2>1 DEF StrongEnough
  <2>3. K \subseteq C
    BY <2>1 DEF ToSet
  <2> QED BY <2>1, <2>2, <2>3, CitingAssumption
<1> DEFINE Part(i) == IF i <= Len(k) THEN T(k[i]) ELSE {}
<1>5. /\ \A i \in 1..Len(k) : k[i] \in K
      /\ \A e \in K : \E i \in 1..Len(k) : e = k[i]
  BY <1>4 DEF ToSet
<1> HIDE DEF K
<1>6. IsFiniteSet(Part(1)) /\ IsFiniteSet(Part(2)) /\ IsFiniteSet(Part(3))
  BY <1>2, <1>4, <1>5, FS_EmptySet
<1>7. A \subseteq Part(1) \cup Part(2) \cup Part(3)
  <2>1. ASSUME NEW i \in 1..Len(k)
        PROVE  T(k[i]) = Part(1) \/ T(k[i]) = Part(2) \/ T(k[i]) = Part(3)
    <3>1. i = 1 \/ i = 2 \/ i = 3
      BY <1>4
    <3> QED BY <3>1
  <2>2. \A e \in K : T(e) \subseteq Part(1) \cup Part(2) \cup Part(3)
    BY <1>5, <2>1
  <2> QED BY <2>2
<1>8. PICK S \in {Part(1), Part(2), Part(3)} : Cardinality(A) <= 3 * Cardinality(S)
  <2> HIDE DEF Part, A
  <2> QED BY <1>6, <1>7, OneOfThree
<1>9. IsFiniteSet(A) /\ A # {}
  <2>1. IsFiniteSet(Part(1) \cup Part(2) \cup Part(3))
    <3> HIDE DEF Part
    <3> QED BY <1>6, FS_Union
  <2>2. IsFiniteSet(A)
    <3> HIDE DEF Part, A
    <3> QED BY <1>7, <2>1, FS_Subset
  <2>3. T(s[1]) # {} /\ T(s[1]) \subseteq A
    BY <1>1, <1>2, <1>4
  <2> QED BY <2>2, <2>3
<1>10. \E i \in 1..Len(k) : S = T(k[i])
  <2>1. Cardinality(A) \in Nat \ {0}
    <3> HIDE DEF A
    <3> QED BY <1>9, FS_CardinalityType, FS_EmptySet
  <2>2. S # {}
    <3>1. ASSUME S = {}
          PROVE  FALSE
      <4>1. Cardinality(S) = 0
        BY <3>1, FS_EmptySet
      <4> HIDE DEF A
      <4> QED BY <1>8, <2>1, <4>1
    <3> QED BY <3>1
  <2>3. S = Part(1) \/ S = Part(2) \/ S = Part(3)
    BY <1>8
  <2> QED BY <1>4, <2>2, <2>3
<1>11. PICK e \in K : S = T(e)
  BY <1>5, <1>10
<1>12. CASE K = {s[1]}
  <2>1. A = T(s[1])
    BY <1>12
  <2>2. Cardinality(A) <= Cardinality(T(s[1]))
    <3>1. Cardinality(A) \in Nat
      BY <1>9, FS_CardinalityType
    <3> HIDE DEF A
    <3> QED BY <2>1, <3>1
  <2>3. s[1] \in K /\ s[1] \in C
    BY <1>1, <1>4
  <2> HIDE DEF A
  <2>4. \E d \in K : d \in C /\ Cardinality(A) <= Cardinality(T(d))
    BY <2>2, <2>3
  <2> QED BY <1>9, <2>4 DEF A, T, K, k
<1>13. CASE K # {s[1]}
  <2>1. PICK d \in K : d # s[1]
    BY <1>4, <1>13
  <2>2. d.hybrid >= MinFollowOnScore /\ d \in C
    BY <1>4, <2>1
  <2>3. s[1].hybrid >= d.hybrid
    <3>1. PICK j \in 1..Len(s) : d = s[j]
      BY <2>2 DEF ToSet
    <3>2. 1 < j
      BY <1>1, <2>1, <3>1
    <3> QED BY <1>1, <3>1, <3>2 DEF IsSelection
  <2>4. \A c \in K : c.hybrid >= MinFollowOnScore
    <3>1. MinFollowOnScore \in Int
      BY DEF MinFollowOnScore, Weighted, One
    <3>2. s[1].hybrid \in Nat /\ d.hybrid \in Nat
      BY <1>1, <2>2
    <3>3. s[1].hybrid >= MinFollowOnScore
      BY <2>2, <2>3, <3>1, <3>2
    <3> QED BY <1>4, <3>3
  <2>5. Cardinality(A) <= 3 * Cardinality(T(e))
    BY <1>8, <1>11
  <2> HIDE DEF A
  <2>6. \E c \in K : /\ c \in C /\ Cardinality(A) <= 3 * Cardinality(T(c))
                     /\ c.hybrid >= MinFollowOnScore
    BY <1>4, <2>4, <2>5
  <2> QED BY <1>9, <2>6 DEF A, T, K, k
<1> QED BY <1>12, <1>13

LEMMA LocalSupport ==
    ASSUME NEW s, IsSelection(s), Len(s) > 0, NEW q, IsQuestion(q), LocalLimit <= 3,
           \A c \in ToSet(s) : LocalTerms(c.chunk.text, q) # {}
    PROVE  LET given == LocalAnswer(s, q)
           IN  \E p \in PreparedFor(given.used, s, given.answer, q) : p.support >= MinSupport
<1> DEFINE C == ToSet(s)
           given == LocalAnswer(s, q)
           ids == given.used
           A == given.answer
           K == ToSet(SelectChunks(s, q.tokens))
<1>1. s \in Seq(C) /\ \A c \in C : IsText(c.chunk.text) /\ Len(c.chunk.text) > 0
  <2>1. ASSUME NEW c \in C
        PROVE  IsText(c.chunk.text) /\ Len(c.chunk.text) > 0
    <3>1. IsText(c.chunk.text) /\ c.chunk.text # <<>>
      BY DEF IsSelection, IsChunk
    <3> QED BY <3>1 DEF IsText
  <2> QED BY <2>1 DEF IsSelection
<1>2. /\ ids = {c.chunk.id : c \in K}
      /\ A = UNION {LocalTerms(c.chunk.text, q) : c \in K}
  BY <1>1, LocalAnswerFinite
<1>3. /\ IsFiniteSet(A) /\ A # {}
      /\ \E e \in K :
            /\ e \in C
            /\ \/ Cardinality(A) <= Cardinality(LocalTerms(e.chunk.text, q))
               \/ /\ Cardinality(A) <= 3 * Cardinality(LocalTerms(e.chunk.text, q))
                  /\ e.hybrid >= MinFollowOnScore
  <2> DEFINE W == UNION {LocalTerms(c.chunk.text, q) : c \in K}
  <2>1. /\ IsFiniteSet(W) /\ W # {}
        /\ \E e \in K :
              /\ e \in C
              /\ \/ Cardinality(W) <= Cardinality(LocalTerms(e.chunk.text, q))
                 \/ /\ Cardinality(W) <= 3 * Cardinality(LocalTerms(e.chunk.text, q))
                    /\ e.hybrid >= MinFollowOnScore
    BY OneCovers
  <2>2. A = W
    BY <1>2
  <2> HIDE DEF A, W, K, C
  <2> QED BY <2>1, <2>2
<1> HIDE DEF ids, A, K, given
<1>4. PICK e \in K :
        /\ e \in C
        /\ \/ Cardinality(A) <= Cardinality(LocalTerms(e.chunk.text, q))
           \/ /\ Cardinality(A) <= 3 * Cardinality(LocalTerms(e.chunk.text, q))
              /\ e.hybrid >= MinFollowOnScore
  BY <1>3
<1>5. PICK i \in 1..Len(s) : e = s[i]
  BY <1>1, <1>4 DEF ToSet
<1> DEFINE t == e.chunk.text
           p == Prepared(s[i], i, A, q)
           part == Cardinality(A \cap TermsOf(t))
           own == Cardinality(LocalTerms(t, q))
           whole == Cardinality(A)
<1>6. p \in PreparedFor(ids, s, A, q)
  <2>1. s[i].chunk.id \in ids
    BY <1>2, <1>5
  <2> QED BY <2>1 DEF PreparedFor
<1>7. /\ p.hybrid = e.hybrid /\ p.hybrid \in Nat
      /\ p.answer = TokenCoverage(t, A) /\ p.query \in Nat
      /\ p.support = (75 * p.hybrid + 15 * p.answer + 10 * p.query) \div 100
  <2>1. e.hybrid \in Nat
    BY <1>4 DEF IsSelection
  <2>2. /\ p.hybrid = s[i].hybrid
        /\ p.answer = TokenCoverage(s[i].chunk.text, A) /\ p.query \in Nat
        /\ p.support = (75 * p.hybrid + 15 * p.answer + 10 * p.query) \div 100
    BY <1>3, PreparedOf
  <2> HIDE DEF p
  <2> QED BY <1>5, <2>1, <2>2
<1>8. own \in Nat /\ part \in Nat /\ whole \in Nat \ {0} /\ own <= part
  <2>1. IsText(t) /\ Len(t) > 0
    BY <1>1, <1>4
  <2>2. LocalTerms(t, q) \subseteq TermsOf(t) /\ IsFiniteSet(LocalTerms(t, q))
    BY <2>1, LocalTermsOf
  <2>3. LocalTerms(t, q) \subseteq A
    BY <1>2
  <2>4. IsFiniteSet(A \cap TermsOf(t)) /\ LocalTerms(t, q) \subseteq A \cap TermsOf(t)
    BY <1>3, <2>2, <2>3, FS_Subset
  <2>5. own <= part
    BY <2>4, FS_Subset
  <2> QED BY <1>3, <2>2, <2>4, <2>5, FS_CardinalityType, FS_EmptySet
<1>9. TokenCoverage(t, A) = Share(part, whole)
  BY <1>3 DEF TokenCoverage
<1>10. (e.hybrid >= MinFollowOnScore /\ Share(part, whole) >= 40000) \/ Share(part, whole) >= 120000
  <2>1. whole <= own \/ (whole <= 3 * own /\ e.hybrid >= MinFollowOnScore)
    BY <1>4
  <2> HIDE DEF part, own, whole
  <2>2. whole <= part \/ (whole <= 3 * part /\ e.hybrid >= MinFollowOnScore)
    BY <1>8, <2>1
  <2> QED BY <1>8, <2>2, SharesAtLeast
<1>11. Share(part, whole) \in Nat
  <2> HIDE DEF part, whole
  <2> QED BY <1>8, ShareOf
<1> HIDE DEF p, part, own, whole
<1>12. p.support >= MinSupport
  <2>1. (p.hybrid >= MinFollowOnScore /\ p.answer >= 40000) \/ p.answer >= 120000
    BY <1>7, <1>9, <1>10
  <2>2. p.hybrid \in Nat /\ p.answer \in Nat /\ p.query \in Nat
    BY <1>7, <1>9, <1>11
  <2>3. SupportOf(p.hybrid, p.answer, p.query) >= MinSupport
    BY <2>1, <2>2, SupportAtLeast
  <2> QED BY <1>7, <2>3 DEF SupportOf
<1> QED BY <1>6, <1>12 DEF given, ids, A

\* The local substitute answers from excerpts alone, and one of its chunks is
\* supported well enough for a citation: its answer is not withdrawn
\* (LocalGroundedAnswerService, assemble and finalizeAnswer).  The hypothesis:
\* three chunks at most, as in the code, and no excerpt of stop words alone.
THEOREM LocalIsCited ==
    ASSUME ShortAndWorded
    PROVE  EvidenceSpec => []LocalAnswerIsCited
<1>1. ASSUME Searched, Replied, Done, local
      PROVE  status = "grounded"
  <2>1. pc = "done" /\ ~ NoReply
    BY <1>1 DEF Done, NoReply
  <2>2. used = LocalAnswer(selected, question).used /\ ~ TooWeak
    BY <1>1, <2>1 DEF Replied
  <2>3. PICK terms : AnsweredBy(terms)
    BY <1>1, <2>1, Ended
  <2>4. terms = LocalAnswer(selected, question).answer
    BY <1>1, <2>3 DEF AnsweredBy, AnswerTerms
  <2>5. /\ IsSelection(selected) /\ IsQuestion(question)
        /\ \A c \in ToSet(selected) : c.chunk \in corpus
    BY <1>1, SelectedIs
  <2>6. Len(selected) > 0
    <3>1. selected # <<>> /\ selected \in Seq(ToSet(selected))
      BY <2>2, <2>5 DEF TooWeak, IsSelection
    <3> QED BY <3>1
  <2>7. \A c \in ToSet(selected) : LocalTerms(c.chunk.text, question) # {}
    BY <1>1, <2>5 DEF ShortAndWorded, Searched
  <2>8. LocalLimit <= 3
    BY DEF ShortAndWorded
  <2>9. \E c \in PreparedFor(used, selected, terms, question) : c.support >= MinSupport
    BY <2>2, <2>4, <2>5, <2>6, <2>7, <2>8, LocalSupport
  <2>10. status = Finalized("grounded", citations) /\ citations # <<>>
    BY <2>3, <2>9 DEF AnsweredBy, RepliedWith
  <2> QED BY <2>10 DEF Finalized
<1>2. Searched /\ Replied => LocalAnswerIsCited
  BY <1>1 DEF LocalAnswerIsCited
<1> QED BY <1>2, ReplyInductive, PTL

=============================================================================
