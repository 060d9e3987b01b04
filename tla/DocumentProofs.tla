--------------------------- MODULE DocumentProofs ---------------------------
(***************************************************************************)
(* The algorithms over documents, for inputs of any size. The rows of an   *)
(* alignment run partition the passages of the two reports, and no text is *)
(* both removed and new. A pair changed as much from either report, and    *)
(* every phrase of it is matched once. A build passes its own validation,  *)
(* and what it ranks is what it finds. An answer to a question about one   *)
(* company is called supported by nothing less than what was asked. The    *)
(* passages of a report hold its words, each has its vector or is counted, *)
(* and punctuated text is in the chunks that are quoted from.              *)
(***************************************************************************)
EXTENDS PassageAlignment, LanguageSignals, PublishedComparisons, EvidenceReview, Passages, IterationLemmas,
  FiniteSetTheorems, SequenceTheorems

-----------------------------------------------------------------------------
(* Finite sets in strict orders                                             *)

StrictOrder(S, less) ==
  \A x, y, z \in S :
    /\ <<x, x>> \notin less
    /\ <<x, y>> \in less /\ <<y, z>> \in less => <<x, z>> \in less
    /\ <<x, y>> \in less \/ <<y, x>> \in less \/ x = y

\* How many elements come before each.
Place(S, less) == [x \in S |-> Cardinality({ y \in S : <<y, x>> \in less })]

\* The places of n elements are 0 to n - 1, one each, in their order.
LEMMA PlacesCount ==
  ASSUME NEW S, IsFiniteSet(S), NEW less, StrictOrder(S, less)
  PROVE  /\ Cardinality(S) \in Nat
         /\ Place(S, less) \in [S -> 0 .. Cardinality(S) - 1]
         /\ \A x, y \in S : Place(S, less)[x] = Place(S, less)[y] => x = y
         /\ \A i \in 0 .. Cardinality(S) - 1 : \E x \in S : Place(S, less)[x] = i
         /\ \A x, y \in S : Place(S, less)[x] < Place(S, less)[y] <=> <<x, y>> \in less
<1> DEFINE n == Cardinality(S)
           Smaller(x) == { y \in S : <<y, x>> \in less }
           at == Place(S, less)
<1>1. n \in Nat /\ Cardinality(S) = n
  BY FS_CardinalityType
<1>2. \A x \in S : at[x] = Cardinality(Smaller(x))
  BY DEF Place
<1>3. at = [x \in S |-> at[x]]
  BY DEF Place
<1> HIDE DEF n, at
<1>4. ASSUME NEW x \in S PROVE IsFiniteSet(Smaller(x)) /\ at[x] \in 0 .. n - 1
  <2>1. Smaller(x) \subseteq S /\ x \notin Smaller(x)
    BY DEF StrictOrder
  <2>2. IsFiniteSet(Smaller(x)) /\ Cardinality(Smaller(x)) \in Nat /\ Cardinality(Smaller(x)) <= n
    BY <1>1, <2>1, FS_Subset, FS_CardinalityType
  <2>3. Cardinality(Smaller(x)) # n
    BY <1>1, <2>1, FS_Subset
  <2> HIDE DEF Smaller
  <2> QED BY <1>1, <1>2, <2>2, <2>3
<1>5. ASSUME NEW x \in S, NEW y \in S, <<x, y>> \in less PROVE at[x] < at[y]
  <2>1. at[x] \in 0 .. n - 1 /\ at[y] \in 0 .. n - 1
    BY <1>4
  <2>2. Smaller(x) \subseteq Smaller(y) /\ x \in Smaller(y) /\ x \notin Smaller(x)
    BY <1>5 DEF StrictOrder
  <2>3. Cardinality(Smaller(x)) <= Cardinality(Smaller(y)) /\ Cardinality(Smaller(x)) # Cardinality(Smaller(y))
    BY <2>2, <1>4, FS_Subset
  <2> HIDE DEF Smaller
  <2>4. at[x] \in Int /\ at[y] \in Int
    BY <1>1, <2>1
  <2> QED BY <1>2, <2>3, <2>4
<1>6. at \in [S -> 0 .. n - 1]
  BY <1>3, <1>4
<1>7. ASSUME NEW x \in S, NEW y \in S PROVE at[x] < at[y] <=> <<x, y>> \in less
  <2>1. at[x] \in Int /\ at[y] \in Int
    BY <1>1, <1>6
  <2>2. <<x, y>> \in less \/ <<y, x>> \in less \/ x = y
    BY DEF StrictOrder
  <2> QED BY <1>5, <2>1, <2>2
<1>8. ASSUME NEW x \in S, NEW y \in S, at[x] = at[y] PROVE x = y
  <2>1. at[x] \in Int
    BY <1>1, <1>6
  <2>2. ~ (at[x] < at[y]) /\ ~ (at[y] < at[x])
    BY <1>8, <2>1
  <2> QED BY <1>5, <2>2 DEF StrictOrder
<1>9. at \in Surjection(S, 0 .. n - 1)
  <2>1. IsFiniteSet(0 .. n - 1) /\ Cardinality(0 .. n - 1) = n
    BY <1>1, FS_Interval
  <2>2. at \in Injection(S, 0 .. n - 1)
    BY <1>6, <1>8 DEF Injection, IsInjective
  <2> QED BY <1>1, <2>1, <2>2, FS_Injection
<1>10. \A i \in 0 .. n - 1 : \E x \in S : at[x] = i
  BY <1>9 DEF Surjection
<1> QED BY <1>1, <1>6, <1>7, <1>8, <1>10 DEF n, at

-----------------------------------------------------------------------------
(* Sets in the order of their ranks                                         *)

Triples == Int \X Int \X Int

LEMMA LexTriple ==
  ASSUME NEW a \in Triples, NEW b \in Triples
  PROVE  LexLess(a, b) <=>
           a[1] < b[1] \/ (a[1] = b[1] /\ (a[2] < b[2] \/ (a[2] = b[2] /\ a[3] < b[3])))
<1>1. DOMAIN a = 1 .. 3 /\ \A i \in 1 .. 3 : a[i] \in Int /\ b[i] \in Int
  BY DEF Triples
<1>2. LexLess(a, b) <=> \E i \in 1 .. 3 : a[i] < b[i] /\ \A j \in 1 .. i - 1 : a[j] = b[j]
  BY <1>1 DEF LexLess
<1>3. 1 .. 0 = {} /\ 1 .. 1 = {1} /\ 1 .. 2 = {1, 2} /\ 1 .. 3 = {1, 2, 3}
  OBVIOUS
<1> QED BY <1>1, <1>2, <1>3

\* The order of ranks is strict and total.
LEMMA LexTotal ==
  ASSUME NEW a \in Triples, NEW b \in Triples, NEW c \in Triples
  PROVE  /\ ~ LexLess(a, a)
         /\ LexLess(a, b) /\ LexLess(b, c) => LexLess(a, c)
         /\ LexLess(a, b) \/ LexLess(b, a) \/ a = b
<1>1. a = <<a[1], a[2], a[3]>> /\ b = <<b[1], b[2], b[3]>>
  BY DEF Triples
<1>2. \A i \in 1 .. 3 : a[i] \in Int /\ b[i] \in Int /\ c[i] \in Int
  BY DEF Triples
<1> QED BY <1>1, <1>2, LexTriple

\* A finite set whose elements have distinct ranks is listed whole.
LEMMA InOrderLists ==
  ASSUME NEW S, IsFiniteSet(S), NEW rank, \A x \in S : rank[x] \in Triples,
         \A x, y \in S : rank[x] = rank[y] => x = y
  PROVE  /\ Cardinality(S) \in Nat
         /\ InOrder(S, rank) \in [1 .. Cardinality(S) -> S]
         /\ \A x \in S : \E i \in 1 .. Cardinality(S) : InOrder(S, rank)[i] = x
<1> DEFINE n == Cardinality(S)
           less == { p \in S \X S : LexLess(rank[p[1]], rank[p[2]]) }
           at == Place(S, less)
           Smaller(x) == { y \in S : LexLess(rank[y], rank[x]) }
<1>1. StrictOrder(S, less)
  BY LexTotal DEF StrictOrder
<1>2. \A x \in S : at[x] = Cardinality(Smaller(x))
  <2>1. ASSUME NEW x \in S PROVE { y \in S : <<y, x>> \in less } = Smaller(x)
    OBVIOUS
  <2> HIDE DEF less, Smaller
  <2> QED BY <2>1 DEF Place
<1>3. InOrder(S, rank) = [i \in 1 .. n |-> CHOOSE x \in S : Cardinality(Smaller(x)) = i - 1]
  BY Zenon DEF InOrder
<1> HIDE DEF less
<1>4. /\ n \in Nat /\ at \in [S -> 0 .. n - 1]
      /\ \A x, y \in S : at[x] = at[y] => x = y
      /\ \A i \in 0 .. n - 1 : \E x \in S : at[x] = i
  BY <1>1, PlacesCount
<1> HIDE DEF n, at, Smaller
<1>5. ASSUME NEW i \in 1 .. n PROVE InOrder(S, rank)[i] \in S /\ at[InOrder(S, rank)[i]] = i - 1
  <2>1. i - 1 \in 0 .. n - 1
    BY <1>4
  <2>2. \E x \in S : Cardinality(Smaller(x)) = i - 1
    BY <1>2, <1>4, <2>1
  <2>3. InOrder(S, rank)[i] = CHOOSE x \in S : Cardinality(Smaller(x)) = i - 1
    BY <1>3
  <2> QED BY <1>2, <2>2, <2>3
<1>6. ASSUME NEW x \in S PROVE \E i \in 1 .. n : InOrder(S, rank)[i] = x
  <2>1. at[x] + 1 \in 1 .. n /\ (at[x] + 1) - 1 = at[x]
    BY <1>4
  <2>2. InOrder(S, rank)[at[x] + 1] \in S /\ at[InOrder(S, rank)[at[x] + 1]] = at[x]
    BY <1>5, <2>1
  <2> QED BY <1>4, <2>1, <2>2
<1>7. InOrder(S, rank) \in [1 .. n -> S]
  <2>1. \A i \in 1 .. n : (CHOOSE x \in S : Cardinality(Smaller(x)) = i - 1) \in S
    BY <1>3, <1>5
  <2> QED BY <1>3, <2>1
<1> QED BY <1>4, <1>6, <1>7 DEF n

-----------------------------------------------------------------------------
(* Claims                                                                   *)

\* Pairs of which no two share an end.
OneToOne(C) == \A p, q \in C : p[1] = q[1] \/ p[2] = q[2] => p = q

Touches(C, x) == \E q \in C : q[1] = x[1] \/ q[2] = x[2]

\* What is claimed is one-to-one, and only what it leaves out shares an end with it.
LEMMA ClaimedPairs ==
  ASSUME NEW P, NEW n \in Nat, NEW order \in [1 .. n -> P]
  PROVE  /\ Claimed(order) \subseteq P
         /\ OneToOne(Claimed(order))
         /\ \A i \in 1 .. n : Touches(Claimed(order), order[i])
<1> DEFINE T == { C \in SUBSET P : OneToOne(C) }
           Step(C, i) == IF Touches(C, order[i]) THEN C ELSE C \cup {order[i]}
           Runs(f) == f = [k \in 0 .. n |-> IF k = 0 THEN {} ELSE Step(f[k - 1], k)]
           claims == CHOOSE f : Runs(f)
           step == [x \in T \X (1 .. n) |-> Step(x[1], x[2])]
<1>0. {} \in T
  BY DEF OneToOne
<1>1. ASSUME NEW C \in T, NEW i \in 1 .. n
      PROVE  Step(C, i) \in T /\ C \subseteq Step(C, i) /\ Touches(Step(C, i), order[i])
  <2>1. CASE Touches(C, order[i])
    BY <2>1
  <2>2. CASE ~ Touches(C, order[i])
    <3>1. order[i] \in P /\ Step(C, i) = C \cup {order[i]}
      BY <2>2
    <3>2. OneToOne(C \cup {order[i]})
      BY <2>2 DEF OneToOne, Touches
    <3>3. Touches(C \cup {order[i]}, order[i])
      BY DEF Touches
    <3> QED BY <3>1, <3>2, <3>3
  <2> QED BY <2>1, <2>2
<1>2. step \in [T \X (1 .. n) -> T]
  BY <1>1
<1> HIDE DEF T
<1>3. PICK f \in [0 .. n -> T] : Iterates(f, {}, step, n)
  BY <1>0, <1>2, IterationExists
<1>4. Runs(f)
  <2>1. \A i \in 0 .. n : f[i] = IF i = 0 THEN {} ELSE Step(f[i - 1], i)
    <3> SUFFICES ASSUME NEW i \in 0 .. n, i # 0 PROVE f[i] = Step(f[i - 1], i)
      BY <1>3 DEF Iterates
    <3>1. i \in 1 .. n /\ i - 1 \in 0 .. n
      OBVIOUS
    <3>2. f[i] = step[<<f[i - 1], i>>] /\ f[i - 1] \in T
      BY <1>3, <3>1 DEF Iterates
    <3> QED BY <3>1, <3>2
  <2> QED BY <2>1
<1>5. Runs(claims)
  BY <1>4
<1>6. Claimed(order) = claims[n]
  <2>1. Len(order) = n
    OBVIOUS
  <2> QED BY <2>1 DEF Claimed, claims, Touches
<1> HIDE DEF claims, step, Step
<1>7. claims[0] = {} /\ \A i \in 1 .. n : claims[i] = Step(claims[i - 1], i)
  <2>1. \A k \in 0 .. n : claims[k] = IF k = 0 THEN {} ELSE Step(claims[k - 1], k)
    BY <1>5
  <2>2. 0 \in 0 .. n /\ \A i \in 1 .. n : i \in 0 .. n /\ i # 0
    OBVIOUS
  <2> QED BY <2>1, <2>2
<1>8. \A i \in 0 .. n : claims[i] \in T
  <2>1. claims[0] \in T /\ \A i \in 1 .. n : claims[i - 1] \in T => claims[i] \in T
    BY <1>0, <1>1, <1>7
  <2> QED BY <2>1, IterationKeeps
<1>9. ASSUME NEW i \in 1 .. n PROVE Touches(claims[n], order[i])
  <2> DEFINE S == { k \in 0 .. n : k < i \/ Touches(claims[k], order[i]) }
  <2>1. 0 \in S
    OBVIOUS
  <2>2. ASSUME NEW k \in 1 .. n, k - 1 \in S PROVE k \in S
    <3>1. claims[k - 1] \in T
      BY <1>8
    <3>2. claims[k - 1] \subseteq claims[k] /\ Touches(claims[k], order[k])
      BY <1>1, <1>7, <3>1
    <3>3. k < i \/ k = i \/ Touches(claims[k - 1], order[i])
      BY <2>2
    <3> QED BY <3>2, <3>3 DEF Touches
  <2> HIDE DEF S
  <2>3. 0 .. n \subseteq S
    BY <2>1, <2>2, UpTo
  <2>4. n \in S
    BY <2>3
  <2> QED BY <2>4 DEF S
<1> QED BY <1>6, <1>8, <1>9 DEF T
-----------------------------------------------------------------------------
(* The numbers of a run                                                     *)

\* Of finitely many elements one has the greatest value.
LEMMA GreatestExists ==
  ASSUME NEW S, IsFiniteSet(S), S # {}, NEW f, \A x \in S : f[x] \in Int
  PROVE  \E x \in S : \A y \in S : f[y] <= f[x]
<1>1. PICK n \in Nat : ExistsBijection(1 .. n, S)
  BY FS_NatBijection
<1>2. PICK g : g \in [1 .. n -> S] /\ \A y \in S : \E i \in 1 .. n : g[i] = y
  BY <1>1 DEF ExistsBijection, Bijection, Injection, Surjection
<1> DEFINE T == { m \in 0 .. n : m = 0 \/ \E i \in 1 .. m : \A j \in 1 .. m : f[g[j]] <= f[g[i]] }
<1>3. 0 \in T
  OBVIOUS
<1>4. ASSUME NEW m \in 1 .. n, m - 1 \in T PROVE m \in T
  <2>1. \A j \in 1 .. m : g[j] \in S /\ f[g[j]] \in Int
    BY <1>2
  <2>2. CASE m = 1
    <3>1. \A j \in 1 .. m : j = 1
      BY <2>2
    <3>2. 1 \in 1 .. m /\ f[g[1]] <= f[g[1]]
      BY <2>1, <2>2
    <3> QED BY <3>1, <3>2
  <2>3. CASE m # 1
    <3>1. PICK i \in 1 .. m - 1 : \A j \in 1 .. m - 1 : f[g[j]] <= f[g[i]]
      BY <1>4, <2>3
    <3>2. \A j \in 1 .. m : j \in 1 .. m - 1 \/ j = m
      OBVIOUS
    <3>3. i \in 1 .. m /\ m \in 1 .. m /\ f[g[i]] \in Int /\ f[g[m]] \in Int
      BY <2>1
    <3>4. CASE f[g[m]] <= f[g[i]]
      BY <3>1, <3>2, <3>3, <3>4
    <3>5. CASE f[g[i]] <= f[g[m]]
      <4>1. \A j \in 1 .. m : f[g[j]] <= f[g[m]]
        BY <2>1, <3>1, <3>2, <3>3, <3>5
      <4> QED BY <3>3, <4>1
    <3> QED BY <3>3, <3>4, <3>5
  <2> QED BY <2>2, <2>3
<1> HIDE DEF T
<1>5. n \in T
  <2>1. 0 .. n \subseteq T
    BY <1>1, <1>3, <1>4, UpTo
  <2> QED BY <1>1, <2>1
<1>6. n # 0
  BY <1>1, <1>2
<1>7. PICK i \in 1 .. n : \A j \in 1 .. n : f[g[j]] <= f[g[i]]
  BY <1>5, <1>6 DEF T
<1>8. g[i] \in S /\ \A y \in S : f[y] <= f[g[i]]
  BY <1>2, <1>7
<1> QED BY <1>8

LEMMA MaxExists ==
  ASSUME NEW S \in SUBSET Int, IsFiniteSet(S), S # {}
  PROVE  Max(S) \in S /\ \A y \in S : y <= Max(S)
<1> DEFINE f == [x \in S |-> x]
<1>1. \A x \in S : f[x] \in Int /\ f[x] = x
  OBVIOUS
<1> HIDE DEF f
<1>2. \E x \in S : \A y \in S : f[y] <= f[x]
  BY <1>1, GreatestExists
<1>3. \E x \in S : \A y \in S : x >= y
  BY <1>1, <1>2
<1> QED BY <1>3 DEF Max

\* A side is a list of passages, each with an index of its own.
LEMMA SideFacts ==
  ASSUME input \in AlignmentInputs, NEW side \in {input.earlier, input.later}
  PROVE  /\ Len(side) \in Nat /\ DOMAIN side = 1 .. Len(side)
         /\ IsFiniteSet(DOMAIN side) /\ DOMAIN side \subseteq Nat /\ None \notin DOMAIN side
         /\ \A i \in DOMAIN side : Index(side, i) \in Nat
         /\ \A i, j \in DOMAIN side : Index(side, i) = Index(side, j) => i = j
         /\ Span(side) \in Nat \ {0}
<1>1. /\ Len(side) \in Nat /\ DOMAIN side = 1 .. Len(side)
      /\ \A i \in DOMAIN side : Index(side, i) \in Nat
      /\ \A i, j \in DOMAIN side : Index(side, i) = Index(side, j) => i = j
  BY InputsTyped
<1>2. IsFiniteSet(DOMAIN side)
  BY <1>1, FS_Interval
<1>3. DOMAIN side \subseteq Nat /\ None \notin DOMAIN side
  BY <1>1, NoneIsNoPassage
<1>4. Span(side) \in Nat \ {0}
  BY <1>1 DEF Span
<1> QED BY <1>1, <1>2, <1>3, <1>4

LEMMA CombinedTyped ==
  ASSUME input \in AlignmentInputs, NEW l \in Laters, NEW e \in Earliers
  PROVE  Combined(l, e) \in Int
<1>1. /\ Index(input.earlier, e) \in Int /\ Index(input.later, l) \in Int
      /\ Span(input.earlier) \in Int /\ Span(input.later) \in Int
  BY SideFacts DEF Earliers, Laters
<1>2. PairCompared(Comparison(l, e))
  BY InputsTyped DEF Comparison, Earliers, Laters
<1>3. Similarity(l, e) \in Int /\ Comparison(l, e).lexical \in Int /\ Comparison(l, e).heading \in Int
  BY <1>2, MaxExists DEF Similarity, PairCompared
<1>4. Weighted(l, e) \in Int
  BY <1>3, ConfigTyped DEF Weighted
<1>5. Scale \in Int
  BY <1>1 DEF Scale
<1>6. PositionDifference(l, e) \in Int
  BY <1>1 DEF PositionDifference, Abs
<1>7. AlignmentConfig.weight_position \in Int
  BY ConfigTyped
<1> QED BY <1>4, <1>5, <1>6, <1>7 DEF Combined
-----------------------------------------------------------------------------
(* The one-to-one assignment                                                *)

\* A later passage has at most one earlier passage and no two have the same.
Matching(acc) ==
  /\ acc \in [DOMAIN acc -> Earliers]
  /\ DOMAIN acc \subseteq Laters
  /\ \A l, m \in DOMAIN acc : acc[l] = acc[m] => l = m

LEMMA GreedyMatches ==
  ASSUME input \in AlignmentInputs
  PROVE  Matching(Greedy)
<1> DEFINE rank == [p \in Proposals |-> <<-Combined(p[1], p[2]), Index(input.later, p[1]), Index(input.earlier, p[2])>>]
           won == Claimed(InOrder(Proposals, rank))
<1>1. Proposals \subseteq Laters \X Earliers
  BY DEF Proposals
<1>2. IsFiniteSet(Proposals)
  <2>1. IsFiniteSet(Laters) /\ IsFiniteSet(Earliers)
    BY SideFacts DEF Laters, Earliers
  <2> QED BY <2>1, <1>1, FS_Product, FS_Subset
<1>3. ASSUME NEW p \in Proposals PROVE rank[p] \in Triples
  <2>1. p[1] \in Laters /\ p[2] \in Earliers
    BY <1>1
  <2>2. -Combined(p[1], p[2]) \in Int
    BY <2>1, CombinedTyped
  <2>3. Index(input.later, p[1]) \in Int /\ Index(input.earlier, p[2]) \in Int
    BY <2>1, SideFacts DEF Laters, Earliers
  <2> QED BY <2>2, <2>3 DEF Triples
<1>4. ASSUME NEW p \in Proposals, NEW q \in Proposals, rank[p] = rank[q] PROVE p = q
  <2>1. p[1] \in Laters /\ p[2] \in Earliers /\ q[1] \in Laters /\ q[2] \in Earliers
        /\ p = <<p[1], p[2]>> /\ q = <<q[1], q[2]>>
    BY <1>1
  <2>2. Index(input.later, p[1]) = Index(input.later, q[1]) /\ Index(input.earlier, p[2]) = Index(input.earlier, q[2])
    BY <1>4
  <2>3. p[1] = q[1] /\ p[2] = q[2]
    BY <2>1, <2>2, SideFacts DEF Laters, Earliers
  <2> QED BY <2>1, <2>3
<1> HIDE DEF rank
<1>5. won \subseteq Proposals /\ OneToOne(won)
  <2>1. Cardinality(Proposals) \in Nat /\ InOrder(Proposals, rank) \in [1 .. Cardinality(Proposals) -> Proposals]
    BY <1>2, <1>3, <1>4, InOrderLists
  <2> QED BY <2>1, ClaimedPairs
<1>6. Greedy = [l \in { p[1] : p \in won } |-> CHOOSE e \in Earliers : <<l, e>> \in won]
  BY DEF Greedy, rank
<1> HIDE DEF won
<1>7. \A l \in { p[1] : p \in won } : l \in Laters /\ \E e \in Earliers : <<l, e>> \in won
  <2> SUFFICES ASSUME NEW p \in won PROVE p[1] \in Laters /\ p[2] \in Earliers /\ <<p[1], p[2]>> \in won
    OBVIOUS
  <2> QED BY <1>1, <1>5
<1>8. \A l \in DOMAIN Greedy : l \in Laters /\ Greedy[l] \in Earliers /\ <<l, Greedy[l]>> \in won
  BY <1>6, <1>7
<1>9. \A l, m \in DOMAIN Greedy : Greedy[l] = Greedy[m] => l = m
  <2> SUFFICES ASSUME NEW l \in DOMAIN Greedy, NEW m \in DOMAIN Greedy, Greedy[l] = Greedy[m] PROVE l = m
    OBVIOUS
  <2> DEFINE p == <<l, Greedy[l]>>
             q == <<m, Greedy[m]>>
  <2>1. p \in won /\ q \in won /\ p[2] = q[2]
    BY <1>8
  <2>2. p = q
    BY <2>1, <1>5 DEF OneToOne
  <2> QED BY <2>2
<1>10. Greedy \in [DOMAIN Greedy -> Earliers]
  BY <1>6, <1>8
<1> QED BY <1>8, <1>9, <1>10 DEF Matching

\* An exchange leaves the same passages matched.
LEMMA SweepMatches ==
  ASSUME input \in AlignmentInputs, NEW acc, Matching(acc)
  PROVE  Matching(Sweep(acc))
<1> DEFINE swaps == { x \in (DOMAIN acc) \X (DOMAIN acc) : Improves(acc, x[1], x[2]) }
           rank == [x \in swaps |-> <<Index(input.earlier, acc[x[1]]),
                                      -Combined(x[1], acc[x[2]]), Index(input.earlier, acc[x[2]])>>]
           first == InOrder(swaps, rank)[1]
<1>1. IsFiniteSet(swaps)
  <2>1. IsFiniteSet(DOMAIN acc)
    BY SideFacts, FS_Subset DEF Matching, Laters
  <2>2. swaps \subseteq (DOMAIN acc) \X (DOMAIN acc)
    OBVIOUS
  <2> HIDE DEF swaps
  <2> QED BY <2>1, <2>2, FS_Product, FS_Subset
<1>2. \A x \in swaps : x \in (DOMAIN acc) \X (DOMAIN acc)
  OBVIOUS
<1>3. Sweep(acc) = IF swaps = {} THEN acc ELSE Swapped(acc, first[1], first[2])
  BY DEF Sweep
<1> HIDE DEF swaps
<1>4. ASSUME NEW x \in swaps PROVE rank[x] \in Triples
  <2>1. x[1] \in DOMAIN acc /\ x[2] \in DOMAIN acc
    BY <1>2
  <2>2. x[1] \in Laters /\ acc[x[1]] \in Earliers /\ acc[x[2]] \in Earliers
    BY <2>1 DEF Matching
  <2>3. Combined(x[1], acc[x[2]]) \in Int
    BY <2>2, CombinedTyped
  <2>4. Index(input.earlier, acc[x[1]]) \in Int /\ Index(input.earlier, acc[x[2]]) \in Int
    BY <2>2, SideFacts DEF Earliers
  <2> QED BY <2>3, <2>4 DEF Triples
<1>5. ASSUME NEW x \in swaps, NEW y \in swaps, rank[x] = rank[y] PROVE x = y
  <2>1. x[1] \in DOMAIN acc /\ x[2] \in DOMAIN acc /\ y[1] \in DOMAIN acc /\ y[2] \in DOMAIN acc
        /\ x = <<x[1], x[2]>> /\ y = <<y[1], y[2]>>
    BY <1>2
  <2>2. Index(input.earlier, acc[x[1]]) = Index(input.earlier, acc[y[1]])
        /\ Index(input.earlier, acc[x[2]]) = Index(input.earlier, acc[y[2]])
    BY <1>5
  <2>3. acc[x[1]] = acc[y[1]] /\ acc[x[2]] = acc[y[2]]
    BY <2>1, <2>2, SideFacts DEF Earliers, Matching
  <2>4. x[1] = y[1] /\ x[2] = y[2]
    BY <2>1, <2>3 DEF Matching
  <2> QED BY <2>1, <2>4
<1>6. CASE swaps = {}
  BY <1>3, <1>6
<1>7. CASE swaps # {}
  <2> HIDE DEF rank
  <2>1. first \in swaps
    <3>1. Cardinality(swaps) \in Nat /\ InOrder(swaps, rank) \in [1 .. Cardinality(swaps) -> swaps]
      BY <1>1, <1>4, <1>5, InOrderLists
    <3>2. Cardinality(swaps) # 0
      BY <1>1, <1>7, FS_EmptySet
    <3> QED BY <3>1, <3>2
  <2> HIDE DEF first
  <2> DEFINE l == first[1]
             m == first[2]
             new == Swapped(acc, l, m)
  <2>2. l \in DOMAIN acc /\ m \in DOMAIN acc
    BY <1>2, <2>1
  <2> HIDE DEF l, m
  <2>3. new = [k \in DOMAIN acc |-> IF k = m THEN acc[l] ELSE IF k = l THEN acc[m] ELSE acc[k]]
    BY <2>2 DEF Swapped
  <2>4. Matching(new)
    <3> HIDE DEF new
    <3> QED BY <2>2, <2>3 DEF Matching
  <2>5. Sweep(acc) = new
    BY <1>3, <1>7 DEF l, m
  <2> QED BY <2>4, <2>5
<1> QED BY <1>6, <1>7

LEMMA ExchangedMatches ==
  ASSUME input \in AlignmentInputs, Matching(accepted)
  PROVE  Matching(Exchanged)
<1> DEFINE n == AlignmentConfig.local_exchange_max_passes
           T == { acc \in UNION { [D -> Earliers] : D \in SUBSET Laters } : Matching(acc) }
           Runs(f) == f = [k \in 0 .. n |-> IF k = 0 THEN accepted ELSE Sweep(f[k - 1])]
           after == CHOOSE f : Runs(f)
           step == [x \in T \X (1 .. n) |-> Sweep(x[1])]
<1>1. n \in Nat
  BY ConfigTyped
<1>2. \A acc : acc \in T <=> Matching(acc)
  BY DEF Matching
<1>3. Exchanged = after[n]
  BY DEF Exchanged
<1> HIDE DEF n, T
<1>4. accepted \in T /\ \A acc \in T : Sweep(acc) \in T
  BY <1>2, SweepMatches
<1>5. step \in [T \X (1 .. n) -> T]
  BY <1>4
<1>6. PICK f \in [0 .. n -> T] : Iterates(f, accepted, step, n)
  BY <1>1, <1>4, <1>5, IterationExists
<1>7. Runs(f)
  <2>1. \A i \in 0 .. n : f[i] = IF i = 0 THEN accepted ELSE Sweep(f[i - 1])
    <3> SUFFICES ASSUME NEW i \in 0 .. n, i # 0 PROVE f[i] = Sweep(f[i - 1])
      BY <1>6 DEF Iterates
    <3>1. i \in 1 .. n /\ i - 1 \in 0 .. n
      BY <1>1
    <3>2. f[i] = step[<<f[i - 1], i>>] /\ f[i - 1] \in T
      BY <1>6, <3>1 DEF Iterates
    <3> QED BY <3>1, <3>2
  <2> QED BY <2>1
<1>8. Runs(after)
  BY <1>7
<1> HIDE DEF after, step
<1>9. after[0] \in T /\ \A i \in 1 .. n : after[i - 1] \in T => after[i] \in T
  <2>1. \A k \in 0 .. n : after[k] = IF k = 0 THEN accepted ELSE Sweep(after[k - 1])
    BY <1>8
  <2>2. 0 \in 0 .. n /\ \A i \in 1 .. n : i \in 0 .. n /\ i # 0
    BY <1>1
  <2> QED BY <2>1, <2>2, <1>4
<1>10. after[n] \in T
  <2>1. \A i \in 0 .. n : after[i] \in T
    BY <1>1, <1>9, IterationKeeps
  <2> QED BY <1>1, <2>1
<1> QED BY <1>2, <1>3, <1>10
-----------------------------------------------------------------------------
(* Reconciliation                                                           *)

LEMMA PredictedTyped ==
  ASSUME input \in AlignmentInputs, Matching(accepted), NEW e \in Earliers
  PROVE  Predicted(e)[1] \in Int /\ Predicted(e)[2] \in Int
<1> DEFINE anchor == [l \in DOMAIN accepted |-> <<Index(input.earlier, accepted[l]), Index(input.later, l)>>]
           anchors == { <<Index(input.earlier, accepted[l]), Index(input.later, l)>> : l \in DOMAIN accepted }
           at == Index(input.earlier, e)
           before == { a \in anchors : a[1] < at }
           after == { a \in anchors : a[1] >= at }
           prev == CHOOSE a \in before : \A b \in before : b[1] <= a[1]
           next == CHOOSE a \in after : \A b \in after : a[1] <= b[1]
<1>1. at \in Int /\ Span(input.earlier) \in Int /\ Span(input.later) \in Int
  BY SideFacts DEF Earliers
<1>2. anchors \subseteq Int \X Int
  <2> SUFFICES ASSUME NEW l \in DOMAIN accepted
               PROVE  Index(input.earlier, accepted[l]) \in Int /\ Index(input.later, l) \in Int
    OBVIOUS
  <2>1. accepted[l] \in Earliers /\ l \in Laters
    BY DEF Matching
  <2> QED BY <2>1, SideFacts DEF Earliers, Laters
<1>3. IsFiniteSet(anchors)
  <2>1. IsFiniteSet(DOMAIN accepted)
    BY SideFacts, FS_Subset DEF Matching, Laters
  <2>2. anchor \in Surjection(DOMAIN accepted, anchors)
    BY DEF Surjection
  <2> HIDE DEF anchor, anchors
  <2> QED BY <2>1, <2>2, FS_Surjection
<1>4. Predicted(e) =
        CASE before # {} /\ after # {} ->
               <<prev[2] * (next[1] - prev[1]) + (at - prev[1]) * (next[2] - prev[2]), next[1] - prev[1]>>
          [] before # {} /\ after = {} -> <<prev[2] + at - prev[1], 1>>
          [] before = {} /\ after # {} -> <<next[2] - (next[1] - at), 1>>
          [] OTHER -> IF Len(input.earlier) > 1 /\ Len(input.later) > 1
                      THEN <<at * Span(input.later), Span(input.earlier)>> ELSE <<0, 1>>
  BY DEF Predicted
<1> HIDE DEF anchors, at
<1>5. before # {} => prev[1] \in Int /\ prev[2] \in Int
  <2> SUFFICES ASSUME before # {} PROVE prev \in before
    BY <1>2
  <2> DEFINE f == [a \in before |-> a[1]]
  <2>1. IsFiniteSet(before)
    BY <1>3, FS_Subset
  <2>2. \A a \in before : f[a] \in Int /\ f[a] = a[1]
    BY <1>2
  <2> HIDE DEF f, before
  <2>3. \E a \in before : \A b \in before : f[b] <= f[a]
    BY <2>1, <2>2, GreatestExists
  <2>4. \E a \in before : \A b \in before : b[1] <= a[1]
    BY <2>2, <2>3
  <2> QED BY <2>4
<1>6. after # {} => next[1] \in Int /\ next[2] \in Int
  <2> SUFFICES ASSUME after # {} PROVE next \in after
    BY <1>2
  <2> DEFINE f == [a \in after |-> -a[1]]
  <2>1. IsFiniteSet(after)
    BY <1>3, FS_Subset
  <2>2. \A a \in after : f[a] \in Int /\ a[1] \in Int /\ f[a] = -a[1]
    BY <1>2
  <2> HIDE DEF f, after
  <2>3. \E a \in after : \A b \in after : f[b] <= f[a]
    BY <2>1, <2>2, GreatestExists
  <2>4. \E a \in after : \A b \in after : a[1] <= b[1]
    BY <2>2, <2>3
  <2> QED BY <2>4
<1> HIDE DEF before, after, prev, next
<1>7. CASE before # {} /\ after # {}
  <2> DEFINE x == prev[2] * (next[1] - prev[1])
             y == (at - prev[1]) * (next[2] - prev[2])
             z == next[1] - prev[1]
  <2>1. x \in Int /\ y \in Int /\ z \in Int
    BY <1>1, <1>5, <1>6, <1>7
  <2>2. Predicted(e) = <<x + y, z>>
    BY <1>4, <1>7
  <2> HIDE DEF x, y, z
  <2> QED BY <2>1, <2>2
<1>8. CASE before # {} /\ after = {}
  BY <1>1, <1>4, <1>5, <1>8
<1>9. CASE before = {} /\ after # {}
  BY <1>1, <1>4, <1>6, <1>9
<1>10. CASE before = {} /\ after = {}
  BY <1>1, <1>4, <1>10
<1> QED BY <1>7, <1>8, <1>9, <1>10

LEMMA OffTyped ==
  ASSUME input \in AlignmentInputs, Matching(accepted), NEW p \in Earliers \X Laters
  PROVE  Off(p) \in Int
<1> DEFINE n == Len(input.earlier)
           f == Predicted(p[1])
           Factor(i) == IF i = p[1] THEN 1 ELSE Predicted(i)[2]
           Runs(g) == g = [k \in 0 .. n |-> IF k = 0 THEN 1 ELSE g[k - 1] * Factor(k)]
           others == CHOOSE g : Runs(g)
           step == [x \in Int \X (1 .. n) |-> x[1] * Factor(x[2])]
<1>1. n \in Nat /\ Earliers = 1 .. n
  BY SideFacts DEF Earliers
<1>2. \A i \in 1 .. n : Factor(i) \in Int
  BY <1>1, PredictedTyped
<1>3. p[1] \in Earliers /\ p[2] \in Laters
  OBVIOUS
<1>4. f[1] \in Int /\ f[2] \in Int /\ Index(input.later, p[2]) \in Int
  BY <1>3, PredictedTyped, SideFacts DEF Laters
<1>5. Off(p) = Abs(f[1] - Index(input.later, p[2]) * f[2]) * others[n]
  BY DEF Off
<1> HIDE DEF n, f, Factor
<1>6. step \in [Int \X (1 .. n) -> Int]
  BY <1>2
<1>7. PICK g \in [0 .. n -> Int] : Iterates(g, 1, step, n)
  <2> HIDE DEF step
  <2>1. 1 \in Int
    OBVIOUS
  <2> QED BY <1>1, <1>6, <2>1, IterationExists
<1>8. Runs(g)
  <2>1. \A i \in 0 .. n : g[i] = IF i = 0 THEN 1 ELSE g[i - 1] * Factor(i)
    <3> SUFFICES ASSUME NEW i \in 0 .. n, i # 0 PROVE g[i] = g[i - 1] * Factor(i)
      BY <1>7 DEF Iterates
    <3>1. i \in 1 .. n /\ i - 1 \in 0 .. n
      BY <1>1
    <3>2. g[i] = step[<<g[i - 1], i>>] /\ g[i - 1] \in Int
      BY <1>7, <3>1 DEF Iterates
    <3> QED BY <3>1, <3>2
  <2> QED BY <2>1
<1>9. Runs(others)
  BY <1>8
<1> HIDE DEF others, step
<1>10. others[0] \in Int /\ \A i \in 1 .. n : others[i - 1] \in Int => others[i] \in Int
  <2>1. \A k \in 0 .. n : others[k] = IF k = 0 THEN 1 ELSE others[k - 1] * Factor(k)
    BY <1>9
  <2>2. 0 \in 0 .. n /\ \A i \in 1 .. n : i \in 0 .. n /\ i # 0
    BY <1>1
  <2> QED BY <2>1, <2>2, <1>2
<1>11. others[n] \in Int
  <2>1. \A i \in 0 .. n : others[i] \in Int
    BY <1>1, <1>10, IterationKeeps
  <2> QED BY <1>1, <2>1
<1> QED BY <1>4, <1>5, <1>11 DEF Abs

\* Of one text no passage is paired twice, and none is left with a counterpart left.
LEMMA ReconciledOfOneText ==
  ASSUME input \in AlignmentInputs, Matching(accepted), NEW hash
  PROVE  /\ ReconciledOf(hash) \subseteq Pool(hash).earlier \X Pool(hash).later
         /\ OneToOne(ReconciledOf(hash))
         /\ \A e \in Pool(hash).earlier, l \in Pool(hash).later : Touches(ReconciledOf(hash), <<e, l>>)
<1> DEFINE pairs == Pool(hash).earlier \X Pool(hash).later
           rank == [p \in pairs |-> <<Off(p), Index(input.earlier, p[1]), Index(input.later, p[2])>>]
<1>1. Pool(hash).earlier \subseteq Earliers /\ Pool(hash).later \subseteq Laters
  BY DEF Pool, UnmatchedEarlier, UnmatchedLater
<1>2. IsFiniteSet(pairs)
  <2>1. IsFiniteSet(Laters) /\ IsFiniteSet(Earliers)
    BY SideFacts DEF Laters, Earliers
  <2>2. IsFiniteSet(Pool(hash).earlier) /\ IsFiniteSet(Pool(hash).later)
    BY <1>1, <2>1, FS_Subset
  <2> QED BY <2>2, FS_Product
<1>3. ASSUME NEW p \in pairs PROVE p = <<p[1], p[2]>> /\ p[1] \in Earliers /\ p[2] \in Laters /\ p \in Earliers \X Laters
  BY <1>1
<1>4. Nearest(hash) = InOrder(pairs, rank)
  BY DEF Nearest
<1>5. \A e \in Pool(hash).earlier, l \in Pool(hash).later : <<e, l>> \in pairs
  OBVIOUS
<1> HIDE DEF pairs
<1>6. ASSUME NEW p \in pairs PROVE rank[p] \in Triples
  <2>1. Off(p) \in Int
    BY <1>3, OffTyped
  <2>2. Index(input.later, p[2]) \in Int /\ Index(input.earlier, p[1]) \in Int
    BY <1>3, SideFacts DEF Laters, Earliers
  <2> QED BY <2>1, <2>2 DEF Triples
<1>7. ASSUME NEW p \in pairs, NEW q \in pairs, rank[p] = rank[q] PROVE p = q
  <2>1. Index(input.earlier, p[1]) = Index(input.earlier, q[1]) /\ Index(input.later, p[2]) = Index(input.later, q[2])
    BY <1>7
  <2>2. p[1] = q[1] /\ p[2] = q[2]
    BY <1>3, <2>1, SideFacts DEF Laters, Earliers
  <2> QED BY <1>3, <2>2
<1> HIDE DEF rank
<1>8. /\ Cardinality(pairs) \in Nat
      /\ InOrder(pairs, rank) \in [1 .. Cardinality(pairs) -> pairs]
      /\ \A x \in pairs : \E i \in 1 .. Cardinality(pairs) : InOrder(pairs, rank)[i] = x
  <2>1. \A x \in pairs : rank[x] \in Triples
    BY <1>6
  <2>2. \A x, y \in pairs : rank[x] = rank[y] => x = y
    BY <1>7
  <2>3. Cardinality(pairs) \in Nat /\ InOrder(pairs, rank) \in [1 .. Cardinality(pairs) -> pairs]
    BY <1>2, <2>1, <2>2, InOrderLists
  <2>4. \A x \in pairs : \E i \in 1 .. Cardinality(pairs) : InOrder(pairs, rank)[i] = x
    BY <1>2, <2>1, <2>2, InOrderLists
  <2> QED BY <2>3, <2>4
<1> DEFINE n == Cardinality(pairs)
           order == InOrder(pairs, rank)
<1>9. n \in Nat /\ order \in [1 .. n -> pairs] /\ \A x \in pairs : \E i \in 1 .. n : order[i] = x
  BY <1>8
<1>10. ReconciledOf(hash) = Claimed(order)
  BY <1>4 DEF ReconciledOf
<1> HIDE DEF n, order
<1>11. /\ Claimed(order) \subseteq pairs /\ OneToOne(Claimed(order))
       /\ \A i \in 1 .. n : Touches(Claimed(order), order[i])
  BY <1>9, ClaimedPairs
<1>12. \A x \in pairs : Touches(Claimed(order), x)
  BY <1>9, <1>11
<1> QED BY <1>5, <1>10, <1>11, <1>12 DEF pairs

\* The reconciled pairs are of passages neither matched nor flagged, each of one text
\* and in one pair, and no two such passages of one text are both left over.
LEMMA ReconciledPairs ==
  ASSUME input \in AlignmentInputs, Matching(accepted)
  PROVE  /\ Reconciled \subseteq (UnmatchedEarlier \ Merges) \X (UnmatchedLater \ Splits)
         /\ \A p \in Reconciled : input.earlier[p[1]].hash = input.later[p[2]].hash
         /\ OneToOne(Reconciled)
         /\ \A e \in UnmatchedEarlier \ Merges, l \in UnmatchedLater \ Splits :
              input.earlier[e].hash = input.later[l].hash => Touches(Reconciled, <<e, l>>)
<1>1. ASSUME NEW hash \in Texts, NEW p \in ReconciledOf(hash)
      PROVE  /\ p = <<p[1], p[2]>>
             /\ p[1] \in UnmatchedEarlier \ Merges /\ input.earlier[p[1]].hash = hash
             /\ p[2] \in UnmatchedLater \ Splits /\ input.later[p[2]].hash = hash
  <2>1. p \in Pool(hash).earlier \X Pool(hash).later
    BY ReconciledOfOneText
  <2>2. p = <<p[1], p[2]>> /\ p[1] \in Pool(hash).earlier /\ p[2] \in Pool(hash).later
    BY <2>1
  <2> QED BY <2>2 DEF Pool
<1>2. \A p \in Reconciled : \E hash \in Texts : p \in ReconciledOf(hash)
  BY DEF Reconciled
<1>3. \A p \in Reconciled :
        /\ p \in (UnmatchedEarlier \ Merges) \X (UnmatchedLater \ Splits)
        /\ input.earlier[p[1]].hash = input.later[p[2]].hash
  BY <1>1, <1>2
<1>4. OneToOne(Reconciled)
  <2> SUFFICES ASSUME NEW p \in Reconciled, NEW q \in Reconciled, p[1] = q[1] \/ p[2] = q[2] PROVE p = q
    BY DEF OneToOne
  <2>1. PICK hash \in Texts : p \in ReconciledOf(hash)
    BY <1>2
  <2>2. PICK other \in Texts : q \in ReconciledOf(other)
    BY <1>2
  <2>3. hash = other
    BY <1>1, <2>1, <2>2
  <2> QED BY <2>1, <2>2, <2>3, ReconciledOfOneText DEF OneToOne
<1>5. ASSUME NEW e \in UnmatchedEarlier \ Merges, NEW l \in UnmatchedLater \ Splits,
             input.earlier[e].hash = input.later[l].hash
      PROVE  Touches(Reconciled, <<e, l>>)
  <2> DEFINE hash == input.earlier[e].hash
  <2>1. hash \in Texts
    BY DEF Texts, UnmatchedEarlier
  <2>2. e \in Pool(hash).earlier /\ l \in Pool(hash).later
    BY <1>5 DEF Pool
  <2> HIDE DEF hash
  <2>3. Touches(ReconciledOf(hash), <<e, l>>)
    BY <2>2, ReconciledOfOneText
  <2> QED BY <2>1, <2>3 DEF Touches, Reconciled
<1> QED BY <1>3, <1>4, <1>5

-----------------------------------------------------------------------------
(* The rows of a run                                                        *)

Primary(l) ==
  Row(accepted[l], l, Classified(l, accepted[l]),
      Confidence(Margin(l, accepted[l]), l \in Collisions \/ Disagrees(l, accepted[l])), "PRIMARY")

Unique(p) ==
  LET pool == Pool(input.earlier[p[1]].hash)
  IN Cardinality(pool.earlier) = 1 /\ Cardinality(pool.later) = 1

Recovered(p) ==
  Row(p[1], p[2], "UNCHANGED", IF Unique(p) THEN "HIGH" ELSE "MEDIUM",
      IF Unique(p) THEN "UNIQUE" ELSE "DUPLICATE_CLUSTER")

LeftLater == UnmatchedLater \ { p[2] : p \in Reconciled }
LeftEarlier == UnmatchedEarlier \ { p[1] : p \in Reconciled }

Arrival(l) == Lone(None, l, l \in Splits, "NEW")
Departure(e) == Lone(e, None, e \in Merges, "REMOVED")

LEMMA RowsAre ==
  Rows = { Primary(l) : l \in DOMAIN accepted } \cup { Recovered(p) : p \in Reconciled }
           \cup { Arrival(l) : l \in LeftLater } \cup { Departure(e) : e \in LeftEarlier }
BY DEF Rows, Primary, Unique, Recovered, LeftLater, LeftEarlier, Arrival, Departure

LEMMA RowFields ==
  /\ \A l : /\ Primary(l).earlier = accepted[l] /\ Primary(l).later = l
            /\ Primary(l).status \notin {"NEW", "REMOVED"} /\ Primary(l).source = "PRIMARY"
  /\ \A p : Recovered(p).earlier = p[1] /\ Recovered(p).later = p[2] /\ Recovered(p).status = "UNCHANGED"
  /\ \A l : /\ Arrival(l).earlier = None /\ Arrival(l).later = l
            /\ Arrival(l).status = (IF l \in Splits THEN "AMBIGUOUS" ELSE "NEW") /\ Arrival(l).source = "PRIMARY"
  /\ \A e : /\ Departure(e).earlier = e /\ Departure(e).later = None
            /\ Departure(e).status = (IF e \in Merges THEN "AMBIGUOUS" ELSE "REMOVED")
            /\ Departure(e).source = "PRIMARY"
<1>1. \A l, e : Classified(l, e) \notin {"NEW", "REMOVED"}
  BY DEF Classified
<1> QED BY <1>1 DEF Primary, Recovered, Arrival, Departure, Lone, Row

\* Where the passages of either side are.
LEMMA SidesDivide ==
  ASSUME input \in AlignmentInputs, Matching(accepted)
  PROVE  /\ \A l \in DOMAIN accepted : l \in Laters /\ accepted[l] \in Earliers /\ accepted[l] \notin UnmatchedEarlier
         /\ \A p \in Reconciled : /\ p[1] \in Earliers /\ p[1] \in UnmatchedEarlier
                                  /\ p[2] \in Laters /\ p[2] \notin DOMAIN accepted
         /\ \A l \in LeftLater : l \in Laters /\ l \notin DOMAIN accepted /\ \A p \in Reconciled : p[2] # l
         /\ \A e \in LeftEarlier : e \in UnmatchedEarlier /\ e \in Earliers /\ \A p \in Reconciled : p[1] # e
         /\ \A l \in Laters : l \in DOMAIN accepted \/ l \in LeftLater \/ \E p \in Reconciled : p[2] = l
         /\ \A e \in Earliers : e \in LeftEarlier \/ (\E l \in DOMAIN accepted : accepted[l] = e)
                                \/ \E p \in Reconciled : p[1] = e
         /\ None \notin Earliers /\ None \notin Laters
<1>1. None \notin Earliers /\ None \notin Laters
  BY SideFacts DEF Earliers, Laters
<1>2. \A p \in Reconciled : p[1] \in UnmatchedEarlier /\ p[2] \in UnmatchedLater
  BY ReconciledPairs
<1>3. \A l \in DOMAIN accepted : l \in Laters /\ accepted[l] \in Earliers
  BY DEF Matching
<1>4. Range(accepted) = { accepted[l] : l \in DOMAIN accepted }
  BY DEF Range
<1> QED BY <1>1, <1>2, <1>3, <1>4 DEF UnmatchedEarlier, UnmatchedLater, LeftLater, LeftEarlier

\* Each passage has a row, and it is the only one.
LEMMA OneRowEach ==
  ASSUME input \in AlignmentInputs, Matching(accepted)
  PROVE  /\ \A e \in Earliers : \E row \in Rows : row.earlier = e
         /\ \A l \in Laters : \E row \in Rows : row.later = l
         /\ \A x, y \in Rows : x.earlier \in Earliers /\ x.earlier = y.earlier => x = y
         /\ \A x, y \in Rows : x.later \in Laters /\ x.later = y.later => x = y
<1>1. \A p, q \in Reconciled : p[1] = q[1] \/ p[2] = q[2] => p = q
  BY ReconciledPairs DEF OneToOne
<1>2. \A l, m \in DOMAIN accepted : accepted[l] = accepted[m] => l = m
  BY DEF Matching
<1>3. \A e \in Earliers : \E row \in Rows : row.earlier = e
  BY RowsAre, RowFields, SidesDivide
<1>4. \A l \in Laters : \E row \in Rows : row.later = l
  BY RowsAre, RowFields, SidesDivide
<1>5. ASSUME NEW row \in Rows
      PROVE  /\ row.earlier \in Earliers =>
                  \/ \E l \in DOMAIN accepted : row = Primary(l) /\ row.earlier = accepted[l]
                  \/ \E p \in Reconciled : row = Recovered(p) /\ row.earlier = p[1]
                  \/ \E e \in LeftEarlier : row = Departure(e) /\ row.earlier = e
             /\ row.later \in Laters =>
                  \/ \E l \in DOMAIN accepted : row = Primary(l) /\ row.later = l
                  \/ \E p \in Reconciled : row = Recovered(p) /\ row.later = p[2]
                  \/ \E l \in LeftLater : row = Arrival(l) /\ row.later = l
  <2>1. CASE \E l \in DOMAIN accepted : row = Primary(l)
    BY <2>1, RowFields
  <2>2. CASE \E p \in Reconciled : row = Recovered(p)
    BY <2>2, RowFields
  <2>3. CASE \E l \in LeftLater : row = Arrival(l)
    BY <2>3, RowFields, SidesDivide
  <2>4. CASE \E e \in LeftEarlier : row = Departure(e)
    BY <2>4, RowFields, SidesDivide
  <2> QED BY <2>1, <2>2, <2>3, <2>4, RowsAre
<1>6. ASSUME NEW x \in Rows, NEW y \in Rows, x.earlier \in Earliers, x.earlier = y.earlier PROVE x = y
  <2>1. CASE \E l \in DOMAIN accepted : x = Primary(l) /\ x.earlier = accepted[l]
    BY <1>2, <1>5, <1>6, <2>1, SidesDivide
  <2>2. CASE \E p \in Reconciled : x = Recovered(p) /\ x.earlier = p[1]
    BY <1>1, <1>5, <1>6, <2>2, SidesDivide
  <2>3. CASE \E e \in LeftEarlier : x = Departure(e) /\ x.earlier = e
    BY <1>5, <1>6, <2>3, SidesDivide
  <2> QED BY <1>5, <1>6, <2>1, <2>2, <2>3
<1>7. ASSUME NEW x \in Rows, NEW y \in Rows, x.later \in Laters, x.later = y.later PROVE x = y
  <2>1. CASE \E l \in DOMAIN accepted : x = Primary(l) /\ x.later = l
    BY <1>5, <1>7, <2>1, SidesDivide
  <2>2. CASE \E p \in Reconciled : x = Recovered(p) /\ x.later = p[2]
    BY <1>1, <1>5, <1>7, <2>2, SidesDivide
  <2>3. CASE \E l \in LeftLater : x = Arrival(l) /\ x.later = l
    BY <1>5, <1>7, <2>3, SidesDivide
  <2> QED BY <1>5, <1>7, <2>1, <2>2, <2>3
<1> QED BY <1>3, <1>4, <1>6, <1>7

-----------------------------------------------------------------------------
(* Counting the rows                                                        *)

\* As many as there are values that each stand for one of them.
LEMMA SameCount ==
  ASSUME NEW S, NEW T, IsFiniteSet(T), NEW f, \A x \in S : f[x] \in T,
         \A x, y \in S : f[x] = f[y] => x = y, \A t \in T : \E x \in S : f[x] = t
  PROVE  IsFiniteSet(S) /\ Cardinality(S) = Cardinality(T)
<1> DEFINE g == [x \in S |-> f[x]]
<1>1. g \in Injection(S, T)
  BY DEF Injection, IsInjective
<1>2. g \in Surjection(S, T)
  BY DEF Surjection
<1> HIDE DEF g
<1> QED BY <1>1, <1>2, FS_Injection

LEMMA MatchedRowsCounted ==
  ASSUME input \in AlignmentInputs, Matching(accepted)
  PROVE  /\ Cardinality(DOMAIN accepted) + Cardinality(Reconciled)
              = Cardinality({ row \in Rows : None \notin {row.earlier, row.later} })
         /\ Cardinality({ row \in Rows : None \notin {row.earlier, row.later} })
              + Cardinality({ row \in Rows : row.earlier = None }) = Cardinality(Laters)
<1> DEFINE seconds == { p[2] : p \in Reconciled }
           matched == { row \in Rows : None \notin {row.earlier, row.later} }
           arrived == { row \in Rows : row.earlier = None }
           second == [p \in Reconciled |-> p[2]]
           later == [row \in Rows |-> row.later]
<1>1. IsFiniteSet(Laters)
  BY SideFacts DEF Laters
<1>2. /\ DOMAIN accepted \subseteq Laters /\ seconds \subseteq Laters /\ LeftLater \subseteq Laters
      /\ (DOMAIN accepted) \cap seconds = {} /\ Laters = ((DOMAIN accepted) \cup seconds) \cup LeftLater
      /\ ((DOMAIN accepted) \cup seconds) \cap LeftLater = {}
  BY SidesDivide
<1>3. \A row \in Rows :
        /\ row \in matched <=> (\E l \in DOMAIN accepted : row = Primary(l)) \/ \E p \in Reconciled : row = Recovered(p)
        /\ row \in arrived <=> \E l \in LeftLater : row = Arrival(l)
  <2> SUFFICES ASSUME NEW row \in Rows
               PROVE  /\ row \in matched <=> (\E l \in DOMAIN accepted : row = Primary(l))
                                               \/ \E p \in Reconciled : row = Recovered(p)
                      /\ row \in arrived <=> \E l \in LeftLater : row = Arrival(l)
    OBVIOUS
  <2>1. CASE \E l \in DOMAIN accepted : row = Primary(l)
    BY <2>1, RowFields, SidesDivide
  <2>2. CASE \E p \in Reconciled : row = Recovered(p)
    BY <2>2, RowFields, SidesDivide
  <2>3. CASE \E l \in LeftLater : row = Arrival(l)
    BY <2>3, RowFields, SidesDivide
  <2>4. CASE \E e \in LeftEarlier : row = Departure(e)
    BY <2>4, RowFields, SidesDivide
  <2> QED BY <2>1, <2>2, <2>3, <2>4, RowsAre
<1>4. \A row \in Rows : later[row] = row.later
  OBVIOUS
<1>5. matched \subseteq Rows /\ arrived \subseteq Rows
  OBVIOUS
<1>6. /\ \A l \in DOMAIN accepted : Primary(l) \in Rows
      /\ \A p \in Reconciled : Recovered(p) \in Rows
      /\ \A l \in LeftLater : Arrival(l) \in Rows
  BY RowsAre
<1>7. \A s \in seconds : \E p \in Reconciled : s = p[2]
  OBVIOUS
<1>8. \A p \in Reconciled : p[2] \in seconds /\ second[p] = p[2]
  OBVIOUS
<1> HIDE DEF matched, arrived, seconds, later, second
<1>9. Cardinality(matched) = Cardinality((DOMAIN accepted) \cup seconds)
  <2>1. \A x \in matched : later[x] \in (DOMAIN accepted) \cup seconds
    BY <1>3, <1>4, <1>5, <1>8, RowFields
  <2>2. \A x, y \in matched : later[x] = later[y] => x = y
    BY <1>2, <1>4, <1>5, <2>1, OneRowEach
  <2>3. \A t \in (DOMAIN accepted) \cup seconds : \E x \in matched : later[x] = t
    BY <1>3, <1>4, <1>6, <1>7, RowFields
  <2>4. IsFiniteSet((DOMAIN accepted) \cup seconds)
    BY <1>1, <1>2, FS_Subset
  <2> QED BY <2>1, <2>2, <2>3, <2>4, SameCount
<1>10. Cardinality(arrived) = Cardinality(LeftLater)
  <2>1. \A x \in arrived : later[x] \in LeftLater
    BY <1>3, <1>4, <1>5, RowFields
  <2>2. \A x, y \in arrived : later[x] = later[y] => x = y
    BY <1>2, <1>4, <1>5, <2>1, OneRowEach
  <2>3. \A t \in LeftLater : \E x \in arrived : later[x] = t
    BY <1>3, <1>4, <1>6, RowFields
  <2>4. IsFiniteSet(LeftLater)
    BY <1>1, <1>2, FS_Subset
  <2> QED BY <2>1, <2>2, <2>3, <2>4, SameCount
<1>11. Cardinality(Reconciled) = Cardinality(seconds)
  <2>1. \A x, y \in Reconciled : second[x] = second[y] => x = y
    BY <1>8, ReconciledPairs DEF OneToOne
  <2>2. IsFiniteSet(seconds)
    BY <1>1, <1>2, FS_Subset
  <2>3. \A t \in seconds : \E x \in Reconciled : second[x] = t
    BY <1>7, <1>8
  <2>4. \A x \in Reconciled : second[x] \in seconds
    BY <1>8
  <2> QED BY <2>1, <2>2, <2>3, <2>4, SameCount
<1>12. /\ IsFiniteSet(DOMAIN accepted) /\ IsFiniteSet(seconds) /\ IsFiniteSet(LeftLater)
       /\ Cardinality(DOMAIN accepted) \in Nat /\ Cardinality(seconds) \in Nat /\ Cardinality(LeftLater) \in Nat
  BY <1>1, <1>2, FS_Subset, FS_CardinalityType
<1>13. Cardinality((DOMAIN accepted) \cup seconds) = Cardinality(DOMAIN accepted) + Cardinality(seconds)
       /\ IsFiniteSet((DOMAIN accepted) \cup seconds)
  BY <1>2, <1>12, FS_Union, FS_EmptySet
<1>14. Cardinality(Laters) = Cardinality((DOMAIN accepted) \cup seconds) + Cardinality(LeftLater)
  <2> DEFINE held == (DOMAIN accepted) \cup seconds
  <2>1. IsFiniteSet(held) /\ Cardinality(held) \in Nat /\ held \cap LeftLater = {} /\ Laters = held \cup LeftLater
    BY <1>2, <1>13, FS_CardinalityType
  <2> HIDE DEF held
  <2>2. Cardinality(Laters) = Cardinality(held) + Cardinality(LeftLater) - 0
    BY <2>1, <1>12, FS_Union, FS_EmptySet
  <2>3. Cardinality(Laters) = Cardinality(held) + Cardinality(LeftLater)
    BY <2>1, <2>2, <1>12
  <2> QED BY <2>3 DEF held
<1>15. Cardinality(DOMAIN accepted) + Cardinality(Reconciled) = Cardinality(matched)
  BY <1>9, <1>11, <1>13
<1>16. Cardinality(matched) + Cardinality(arrived) = Cardinality(Laters)
  BY <1>9, <1>10, <1>14
<1> QED BY <1>15, <1>16 DEF matched, arrived

-----------------------------------------------------------------------------
(* The invariant                                                            *)

\* Before the rows are written there is a matching to write them from; then they
\* are as they should be.
AlignmentInv ==
  /\ stage \in {"idle", "selected", "scored", "claimed", "matched", "completed"}
  /\ stage # "idle" => input \in AlignmentInputs
  /\ stage \in {"claimed", "matched"} => Matching(accepted)
  /\ RowsPartitionPassages
  /\ NoTextRemovedAndNew

LEMMA RowsPartition ==
  ASSUME input \in AlignmentInputs, Matching(accepted)
  PROVE  /\ \A e \in Earliers : Cardinality({ row \in Rows : row.earlier = e }) = 1
         /\ \A l \in Laters : Cardinality({ row \in Rows : row.later = l }) = 1
<1>1. ASSUME NEW e \in Earliers PROVE Cardinality({ row \in Rows : row.earlier = e }) = 1
  <2>1. PICK x \in Rows : x.earlier = e
    BY OneRowEach
  <2>2. { row \in Rows : row.earlier = e } = {x}
    BY <2>1, OneRowEach
  <2> QED BY <2>2, FS_Singleton
<1>2. ASSUME NEW l \in Laters PROVE Cardinality({ row \in Rows : row.later = l }) = 1
  <2>1. PICK x \in Rows : x.later = l
    BY OneRowEach
  <2>2. { row \in Rows : row.later = l } = {x}
    BY <2>1, OneRowEach
  <2> QED BY <2>2, FS_Singleton
<1> QED BY <1>1, <1>2

LEMMA TextsReconciled ==
  ASSUME input \in AlignmentInputs, Matching(accepted)
  PROVE  /\ \A x, y \in Rows :
              x.status = "REMOVED" /\ y.status = "NEW" =>
                input.earlier[x.earlier].hash # input.later[y.later].hash
         /\ \A row \in Rows : row.source # "PRIMARY" =>
              input.earlier[row.earlier].hash = input.later[row.later].hash
<1>1. ASSUME NEW x \in Rows, NEW y \in Rows, x.status = "REMOVED", y.status = "NEW"
      PROVE  input.earlier[x.earlier].hash # input.later[y.later].hash
  <2>1. PICK e \in LeftEarlier : x = Departure(e)
    BY <1>1, RowsAre, RowFields
  <2>2. PICK l \in LeftLater : y = Arrival(l)
    BY <1>1, RowsAre, RowFields
  <2>3. e \in UnmatchedEarlier \ Merges /\ l \in UnmatchedLater \ Splits /\ x.earlier = e /\ y.later = l
    BY <1>1, <2>1, <2>2, RowFields DEF LeftEarlier, LeftLater
  <2>4. ~ Touches(Reconciled, <<e, l>>)
    BY SidesDivide DEF Touches
  <2> QED BY <2>3, <2>4, ReconciledPairs
<1>2. ASSUME NEW row \in Rows, row.source # "PRIMARY"
      PROVE  input.earlier[row.earlier].hash = input.later[row.later].hash
  <2>1. PICK p \in Reconciled : row = Recovered(p)
    BY <1>2, RowsAre, RowFields
  <2> QED BY <2>1, RowFields, ReconciledPairs
<1> QED BY <1>1, <1>2

LEMMA InitAlignmentInv == Idle => AlignmentInv
BY DEF Idle, AlignmentInv, RowsPartitionPassages, NoTextRemovedAndNew

LEMMA AlignmentStep == AlignmentInv /\ [AlignmentNext]_vars => AlignmentInv'
<1> SUFFICES ASSUME AlignmentInv, [AlignmentNext]_vars PROVE AlignmentInv'
  OBVIOUS
<1>1. CASE SelectSource
  BY <1>1 DEF AlignmentInv, SelectSource, Start, RowsPartitionPassages, NoTextRemovedAndNew
<1>2. CASE RetrieveCandidates
  BY <1>2 DEF AlignmentInv, RetrieveCandidates, Follow, RowsPartitionPassages, NoTextRemovedAndNew
<1>3. CASE ClaimProposals
  <2>1. stage = "scored" /\ stage' = "claimed" /\ input' = input /\ accepted' = Greedy
    BY <1>3 DEF ClaimProposals, Follow, accepted
  <2>2. Matching(Greedy)
    BY <2>1, GreedyMatches DEF AlignmentInv
  <2>3. Matching(accepted)'
    BY <2>1, <2>2 DEF Matching, Earliers, Laters
  <2> QED BY <2>1, <2>3 DEF AlignmentInv, RowsPartitionPassages, NoTextRemovedAndNew
<1>4. CASE ExchangeLocally
  <2>1. stage = "claimed" /\ stage' = "matched" /\ input' = input /\ accepted' = Exchanged
    BY <1>4 DEF ExchangeLocally, Follow, accepted
  <2>2. Matching(Exchanged)
    BY <2>1, ExchangedMatches DEF AlignmentInv
  <2>3. Matching(accepted)'
    BY <2>1, <2>2 DEF Matching, Earliers, Laters
  <2> QED BY <2>1, <2>3 DEF AlignmentInv, RowsPartitionPassages, NoTextRemovedAndNew
<1>5. CASE RecordRows
  <2>1. stage = "matched" /\ stage' = "completed" /\ input' = input /\ result' = RunResult
    BY <1>5 DEF RecordRows, Follow, result
  <2>2. input \in AlignmentInputs /\ Matching(accepted)
    BY <2>1 DEF AlignmentInv
  <2>3. result'.rows = Rows /\ result'.matched_count = Cardinality(DOMAIN accepted) + Cardinality(Reconciled)
    BY <2>1 DEF RunResult
  <2>4. Earliers' = Earliers /\ Laters' = Laters
    BY <2>1 DEF Earliers, Laters
  <2>5. RowsPartitionPassages'
    BY <2>2, <2>3, <2>4, RowsPartition, MatchedRowsCounted DEF RowsPartitionPassages
  <2>6. NoTextRemovedAndNew'
    BY <2>1, <2>2, <2>3, TextsReconciled DEF NoTextRemovedAndNew
  <2> QED BY <2>1, <2>2, <2>5, <2>6 DEF AlignmentInv
<1>6. CASE UNCHANGED vars
  <2>1. stage' = stage /\ input' = input /\ found' = found
    BY <1>6 DEF vars
  <2> QED BY <2>1 DEF AlignmentInv, Matching, RowsPartitionPassages, NoTextRemovedAndNew, Earliers, Laters, accepted, result
<1> QED BY <1>1, <1>2, <1>3, <1>4, <1>5, <1>6 DEF AlignmentNext

THEOREM AlignmentInvariance == AlignmentSpec => []AlignmentInv
BY InitAlignmentInv, AlignmentStep, PTL DEF AlignmentSpec

\* Every eligible passage of either report is in exactly one row of a completed run,
\* and the counts account for all of them, for reports of any length, any comparison
\* of their texts and any thresholds.
THEOREM RowsPartitionAlways == AlignmentSpec => []RowsPartitionPassages
<1>1. AlignmentInv => RowsPartitionPassages
  BY DEF AlignmentInv
<1> QED BY <1>1, AlignmentInvariance, PTL

\* No text is reported as removed and new, and reconciliation pairs equal texts.
THEOREM NoTextRemovedAndNewAlways == AlignmentSpec => []NoTextRemovedAndNew
<1>1. AlignmentInv => NoTextRemovedAndNew
  BY DEF AlignmentInv
<1> QED BY <1>1, AlignmentInvariance, PTL

-----------------------------------------------------------------------------
(* The phrases of a sentence                                                *)

\* The longest key at a token is one, and no longer one starts there.
LEMMA LongestKeyFacts ==
  ASSUME NEW tokens, Len(tokens) \in Nat, NEW i \in 1 .. Len(tokens)
  PROVE  /\ LongestKey(tokens, i) \in 0 .. Len(tokens) - i + 1
         /\ LongestKey(tokens, i) > 0 => SubSeq(tokens, i, i + LongestKey(tokens, i) - 1) \in Keys
         /\ \A n \in 1 .. Len(tokens) - i + 1 :
              SubSeq(tokens, i, i + n - 1) \in Keys => n <= LongestKey(tokens, i)
<1> DEFINE lengths == { n \in 1 .. Len(tokens) - i + 1 : SubSeq(tokens, i, i + n - 1) \in Keys }
<1>1. LongestKey(tokens, i) = IF lengths = {} THEN 0 ELSE Max(lengths)
  BY DEF LongestKey
<1>2. IsFiniteSet(lengths)
  <2>1. IsFiniteSet(1 .. Len(tokens) - i + 1)
    BY FS_Interval
  <2>2. lengths \subseteq 1 .. Len(tokens) - i + 1
    OBVIOUS
  <2> HIDE DEF lengths
  <2> QED BY <2>1, <2>2, FS_Subset
<1>3. lengths \in SUBSET Int
  OBVIOUS
<1>4. CASE lengths = {}
  <2>1. LongestKey(tokens, i) = 0
    BY <1>1, <1>4
  <2>2. ASSUME NEW n \in 1 .. Len(tokens) - i + 1, SubSeq(tokens, i, i + n - 1) \in Keys PROVE FALSE
    BY <1>4, <2>2
  <2> QED BY <2>1, <2>2
<1>5. CASE lengths # {}
  <2>1. Max(lengths) \in lengths /\ \A y \in lengths : y <= Max(lengths)
    <3> HIDE DEF lengths
    <3> QED BY <1>2, <1>3, <1>5, MaxExists
  <2>2. LongestKey(tokens, i) = Max(lengths)
    BY <1>1, <1>5
  <2> QED BY <2>1, <2>2
<1> QED BY <1>4, <1>5

\* What a scan of a sentence of n tokens can have found.
Scans(n) == [next : 1 .. n + 1, matches : SUBSET [key : Keys, start : 1 .. n, span : 1 .. n]]

\* Before the next token matches are disjoint and as long as they can be, and
\* where none reaches no key starts.
Scanned(tokens, acc) ==
  /\ \A m \in acc.matches :
       m.start + m.span <= acc.next /\ LongestKey(tokens, m.start) <= m.span
  /\ \A m, k \in acc.matches : m = k \/ m.start + m.span <= k.start \/ k.start + k.span <= m.start
  /\ \A j \in 1 .. acc.next - 1 :
       \/ LongestKey(tokens, j) = 0
       \/ \E m \in acc.matches : m.start <= j /\ j < m.start + m.span

\* A match at the token the scan is at.
LEMMA AcceptScans ==
  ASSUME NEW tokens, Len(tokens) \in Nat, NEW acc \in Scans(Len(tokens)), NEW i \in 1 .. Len(tokens),
         NEW key \in Keys, NEW n \in 1 .. Len(tokens) - i + 1
  PROVE  /\ Accept(acc, Match(key, i, n)) \in Scans(Len(tokens))
         /\ Scanned(tokens, acc) /\ acc.next = i /\ LongestKey(tokens, i) <= n =>
              Scanned(tokens, Accept(acc, Match(key, i, n)))
<1> DEFINE m == Match(key, i, n)
           new == Accept(acc, m)
<1>1. m \in [key : Keys, start : 1 .. Len(tokens), span : 1 .. Len(tokens)] /\ m.start = i /\ m.span = n
  BY DEF Match
<1> HIDE DEF m
<1>2. new.next = i + n /\ new.matches = acc.matches \cup {m}
  BY <1>1 DEF Accept
<1>3. new \in Scans(Len(tokens))
  BY <1>1 DEF Accept, Scans
<1>4. ASSUME Scanned(tokens, acc), acc.next = i, LongestKey(tokens, i) <= n
      PROVE  Scanned(tokens, new)
  <2> HIDE DEF new
  <2>1. /\ \A k \in acc.matches : k.start \in Nat /\ k.span \in Nat
        /\ \A k \in acc.matches : k.start + k.span <= i /\ LongestKey(tokens, k.start) <= k.span
    BY <1>4 DEF Scanned, Scans
  <2>2. \A k \in new.matches : k.start + k.span <= new.next /\ LongestKey(tokens, k.start) <= k.span
    BY <1>1, <1>2, <1>4, <2>1
  <2>3. \A k, x \in new.matches : k = x \/ k.start + k.span <= x.start \/ x.start + x.span <= k.start
    BY <1>1, <1>2, <1>4, <2>1 DEF Scanned
  <2>4. ASSUME NEW j \in 1 .. new.next - 1
        PROVE  LongestKey(tokens, j) = 0 \/ \E k \in new.matches : k.start <= j /\ j < k.start + k.span
    <3>1. CASE j < i
      BY <1>2, <1>4, <3>1 DEF Scanned
    <3>2. CASE ~(j < i)
      BY <1>1, <1>2, <3>2
    <3> QED BY <3>1, <3>2
  <2> QED BY <2>2, <2>3, <2>4 DEF Scanned
<1> QED BY <1>3, <1>4 DEF m

\* No match there.
LEMMA PassScans ==
  ASSUME NEW tokens, Len(tokens) \in Nat, NEW acc \in Scans(Len(tokens)), NEW i \in 1 .. Len(tokens)
  PROVE  /\ Pass(acc, i) \in Scans(Len(tokens))
         /\ Scanned(tokens, acc) /\ acc.next = i /\ LongestKey(tokens, i) = 0 => Scanned(tokens, Pass(acc, i))
<1>1. Pass(acc, i) \in Scans(Len(tokens)) /\ Pass(acc, i).next = i + 1 /\ Pass(acc, i).matches = acc.matches
  BY DEF Pass, Scans
<1>2. ASSUME Scanned(tokens, acc), acc.next = i, LongestKey(tokens, i) = 0
      PROVE  Scanned(tokens, Pass(acc, i))
  <2>1. \A j \in 1 .. i : j \in 1 .. acc.next - 1 \/ j = i
    BY <1>2
  <2>2. \A k \in acc.matches : k.start \in Nat /\ k.span \in Nat
    BY DEF Scans
  <2>3. \A k \in acc.matches : k.start + k.span <= i + 1
    BY <1>2, <2>2 DEF Scanned
  <2> QED BY <1>1, <1>2, <2>1, <2>3 DEF Scanned
<1> QED BY <1>1, <1>2

\* One token is looked at.
LEMMA StepScans ==
  ASSUME NEW tokens, Len(tokens) \in Nat, NEW acc \in Scans(Len(tokens)), NEW i \in 1 .. Len(tokens)
  PROVE  /\ MatchStep(tokens, acc, i) \in Scans(Len(tokens))
         /\ Scanned(tokens, acc) /\ acc.next >= i =>
              Scanned(tokens, MatchStep(tokens, acc, i)) /\ MatchStep(tokens, acc, i).next >= i + 1
<1> DEFINE n == LongestKey(tokens, i)
           long == Match(SubSeq(tokens, i, i + n - 1), i, n)
           hyphen == Match(HyphenKey(tokens[i]), i, 1)
<1>1. n \in 0 .. Len(tokens) - i + 1 /\ (n > 0 => SubSeq(tokens, i, i + n - 1) \in Keys)
  BY LongestKeyFacts
<1>2. acc.next \in 1 .. Len(tokens) + 1
  BY DEF Scans
<1>3. CASE i < acc.next
  <2>1. MatchStep(tokens, acc, i) = acc
    BY <1>2, <1>3 DEF MatchStep
  <2> QED BY <1>2, <1>3, <2>1
<1>4. CASE ~(i < acc.next) /\ n > 0
  <2>1. MatchStep(tokens, acc, i) = Accept(acc, long)
    BY <1>2, <1>4 DEF MatchStep
  <2>2. Accept(acc, long).next = i + n
    BY DEF Accept, Match
  <2> HIDE DEF n
  <2>3. n \in 1 .. Len(tokens) - i + 1 /\ SubSeq(tokens, i, i + n - 1) \in Keys
    BY <1>1, <1>4
  <2>4. Accept(acc, long) \in Scans(Len(tokens))
    BY <2>3, AcceptScans
  <2>5. LongestKey(tokens, i) <= n
    BY <2>3 DEF n
  <2>6. Scanned(tokens, acc) /\ acc.next = i => Scanned(tokens, Accept(acc, long))
    BY <2>3, <2>5, AcceptScans
  <2> QED BY <1>2, <1>4, <2>1, <2>2, <2>3, <2>4, <2>6
<1>5. CASE ~(i < acc.next) /\ ~(n > 0) /\ Len(tokens[i]) > 1 /\ HyphenKey(tokens[i]) \in Keys
  <2>1. MatchStep(tokens, acc, i) = Accept(acc, hyphen)
    BY <1>2, <1>5 DEF MatchStep
  <2>2. Accept(acc, hyphen).next = i + 1
    BY DEF Accept, Match
  <2>3. LongestKey(tokens, i) <= 1 /\ 1 \in 1 .. Len(tokens) - i + 1 /\ HyphenKey(tokens[i]) \in Keys
    BY <1>1, <1>5
  <2> HIDE DEF n
  <2>4. /\ Accept(acc, hyphen) \in Scans(Len(tokens))
        /\ Scanned(tokens, acc) /\ acc.next = i => Scanned(tokens, Accept(acc, hyphen))
    BY <2>3, AcceptScans
  <2> QED BY <1>2, <1>5, <2>1, <2>2, <2>4
<1>6. CASE ~(i < acc.next) /\ ~(n > 0) /\ ~(Len(tokens[i]) > 1 /\ HyphenKey(tokens[i]) \in Keys)
  <2>1. MatchStep(tokens, acc, i) = Pass(acc, i)
    BY <1>2, <1>6 DEF MatchStep
  <2>2. Pass(acc, i).next = i + 1
    BY DEF Pass
  <2>3. LongestKey(tokens, i) = 0
    BY <1>1, <1>6
  <2>4. /\ Pass(acc, i) \in Scans(Len(tokens))
        /\ Scanned(tokens, acc) /\ acc.next = i => Scanned(tokens, Pass(acc, i))
    BY <2>3, PassScans
  <2> QED BY <1>2, <1>6, <2>1, <2>2, <2>4
<1> QED BY <1>3, <1>4, <1>5, <1>6

\* The whole sentence is scanned.
LEMMA MatchesScan ==
  ASSUME NEW tokens, Len(tokens) \in Nat
  PROVE  \E acc \in Scans(Len(tokens)) :
           Matches(tokens) = acc.matches /\ Scanned(tokens, acc) /\ acc.next = Len(tokens) + 1
<1> DEFINE n == Len(tokens)
           T == Scans(n)
           base == [next |-> 1, matches |-> {}]
           Runs(f) == f = [k \in 0 .. n |-> IF k = 0 THEN base ELSE MatchStep(tokens, f[k - 1], k)]
           scan == CHOOSE f : Runs(f)
           step == [x \in T \X (1 .. n) |-> MatchStep(tokens, x[1], x[2])]
<1>0. n \in Nat /\ base \in T /\ base.next = 1 /\ Scanned(tokens, base)
  BY DEF Scans, Scanned
<1>1. ASSUME NEW acc \in T, NEW i \in 1 .. n
      PROVE  /\ MatchStep(tokens, acc, i) \in T
             /\ Scanned(tokens, acc) /\ acc.next >= i =>
                  Scanned(tokens, MatchStep(tokens, acc, i)) /\ MatchStep(tokens, acc, i).next >= i + 1
  BY StepScans
<1>2. step \in [T \X (1 .. n) -> T]
  BY <1>1
<1>3. Matches(tokens) = scan[n].matches
  BY DEF Matches
<1> HIDE DEF T, base, n
<1>4. PICK f \in [0 .. n -> T] : Iterates(f, base, step, n)
  BY <1>0, <1>2, IterationExists
<1>5. Runs(f)
  <2>1. \A i \in 0 .. n : f[i] = IF i = 0 THEN base ELSE MatchStep(tokens, f[i - 1], i)
    <3> SUFFICES ASSUME NEW i \in 0 .. n, i # 0 PROVE f[i] = MatchStep(tokens, f[i - 1], i)
      BY <1>4 DEF Iterates
    <3>1. i \in 1 .. n /\ i - 1 \in 0 .. n
      BY <1>0
    <3>2. f[i] = step[<<f[i - 1], i>>] /\ f[i - 1] \in T
      BY <1>4, <3>1 DEF Iterates
    <3> QED BY <3>1, <3>2
  <2> QED BY <2>1
<1>6. Runs(scan)
  BY <1>5
<1> HIDE DEF scan, step
<1>7. scan[0] = base /\ \A i \in 1 .. n : scan[i] = MatchStep(tokens, scan[i - 1], i)
  <2>1. \A k \in 0 .. n : scan[k] = IF k = 0 THEN base ELSE MatchStep(tokens, scan[k - 1], k)
    BY <1>6
  <2>2. 0 \in 0 .. n /\ \A i \in 1 .. n : i \in 0 .. n /\ i # 0
    BY <1>0
  <2> QED BY <2>1, <2>2
<1> DEFINE S == { k \in 0 .. n : scan[k] \in T /\ Scanned(tokens, scan[k]) /\ scan[k].next >= k + 1 }
<1>8. 0 \in S
  BY <1>0, <1>7
<1>9. ASSUME NEW i \in 1 .. n, i - 1 \in S PROVE i \in S
  <2>1. scan[i - 1] \in T /\ Scanned(tokens, scan[i - 1]) /\ scan[i - 1].next >= i
    BY <1>0, <1>9
  <2>2. scan[i] = MatchStep(tokens, scan[i - 1], i)
    BY <1>7
  <2> QED BY <1>0, <1>1, <2>1, <2>2
<1>10. n \in S
  <2> HIDE DEF S
  <2>1. 0 .. n \subseteq S
    BY <1>0, <1>8, <1>9, UpTo
  <2> QED BY <1>0, <2>1
<1>11. scan[n] \in T /\ Scanned(tokens, scan[n]) /\ scan[n].next >= n + 1
  BY <1>10
<1>12. scan[n].next = n + 1
  <2>1. scan[n].next \in 1 .. n + 1
    BY <1>11 DEF T, Scans
  <2> QED BY <1>0, <1>11, <2>1
<1> QED BY <1>3, <1>11, <1>12 DEF T, n

\* What PhrasesMatchedOnce says of one sentence.
LEMMA SentenceMatched ==
  ASSUME NEW tokens, Len(tokens) \in Nat
  PROVE  /\ \A m, k \in Matches(tokens) :
              m = k \/ (m.start .. m.start + m.span - 1) \cap (k.start .. k.start + k.span - 1) = {}
         /\ \A i \in 1 .. Len(tokens) : \A n \in 1 .. Len(tokens) - i + 1 :
              SubSeq(tokens, i, i + n - 1) \in Keys =>
                /\ \E m \in Matches(tokens) : (m.start .. m.start + m.span - 1) \cap (i .. i + n - 1) # {}
                /\ \A m \in Matches(tokens) : m.start = i => m.span >= n
<1>1. PICK acc \in Scans(Len(tokens)) :
        Matches(tokens) = acc.matches /\ Scanned(tokens, acc) /\ acc.next = Len(tokens) + 1
  BY MatchesScan
<1>2. \A m \in Matches(tokens) : m.start \in Nat /\ m.span \in Nat
  BY <1>1 DEF Scans
<1>3. ASSUME NEW m \in Matches(tokens), NEW k \in Matches(tokens), m # k
      PROVE  (m.start .. m.start + m.span - 1) \cap (k.start .. k.start + k.span - 1) = {}
  <2>1. m.start + m.span <= k.start \/ k.start + k.span <= m.start
    BY <1>1, <1>3 DEF Scanned
  <2> QED BY <1>2, <2>1
<1>4. ASSUME NEW i \in 1 .. Len(tokens), NEW n \in 1 .. Len(tokens) - i + 1,
             SubSeq(tokens, i, i + n - 1) \in Keys
      PROVE  /\ \E m \in Matches(tokens) : (m.start .. m.start + m.span - 1) \cap (i .. i + n - 1) # {}
             /\ \A m \in Matches(tokens) : m.start = i => m.span >= n
  <2>1. n <= LongestKey(tokens, i) /\ LongestKey(tokens, i) \in Nat
    BY <1>4, LongestKeyFacts
  <2>2. PICK m \in Matches(tokens) : m.start <= i /\ i < m.start + m.span
    <3>1. i \in 1 .. acc.next - 1 /\ LongestKey(tokens, i) # 0
      BY <1>1, <2>1
    <3> QED BY <1>1, <3>1 DEF Scanned
  <2>3. i \in (m.start .. m.start + m.span - 1) \cap (i .. i + n - 1)
    BY <1>2, <2>2
  <2>4. ASSUME NEW k \in Matches(tokens), k.start = i PROVE k.span >= n
    <3>1. LongestKey(tokens, i) <= k.span
      BY <1>1, <2>4 DEF Scanned
    <3> QED BY <1>2, <2>1, <3>1
  <2> QED BY <2>3, <2>4
<1> QED BY <1>3, <1>4

-----------------------------------------------------------------------------
(* The change score                                                         *)

\* A sum of naturals is one, and zero only when all of them are.
LEMMA TotalOfNaturals ==
  ASSUME NEW n \in Nat, NEW terms \in [1 .. n -> Nat]
  PROVE  /\ Total(terms) \in Nat
         /\ (Total(terms) = 0 <=> \A i \in 1 .. n : terms[i] = 0)
<1> DEFINE Runs(f) == f = [k \in 0 .. n |-> IF k = 0 THEN 0 ELSE f[k - 1] + terms[k]]
           sums == CHOOSE f : Runs(f)
           step == [x \in Nat \X (1 .. n) |-> x[1] + terms[x[2]]]
<1>1. step \in [Nat \X (1 .. n) -> Nat]
  OBVIOUS
<1>2. Total(terms) = sums[n]
  <2>1. Len(terms) = n
    OBVIOUS
  <2> QED BY <2>1 DEF Total
<1>3. PICK f \in [0 .. n -> Nat] : Iterates(f, 0, step, n)
  BY <1>1, IterationExists
<1>4. Runs(f)
  <2>1. \A i \in 0 .. n : f[i] = IF i = 0 THEN 0 ELSE f[i - 1] + terms[i]
    <3> SUFFICES ASSUME NEW i \in 0 .. n, i # 0 PROVE f[i] = f[i - 1] + terms[i]
      BY <1>3 DEF Iterates
    <3>1. i \in 1 .. n /\ i - 1 \in 0 .. n
      OBVIOUS
    <3>2. f[i] = step[<<f[i - 1], i>>] /\ f[i - 1] \in Nat
      BY <1>3, <3>1 DEF Iterates
    <3> QED BY <3>1, <3>2
  <2> QED BY <2>1
<1>5. Runs(sums)
  BY <1>4
<1> HIDE DEF sums, step
<1>6. sums[0] = 0 /\ \A i \in 1 .. n : sums[i] = sums[i - 1] + terms[i]
  <2>1. \A k \in 0 .. n : sums[k] = IF k = 0 THEN 0 ELSE sums[k - 1] + terms[k]
    BY <1>5
  <2>2. 0 \in 0 .. n /\ \A i \in 1 .. n : i \in 0 .. n /\ i # 0
    OBVIOUS
  <2> QED BY <2>1, <2>2
<1> DEFINE S == { k \in 0 .. n : sums[k] \in Nat /\ (sums[k] = 0 <=> \A i \in 1 .. k : terms[i] = 0) }
<1>7. 0 \in S
  BY <1>6
<1>8. ASSUME NEW k \in 1 .. n, k - 1 \in S PROVE k \in S
  <2>1. sums[k - 1] \in Nat /\ (sums[k - 1] = 0 <=> \A i \in 1 .. k - 1 : terms[i] = 0)
    BY <1>8
  <2>2. sums[k] = sums[k - 1] + terms[k] /\ terms[k] \in Nat
    BY <1>6
  <2>3. \A i \in 1 .. k : i \in 1 .. k - 1 \/ i = k
    OBVIOUS
  <2>4. sums[k] = 0 <=> sums[k - 1] = 0 /\ terms[k] = 0
    BY <2>1, <2>2
  <2>5. (\A i \in 1 .. k : terms[i] = 0) <=> (\A i \in 1 .. k - 1 : terms[i] = 0) /\ terms[k] = 0
    BY <2>3
  <2>6. sums[k] \in Nat
    <3>1. \A a, b \in Nat : a + b \in Nat
      OBVIOUS
    <3>2. sums[k - 1] \in Nat /\ terms[k] \in Nat
      BY <2>1, <2>2
    <3>3. sums[k - 1] + terms[k] \in Nat
      BY <3>1, <3>2, Zenon
    <3> QED BY <2>2, <3>3, Zenon
  <2>7. sums[k] = 0 <=> \A i \in 1 .. k : terms[i] = 0
    BY <2>1, <2>4, <2>5
  <2> QED BY <2>6, <2>7
<1>9. n \in S
  <2> HIDE DEF S
  <2>1. 0 .. n \subseteq S
    BY <1>7, <1>8, UpTo
  <2> QED BY <2>1
<1> QED BY <1>2, <1>9

\* The words of a passage are a number.
LEMMA WordsTyped ==
  ASSUME NEW passage, passage = None \/ PassageTyped(passage)
  PROVE  WordsOf(passage) \in Nat
<1>1. CASE passage = None
  BY <1>1 DEF WordsOf
<1>2. CASE passage # None
  <2> DEFINE n == Len(passage.sentences)
             lengths == [i \in 1 .. n |-> Len(passage.sentences[i])]
  <2>1. n \in Nat /\ lengths \in [1 .. n -> Nat]
    BY <1>2 DEF PassageTyped
  <2>2. WordsOf(passage) = Total(lengths)
    BY <1>2 DEF WordsOf, WordCount
  <2> HIDE DEF lengths
  <2> QED BY <2>1, <2>2, TotalOfNaturals
<1> QED BY <1>1, <1>2

MirroredRow(row) ==
  [earlier |-> row.later, later |-> row.earlier, status |-> MirroredStatus[row.status],
   confidence |-> row.confidence, note |-> row.note]

\* A row weighs the same from either report, and is left out from either.
LEMMA RowMirrors ==
  ASSUME input \in MeasuredPairs, NEW i \in 1 .. Len(input.rows)
  PROVE  LET row == input.rows[i]
         IN /\ row.status \in AlignmentStatuses
            /\ RowWeight(row) \in Nat
            /\ RowWeight(MirroredRow(row)) = RowWeight(row)
            /\ RowEligible(MirroredRow(row)) <=> RowEligible(row)
<1> DEFINE row == input.rows[i]
           mirror == MirroredRow(row)
<1>1. /\ row.status \in AlignmentStatuses
      /\ \A side \in Sides : IF side \in SidesOf(row) THEN PassageTyped(row[side]) ELSE row[side] = None
  BY PairsTyped
<1>2. mirror.earlier = row.later /\ mirror.later = row.earlier /\ mirror.status = MirroredStatus[row.status]
  BY DEF MirroredRow
<1> HIDE DEF row, mirror
<1>3. /\ "earlier" \in SidesOf(row) => PassageTyped(row.earlier)
      /\ "earlier" \notin SidesOf(row) => row.earlier = None
      /\ "later" \in SidesOf(row) => PassageTyped(row.later)
      /\ "later" \notin SidesOf(row) => row.later = None
  BY <1>1 DEF Sides
<1>4. WordsOf(row.earlier) \in Nat /\ WordsOf(row.later) \in Nat /\ WordsOf(None) = 0
  BY <1>3, WordsTyped DEF WordsOf
<1>5. RowWeight(row) \in Nat
  BY <1>1, <1>4 DEF RowWeight, AlignmentStatuses
<1>6. RowWeight(mirror) = RowWeight(row)
  <2>1. CASE row.status = "NEW"
    BY <1>2, <2>1 DEF RowWeight, MirroredStatus, AlignmentStatuses
  <2>2. CASE row.status = "REMOVED"
    BY <1>2, <2>2 DEF RowWeight, MirroredStatus, AlignmentStatuses
  <2>3. CASE row.status = "AMBIGUOUS"
    <3>1. row.earlier = None \/ row.later = None
      BY <1>3, <2>3 DEF SidesOf
    <3>2. mirror.status = "AMBIGUOUS"
      BY <1>2, <2>3 DEF MirroredStatus, AlignmentStatuses
    <3>3. /\ RowWeight(row) = 2 * (IF row.earlier # None THEN WordsOf(row.earlier) ELSE WordsOf(row.later))
          /\ RowWeight(mirror) = 2 * (IF row.later # None THEN WordsOf(row.later) ELSE WordsOf(row.earlier))
      BY <1>2, <2>3, <3>2 DEF RowWeight
    <3> QED BY <1>4, <3>1, <3>3
  <2>4. CASE row.status \in {"UNCHANGED", "LIGHTLY_MODIFIED", "SUBSTANTIALLY_MODIFIED"}
    <3>1. mirror.status = row.status
      BY <1>2, <2>4 DEF MirroredStatus, AlignmentStatuses
    <3>2. /\ RowWeight(row) = WordsOf(row.earlier) + WordsOf(row.later)
          /\ RowWeight(mirror) = WordsOf(row.later) + WordsOf(row.earlier)
      BY <1>2, <2>4, <3>1 DEF RowWeight
    <3> QED BY <1>4, <3>2
  <2> QED BY <1>1, <2>1, <2>2, <2>3, <2>4 DEF AlignmentStatuses
<1>7. RowEligible(mirror) <=> RowEligible(row)
  BY <1>2 DEF RowEligible
<1> QED BY <1>1, <1>5, <1>6, <1>7 DEF row, mirror

\* What the eligible rows weigh, and what they add to the score.
Weights(rows) == [i \in 1 .. Len(rows) |-> IF i \in EligibleRows(rows) THEN RowWeight(rows[i]) ELSE 0]

Points(rows) ==
  [i \in 1 .. Len(rows) |->
     IF i \in EligibleRows(rows) THEN Limits.status_weight[rows[i].status] * RowWeight(rows[i]) ELSE 0]

LEMMA ScoreOf == \A rows : Score(rows) = Ratio(Total(Points(rows)), 100 * Total(Weights(rows)))
BY DEF Score, TotalWeight, Points, Weights

\* Every row counts the same from either report.
LEMMA PointsMirror ==
  ASSUME input \in MeasuredPairs
  PROVE  /\ Weights(Mirrored(input.rows)) = Weights(input.rows)
         /\ Points(Mirrored(input.rows)) = Points(input.rows)
<1> DEFINE rows == input.rows
           n == Len(rows)
           mirror == Mirrored(rows)
<1>1. n \in Nat /\ DOMAIN rows = 1 .. n
  BY PairsTyped
<1>2. /\ mirror = [i \in 1 .. n |-> MirroredRow(rows[i])]
  BY DEF Mirrored, MirroredRow
<1>3. Len(mirror) = n /\ DOMAIN mirror = 1 .. n /\ \A i \in 1 .. n : mirror[i] = MirroredRow(rows[i])
  BY <1>1, <1>2
<1>4. ASSUME NEW i \in 1 .. n
      PROVE  /\ rows[i].status \in AlignmentStatuses
             /\ mirror[i].status = MirroredStatus[rows[i].status]
             /\ RowWeight(mirror[i]) = RowWeight(rows[i])
             /\ RowEligible(mirror[i]) <=> RowEligible(rows[i])
  <2>1. /\ rows[i].status \in AlignmentStatuses
        /\ RowWeight(MirroredRow(rows[i])) = RowWeight(rows[i])
        /\ RowEligible(MirroredRow(rows[i])) <=> RowEligible(rows[i])
    BY RowMirrors
  <2>2. mirror[i] = MirroredRow(rows[i])
    BY <1>3
  <2>3. MirroredRow(rows[i]).status = MirroredStatus[rows[i].status]
    BY DEF MirroredRow
  <2> HIDE DEF rows, mirror
  <2> QED BY <2>1, <2>2, <2>3
<1> HIDE DEF rows, mirror, n
<1>5. EligibleRows(mirror) = EligibleRows(rows)
  BY <1>1, <1>3, <1>4 DEF EligibleRows
<1>6. \A i \in 1 .. n : Limits.status_weight[mirror[i].status] = Limits.status_weight[rows[i].status]
  BY <1>4, WeightsTyped DEF MirroredStatus, AlignmentStatuses
<1>7. Weights(mirror) = Weights(rows)
  BY <1>3, <1>4, <1>5 DEF Weights, n
<1>8. Points(mirror) = Points(rows)
  BY <1>3, <1>4, <1>5, <1>6 DEF Points, n
<1> QED BY <1>7, <1>8 DEF mirror, rows

\* What ScoreMirrors says of one pair.
LEMMA PairScoreMirrors ==
  ASSUME input \in MeasuredPairs
  PROVE  /\ Score(input.rows) = Score(Mirrored(input.rows))
         /\ Score(input.rows) # None =>
              (Score(input.rows)[1] = 0
                 <=> \A i \in EligibleRows(input.rows) :
                       input.rows[i].status = "UNCHANGED" \/ RowWeight(input.rows[i]) = 0)
<1> DEFINE rows == input.rows
           n == Len(rows)
           weight(i) == Limits.status_weight[rows[i].status]
<1>1. Score(rows) = Score(Mirrored(rows))
  BY ScoreOf, PointsMirror
<1>2. n \in Nat /\ EligibleRows(rows) \subseteq 1 .. n
  BY PairsTyped DEF EligibleRows
<1>3. \A i \in 1 .. n :
        /\ rows[i].status \in AlignmentStatuses
        /\ RowWeight(rows[i]) \in Nat
  BY RowMirrors
<1>4. \A i \in 1 .. n : weight(i) \in Nat /\ (weight(i) = 0 <=> rows[i].status = "UNCHANGED")
  BY <1>3, WeightsTyped
<1>5. \A a, b \in Nat : a * b \in Nat /\ (a * b = 0 <=> a = 0 \/ b = 0)
  OBVIOUS
<1>6. /\ Points(rows) \in [1 .. n -> Nat]
      /\ \A i \in 1 .. n :
           Points(rows)[i] = IF i \in EligibleRows(rows) THEN weight(i) * RowWeight(rows[i]) ELSE 0
  <2>1. \A i \in 1 .. n : weight(i) * RowWeight(rows[i]) \in Nat
    BY <1>3, <1>4, <1>5
  <2> QED BY <2>1 DEF Points
<1>7. Total(Points(rows)) = 0 <=> \A i \in 1 .. n : Points(rows)[i] = 0
  <2> HIDE DEF n, rows
  <2> QED BY <1>2, <1>6, TotalOfNaturals
<1>8. ASSUME NEW i \in EligibleRows(rows)
      PROVE  Points(rows)[i] = 0 <=> rows[i].status = "UNCHANGED" \/ RowWeight(rows[i]) = 0
  <2> HIDE DEF n, rows, weight
  <2>1. i \in 1 .. n
    BY <1>2, <1>8
  <2>2. Points(rows)[i] = weight(i) * RowWeight(rows[i])
    BY <1>6, <1>8, <2>1
  <2>3. weight(i) \in Nat /\ RowWeight(rows[i]) \in Nat
    BY <1>3, <1>4, <2>1
  <2>4. weight(i) * RowWeight(rows[i]) = 0 <=> weight(i) = 0 \/ RowWeight(rows[i]) = 0
    BY <1>5, <2>3
  <2> QED BY <1>4, <2>1, <2>2, <2>4
<1>9. Score(rows) # None => Score(rows)[1] = Total(Points(rows))
  BY ScoreOf DEF Ratio
<1> HIDE DEF n, rows, weight
<1>10. Score(rows) # None =>
         (Score(rows)[1] = 0
            <=> \A i \in EligibleRows(rows) : rows[i].status = "UNCHANGED" \/ RowWeight(rows[i]) = 0)
  BY <1>2, <1>6, <1>7, <1>8, <1>9
<1> QED BY <1>1, <1>10 DEF rows

-----------------------------------------------------------------------------
(* The measures of a pair                                                   *)

\* A job on a pair measures the pair it was given.
MeasureInv ==
  /\ stage \in {"idle", "paired", "scored_documents", "featured", "signalled", "aggregated"}
  /\ stage # "idle" => input \in MeasuredPairs

THEOREM MeasureInvariance == LanguageSpec => []MeasureInv
<1>1. Idle => MeasureInv
  BY DEF Idle, MeasureInv
<1>2. MeasureInv /\ [LanguageNext]_vars => MeasureInv'
  BY DEF MeasureInv, LanguageNext, FeaturesNext, ChoosePair, ScoreDocuments, BuildFeatures, MatchPassages,
         AggregateSignals, Start, Follow, vars
<1> QED BY <1>1, <1>2, PTL DEF LanguageSpec

\* Every phrase of every sentence is matched once, however the terms of the
\* dictionaries overlap.
THEOREM PhrasesMatchedOnceAlways == LanguageSpec => []PhrasesMatchedOnce
<1>1. MeasureInv => PhrasesMatchedOnce
  <2> SUFFICES ASSUME MeasureInv, stage = "paired",
                      NEW row \in Range(input.rows), NEW side \in Sides, row[side] # None,
                      NEW tokens \in Range(row[side].sentences)
               PROVE  LET matches == Matches(tokens)
                          span(m) == m.start .. m.start + m.span - 1
                      IN /\ \A m, n \in matches : m = n \/ span(m) \cap span(n) = {}
                         /\ \A i \in DOMAIN tokens : \A n \in 1 .. Len(tokens) - i + 1 :
                              SubSeq(tokens, i, i + n - 1) \in Keys =>
                                /\ \E m \in matches : span(m) \cap (i .. i + n - 1) # {}
                                /\ \A m \in matches : m.start = i => m.span >= n
    BY DEF PhrasesMatchedOnce
  <2>1. PassageTyped(row[side])
    <3>1. PICK i \in DOMAIN input.rows : row = input.rows[i]
      BY DEF Range
    <3>2. IF side \in SidesOf(row) THEN PassageTyped(row[side]) ELSE row[side] = None
      BY <3>1, PairsTyped DEF MeasureInv
    <3> QED BY <3>2
  <2>2. Len(tokens) \in Nat /\ DOMAIN tokens = 1 .. Len(tokens)
    BY <2>1 DEF PassageTyped, Range
  <2> QED BY <2>2, SentenceMatched
<1> QED BY <1>1, MeasureInvariance, PTL

\* The score of a pair does not depend on which report is read first, and is zero
\* only when nothing that weighs anything changed.
THEOREM ScoreMirrorsAlways == LanguageSpec => []ScoreMirrors
<1>1. MeasureInv => ScoreMirrors
  BY PairScoreMirrors DEF MeasureInv, ScoreMirrors
<1> QED BY <1>1, MeasureInvariance, PTL

-----------------------------------------------------------------------------
(* The history of a company                                                 *)

\* A pair, its reports and its values.
LEMMA PairFacts ==
  ASSUME input \in Corpora
  PROVE  /\ IsFiniteSet(Published) /\ Published \subseteq Pairs /\ Pairs \subseteq Nat
         /\ \A i \in Pairs : ComparisonTyped(input.comparisons[i])
         /\ \A i, j \in Pairs : input.comparisons[i].pair = input.comparisons[j].pair => i = j
<1>1. Len(input.comparisons) \in Nat /\ Pairs = 1 .. Len(input.comparisons)
  BY CorporaTyped DEF Pairs
<1>2. Published \subseteq Pairs
  BY DEF Published
<1>3. IsFiniteSet(1 .. Len(input.comparisons))
  BY <1>1, FS_Interval
<1>4. IsFiniteSet(Published)
  BY <1>1, <1>2, <1>3, FS_Subset
<1>5. Pairs \subseteq Nat
  BY <1>1
<1> QED BY <1>2, <1>4, <1>5, CorporaTyped DEF Pairs

Earlier(S) == { p \in S \X S : Before(p[1], p[2]) }

\* The pairs of a company have the places of their order, and one is last.
LEMMA HistoryPlaces ==
  ASSUME input \in Corpora, NEW company
  PROVE  LET rows == { i \in Published : CompanyOf(i) = company }
         IN /\ { ChronologicalIndex(i) : i \in rows } = 0 .. Cardinality(rows) - 1
            /\ rows # {} => Cardinality({ i \in rows : IsLatest(i) }) = 1
<1> DEFINE rows == { i \in Published : CompanyOf(i) = company }
           n == Cardinality(rows)
           at == Place(rows, Earlier(rows))
<1>1. IsFiniteSet(rows) /\ rows \subseteq Published
  BY PairFacts, FS_Subset
<1>2. \A i \in rows : History(i) = rows
  BY DEF History
<1>3. \A i \in rows : i \in Nat /\ input.comparisons[i].later \in Int
  BY <1>1, PairFacts DEF ComparisonTyped
<1>4. \A i, j \in rows : <<i, j>> \in Earlier(rows) <=> Before(i, j)
  BY DEF Earlier
<1> HIDE DEF rows
<1>5. \A i, j, k \in rows :
        /\ ~ Before(i, i)
        /\ Before(i, j) /\ Before(j, k) => Before(i, k)
        /\ Before(i, j) \/ Before(j, i) \/ i = j
  BY <1>3 DEF Before
<1>6. StrictOrder(rows, Earlier(rows))
  BY <1>4, <1>5 DEF StrictOrder
<1>7. /\ n \in Nat /\ at \in [rows -> 0 .. n - 1]
      /\ \A i \in 0 .. n - 1 : \E x \in rows : at[x] = i
      /\ \A i, j \in rows : at[i] = at[j] => i = j
      /\ \A i, j \in rows : at[i] < at[j] <=> <<i, j>> \in Earlier(rows)
  BY <1>1, <1>6, PlacesCount
<1>8. \A i \in rows : ChronologicalIndex(i) = at[i]
  <2> SUFFICES ASSUME NEW i \in rows PROVE ChronologicalIndex(i) = at[i]
    OBVIOUS
  <2>1. { j \in rows : <<j, i>> \in Earlier(rows) } = { j \in History(i) : Before(j, i) }
    BY <1>2, <1>4
  <2>2. at[i] = Cardinality({ j \in rows : <<j, i>> \in Earlier(rows) })
    BY DEF Place
  <2> QED BY <2>1, <2>2 DEF ChronologicalIndex
<1> HIDE DEF at, n
<1>9. { ChronologicalIndex(i) : i \in rows } = 0 .. n - 1
  BY <1>7, <1>8
<1>10. ASSUME rows # {} PROVE Cardinality({ i \in rows : IsLatest(i) }) = 1
  <2>1. n # 0
    BY <1>1, <1>10, FS_EmptySet DEF n
  <2>2. PICK x \in rows : at[x] = n - 1
    BY <1>7, <2>1
  <2>3. ASSUME NEW j \in rows, j # x PROVE Before(j, x)
    <3>1. at[j] \in 0 .. n - 1 /\ at[j] # n - 1
      BY <1>7, <2>2, <2>3
    <3>2. at[j] < at[x]
      BY <1>7, <2>2, <3>1
    <3> QED BY <1>4, <1>7, <3>2
  <2>4. IsLatest(x)
    BY <1>2, <2>3 DEF IsLatest
  <2>5. ASSUME NEW j \in rows, IsLatest(j) PROVE j = x
    BY <1>2, <1>5, <2>3, <2>5 DEF IsLatest
  <2>6. { i \in rows : IsLatest(i) } = {x}
    BY <2>4, <2>5
  <2> QED BY <2>6, FS_Singleton
<1> QED BY <1>9, <1>10 DEF rows, n

-----------------------------------------------------------------------------
(* The ranked lists                                                         *)

\* The pool pair i is ranked in.
PoolOf(scope, k, i) ==
  CASE scope = "corpus" -> Discoverable(k)
    [] scope = "latest_comparisons" -> { j \in Discoverable(k) : IsLatest(j) }
    [] OTHER -> { j \in Discoverable(k) : CompanyOf(j) = CompanyOf(i) }

ItemOf(scope, k, i) ==
  LET pool == PoolOf(scope, k, i)
  IN [type |-> Candidates[k].key, scope |-> scope, pair |-> input.comparisons[i].pair, company |-> CompanyOf(i),
      rank |-> RankIn(pool, k, i), percentile |-> <<Cardinality(pool) - RankIn(pool, k, i) + 1, Cardinality(pool)>>,
      metric |-> Candidates[k].metric, value |-> FindingValue(input.comparisons[i], k),
      quality |-> QualityLabel(input.comparisons[i].language.report_side.quality)]

\* Who is on a list, and the lists.
Listed(scope, k, i) == i \in PoolOf(scope, k, i) /\ RankIn(PoolOf(scope, k, i), k, i) <= TopK

Entries == { x \in (RankScopes \X DOMAIN Candidates) \X Published : Listed(x[1][1], x[1][2], x[2]) }

Discovered == { ItemOf(x[1][1], x[1][2], x[2]) : x \in Entries }

\* A pool is finite, and its members have a value.
LEMMA PoolFacts ==
  ASSUME input \in Corpora, NEW k \in DOMAIN Candidates, NEW scope \in RankScopes, NEW i
  PROVE  /\ IsFiniteSet(PoolOf(scope, k, i)) /\ PoolOf(scope, k, i) \subseteq Discoverable(k)
         /\ Discoverable(k) \subseteq Published
         /\ \A j \in Discoverable(k) : FindingValue(input.comparisons[j], k) \in Int
<1>1. Discoverable(k) \subseteq Published
  BY DEF Discoverable
<1>2. PoolOf(scope, k, i) \subseteq Discoverable(k)
  BY DEF PoolOf, RankScopes
<1>3. IsFiniteSet(PoolOf(scope, k, i))
  BY <1>1, <1>2, PairFacts, FS_Subset
<1>4. Candidates[k].metric \in MetricCatalog
  BY DEF Candidates, MetricCatalog, ReportSideMetrics
<1>5. ASSUME NEW j \in Discoverable(k) PROVE FindingValue(input.comparisons[j], k) \in Int
  <2>1. ComparisonTyped(input.comparisons[j])
    BY <1>1, PairFacts
  <2>2. FindingValue(input.comparisons[j], k) # None
    BY DEF Discoverable
  <2> QED BY <1>4, <2>1, <2>2 DEF ComparisonTyped, FindingValue
<1> QED BY <1>1, <1>2, <1>3, <1>5

Weightier(k, i, j) ==
  LET weight(x) == Size(FindingValue(input.comparisons[x], k))
  IN \/ weight(i) > weight(j)
     \/ weight(i) = weight(j) /\ input.comparisons[i].pair < input.comparisons[j].pair

\* A pool is ranked from 1 to its size, one pair at each rank, by weight.
LEMMA RanksCount ==
  ASSUME input \in Corpora, NEW k \in DOMAIN Candidates,
         NEW pool \in SUBSET Discoverable(k), IsFiniteSet(pool),
         Discoverable(k) \subseteq Published,
         \A j \in Discoverable(k) : FindingValue(input.comparisons[j], k) \in Int
  PROVE  /\ Cardinality(pool) \in Nat
         /\ \A i \in pool : RankIn(pool, k, i) \in 1 .. Cardinality(pool)
         /\ \A i, j \in pool : RankIn(pool, k, i) = RankIn(pool, k, j) => i = j
         /\ \A n \in 1 .. Cardinality(pool) : \E i \in pool : RankIn(pool, k, i) = n
         /\ \A i, j \in pool : RankIn(pool, k, i) < RankIn(pool, k, j) =>
              Size(FindingValue(input.comparisons[i], k)) >= Size(FindingValue(input.comparisons[j], k))
<1> DEFINE less == { p \in pool \X pool : Weightier(k, p[1], p[2]) }
           n == Cardinality(pool)
           at == Place(pool, less)
<1>1. \A i \in pool : /\ Size(FindingValue(input.comparisons[i], k)) \in Int
                      /\ input.comparisons[i].pair \in Nat
  <2> SUFFICES ASSUME NEW i \in pool
               PROVE  Size(FindingValue(input.comparisons[i], k)) \in Int /\ input.comparisons[i].pair \in Nat
    OBVIOUS
  <2>1. FindingValue(input.comparisons[i], k) \in Int /\ i \in Pairs
    BY PairFacts
  <2>2. Size(FindingValue(input.comparisons[i], k)) \in Int
    BY <2>1 DEF Size
  <2> QED BY <2>1, <2>2, PairFacts DEF ComparisonTyped
<1>2. \A i, j \in pool : input.comparisons[i].pair = input.comparisons[j].pair => i = j
  BY PairFacts
<1>3. \A i, j \in pool : <<i, j>> \in less <=> Weightier(k, i, j)
  OBVIOUS
<1> HIDE DEF less
<1>4. \A i, j, l \in pool :
        /\ ~ Weightier(k, i, i)
        /\ Weightier(k, i, j) /\ Weightier(k, j, l) => Weightier(k, i, l)
        /\ Weightier(k, i, j) \/ Weightier(k, j, i) \/ i = j
  BY <1>1, <1>2 DEF Weightier
<1>5. StrictOrder(pool, less)
  BY <1>3, <1>4 DEF StrictOrder
<1>6. /\ n \in Nat /\ at \in [pool -> 0 .. n - 1]
      /\ \A i \in 0 .. n - 1 : \E x \in pool : at[x] = i
      /\ \A i, j \in pool : at[i] = at[j] => i = j
      /\ \A i, j \in pool : at[i] < at[j] <=> <<i, j>> \in less
  BY <1>5, PlacesCount
<1>7. \A i \in pool : RankIn(pool, k, i) = 1 + at[i]
  <2> SUFFICES ASSUME NEW i \in pool PROVE RankIn(pool, k, i) = 1 + at[i]
    OBVIOUS
  <2>1. { j \in pool : <<j, i>> \in less } = { j \in pool : Weightier(k, j, i) }
    BY <1>3
  <2>2. at[i] = Cardinality({ j \in pool : Weightier(k, j, i) })
    BY <2>1 DEF Place
  <2> QED BY <2>2 DEF RankIn, Weightier
<1> HIDE DEF at, n
<1>8. \A i \in pool : RankIn(pool, k, i) \in 1 .. n /\ at[i] \in Int
  BY <1>6, <1>7
<1>9. \A i, j \in pool : RankIn(pool, k, i) = RankIn(pool, k, j) => i = j
  BY <1>6, <1>7, <1>8
<1>10. ASSUME NEW m \in 1 .. n PROVE \E i \in pool : RankIn(pool, k, i) = m
  <2>1. m - 1 \in 0 .. n - 1 /\ 1 + (m - 1) = m
    BY <1>6
  <2> QED BY <1>6, <1>7, <2>1
<1>11. ASSUME NEW i \in pool, NEW j \in pool, RankIn(pool, k, i) < RankIn(pool, k, j)
       PROVE  Size(FindingValue(input.comparisons[i], k)) >= Size(FindingValue(input.comparisons[j], k))
  <2>1. at[i] < at[j]
    BY <1>7, <1>8, <1>11
  <2>2. Weightier(k, i, j)
    BY <1>3, <1>6, <2>1
  <2> QED BY <1>1, <2>2 DEF Weightier
<1> QED BY <1>6, <1>8, <1>9, <1>10, <1>11 DEF n

-----------------------------------------------------------------------------
(* A build's rows                                                           *)

ComparisonFields ==
  {"pair", "company", "earlier", "later", "chronological_index", "is_latest", "feature", "score",
   "report_side", "alignment_change", "finding_keys", "finding_payload"}

Findings(c) == { [key |-> Candidates[k].key, value |-> FindingValue(c, k)] : k \in EligibleCandidates(c) }

SideSound(side) == side # None => (side.eligible => Usable(side.quality))

\* What the row of pair c says of it.
RowSound(row, c) ==
  /\ ComparisonFields \subseteq DOMAIN row
  /\ row.pair = c.pair /\ row.company = c.company /\ row.earlier = c.earlier /\ row.later = c.later
  /\ row.feature.eligible => Usable(row.feature.quality)
  /\ row.feature.quality = "FAILED" => row.score = None
  /\ SideSound(row.report_side) /\ SideSound(row.alignment_change)
  /\ c.language # None => row.report_side.label = QualityLabel(c.language.report_side.quality)
  /\ row.finding_payload = Findings(c)
  /\ \A n \in 1 .. 3 : row.finding_keys[n] \notin DisabledCandidates

\* The rows are built sound.
LEMMA RowsBuiltSound ==
  ASSUME input \in Corpora, NEW i \in Pairs, NEW bands
  PROVE  RowSound(ComparisonRow(i, bands), input.comparisons[i])
<1> DEFINE c == input.comparisons[i]
           row == ComparisonRow(i, bands)
<1>1. ComparisonTyped(c)
  BY PairFacts
<1>2. /\ ComparisonFields \subseteq DOMAIN row
      /\ row.pair = c.pair /\ row.company = c.company /\ row.earlier = c.earlier /\ row.later = c.later
  BY DEF ComparisonRow, ComparisonFields
<1>3. row.feature.eligible => Usable(row.feature.quality)
  BY <1>1 DEF ComparisonRow, ComparisonTyped
<1>4. row.feature.quality = "FAILED" => row.score = None
  BY DEF ComparisonRow, ScoreDisplayed
<1>5. SideSound(row.report_side)
  BY <1>1 DEF ComparisonRow, ComparisonTyped, SideSound
<1>6. SideSound(row.alignment_change)
  BY <1>1 DEF ComparisonRow, ComparisonTyped, SideSound
<1>7. c.language # None => row.report_side.label = QualityLabel(c.language.report_side.quality)
  BY DEF ComparisonRow
<1>8. row.finding_payload = Findings(c)
  BY DEF ComparisonRow, Findings
<1>9. ASSUME NEW n \in 1 .. 3 PROVE row.finding_keys[n] \notin DisabledCandidates
  <2>1. row.finding_keys[n] = SelectFinding(c, n)
    BY DEF ComparisonRow
  <2>2. SelectFinding(c, n) = None \/ \E k \in DOMAIN Candidates : SelectFinding(c, n) = Candidates[k].key
    BY DEF SelectFinding, EligibleCandidates
  <2>3. \A k \in DOMAIN Candidates : Candidates[k].key \notin DisabledCandidates
    BY DEF Candidates, DisabledCandidates
  <2> QED BY <2>1, <2>2, <2>3, NoneIsEnabled
<1> QED BY <1>2, <1>3, <1>4, <1>5, <1>6, <1>7, <1>8, <1>9 DEF RowSound

\* The ranked lists are what each published pair is listed as.
LEMMA DiscoveryIs ==
  ASSUME input \in Corpora,
         \A i \in Published : found.comparisons[i].is_latest <=> IsLatest(i),
         \A i \in Published : RowSound(found.comparisons[i], input.comparisons[i])
  PROVE  DiscoveryItems = Discovered
<1>1. ASSUME NEW k \in DOMAIN Candidates, NEW i \in Discoverable(k)
      PROVE  found.comparisons[i].report_side.label = QualityLabel(input.comparisons[i].language.report_side.quality)
  <2>1. i \in Published /\ input.comparisons[i].language # None
    BY <1>1 DEF Discoverable, Gates
  <2> QED BY <2>1 DEF RowSound
<1>2. ASSUME NEW k \in DOMAIN Candidates, NEW scope \in RankScopes, NEW pool \in Pools(scope, k), NEW i \in pool
      PROVE  pool = PoolOf(scope, k, i) /\ i \in Discoverable(k)
  <2>1. CASE scope = "corpus"
    BY <2>1 DEF Pools, PoolOf
  <2>2. CASE scope = "latest_comparisons"
    <3>1. pool = { j \in Discoverable(k) : found.comparisons[j].is_latest }
      BY <2>2 DEF Pools
    <3>2. Discoverable(k) \subseteq Published
      BY DEF Discoverable
    <3>3. PoolOf(scope, k, i) = { j \in Discoverable(k) : IsLatest(j) }
      BY <2>2 DEF PoolOf
    <3> QED BY <3>1, <3>2, <3>3
  <2>3. CASE scope = "company_history"
    <3>1. PICK l \in Discoverable(k) : pool = { j \in Discoverable(k) : CompanyOf(j) = CompanyOf(l) }
      BY <2>3 DEF Pools
    <3>2. PoolOf(scope, k, i) = { j \in Discoverable(k) : CompanyOf(j) = CompanyOf(i) }
      BY <2>3 DEF PoolOf
    <3> QED BY <3>1, <3>2
  <2> QED BY <2>1, <2>2, <2>3 DEF RankScopes
<1>3. ASSUME NEW k \in DOMAIN Candidates, NEW scope \in RankScopes, NEW i, i \in PoolOf(scope, k, i)
      PROVE  PoolOf(scope, k, i) \in Pools(scope, k)
  <2>1. CASE scope = "corpus"
    BY <2>1 DEF Pools, PoolOf
  <2>2. CASE scope = "latest_comparisons"
    <3>1. Pools(scope, k) = {{ j \in Discoverable(k) : found.comparisons[j].is_latest }}
      BY <2>2 DEF Pools
    <3>2. Discoverable(k) \subseteq Published
      BY DEF Discoverable
    <3>3. PoolOf(scope, k, i) = { j \in Discoverable(k) : IsLatest(j) }
      BY <2>2 DEF PoolOf
    <3> QED BY <3>1, <3>2, <3>3
  <2>3. CASE scope = "company_history"
    <3>1. PoolOf(scope, k, i) = { j \in Discoverable(k) : CompanyOf(j) = CompanyOf(i) }
      BY <2>3 DEF PoolOf
    <3>2. i \in Discoverable(k)
      BY <1>3, <3>1
    <3>3. Pools(scope, k) = { { j \in Discoverable(k) : CompanyOf(j) = CompanyOf(l) } : l \in Discoverable(k) }
      BY <2>3 DEF Pools
    <3> QED BY <3>1, <3>2, <3>3
  <2> QED BY <2>1, <2>2, <2>3 DEF RankScopes
<1>4. ASSUME NEW k \in DOMAIN Candidates, NEW scope \in RankScopes, NEW i \in Discoverable(k)
      PROVE  ItemOf(scope, k, i) =
               LET pool == PoolOf(scope, k, i)
               IN [type |-> Candidates[k].key, scope |-> scope, pair |-> input.comparisons[i].pair, company |-> CompanyOf(i),
                   rank |-> RankIn(pool, k, i),
                   percentile |-> <<Cardinality(pool) - RankIn(pool, k, i) + 1, Cardinality(pool)>>,
                   metric |-> Candidates[k].metric, value |-> FindingValue(input.comparisons[i], k),
                   quality |-> found.comparisons[i].report_side.label]
  BY <1>1, <1>4 DEF ItemOf
<1>5. ASSUME NEW item \in DiscoveryItems PROVE item \in Discovered
  <2>1. PICK k \in DOMAIN Candidates : \E scope \in RankScopes : \E pool \in Pools(scope, k) : item \in Ranked(scope, k, pool)
    BY <1>5 DEF DiscoveryItems
  <2>2. PICK scope \in RankScopes : \E pool \in Pools(scope, k) : item \in Ranked(scope, k, pool)
    BY <2>1
  <2>3. PICK pool \in Pools(scope, k) : item \in Ranked(scope, k, pool)
    BY <2>2
  <2>4. PICK i \in pool : /\ RankIn(pool, k, i) <= TopK
                          /\ item = [type |-> Candidates[k].key, scope |-> scope, pair |-> input.comparisons[i].pair,
                                     company |-> CompanyOf(i), rank |-> RankIn(pool, k, i),
                                     percentile |-> <<Cardinality(pool) - RankIn(pool, k, i) + 1, Cardinality(pool)>>,
                                     metric |-> Candidates[k].metric, value |-> FindingValue(input.comparisons[i], k),
                                     quality |-> found.comparisons[i].report_side.label]
    BY <2>3 DEF Ranked
  <2>5. pool = PoolOf(scope, k, i) /\ i \in Discoverable(k) /\ i \in Published
    BY <1>2 DEF Discoverable
  <2>6. item = ItemOf(scope, k, i)
    BY <1>4, <2>4, <2>5, Zenon
  <2>7. <<<<scope, k>>, i>> \in Entries
    BY <2>4, <2>5 DEF Entries, Listed
  <2> QED BY <2>6, <2>7 DEF Discovered
<1>6. ASSUME NEW item \in Discovered PROVE item \in DiscoveryItems
  <2>1. PICK x \in Entries : item = ItemOf(x[1][1], x[1][2], x[2])
    BY <1>6 DEF Discovered
  <2> DEFINE scope == x[1][1]
             k == x[1][2]
             i == x[2]
  <2>2. /\ scope \in RankScopes /\ k \in DOMAIN Candidates /\ i \in Published /\ item = ItemOf(scope, k, i)
        /\ i \in PoolOf(scope, k, i) /\ RankIn(PoolOf(scope, k, i), k, i) <= TopK
    BY <2>1 DEF Entries, Listed
  <2> HIDE DEF scope, k, i
  <2>3. PoolOf(scope, k, i) \in Pools(scope, k)
    BY <1>3, <2>2
  <2>4. i \in Discoverable(k)
    BY <1>2, <2>2, <2>3
  <2>5. item \in Ranked(scope, k, PoolOf(scope, k, i))
    BY <1>4, <2>2, <2>4 DEF Ranked
  <2> QED BY <2>2, <2>3, <2>5 DEF DiscoveryItems
<1> QED BY <1>5, <1>6

-----------------------------------------------------------------------------
(* The lists are whole                                                      *)

List(scope, k, i) ==
  { other \in Discovered :
      other.type = Candidates[k].key /\ other.scope = scope /\ (scope = "company_history" => other.company = CompanyOf(i)) }

Shorter(m, n) == IF m <= n THEN m ELSE n

\* A list has an item at each rank, to the end of its pool or of the list.
LEMMA ListWhole ==
  ASSUME input \in Corpora, NEW k \in DOMAIN Candidates, NEW scope \in RankScopes, NEW i, i \in PoolOf(scope, k, i)
  PROVE  LET pool == PoolOf(scope, k, i)
             m == Shorter(Cardinality(pool), TopK)
             list == List(scope, k, i)
         IN /\ Cardinality(pool) \in Nat /\ m \in Nat
            /\ IsFiniteSet(list) /\ Cardinality(list) = m
            /\ { other.rank : other \in list } = 1 .. m
            /\ \A j \in pool : PoolOf(scope, k, j) = pool
            /\ \A j \in pool : RankIn(pool, k, j) <= TopK => ItemOf(scope, k, j) \in list
            /\ \A other \in list : \E j \in pool : other = ItemOf(scope, k, j)
<1> DEFINE pool == PoolOf(scope, k, i)
           n == Cardinality(pool)
           m == Shorter(n, TopK)
           list == List(scope, k, i)
           rank(j) == RankIn(pool, k, j)
<1>1. /\ IsFiniteSet(pool) /\ pool \subseteq Discoverable(k)
      /\ Discoverable(k) \subseteq Published
      /\ \A j \in Discoverable(k) : FindingValue(input.comparisons[j], k) \in Int
  BY PoolFacts
<1>2. /\ n \in Nat
      /\ \A j \in pool : rank(j) \in 1 .. n
      /\ \A j, l \in pool : rank(j) = rank(l) => j = l
      /\ \A r \in 1 .. n : \E j \in pool : rank(j) = r
  <2> HIDE DEF pool
  <2> QED BY <1>1, RanksCount
<1>3. \A j \in pool : PoolOf(scope, k, j) = pool
  BY DEF PoolOf, RankScopes
<1>4. \A j : CompanyOf(j) = CompanyOf(i) /\ j \in PoolOf(scope, k, j) => j \in pool
  BY DEF PoolOf, RankScopes
<1>5. \A j : scope # "company_history" /\ j \in PoolOf(scope, k, j) => j \in pool
  BY DEF PoolOf, RankScopes
<1>6. \A j \in pool : scope = "company_history" => CompanyOf(j) = CompanyOf(i)
  BY DEF PoolOf
<1>7. \A l \in DOMAIN Candidates : Candidates[l].key = Candidates[k].key => l = k
  BY DEF Candidates
<1> HIDE DEF pool
<1>8. \A j : /\ ItemOf(scope, k, j).type = Candidates[k].key /\ ItemOf(scope, k, j).scope = scope
             /\ ItemOf(scope, k, j).company = CompanyOf(j)
             /\ ItemOf(scope, k, j).rank = RankIn(PoolOf(scope, k, j), k, j)
  BY DEF ItemOf
<1>9. ASSUME NEW j \in pool, rank(j) <= TopK PROVE ItemOf(scope, k, j) \in list
  <2>1. <<<<scope, k>>, j>> \in Entries
    BY <1>1, <1>3, <1>9 DEF Entries, Listed
  <2>2. ItemOf(scope, k, j) \in Discovered
    BY <2>1 DEF Discovered
  <2> QED BY <1>6, <1>8, <2>2 DEF List
<1>10. ASSUME NEW other \in list PROVE \E j \in pool : other = ItemOf(scope, k, j) /\ rank(j) <= TopK
  <2>1. PICK x \in Entries : other = ItemOf(x[1][1], x[1][2], x[2])
    BY DEF List, Discovered
  <2> DEFINE s == x[1][1]
             l == x[1][2]
             j == x[2]
  <2>2. /\ l \in DOMAIN Candidates /\ j \in PoolOf(s, l, j) /\ RankIn(PoolOf(s, l, j), l, j) <= TopK
        /\ other = ItemOf(s, l, j)
    BY <2>1 DEF Entries, Listed
  <2> HIDE DEF s, l, j
  <2>3. other.type = Candidates[l].key /\ other.scope = s /\ other.company = CompanyOf(j)
    BY <2>2 DEF ItemOf
  <2>4. other.type = Candidates[k].key /\ other.scope = scope /\ (scope = "company_history" => other.company = CompanyOf(i))
    BY <1>10 DEF List
  <2>5. l = k /\ s = scope
    BY <1>7, <2>2, <2>3, <2>4
  <2>6. j \in pool
    BY <1>4, <1>5, <2>2, <2>3, <2>4, <2>5
  <2> QED BY <1>3, <2>2, <2>5, <2>6
<1> HIDE DEF list, rank
<1>11. \A j \in pool : ItemOf(scope, k, j).rank = rank(j)
  BY <1>3, <1>8 DEF rank
<1>12. m \in Nat /\ m <= n /\ m <= TopK /\ \A r \in 1 .. n : r <= TopK => r \in 1 .. m
  BY <1>2, TopKTyped DEF Shorter
<1> HIDE DEF n, m
<1>13. ASSUME NEW other \in list PROVE other.rank \in 1 .. m
  <2>1. PICK j \in pool : other = ItemOf(scope, k, j) /\ rank(j) <= TopK
    BY <1>10
  <2> QED BY <1>2, <1>11, <1>12, <2>1
<1>14. ASSUME NEW r \in 1 .. m PROVE \E other \in list : other.rank = r
  <2>1. r \in 1 .. n /\ r <= TopK
    BY <1>2, <1>12, TopKTyped
  <2>2. PICK j \in pool : rank(j) = r
    BY <1>2, <2>1
  <2> QED BY <1>9, <1>11, <2>1, <2>2
<1>15. ASSUME NEW a \in list, NEW b \in list, a.rank = b.rank PROVE a = b
  <2>1. PICK j \in pool : a = ItemOf(scope, k, j)
    BY <1>10
  <2>2. PICK l \in pool : b = ItemOf(scope, k, l)
    BY <1>10
  <2> QED BY <1>2, <1>11, <1>15, <2>1, <2>2
<1>16. { other.rank : other \in list } = 1 .. m
  BY <1>13, <1>14
<1>17. IsFiniteSet(list) /\ Cardinality(list) = m
  <2> DEFINE f == [r \in 1 .. m |-> CHOOSE other \in list : other.rank = r]
  <2>1. \A r \in 1 .. m : f[r] \in list /\ f[r].rank = r
    BY <1>14
  <2>2. f \in [1 .. m -> list]
    BY <2>1
  <2> HIDE DEF f
  <2>3. \A r, q \in 1 .. m : f[r] = f[q] => r = q
    BY <2>1
  <2>4. \A other \in list : \E r \in 1 .. m : f[r] = other
    BY <1>13, <1>15, <2>1
  <2>5. f \in Bijection(1 .. m, list)
    BY <2>2, <2>3, <2>4 DEF Bijection, Injection, Surjection, IsInjective
  <2>6. IsFiniteSet(1 .. m) /\ Cardinality(1 .. m) = m
    BY <1>12, FS_Interval
  <2>7. ExistsBijection(1 .. m, list)
    BY <2>5 DEF ExistsBijection
  <2> QED BY <2>6, <2>7, FS_Bijection
<1> QED BY <1>2, <1>3, <1>9, <1>10, <1>12, <1>16, <1>17 DEF pool, n, m, list, rank

-----------------------------------------------------------------------------
(* The checks pass                                                          *)

\* What a build has found, once its rows are built, numbered and ranked.
Built ==
  /\ {"reports", "companies", "comparisons", "language", "discovery", "failures"} \subseteq DOMAIN found
  /\ found.reports = PublishedReports
  /\ DOMAIN found.companies = DOMAIN PublishedCompanies
  /\ DOMAIN found.comparisons = Published
  /\ \A i \in Published : RowSound(found.comparisons[i], input.comparisons[i])

Chronicled ==
  \A i \in Published :
    /\ found.comparisons[i].chronological_index = ChronologicalIndex(i)
    /\ found.comparisons[i].is_latest <=> IsLatest(i)

\* No check on a comparison row fails.
LEMMA RowsPass ==
  ASSUME input \in Corpora, Built, NEW i \in DOMAIN found.comparisons
  PROVE  RowFailures(found.comparisons[i]) = {}
<1> DEFINE row == found.comparisons[i]
           c == input.comparisons[i]
           of(period) == { r \in found.reports : r.company = row.company /\ r.period = period }
<1>1. i \in Published /\ RowSound(row, c) /\ ComparisonTyped(c)
  BY PairFacts DEF Built
<1>2. ReportPublished(row.company, row.earlier) /\ ReportPublished(row.company, row.later)
  BY <1>1 DEF Published, RowSound
<1>3. of(row.earlier) # {} /\ of(row.later) # {}
  BY <1>2 DEF ReportPublished, Built
<1>4. row.earlier < row.later
  BY <1>1 DEF RowSound, ComparisonTyped
<1>5. /\ row.report_side # None => (row.report_side.eligible => Usable(row.report_side.quality))
      /\ row.alignment_change # None => (row.alignment_change.eligible => Usable(row.alignment_change.quality))
      /\ row.feature.quality = "FAILED" => row.score = None
      /\ row.feature.eligible => Usable(row.feature.quality)
      /\ \A n \in 1 .. 3 : row.finding_keys[n] \notin DisabledCandidates
  BY <1>1 DEF RowSound, SideSound
<1> HIDE DEF row
<1> QED BY <1>3, <1>4, <1>5 DEF RowFailures, row

\* No check on a company fails.
LEMMA CompaniesPass ==
  ASSUME input \in Corpora, Built, Chronicled, NEW company \in DOMAIN found.companies
  PROVE  CompanyFailures(company) = {}
<1> DEFINE rows == { i \in Published : CompanyOf(i) = company }
<1>1. \E r \in found.reports : r.company = company
  <2>1. company \in DOMAIN input.reports /\ input.reports[company] # {}
    BY DEF Built, PublishedCompanies
  <2>2. PICK period \in input.reports[company] : TRUE
    BY <2>1
  <2> DEFINE at(c, q) == Cardinality({ p \in input.reports[c] : p < q })
             of(c) == { [company |-> c, period |-> q, chronological_index |-> at(c, q)] : q \in input.reports[c] }
             r == [company |-> company, period |-> period, chronological_index |-> at(company, period)]
  <2>3. PublishedReports = UNION { of(c) : c \in DOMAIN input.reports }
    BY Zenon DEF PublishedReports
  <2> HIDE DEF at
  <2>4. r \in of(company) /\ r.company = company
    BY <2>2
  <2> HIDE DEF of, r
  <2>5. r \in PublishedReports
    BY <2>1, <2>3, <2>4
  <2> QED BY <2>4, <2>5 DEF Built
<1>2. RowsOf(company) = rows
  BY DEF RowsOf, Built, RowSound, CompanyOf
<1>3. /\ { ChronologicalIndex(i) : i \in rows } = 0 .. Cardinality(rows) - 1
      /\ rows # {} => Cardinality({ i \in rows : IsLatest(i) }) = 1
  BY HistoryPlaces
<1>4. /\ \A i \in rows : found.comparisons[i].chronological_index = ChronologicalIndex(i)
      /\ \A i \in rows : found.comparisons[i].is_latest <=> IsLatest(i)
  BY DEF Chronicled
<1>5. Cardinality(rows) \in Nat
  BY PairFacts, FS_Subset, FS_CardinalityType
<1> HIDE DEF rows
<1>6. { found.comparisons[i].chronological_index : i \in rows } = 0 .. Cardinality(rows) - 1
  BY <1>3, <1>4
<1>7. { i \in rows : found.comparisons[i].is_latest } = { i \in rows : IsLatest(i) }
  BY <1>4
<1>8. Contiguous({ found.comparisons[i].chronological_index : i \in rows }, 0, Cardinality(rows))
  BY <1>5, <1>6 DEF Contiguous
<1>9. rows # {} => Cardinality({ i \in rows : found.comparisons[i].is_latest }) = 1
  BY <1>3, <1>7
<1> QED BY <1>1, <1>2, <1>8, <1>9 DEF CompanyFailures

\* No check on a ranked list fails.
LEMMA ListsPass ==
  ASSUME input \in Corpora, found.discovery = Discovered, NEW item \in found.discovery
  PROVE  ListFailures(item) = {}
<1>1. PICK x \in Entries : item = ItemOf(x[1][1], x[1][2], x[2])
  BY DEF Discovered
<1> DEFINE scope == x[1][1]
           k == x[1][2]
           i == x[2]
<1>2. /\ scope \in RankScopes /\ k \in DOMAIN Candidates /\ i \in PoolOf(scope, k, i)
      /\ item = ItemOf(scope, k, i)
  BY <1>1 DEF Entries, Listed
<1> HIDE DEF scope, k, i
<1>3. /\ item.type = Candidates[k].key /\ item.scope = scope /\ item.company = CompanyOf(i)
      /\ item.metric = Candidates[k].metric
  BY <1>2 DEF ItemOf
<1>4. ListOf(item) = List(scope, k, i)
  BY <1>3 DEF ListOf, List
<1> DEFINE list == List(scope, k, i)
<1>5. Cardinality(list) \in Nat /\ { other.rank : other \in list } = 1 .. Cardinality(list)
  BY <1>2, ListWhole
<1> HIDE DEF list
<1>6. Contiguous({ other.rank : other \in list }, 1, Cardinality(list))
  BY <1>5 DEF Contiguous
<1>7. item.metric \in MetricCatalog /\ item.type \notin DisabledCandidates
  BY <1>2, <1>3 DEF Candidates, MetricCatalog, ReportSideMetrics, DisabledCandidates
<1> QED BY <1>4, <1>6, <1>7 DEF ListFailures, list

-----------------------------------------------------------------------------
(* A build, from its snapshot to its validation                             *)

PublishedInv ==
  /\ stage \in {"idle", "snapshot", "built_rows", "chronicled", "measured", "discovered", "validated"}
  /\ stage # "idle" => input \in Corpora
  /\ stage \in {"built_rows", "chronicled", "measured", "discovered", "validated"} => Built
  /\ stage \in {"chronicled", "measured", "discovered", "validated"} => Chronicled
  /\ stage \in {"discovered", "validated"} => found.discovery = Discovered
  /\ stage = "validated" => found.failures = {}

\* What depends on the snapshot alone.
LEMMA SnapshotStays ==
  ASSUME UNCHANGED input
  PROVE  /\ Published' = Published /\ PublishedReports' = PublishedReports
         /\ PublishedCompanies' = PublishedCompanies
         /\ \A i : ChronologicalIndex(i)' = ChronologicalIndex(i) /\ (IsLatest(i)' <=> IsLatest(i))
         /\ Discovered' = Discovered
<1>1. PublishedReports' = PublishedReports /\ PublishedCompanies' = PublishedCompanies
  BY DEF PublishedReports, PublishedCompanies
<1>2. Published' = Published
  BY <1>1 DEF Published, Pairs, ReportPublished
<1>3. \A i : History(i)' = History(i)
  BY <1>2 DEF History, CompanyOf
<1>4. \A i, j : Before(i, j)' <=> Before(i, j)
  BY DEF Before
<1>5. \A i : ChronologicalIndex(i)' = ChronologicalIndex(i)
  BY <1>3, <1>4 DEF ChronologicalIndex
<1>6. \A i : IsLatest(i)' <=> IsLatest(i)
  BY <1>3, <1>4 DEF IsLatest
<1>7. \A k : Discoverable(k)' = Discoverable(k)
  BY <1>2 DEF Discoverable
<1>8. \A scope, k, i : PoolOf(scope, k, i)' = PoolOf(scope, k, i)
  BY <1>6, <1>7 DEF PoolOf, CompanyOf
<1>9. \A pool, k, i : RankIn(pool, k, i)' = RankIn(pool, k, i)
  BY DEF RankIn
<1>10. \A scope, k, i : RankIn(PoolOf(scope, k, i), k, i)' = RankIn(PoolOf(scope, k, i), k, i)
  BY <1>8, <1>9
<1>11. \A scope, k, i : ItemOf(scope, k, i)' = ItemOf(scope, k, i) /\ (Listed(scope, k, i)' <=> Listed(scope, k, i))
  BY <1>8, <1>10 DEF ItemOf, Listed, CompanyOf
<1>12. Entries' = Entries
  BY <1>2, <1>11 DEF Entries
<1>13. Discovered' = Discovered
  BY <1>11, <1>12 DEF Discovered
<1> QED BY <1>1, <1>2, <1>5, <1>6, <1>13

\* A step that leaves the rows alone leaves them sound.
LEMMA BuiltStays ==
  ASSUME Built, UNCHANGED input, DOMAIN found' = DOMAIN found,
         found'.reports = found.reports, found'.companies = found.companies, found'.comparisons = found.comparisons
  PROVE  Built' /\ (Chronicled => Chronicled')
<1>1. Published' = Published /\ PublishedReports' = PublishedReports /\ PublishedCompanies' = PublishedCompanies
  BY SnapshotStays
<1>2. \A i : ChronologicalIndex(i)' = ChronologicalIndex(i) /\ (IsLatest(i)' <=> IsLatest(i))
  BY SnapshotStays
<1>3. \A i \in Published : RowSound(found.comparisons[i], input.comparisons[i])'
  BY DEF Built, RowSound, SideSound, Findings, FindingValue
<1>4. Built'
  BY <1>1, <1>3 DEF Built
<1>5. ASSUME Chronicled PROVE Chronicled'
  BY <1>1, <1>2, <1>5 DEF Chronicled
<1> QED BY <1>4, <1>5

\* The rows are built from the snapshot.
LEMMA BuildsRows ==
  ASSUME input \in Corpora, BuildComparisons
  PROVE  Built'
<1> DEFINE bands == [m \in MetricCatalog |-> PercentileBands(m)]
<1>1. /\ UNCHANGED input
      /\ found'.reports = PublishedReports /\ found'.companies = PublishedCompanies
      /\ found'.comparisons = [i \in Published |-> ComparisonRow(i, bands)]
      /\ {"reports", "companies", "comparisons", "language", "discovery", "failures"} \subseteq DOMAIN found'
  BY DEF BuildComparisons, Follow
<1> HIDE DEF bands
<1>2. Published' = Published /\ PublishedReports' = PublishedReports /\ PublishedCompanies' = PublishedCompanies
  BY <1>1, SnapshotStays
<1>3. \A i \in Published : RowSound(found'.comparisons[i], input.comparisons[i])
  BY <1>1, PairFacts, RowsBuiltSound
<1>4. \A i \in Published : RowSound(found.comparisons[i], input.comparisons[i])'
  BY <1>1, <1>3
<1> QED BY <1>1, <1>2, <1>4 DEF Built

\* A company's history is numbered.
LEMMA Chronicles ==
  ASSUME Built, AssignChronology
  PROVE  Built' /\ Chronicled'
<1> DEFINE place(i) == [found.comparisons[i] EXCEPT !.chronological_index = ChronologicalIndex(i),
                                                    !.is_latest = IsLatest(i), !.is_peak = IsPeak(i)]
<1>1. /\ UNCHANGED input
      /\ found'.reports = found.reports /\ DOMAIN found'.companies = DOMAIN found.companies
      /\ found'.comparisons = [i \in Published |-> place(i)]
      /\ DOMAIN found' = DOMAIN found
  BY DEF AssignChronology, Follow, Built
<1>2. Published' = Published /\ PublishedReports' = PublishedReports /\ PublishedCompanies' = PublishedCompanies
  BY <1>1, SnapshotStays
<1>3. \A i : ChronologicalIndex(i)' = ChronologicalIndex(i) /\ (IsLatest(i)' <=> IsLatest(i))
  BY <1>1, SnapshotStays
<1>4. \A i \in Published : ComparisonFields \subseteq DOMAIN found.comparisons[i]
  BY DEF Built, RowSound
<1>5. \A i \in Published :
        /\ DOMAIN place(i) = DOMAIN found.comparisons[i]
        /\ \A field \in ComparisonFields \ {"chronological_index", "is_latest"} : place(i)[field] = found.comparisons[i][field]
        /\ place(i).chronological_index = ChronologicalIndex(i)
        /\ place(i).is_latest <=> IsLatest(i)
  BY <1>4 DEF ComparisonFields
<1> HIDE DEF place
<1>6. \A i \in Published : RowSound(place(i), input.comparisons[i])
  BY <1>5 DEF Built, RowSound, ComparisonFields
<1>7. \A i \in Published : RowSound(found.comparisons[i], input.comparisons[i])'
  BY <1>1, <1>6
<1>8. Built'
  BY <1>1, <1>2, <1>7 DEF Built
<1>9. Chronicled'
  BY <1>1, <1>2, <1>3, <1>5 DEF Chronicled
<1> QED BY <1>8, <1>9

\* From its rows on, a build has what the snapshot and its steps make of it.
THEOREM PublishedInvariance == PublishedSpec => []PublishedInv
<1>1. Idle => PublishedInv
  BY DEF Idle, PublishedInv
<1>2. PublishedInv /\ [PublishedNext]_vars => PublishedInv'
  <2> SUFFICES ASSUME PublishedInv, [PublishedNext]_vars PROVE PublishedInv'
    OBVIOUS
  <2>1. CASE ChooseCorpus
    BY <2>1 DEF ChooseCorpus, Start, PublishedInv
  <2>2. CASE BuildComparisons
    <3>1. stage = "snapshot" /\ stage' = "built_rows" /\ UNCHANGED input
      BY <2>2 DEF BuildComparisons, Follow
    <3>2. Built'
      BY <2>2, <3>1, BuildsRows DEF PublishedInv
    <3> QED BY <3>1, <3>2 DEF PublishedInv
  <2>3. CASE AssignChronology
    <3>1. stage = "built_rows" /\ stage' = "chronicled" /\ UNCHANGED input
      BY <2>3 DEF AssignChronology, Follow
    <3>2. Built' /\ Chronicled'
      BY <2>3, <3>1, Chronicles DEF PublishedInv
    <3> QED BY <3>1, <3>2 DEF PublishedInv
  <2>4. CASE BuildLanguageMetrics
    <3>1. stage = "chronicled" /\ stage' = "measured" /\ UNCHANGED input
      BY <2>4 DEF BuildLanguageMetrics, Follow
    <3>2. PICK rows : found' = [found EXCEPT !.language = rows]
      BY <2>4 DEF BuildLanguageMetrics, Follow
    <3>3. Built /\ Chronicled
      BY <3>1 DEF PublishedInv
    <3>4. Built' /\ Chronicled'
      BY <3>1, <3>2, <3>3, BuiltStays DEF Built
    <3> QED BY <3>1, <3>4 DEF PublishedInv
  <2>5. CASE RankDiscovery
    <3>1. /\ stage = "measured" /\ stage' = "discovered" /\ UNCHANGED input
          /\ found' = [found EXCEPT !.discovery = DiscoveryItems]
      BY <2>5 DEF RankDiscovery, Follow
    <3>2. input \in Corpora /\ Built /\ Chronicled
      BY <3>1 DEF PublishedInv
    <3>3. Built' /\ Chronicled'
      BY <3>1, <3>2, BuiltStays DEF Built
    <3>4. DiscoveryItems = Discovered
      BY <3>2, DiscoveryIs DEF Built, Chronicled
    <3>5. Discovered' = Discovered
      BY <3>1, SnapshotStays
    <3>6. found'.discovery = Discovered'
      BY <3>1, <3>2, <3>4, <3>5 DEF Built
    <3> QED BY <3>1, <3>2, <3>3, <3>6 DEF PublishedInv
  <2>6. CASE ValidateComparisons
    <3> DEFINE failures == UNION { RowFailures(found.comparisons[i]) : i \in DOMAIN found.comparisons }
                             \union UNION { CompanyFailures(company) : company \in DOMAIN found.companies }
                             \union UNION { ListFailures(item) : item \in found.discovery }
    <3>1. /\ stage = "discovered" /\ stage' = "validated" /\ UNCHANGED input
          /\ found' = [found EXCEPT !.failures = failures]
      BY <2>6 DEF ValidateComparisons, Follow
    <3>2. input \in Corpora /\ Built /\ Chronicled /\ found.discovery = Discovered
      BY <3>1 DEF PublishedInv
    <3>3. /\ \A i \in DOMAIN found.comparisons : RowFailures(found.comparisons[i]) = {}
          /\ \A company \in DOMAIN found.companies : CompanyFailures(company) = {}
          /\ \A item \in found.discovery : ListFailures(item) = {}
      BY <3>2, RowsPass, CompaniesPass, ListsPass
    <3>4. failures = {}
      BY <3>3
    <3> HIDE DEF failures
    <3>5. Built' /\ Chronicled'
      BY <3>1, <3>2, BuiltStays DEF Built
    <3>6. Discovered' = Discovered
      BY <3>1, SnapshotStays
    <3>7. found'.discovery = Discovered' /\ found'.failures = {}
      BY <3>1, <3>2, <3>4, <3>6 DEF Built
    <3> QED BY <3>1, <3>2, <3>5, <3>7 DEF PublishedInv
  <2>7. CASE UNCHANGED vars
    <3>1. UNCHANGED <<stage, input, found>>
      BY <2>7 DEF vars
    <3>2. Discovered' = Discovered
      BY <3>1, SnapshotStays
    <3>3. Built => Built' /\ (Chronicled => Chronicled')
      BY <3>1, BuiltStays
    <3> QED BY <3>1, <3>2, <3>3 DEF PublishedInv
  <2> QED BY <2>1, <2>2, <2>3, <2>4, <2>5, <2>6, <2>7 DEF PublishedNext
<1> QED BY <1>1, <1>2, PTL DEF PublishedSpec

\* No build fails its own validation over the rows of its comparisons.
THEOREM BuiltComparisonsValidateAlways == PublishedSpec => []BuiltComparisonsValidate
<1>1. PublishedInv => BuiltComparisonsValidate
  BY DEF PublishedInv, BuiltComparisonsValidate
<1> QED BY <1>1, PublishedInvariance, PTL

\* What is ranked is a finding, and a finding is left out of a full list alone.
LEMMA DiscoveryMatches ==
  ASSUME input \in Corpora, Built, Chronicled, found.discovery = Discovered, stage = "validated"
  PROVE  DiscoveryMatchesFindings
<1> DEFINE row(i) == found.comparisons[i]
           has(i, item) == \E f \in row(i).finding_payload : f.key = item.type /\ f.value = item.value
           listed(f, i, scope) ==
             \E item \in found.discovery : item.type = f.key /\ item.scope = scope /\ item.pair = row(i).pair
           fuller(f, i, scope) ==
             { item \in found.discovery :
                 /\ item.type = f.key /\ item.scope = scope
                 /\ scope = "company_history" => item.company = row(i).company
                 /\ Size(item.value) >= Size(f.value) }
<1>1. \A i \in Published :
        /\ row(i).pair = input.comparisons[i].pair /\ row(i).company = CompanyOf(i)
        /\ row(i).later = input.comparisons[i].later
        /\ row(i).finding_payload = Findings(input.comparisons[i])
        /\ row(i).is_latest <=> IsLatest(i)
  BY DEF Built, Chronicled, RowSound, CompanyOf
<1>2. \A k \in DOMAIN Candidates, i \in Published : i \in Discoverable(k) <=> k \in EligibleCandidates(input.comparisons[i])
  BY DEF Discoverable, EligibleCandidates, FindingValue
<1>3. ASSUME NEW item \in found.discovery
      PROVE  \E i \in DOMAIN found.comparisons :
               /\ row(i).pair = item.pair /\ has(i, item)
               /\ item.scope = "latest_comparisons" => \A j \in RowsOf(item.company) : row(j).later <= row(i).later
  <2>1. PICK x \in Entries : item = ItemOf(x[1][1], x[1][2], x[2])
    BY DEF Discovered
  <2> DEFINE scope == x[1][1]
             k == x[1][2]
             i == x[2]
  <2>2. /\ scope \in RankScopes /\ k \in DOMAIN Candidates /\ i \in Published /\ i \in PoolOf(scope, k, i)
        /\ item = ItemOf(scope, k, i)
    BY <2>1 DEF Entries, Listed
  <2> HIDE DEF scope, k, i
  <2>3. /\ item.type = Candidates[k].key /\ item.scope = scope /\ item.pair = input.comparisons[i].pair
        /\ item.company = CompanyOf(i) /\ item.value = FindingValue(input.comparisons[i], k)
    BY <2>2 DEF ItemOf
  <2>4. i \in Discoverable(k)
    BY <2>2 DEF PoolOf
  <2>5. has(i, item)
    <3> DEFINE f == [key |-> Candidates[k].key, value |-> FindingValue(input.comparisons[i], k)]
    <3>1. f \in Findings(input.comparisons[i])
      BY <1>2, <2>2, <2>4 DEF Findings
    <3> QED BY <1>1, <2>2, <2>3, <3>1
  <2>6. ASSUME scope = "latest_comparisons", NEW j \in RowsOf(item.company) PROVE row(j).later <= row(i).later
    <3>1. IsLatest(i)
      BY <2>2, <2>6 DEF PoolOf
    <3>2. j \in Published /\ CompanyOf(j) = CompanyOf(i)
      BY <1>1, <2>3, <2>6 DEF RowsOf, Built
    <3>3. j = i \/ Before(j, i)
      BY <3>1, <3>2 DEF IsLatest, History
    <3>4. input.comparisons[j].later \in Int /\ input.comparisons[i].later \in Int
      BY <2>2, <3>2, PairFacts DEF ComparisonTyped
    <3>5. input.comparisons[j].later <= input.comparisons[i].later
      BY <3>3, <3>4 DEF Before
    <3> QED BY <1>1, <2>2, <3>2, <3>5
  <2>7. i \in DOMAIN found.comparisons /\ row(i).pair = item.pair
    BY <1>1, <2>2, <2>3 DEF Built
  <2> HIDE DEF row, has
  <2> QED BY <2>3, <2>5, <2>6, <2>7
<1>4. ASSUME NEW i \in DOMAIN found.comparisons, NEW f, f \in row(i).finding_payload, NEW scope \in RankScopes
      PROVE  \/ listed(f, i, scope)
             \/ Cardinality(fuller(f, i, scope)) >= TopK
             \/ scope = "latest_comparisons" /\ ~row(i).is_latest
  <2>1. i \in Published
    BY DEF Built
  <2>2. PICK k \in EligibleCandidates(input.comparisons[i]) :
          f.key = Candidates[k].key /\ f.value = FindingValue(input.comparisons[i], k)
    BY <1>1, <1>4, <2>1 DEF Findings
  <2>3. k \in DOMAIN Candidates /\ i \in Discoverable(k)
    BY <1>2, <2>1 DEF EligibleCandidates
  <2> DEFINE pool == PoolOf(scope, k, i)
             n == Cardinality(pool)
             list == List(scope, k, i)
             rank(j) == RankIn(pool, k, j)
  <2>4. CASE i \notin pool
    BY <1>1, <2>1, <2>3, <2>4 DEF PoolOf, RankScopes
  <2>5. CASE i \in pool /\ rank(i) <= TopK
    <3>1. ItemOf(scope, k, i) \in list
      BY <2>3, <2>5, ListWhole
    <3>2. ItemOf(scope, k, i) \in found.discovery
      BY <3>1 DEF List
    <3>3. /\ ItemOf(scope, k, i).type = f.key /\ ItemOf(scope, k, i).scope = scope
          /\ ItemOf(scope, k, i).pair = row(i).pair
      BY <1>1, <2>1, <2>2 DEF ItemOf
    <3> QED BY <3>2, <3>3
  <2>6. CASE i \in pool /\ ~ (rank(i) <= TopK)
    <3>1. /\ IsFiniteSet(pool) /\ pool \subseteq Discoverable(k) /\ Discoverable(k) \subseteq Published
          /\ \A j \in Discoverable(k) : FindingValue(input.comparisons[j], k) \in Int
      BY <2>3, PoolFacts
    <3>2. /\ n \in Nat
          /\ \A j \in pool : rank(j) \in 1 .. n
          /\ \A j, l \in pool : rank(j) = rank(l) => j = l
          /\ \A r \in 1 .. n : \E j \in pool : rank(j) = r
          /\ \A j, l \in pool : rank(j) < rank(l) =>
               Size(FindingValue(input.comparisons[j], k)) >= Size(FindingValue(input.comparisons[l], k))
      <4> HIDE DEF pool
      <4> QED BY <2>3, <3>1, RanksCount
    <3>3. /\ IsFiniteSet(list)
          /\ \A j \in pool : PoolOf(scope, k, j) = pool
          /\ \A j \in pool : rank(j) <= TopK => ItemOf(scope, k, j) \in list
      BY <2>3, <2>6, ListWhole
    <3>4. \A j : /\ ItemOf(scope, k, j).rank = RankIn(PoolOf(scope, k, j), k, j)
                 /\ ItemOf(scope, k, j).value = FindingValue(input.comparisons[j], k)
      BY DEF ItemOf
    <3> HIDE DEF pool, list, rank
    <3>5. \A j \in pool : ItemOf(scope, k, j).rank = rank(j)
      BY <3>3, <3>4 DEF rank
    <3> HIDE DEF n
    <3>6. rank(i) \in Nat /\ rank(i) <= n /\ TopK < rank(i)
      BY <2>6, <3>2, TopKTyped
    <3> DEFINE full == fuller(f, i, scope)
    <3>7. IsFiniteSet(full)
      <4>1. full \subseteq list
        BY <1>1, <2>1, <2>2 DEF list, List
      <4> HIDE DEF full
      <4> QED BY <3>3, <4>1, FS_Subset
    <3>8. ASSUME NEW r \in 1 .. TopK PROVE \E item \in full : item.rank = r
      <4>1. r \in 1 .. n /\ r < rank(i) /\ r <= TopK
        BY <3>2, <3>6, TopKTyped
      <4>2. PICK j \in pool : rank(j) = r
        BY <3>2, <4>1
      <4>3. ItemOf(scope, k, j) \in list /\ ItemOf(scope, k, j).rank = r
        BY <3>3, <3>5, <4>1, <4>2
      <4>4. Size(ItemOf(scope, k, j).value) >= Size(f.value)
        BY <2>2, <2>6, <3>2, <3>4, <4>1, <4>2
      <4>5. ItemOf(scope, k, j) \in full
        BY <1>1, <2>1, <2>2, <4>3, <4>4 DEF list, List
      <4> QED BY <4>3, <4>5
    <3> HIDE DEF full
    <3>9. Cardinality(full) >= TopK
      <4> DEFINE at == [r \in 1 .. TopK |-> CHOOSE item \in full : item.rank = r]
      <4>1. \A r \in 1 .. TopK : at[r] \in full /\ at[r].rank = r
        BY <3>8
      <4>2. at \in [1 .. TopK -> full]
        BY <4>1
      <4> HIDE DEF at
      <4>3. \A r, q \in 1 .. TopK : at[r] = at[q] => r = q
        BY <4>1
      <4>4. at \in Injection(1 .. TopK, full)
        BY <4>2, <4>3 DEF Injection, IsInjective
      <4>5. Cardinality(1 .. TopK) <= Cardinality(full) /\ Cardinality(full) \in Nat
        BY <3>7, <4>4, FS_Injection, FS_CardinalityType
      <4>6. Cardinality(1 .. TopK) = TopK
        BY TopKTyped, FS_Interval
      <4> QED BY <4>5, <4>6, TopKTyped
    <3> QED BY <3>9 DEF full
  <2> QED BY <2>4, <2>5, <2>6
<1> QED BY <1>3, <1>4 DEF DiscoveryMatchesFindings

\* Discovery and the comparison pages tell the same story.
THEOREM DiscoveryMatchesFindingsAlways == PublishedSpec => []DiscoveryMatchesFindings
<1>1. PublishedInv => DiscoveryMatchesFindings
  <2>1. CASE stage = "validated"
    BY <2>1, DiscoveryMatches DEF PublishedInv
  <2>2. CASE stage # "validated"
    BY <2>2 DEF DiscoveryMatchesFindings
  <2> QED BY <2>1, <2>2
<1> QED BY <1>1, PublishedInvariance, PTL

-----------------------------------------------------------------------------
(* Lists by position                                                        *)

\* A finite set of numbers is listed whole, each after the smaller ones.
LEMMA IncreasingLists ==
  ASSUME NEW S \in SUBSET Int, IsFiniteSet(S)
  PROVE  /\ Cardinality(S) \in Nat
         /\ Increasing(S) \in [1 .. Cardinality(S) -> S]
         /\ \A i \in 1 .. Cardinality(S) : Cardinality({ y \in S : y < Increasing(S)[i] }) = i - 1
         /\ \A i, j \in 1 .. Cardinality(S) : i < j <=> Increasing(S)[i] < Increasing(S)[j]
<1> DEFINE n == Cardinality(S)
           less == { p \in S \X S : p[1] < p[2] }
           at == Place(S, less)
           Smaller(x) == { y \in S : y < x }
<1>1. StrictOrder(S, less)
  BY DEF StrictOrder
<1>2. \A x \in S : at[x] = Cardinality(Smaller(x))
  <2>1. ASSUME NEW x \in S PROVE { y \in S : <<y, x>> \in less } = Smaller(x)
    OBVIOUS
  <2> HIDE DEF less, Smaller
  <2> QED BY <2>1 DEF Place
<1>3. Increasing(S) = [i \in 1 .. n |-> CHOOSE x \in S : Cardinality(Smaller(x)) = i - 1]
  BY Zenon DEF Increasing
<1>4. \A x, y \in S : <<x, y>> \in less <=> x < y
  OBVIOUS
<1> HIDE DEF less
<1>5. /\ n \in Nat /\ at \in [S -> 0 .. n - 1]
      /\ \A i \in 0 .. n - 1 : \E x \in S : at[x] = i
      /\ \A x, y \in S : at[x] < at[y] <=> x < y
  BY <1>1, <1>4, PlacesCount
<1> HIDE DEF n, at
<1>6. ASSUME NEW i \in 1 .. n
      PROVE  Increasing(S)[i] \in S /\ Cardinality(Smaller(Increasing(S)[i])) = i - 1 /\ at[Increasing(S)[i]] = i - 1
  <2> HIDE DEF Smaller
  <2>1. i - 1 \in 0 .. n - 1
    BY <1>5
  <2>2. \E x \in S : Cardinality(Smaller(x)) = i - 1
    BY <1>2, <1>5, <2>1
  <2>3. Increasing(S)[i] = CHOOSE x \in S : Cardinality(Smaller(x)) = i - 1
    BY <1>3
  <2> QED BY <1>2, <2>2, <2>3
<1>7. Increasing(S) \in [1 .. n -> S]
  <2> HIDE DEF Smaller
  <2>1. \A i \in 1 .. n : (CHOOSE x \in S : Cardinality(Smaller(x)) = i - 1) \in S
    BY <1>3, <1>6
  <2> QED BY <1>3, <2>1
<1>8. ASSUME NEW i \in 1 .. n, NEW j \in 1 .. n PROVE i < j <=> Increasing(S)[i] < Increasing(S)[j]
  <2>1. at[Increasing(S)[i]] = i - 1 /\ at[Increasing(S)[j]] = j - 1 /\ Increasing(S)[i] \in S /\ Increasing(S)[j] \in S
    BY <1>6
  <2>2. i < j <=> i - 1 < j - 1
    BY <1>5
  <2>3. at[Increasing(S)[i]] < at[Increasing(S)[j]] <=> Increasing(S)[i] < Increasing(S)[j]
    BY <1>5, <2>1
  <2> QED BY ONLY <2>1, <2>2, <2>3
<1> QED BY <1>5, <1>6, <1>7, <1>8 DEF n

\* Every element is listed.
LEMMA IncreasingAll ==
  ASSUME NEW S \in SUBSET Int, IsFiniteSet(S)
  PROVE  { Increasing(S)[i] : i \in 1 .. Cardinality(S) } = S
<1> DEFINE order == Increasing(S)
           n == Cardinality(S)
<1>1. /\ n \in Nat /\ order \in [1 .. n -> S]
      /\ \A i, j \in 1 .. n : i < j <=> order[i] < order[j]
  BY IncreasingLists
<1>2. IsFiniteSet(1 .. n) /\ Cardinality(1 .. n) = n
  BY <1>1, FS_Interval
<1> HIDE DEF order, n
<1>3. order \in Injection(1 .. n, S)
  <2>1. ASSUME NEW i \in 1 .. n, NEW j \in 1 .. n, order[i] = order[j] PROVE i = j
    <3>1. order[i] \in Int
      BY <1>1
    <3>2. ~(order[i] < order[j]) /\ ~(order[j] < order[i])
      BY <2>1, <3>1
    <3>3. i \in Int /\ j \in Int /\ ~(i < j) /\ ~(j < i)
      BY <1>1, <3>2
    <3> QED BY <3>3
  <2> QED BY <1>1, <2>1 DEF Injection, IsInjective
<1>4. order \in Surjection(1 .. n, S)
  <2>1. Cardinality(1 .. n) = Cardinality(S)
    BY <1>2 DEF n
  <2> QED BY <1>3, <2>1, FS_Injection
<1>5. \A x \in S : \E i \in 1 .. n : order[i] = x
  BY <1>4 DEF Surjection
<1> QED BY <1>1, <1>5 DEF order, n

\* The entries of a list that are in S come from positions of their own, and each
\* is the k-th such entry of the list for the k it is listed at.
LEMMA WhereLists ==
  ASSUME NEW list, IsList(list), NEW S
  PROVE  /\ IsList(Where(list, S))
         /\ \E at : /\ at \in [DOMAIN Where(list, S) -> DOMAIN list]
                    /\ \A k \in DOMAIN Where(list, S) :
                         /\ Where(list, S)[k] = list[at[k]] /\ list[at[k]] \in S
                         /\ Cardinality({ j \in 1 .. at[k] : list[j] \in S }) = k
                    /\ \A k, l \in DOMAIN Where(list, S) : at[k] = at[l] => k = l
<1> DEFINE places == { i \in DOMAIN list : list[i] \in S }
           at == Increasing(places)
           m == Cardinality(places)
           w == Where(list, S)
<1>1. DOMAIN list = 1 .. Len(list) /\ Len(list) \in Nat
  BY DEF IsList
<1>2. IsFiniteSet(places) /\ places \in SUBSET Int
  <2>1. IsFiniteSet(1 .. Len(list)) /\ places \subseteq 1 .. Len(list)
    BY <1>1, FS_Interval
  <2> QED BY <1>1, <2>1, FS_Subset
<1>3. \A i \in places : i \in DOMAIN list /\ list[i] \in S
  OBVIOUS
<1>4. w = [n \in DOMAIN at |-> list[at[n]]]
  BY DEF Where
<1>5. ASSUME NEW i \in places
      PROVE { j \in 1 .. i : list[j] \in S } = { j \in places : j < i } \cup {i} /\ i \notin { j \in places : j < i }
            /\ IsFiniteSet({ j \in places : j < i })
  <2>1. i \in 1 .. Len(list)
    BY <1>1
  <2>2. { j \in 1 .. i : list[j] \in S } = { j \in places : j < i } \cup {i}
    BY <1>1, <1>3, <2>1
  <2>3. IsFiniteSet({ j \in places : j < i })
    BY <1>2, FS_Subset
  <2> QED BY <1>1, <2>2, <2>3
<1> HIDE DEF places
<1>6. /\ m \in Nat /\ at \in [1 .. m -> places]
      /\ \A i \in 1 .. m : Cardinality({ y \in places : y < at[i] }) = i - 1
      /\ \A i, j \in 1 .. m : i < j <=> at[i] < at[j]
  BY <1>2, IncreasingLists
<1> HIDE DEF at, m, w
<1>7. DOMAIN w = 1 .. m /\ Len(w) = m
  BY <1>4, <1>6
<1>8. IsList(w)
  BY <1>6, <1>7 DEF IsList
<1>9. ASSUME NEW k \in 1 .. m PROVE Cardinality({ j \in 1 .. at[k] : list[j] \in S }) = k
  <2> DEFINE old == { j \in places : j < at[k] }
  <2>1. { j \in 1 .. at[k] : list[j] \in S } = old \cup {at[k]} /\ at[k] \notin old /\ IsFiniteSet(old)
    BY <1>5, <1>6
  <2>2. Cardinality(old) = k - 1
    BY <1>6
  <2> HIDE DEF old
  <2>3. Cardinality(old \cup {at[k]}) = Cardinality(old) + 1
    BY <2>1, FS_AddElement
  <2>4. k \in Int
    BY <1>6
  <2> QED BY ONLY <2>1, <2>2, <2>3, <2>4
<1>10. \A k \in 1 .. m : w[k] = list[at[k]] /\ list[at[k]] \in S /\ at[k] \in DOMAIN list
  BY <1>3, <1>4, <1>6
<1>11. \A k, l \in 1 .. m : at[k] = at[l] => k = l
  <2>1. \A k \in 1 .. m : at[k] \in Int
    BY <1>2, <1>6
  <2> QED BY <1>6, <2>1
<1>12. at \in [1 .. m -> DOMAIN list]
  BY <1>6, <1>10
<1> QED BY <1>7, <1>8, <1>9, <1>10, <1>11, <1>12 DEF w

-----------------------------------------------------------------------------
(* What the evidence set keeps                                              *)

\* A kept candidate is a ranked one, and no two that are kept have one text.
LEMMA DeduplicatedLists ==
  ASSUME NEW ranked, IsList(ranked)
  PROVE  /\ IsList(Deduplicated(ranked))
         /\ \A k \in DOMAIN Deduplicated(ranked) : Deduplicated(ranked)[k] \in ToSet(ranked)
         /\ \A k, l \in DOMAIN Deduplicated(ranked) :
              k # l => PassageAt(Deduplicated(ranked)[k]).text # PassageAt(Deduplicated(ranked)[l]).text
<1> DEFINE E == ToSet(ranked)
           n == Len(ranked)
           Differ(s) == \A k, l \in DOMAIN s : k < l => PassageAt(s[k]).text # PassageAt(s[l]).text
           T == { s \in Seq(E) : Differ(s) }
           Step(s, i) == IF \E k \in ToSet(s) : SamePassageOrText(k, ranked[i]) THEN s ELSE Append(s, ranked[i])
           Runs(f) == f = [k \in 0 .. n |-> IF k = 0 THEN <<>> ELSE Step(f[k - 1], k)]
           kept == CHOOSE f : Runs(f)
           step == [x \in T \X (1 .. n) |-> Step(x[1], x[2])]
<1>0. n \in Nat /\ \A i \in 1 .. n : ranked[i] \in E
  BY DEF IsList, ToSet
<1> HIDE DEF E
<1>1. <<>> \in T
  OBVIOUS
<1>2. ASSUME NEW s \in T, NEW i \in 1 .. n PROVE Step(s, i) \in T
  <2>1. CASE \E k \in ToSet(s) : SamePassageOrText(k, ranked[i])
    BY <2>1
  <2>2. CASE ~ \E k \in ToSet(s) : SamePassageOrText(k, ranked[i])
    <3> DEFINE t == Append(s, ranked[i])
    <3>1. Step(s, i) = t
      BY <2>2
    <3>2. s \in Seq(E) /\ ranked[i] \in E /\ Len(s) \in Nat /\ DOMAIN s = 1 .. Len(s)
      BY <1>0
    <3>3. /\ t \in Seq(E) /\ Len(t) = Len(s) + 1 /\ DOMAIN t = 1 .. Len(s) + 1
          /\ \A k \in 1 .. Len(s) : t[k] = s[k]
          /\ t[Len(s) + 1] = ranked[i]
      BY <3>2
    <3>4. \A k \in 1 .. Len(s) : PassageAt(s[k]).text # PassageAt(ranked[i]).text
      BY <2>2, <3>2 DEF ToSet, SamePassageOrText
    <3>5. Differ(s)
      OBVIOUS
    <3> HIDE DEF t
    <3>6. ASSUME NEW k \in DOMAIN t, NEW l \in DOMAIN t, k < l PROVE PassageAt(t[k]).text # PassageAt(t[l]).text
      <4>1. k \in 1 .. Len(s) /\ t[k] = s[k]
        BY <3>2, <3>3, <3>6
      <4>2. CASE l = Len(s) + 1
        BY <3>3, <3>4, <4>1, <4>2
      <4>3. CASE l # Len(s) + 1
        <5>1. l \in 1 .. Len(s) /\ t[l] = s[l]
          BY <3>2, <3>3, <4>3
        <5>2. PassageAt(s[k]).text # PassageAt(s[l]).text
          BY <3>2, <3>5, <3>6, <4>1, <5>1
        <5> QED BY <4>1, <5>1, <5>2
      <4> QED BY <4>2, <4>3
    <3> QED BY <3>1, <3>3, <3>6
  <2> QED BY <2>1, <2>2
<1>3. step \in [T \X (1 .. n) -> T]
  BY <1>2
<1> HIDE DEF T
<1>4. PICK f \in [0 .. n -> T] : Iterates(f, <<>>, step, n)
  BY <1>0, <1>1, <1>3, IterationExists
<1>5. Runs(f)
  <2>1. \A i \in 0 .. n : f[i] = IF i = 0 THEN <<>> ELSE Step(f[i - 1], i)
    <3> SUFFICES ASSUME NEW i \in 0 .. n, i # 0 PROVE f[i] = Step(f[i - 1], i)
      BY <1>4 DEF Iterates
    <3>1. i \in 1 .. n /\ i - 1 \in 0 .. n
      BY <1>0
    <3>2. f[i] = step[<<f[i - 1], i>>] /\ f[i - 1] \in T
      BY <1>4, <3>1 DEF Iterates
    <3> QED BY <3>1, <3>2
  <2> QED BY <2>1
<1>6. Runs(kept)
  BY <1>5
<1>7. Deduplicated(ranked) = kept[n]
  BY DEF Deduplicated, kept
<1> HIDE DEF kept, step, Step, n
<1>8. kept[0] = <<>> /\ \A i \in 1 .. n : kept[i] = Step(kept[i - 1], i)
  <2>1. \A k \in 0 .. n : kept[k] = IF k = 0 THEN <<>> ELSE Step(kept[k - 1], k)
    BY <1>6
  <2>2. 0 \in 0 .. n /\ \A i \in 1 .. n : i \in 0 .. n /\ i # 0
    BY <1>0
  <2> QED BY <2>1, <2>2
<1>9. \A i \in 0 .. n : kept[i] \in T
  <2>1. kept[0] \in T /\ \A i \in 1 .. n : kept[i - 1] \in T => kept[i] \in T
    BY <1>1, <1>2, <1>8
  <2> QED BY <1>0, <2>1, IterationKeeps
<1>10. kept[n] \in T
  BY <1>0, <1>9
<1> DEFINE last == Deduplicated(ranked)
<1>11. last \in Seq(E) /\ Differ(last)
  BY <1>7, <1>10 DEF T
<1> HIDE DEF last
<1>12. Len(last) \in Nat /\ DOMAIN last = 1 .. Len(last) /\ \A k \in DOMAIN last : last[k] \in E
  BY <1>11
<1>13. ASSUME NEW k \in DOMAIN last, NEW l \in DOMAIN last, k # l PROVE PassageAt(last[k]).text # PassageAt(last[l]).text
  <2>1. k < l \/ l < k
    BY <1>12, <1>13
  <2> QED BY <1>11, <2>1
<1> QED BY <1>12, <1>13 DEF IsList, last, E

\* Only what is examined is selected.
LEMMA ChosenSelects ==
  ASSUME NEW examined, IsList(examined)
  PROVE  ToSet(Chosen(examined).selected) \subseteq ToSet(examined)
<1> DEFINE E == ToSet(examined)
           n == Len(examined)
           T == [selected : Seq(E), covered : SUBSET UNION { Facets(e) : e \in E }, redundant : SUBSET { e.id : e \in E }]
           base == [selected |-> <<>>, covered |-> {}, redundant |-> {}]
           Runs(f) == f = [k \in 0 .. n |-> IF k = 0 THEN base ELSE Pick(f[k - 1], examined[k])]
           after == CHOOSE f : Runs(f)
           step == [x \in T \X (1 .. n) |-> Pick(x[1], examined[x[2]])]
<1>0. n \in Nat /\ \A i \in 1 .. n : examined[i] \in E
  BY DEF IsList, ToSet
<1> HIDE DEF E
<1>1. base \in T
  OBVIOUS
<1>2. ASSUME NEW x \in T, NEW i \in 1 .. n PROVE Pick(x, examined[i]) \in T
  <2> DEFINE c == examined[i]
             F == UNION { Facets(e) : e \in E }
             R == { e.id : e \in E }
  <2>1. c \in E /\ Facets(c) \subseteq F /\ c.id \in R
    BY <1>0
  <2> HIDE DEF c, F, R
  <2>2. x \in [selected : Seq(E), covered : SUBSET F, redundant : SUBSET R]
    BY DEF F, R
  <2> DEFINE more == [x EXCEPT !.selected = Append(@, c), !.covered = @ \cup Facets(c)]
             same == [x EXCEPT !.redundant = @ \cup {c.id}]
  <2>3. Append(x.selected, c) \in Seq(E) /\ x.covered \cup Facets(c) \in SUBSET F /\ x.redundant \cup {c.id} \in SUBSET R
    BY <2>1, <2>2
  <2>4. more \in [selected : Seq(E), covered : SUBSET F, redundant : SUBSET R]
    BY <2>2, <2>3
  <2>5. same \in [selected : Seq(E), covered : SUBSET F, redundant : SUBSET R]
    BY <2>2, <2>3
  <2>6. Pick(x, c) \in {x, more, same}
    BY DEF Pick
  <2> HIDE DEF more, same
  <2> QED BY <2>2, <2>4, <2>5, <2>6 DEF c, F, R
<1>3. step \in [T \X (1 .. n) -> T]
  BY <1>2
<1> HIDE DEF T
<1>4. PICK f \in [0 .. n -> T] : Iterates(f, base, step, n)
  BY <1>0, <1>1, <1>3, IterationExists
<1>5. Runs(f)
  <2> HIDE DEF base
  <2>1. \A i \in 0 .. n : f[i] = IF i = 0 THEN base ELSE Pick(f[i - 1], examined[i])
    <3> SUFFICES ASSUME NEW i \in 0 .. n, i # 0 PROVE f[i] = Pick(f[i - 1], examined[i])
      BY <1>4 DEF Iterates
    <3>1. i \in 1 .. n /\ i - 1 \in 0 .. n
      BY <1>0
    <3>2. f[i] = step[<<f[i - 1], i>>] /\ f[i - 1] \in T
      BY <1>4, <3>1 DEF Iterates
    <3> QED BY <3>1, <3>2
  <2> QED BY <2>1
<1>6. Runs(after)
  BY <1>5
<1>7. Chosen(examined) = after[n]
  BY DEF Chosen, after
<1> HIDE DEF after, step, n, base
<1>8. after[0] = base /\ \A i \in 1 .. n : after[i] = Pick(after[i - 1], examined[i])
  <2>1. \A k \in 0 .. n : after[k] = IF k = 0 THEN base ELSE Pick(after[k - 1], examined[k])
    BY <1>6
  <2>2. 0 \in 0 .. n /\ \A i \in 1 .. n : i \in 0 .. n /\ i # 0
    BY <1>0
  <2> QED BY <2>1, <2>2
<1>9. \A i \in 0 .. n : after[i] \in T
  <2>1. after[0] \in T /\ \A i \in 1 .. n : after[i - 1] \in T => after[i] \in T
    BY <1>1, <1>2, <1>8
  <2> QED BY <1>0, <2>1, IterationKeeps
<1>10. after[n] \in T
  BY <1>0, <1>9
<1>11. Chosen(examined).selected \in Seq(E)
  BY <1>7, <1>10 DEF T
<1> QED BY <1>11 DEF ToSet, E

-----------------------------------------------------------------------------
(* Candidates                                                               *)

LEMMA MinExists ==
  ASSUME NEW S \in SUBSET Int, IsFiniteSet(S), S # {}
  PROVE  Min(S) \in S /\ \A y \in S : Min(S) <= y
<1> DEFINE f == [x \in S |-> -x]
<1>1. \A x \in S : f[x] \in Int /\ f[x] = -x
  OBVIOUS
<1> HIDE DEF f
<1>2. \E x \in S : \A y \in S : f[y] <= f[x]
  BY <1>1, GreatestExists
<1>3. \E x \in S : \A y \in S : x <= y
  BY <1>1, <1>2
<1> QED BY <1>3 DEF Min

\* The passage at its position is the passage.
LEMMA PositionIs ==
  ASSUME NEW hits, IsList(hits), NEW p, PositionOf(hits, p) # None
  PROVE  PositionOf(hits, p) \in DOMAIN hits /\ hits[PositionOf(hits, p)] = p
<1> DEFINE S == { i \in DOMAIN hits : hits[i] = p }
<1>1. S # {} /\ PositionOf(hits, p) = Min(S)
  BY DEF PositionOf
<1>2. IsFiniteSet(1 .. Len(hits)) /\ DOMAIN hits = 1 .. Len(hits)
  BY FS_Interval DEF IsList
<1>3. S \in SUBSET Int /\ IsFiniteSet(S)
  BY <1>2, FS_Subset
<1>4. \A i \in S : i \in DOMAIN hits /\ hits[i] = p
  OBVIOUS
<1> HIDE DEF S
<1>5. Min(S) \in S
  BY <1>1, <1>3, MinExists
<1> QED BY <1>1, <1>4, <1>5

\* The company's own passages that the full-text search finds up to the i-th.
FoundUpTo(i, a) == { j \in 1 .. i : FitsCompany(a, input.keyword[j]) }

\* A rank in the full-text search is no better than the place among the
\* company's own passages: the rows before it are of passages before it.
LEMMA LexicalRanks ==
  ASSUME input \in Reviews, NEW a, NEW p, LexicalRank(LexicalCandidates(a), p) # None
  PROVE  /\ LexicalRank(LexicalCandidates(a), p) \in Nat
         /\ \E i \in DOMAIN input.keyword :
              /\ input.keyword[i] = p
              /\ Cardinality(FoundUpTo(i, a)) <= LexicalRank(LexicalCandidates(a), p)
<1> DEFINE fit == { x \in DOMAIN input.passages : FitsCompany(a, x) }
           words == Where(input.keyword, fit)
           k == PositionOf(words, p)
           Of(n) == { row \in (1 .. n) \X DOMAIN input.contexts : row[2] \in ContextsOf(words[row[1]]) }
<1>1. IsList(input.keyword) /\ IsList(input.contexts)
  BY RetrievalsTyped
<1>2. \A j \in DOMAIN input.keyword :
        /\ input.keyword[j] \in DOMAIN input.passages
        /\ \E x \in DOMAIN input.contexts : input.contexts[x].passage = input.keyword[j]
  BY RetrievalsTyped
<1>3. LexicalCandidates(a) = words
  BY DEF LexicalCandidates
<1>4. \A i : \A j \in 1 .. i : j \in DOMAIN input.keyword => (input.keyword[j] \in fit <=> FitsCompany(a, input.keyword[j]))
  BY <1>2
<1> HIDE DEF fit
<1>5. IsList(words)
  BY <1>1, WhereLists
<1>6. PICK at : /\ at \in [DOMAIN words -> DOMAIN input.keyword]
                /\ \A m \in DOMAIN words :
                     /\ words[m] = input.keyword[at[m]] /\ input.keyword[at[m]] \in fit
                     /\ Cardinality({ j \in 1 .. at[m] : input.keyword[j] \in fit }) = m
                /\ \A m, n \in DOMAIN words : at[m] = at[n] => m = n
  BY <1>1, WhereLists, Zenon
<1> HIDE DEF words
<1>7. LexicalRank(words, p) = IF k = None THEN None ELSE Cardinality(Of(k))
  BY DEF LexicalRank
<1>8. k # None
  BY <1>3, <1>7
<1>9. k \in DOMAIN words /\ words[k] = p
  BY <1>5, <1>8, PositionIs
<1> HIDE DEF k
<1>10. DOMAIN words = 1 .. Len(words) /\ Len(words) \in Nat /\ DOMAIN input.keyword = 1 .. Len(input.keyword)
       /\ Len(input.keyword) \in Nat /\ DOMAIN input.contexts = 1 .. Len(input.contexts) /\ Len(input.contexts) \in Nat
  BY <1>1, <1>5 DEF IsList
<1>11. k \in Nat
  BY <1>9, <1>10
<1>12. { j \in 1 .. at[k] : input.keyword[j] \in fit } = FoundUpTo(at[k], a)
  <2>1. at[k] \in 1 .. Len(input.keyword)
    BY <1>6, <1>9, <1>10
  <2>2. \A j \in 1 .. at[k] : j \in DOMAIN input.keyword
    BY <1>10, <2>1
  <2> QED BY <1>4, <2>2 DEF FoundUpTo
<1>13. Cardinality(FoundUpTo(at[k], a)) = k /\ input.keyword[at[k]] = p /\ at[k] \in DOMAIN input.keyword
  BY <1>6, <1>9, <1>12
<1>14. Cardinality(Of(k)) \in Nat /\ k <= Cardinality(Of(k))
  <2> DEFINE context(j) == CHOOSE x \in DOMAIN input.contexts : input.contexts[x].passage = words[j]
             f == [j \in 1 .. k |-> <<j, context(j)>>]
  <2>1. ASSUME NEW j \in 1 .. k PROVE context(j) \in DOMAIN input.contexts /\ context(j) \in ContextsOf(words[j])
    <3>1. j \in DOMAIN words
      BY <1>9, <1>10
    <3>2. at[j] \in DOMAIN input.keyword /\ words[j] = input.keyword[at[j]]
      BY <1>6, <3>1
    <3>3. \E x \in DOMAIN input.contexts : input.contexts[x].passage = words[j]
      BY <1>2, <3>2
    <3> QED BY <3>3 DEF ContextsOf
  <2> HIDE DEF context
  <2>2. f \in Injection(1 .. k, Of(k))
    <3>1. \A j \in 1 .. k : f[j] = <<j, context(j)>> /\ f[j] \in Of(k)
      BY <2>1
    <3> QED BY <3>1 DEF Injection, IsInjective
  <2>3. IsFiniteSet(1 .. k) /\ Cardinality(1 .. k) = k
    BY <1>11, FS_Interval
  <2>4. IsFiniteSet((1 .. k) \X DOMAIN input.contexts)
    <3>1. IsFiniteSet(DOMAIN input.contexts)
      BY <1>10, FS_Interval
    <3> QED BY <2>3, <3>1, FS_Product
  <2>5. IsFiniteSet(Of(k))
    BY <2>4, FS_Subset
  <2> HIDE DEF f, Of
  <2>6. Cardinality(1 .. k) <= Cardinality(Of(k))
    BY <2>2, <2>3, <2>5, FS_Injection
  <2> QED BY <2>3, <2>5, <2>6, FS_CardinalityType
<1> HIDE DEF Of
<1> QED BY <1>3, <1>7, <1>8, <1>13, <1>14

LEMMA EntriesFinite ==
  ASSUME NEW list, IsList(list)
  PROVE  IsFiniteSet(ToSet(list))
<1> DEFINE f == [i \in 1 .. Len(list) |-> list[i]]
<1>1. Len(list) \in Nat /\ DOMAIN list = 1 .. Len(list) /\ ToSet(list) = { list[i] : i \in DOMAIN list }
  BY DEF IsList, ToSet
<1>2. f \in Surjection(1 .. Len(list), ToSet(list))
  BY <1>1 DEF Surjection
<1>3. IsFiniteSet(1 .. Len(list))
  BY <1>1, FS_Interval
<1> HIDE DEF f
<1> QED BY <1>2, <1>3, FS_Surjection

\* What the embeddings find, whatever its order.
LEMMA NearHits ==
  ASSUME input \in Reviews, NEW a
  PROVE  /\ IsList(Adjusted(SemanticCandidates(a)))
         /\ \A n \in DOMAIN Adjusted(SemanticCandidates(a)) :
              LET hit == Adjusted(SemanticCandidates(a))[n]
              IN /\ hit.factor \in Int
                 /\ \E s \in ToSet(input.similar) :
                      s[1] \in DOMAIN input.passages /\ hit.passage = s[1] /\ hit.raw = 100 * s[2]
<1> DEFINE S == { s \in ToSet(input.similar) :
                    /\ FitsCompany(a, s[1]) /\ FitsPeriod(a, s[1])
                    /\ \E i \in ContextsOf(s[1]) : FitsCategory(a, input.contexts[i]) }
           list == Where(input.similar, S)
           factor(i) == QualityFactor(list[i][1], \E j \in ContextsOf(list[i][1]) : input.contexts[j].categories # {})
           hits == SemanticCandidates(a)
           rank == [hit \in ToSet(hits) |-> <<-hit.adjusted, hit.rank, 0>>]
           near == Adjusted(hits)
<1>1. /\ IsList(input.similar) /\ DOMAIN input.similar = 1 .. Len(input.similar)
      /\ \A i \in DOMAIN input.similar : input.similar[i][1] \in DOMAIN input.passages /\ input.similar[i][2] \in Int
      /\ \A p \in DOMAIN input.passages : input.passages[p].factor \in Int
  BY RetrievalsTyped DEF IsList
<1>2. hits = [i \in DOMAIN list |->
                [passage |-> list[i][1], raw |-> 100 * list[i][2], adjusted |-> factor(i) * list[i][2],
                 factor |-> factor(i), rank |-> i]]
  BY DEF SemanticCandidates
<1> HIDE DEF S
<1>3. IsList(list)
  BY <1>1, WhereLists
<1>4. PICK at : /\ at \in [DOMAIN list -> DOMAIN input.similar]
                /\ \A k \in DOMAIN list :
                     /\ list[k] = input.similar[at[k]] /\ input.similar[at[k]] \in S
                     /\ Cardinality({ j \in 1 .. at[k] : input.similar[j] \in S }) = k
                /\ \A k, l \in DOMAIN list : at[k] = at[l] => k = l
  BY <1>1, WhereLists, Zenon
<1> HIDE DEF list
<1>5. DOMAIN list = 1 .. Len(list) /\ Len(list) \in Nat
  BY <1>3 DEF IsList
<1>6. ASSUME NEW i \in DOMAIN list
      PROVE  /\ list[i] \in ToSet(input.similar) /\ list[i][1] \in DOMAIN input.passages /\ list[i][2] \in Int
             /\ factor(i) \in Int
  <2>1. at[i] \in DOMAIN input.similar /\ list[i] = input.similar[at[i]]
    BY <1>4
  <2>2. list[i][1] \in DOMAIN input.passages /\ list[i][2] \in Int
    BY <1>1, <2>1
  <2>3. factor(i) \in Int
    BY <1>1, <2>2 DEF QualityFactor
  <2> QED BY <2>1, <2>2, <2>3 DEF ToSet
<1> HIDE DEF factor
<1>7. /\ IsList(hits)
      /\ \A i \in DOMAIN hits :
           /\ i \in DOMAIN list /\ i \in Int /\ hits[i].rank = i /\ hits[i].adjusted \in Int /\ hits[i].factor \in Int
           /\ hits[i].passage = list[i][1] /\ hits[i].raw = 100 * list[i][2]
  <2>1. DOMAIN hits = 1 .. Len(list) /\ Len(hits) = Len(list)
    BY <1>2, <1>5
  <2>2. \A i \in DOMAIN list : factor(i) * list[i][2] \in Int
    BY <1>6
  <2> QED BY <1>2, <1>5, <1>6, <2>1, <2>2 DEF IsList
<1> HIDE DEF hits
<1>8. \A hit \in ToSet(hits) : \E i \in DOMAIN hits : hit = hits[i]
  BY DEF ToSet
<1>9. \A hit \in ToSet(hits) : rank[hit] = <<-hit.adjusted, hit.rank, 0>> /\ hit.adjusted \in Int /\ hit.rank \in Int
  BY <1>7, <1>8
<1>10. near = InOrder(ToSet(hits), rank)
  BY DEF Adjusted
<1> HIDE DEF rank
<1>11. \A hit \in ToSet(hits) : rank[hit] \in Triples
  BY <1>9 DEF Triples
<1>12. \A x, y \in ToSet(hits) : rank[x] = rank[y] => x = y
  <2> SUFFICES ASSUME NEW x \in ToSet(hits), NEW y \in ToSet(hits), rank[x] = rank[y] PROVE x = y
    OBVIOUS
  <2>1. x.rank = y.rank
    BY <1>9
  <2> QED BY <1>7, <1>8, <2>1
<1>13. Cardinality(ToSet(hits)) \in Nat /\ near \in [1 .. Cardinality(ToSet(hits)) -> ToSet(hits)]
  BY <1>7, <1>10, <1>11, <1>12, EntriesFinite, InOrderLists
<1> HIDE DEF near
<1>14. IsList(near)
  BY <1>13 DEF IsList
<1>15. ASSUME NEW n \in DOMAIN near
       PROVE  /\ near[n].factor \in Int
              /\ \E s \in ToSet(input.similar) :
                   s[1] \in DOMAIN input.passages /\ near[n].passage = s[1] /\ near[n].raw = 100 * s[2]
  <2>1. PICK i \in DOMAIN hits : near[n] = hits[i]
    BY <1>8, <1>13
  <2>2. i \in DOMAIN list
    BY <1>7
  <2> QED BY <1>6, <1>7, <2>1, <2>2
<1> QED BY <1>14, <1>15 DEF near, hits

\* A candidate is of the company and the period asked about, and is found by
\* the searches that it has a place in.
FoundFor(c, a) ==
  /\ c.passage \in DOMAIN input.passages
  /\ FitsCompany(a, c.passage) /\ FitsPeriod(a, c.passage)
  /\ c.lexical # None =>
       /\ c.lexical \in Nat
       /\ \E i \in DOMAIN input.keyword :
            input.keyword[i] = c.passage /\ Cardinality(FoundUpTo(i, a)) <= c.lexical
  /\ c.raw # None => \E s \in ToSet(input.similar) : s[1] = c.passage /\ c.raw = 100 * s[2]

CandidatesSound(list, a) ==
  /\ IsList(list)
  /\ \A i \in DOMAIN list :
       /\ FoundFor(list[i], a)
       /\ list[i].id \in Int /\ list[i].rrf \in Int /\ list[i].factor \in Int
  /\ \A i, j \in DOMAIN list : list[i].id = list[j].id => i = j

LEMMA Gathers ==
  ASSUME input \in Reviews, NEW a
  PROVE  CandidatesSound(GenerateCandidates(a), a)
<1> DEFINE words == LexicalCandidates(a)
           near == Adjusted(SemanticCandidates(a))
           places == [i \in DOMAIN near |-> near[i].passage]
           At(p) == PositionOf(places, p)
           hit == ToSet(words) \cup { near[i].passage : i \in DOMAIN near }
           fused == [p \in hit |-> FusionOf(LexicalRank(words, p), At(p))]
           Ahead(p, q) == LET gap == fused[p][1] * fused[q][2] - fused[q][1] * fused[p][2] IN gap > 0 \/ (gap = 0 /\ p < q)
           Fits(c) == FitsCompany(a, c.passage) /\ FitsPeriod(a, c.passage) /\ FitsCategory(a, c)
           S == { c \in ToSet(input.contexts) : c.passage \in hit /\ Fits(c) }
           contexts == Where(input.contexts, S)
           first(p) == { q \in hit : Ahead(q, p) }
           Candidate(c, at) ==
             [id |-> c.id, passage |-> c.passage, side |-> c.side, status |-> c.status,
              categories |-> c.categories, subcategories |-> c.subcategories,
              lexical |-> LexicalRank(words, c.passage),
              raw |-> IF at = None THEN None ELSE near[at].raw,
              adjusted |-> IF at = None THEN None ELSE near[at].adjusted,
              factor |-> IF at = None THEN QualityFactor(c.passage, HasSignal(c)) ELSE near[at].factor,
              rrf |-> 1 + Cardinality(first(c.passage))]
           list == GenerateCandidates(a)
<1>1. list = [i \in DOMAIN contexts |-> Candidate(contexts[i], At(contexts[i].passage))]
  BY Zenon DEF GenerateCandidates
<1>2. /\ IsList(input.contexts)
      /\ \A i \in DOMAIN input.contexts :
           input.contexts[i].id \in Int /\ input.contexts[i].passage \in DOMAIN input.passages
      /\ \A i, j \in DOMAIN input.contexts : input.contexts[i].id = input.contexts[j].id => i = j
      /\ \A p \in DOMAIN input.passages : input.passages[p].factor \in Int
  BY RetrievalsTyped
<1>3. IsFiniteSet(hit)
  <2>1. IsList(words)
    BY RetrievalsTyped, WhereLists DEF LexicalCandidates
  <2>2. IsList(near)
    BY NearHits
  <2> HIDE DEF near, words
  <2>3. IsList(places)
    BY <2>2 DEF IsList
  <2>4. { near[i].passage : i \in DOMAIN near } = ToSet(places)
    BY DEF ToSet
  <2>5. IsFiniteSet(ToSet(words)) /\ IsFiniteSet({ near[i].passage : i \in DOMAIN near })
    BY <2>1, <2>3, <2>4, EntriesFinite
  <2> QED BY <2>5, FS_Union
<1>4. ASSUME NEW p PROVE Cardinality(first(p)) \in Nat
  <2>1. first(p) \subseteq hit
    BY Zenon
  <2> HIDE DEF first, hit
  <2>2. IsFiniteSet(first(p))
    BY <1>3, <2>1, FS_Subset
  <2> QED BY <2>2, FS_CardinalityType
<1>5. \A c \in S : Fits(c)
  BY Zenon
<1> HIDE DEF first, S, hit
<1>6. IsList(contexts)
  BY <1>2, WhereLists
<1>7. PICK from : /\ from \in [DOMAIN contexts -> DOMAIN input.contexts]
                  /\ \A k \in DOMAIN contexts :
                       /\ contexts[k] = input.contexts[from[k]] /\ input.contexts[from[k]] \in S
                       /\ Cardinality({ j \in 1 .. from[k] : input.contexts[j] \in S }) = k
                  /\ \A k, l \in DOMAIN contexts : from[k] = from[l] => k = l
  BY <1>2, WhereLists, Zenon
<1>8. ASSUME NEW p, At(p) # None
      PROVE  /\ near[At(p)].factor \in Int
             /\ \E s \in ToSet(input.similar) : s[1] = p /\ near[At(p)].raw = 100 * s[2]
  <2>1. IsList(near)
    BY NearHits
  <2>2. \A n \in DOMAIN near :
          /\ near[n].factor \in Int
          /\ \E s \in ToSet(input.similar) :
               s[1] \in DOMAIN input.passages /\ near[n].passage = s[1] /\ near[n].raw = 100 * s[2]
    BY NearHits, Zenon
  <2> HIDE DEF near
  <2>3. IsList(places) /\ DOMAIN places = DOMAIN near
    BY <2>1 DEF IsList
  <2>4. At(p) \in DOMAIN near /\ near[At(p)].passage = p
    <3>1. At(p) \in DOMAIN places /\ places[At(p)] = p
      BY <1>8, <2>3, PositionIs
    <3> HIDE DEF At
    <3> QED BY <2>3, <3>1
  <2> HIDE DEF At
  <2> QED BY <2>2, <2>4
<1> HIDE DEF contexts, near, At, list
<1>9. DOMAIN contexts = 1 .. Len(contexts) /\ Len(contexts) \in Nat
  BY <1>6 DEF IsList
<1>10. IsList(list) /\ DOMAIN list = DOMAIN contexts
  <2> HIDE DEF Candidate
  <2> QED BY <1>1, <1>9 DEF IsList
<1>11. ASSUME NEW i \in DOMAIN contexts
       PROVE  /\ list[i].id = contexts[i].id /\ list[i].passage = contexts[i].passage
              /\ list[i].lexical = LexicalRank(words, contexts[i].passage)
              /\ list[i].raw = IF At(contexts[i].passage) = None THEN None ELSE near[At(contexts[i].passage)].raw
              /\ list[i].factor = IF At(contexts[i].passage) = None THEN QualityFactor(contexts[i].passage, HasSignal(contexts[i]))
                                  ELSE near[At(contexts[i].passage)].factor
              /\ list[i].rrf = 1 + Cardinality(first(contexts[i].passage))
  BY <1>1
<1>12. ASSUME NEW i \in DOMAIN contexts
       PROVE  /\ FoundFor(list[i], a)
              /\ list[i].id \in Int /\ list[i].rrf \in Int /\ list[i].factor \in Int
  <2> DEFINE p == contexts[i].passage
  <2>1. /\ contexts[i].id \in Int /\ p \in DOMAIN input.passages
        /\ FitsCompany(a, p) /\ FitsPeriod(a, p)
    BY <1>2, <1>5, <1>7
  <2>2. list[i].passage = p /\ list[i].id = contexts[i].id
    BY <1>11
  <2>3. list[i].factor \in Int
    <3>1. QualityFactor(p, HasSignal(contexts[i])) \in Int
      BY <1>2, <2>1 DEF QualityFactor
    <3> QED BY <1>8, <1>11, <3>1
  <2>4. list[i].rrf \in Int
    BY <1>4, <1>11
  <2>5. list[i].lexical # None => list[i].lexical \in Nat /\
          \E j \in DOMAIN input.keyword : input.keyword[j] = p /\ Cardinality(FoundUpTo(j, a)) <= list[i].lexical
    BY <1>11, LexicalRanks
  <2>6. list[i].raw # None => \E s \in ToSet(input.similar) : s[1] = p /\ list[i].raw = 100 * s[2]
    BY <1>8, <1>11
  <2> HIDE DEF p
  <2> QED BY <2>1, <2>2, <2>3, <2>4, <2>5, <2>6 DEF FoundFor
<1>13. ASSUME NEW i \in DOMAIN contexts, NEW j \in DOMAIN contexts, list[i].id = list[j].id PROVE i = j
  <2>1. contexts[i].id = contexts[j].id
    BY <1>11, <1>13
  <2>2. from[i] \in DOMAIN input.contexts /\ from[j] \in DOMAIN input.contexts
    BY <1>7
  <2>3. contexts[i] = input.contexts[from[i]] /\ contexts[j] = input.contexts[from[j]]
    BY <1>7
  <2>4. from[i] = from[j]
    BY <1>2, <2>1, <2>2, <2>3
  <2> QED BY <1>7, <2>4
<1> QED BY <1>10, <1>12, <1>13 DEF CandidatesSound, list

-----------------------------------------------------------------------------
(* Reranking and eligibility                                                *)

LEMMA AnalysisTyped ==
  ASSUME input \in Reviews
  PROVE  IsFiniteSet(AnalyzeQuestion(Asked).families) /\ IsFiniteSet(Asked.subcategories)
<1> DEFINE of(i) == Asked.elements[i].families
           all == { of(i) : i \in DOMAIN Asked.elements }
           f == [i \in DOMAIN Asked.elements |-> of(i)]
<1>1. /\ IsFiniteSet(Asked.subcategories) /\ IsList(Asked.elements)
      /\ \A i \in DOMAIN Asked.elements : IsFiniteSet(of(i))
  BY QuestionsTyped DEF Asked
<1>2. AnalyzeQuestion(Asked).families = UNION all
  BY DEF AnalyzeQuestion
<1>3. IsFiniteSet(all)
  <2>1. f \in Surjection(DOMAIN Asked.elements, all)
    BY DEF Surjection
  <2>2. IsFiniteSet(DOMAIN Asked.elements)
    BY <1>1, FS_Interval DEF IsList
  <2> HIDE DEF all, f
  <2> QED BY <2>1, <2>2, FS_Surjection
<1>4. \A S \in all : IsFiniteSet(S)
  BY <1>1
<1> HIDE DEF all
<1> QED BY <1>1, <1>2, <1>3, <1>4, FS_UNION

LEMMA ScoresTyped ==
  ASSUME NEW a, IsFiniteSet(a.families), IsFiniteSet(Asked.subcategories), NEW c
  PROVE  DirectResponsivenessScore(c, a) \in Int
<1> DEFINE F == a.families
           O == Asked.subcategories
           required == IF F = {} THEN 100
                       ELSE (100 * Cardinality(InBody(c, a)) + 40 * Cardinality(InHeading(c, a))) \div Cardinality(F)
           optional == IF O = {} THEN 0 ELSE (100 * Cardinality(Optional(c))) \div Cardinality(O)
<1>1. InBody(c, a) \subseteq F /\ InHeading(c, a) \subseteq F /\ Optional(c) \subseteq O
  BY DEF InBody, InHeading, Optional
<1>2. Cardinality(InBody(c, a)) \in Nat /\ Cardinality(InHeading(c, a)) \in Nat /\ Cardinality(Optional(c)) \in Nat
  BY <1>1, FS_Subset, FS_CardinalityType
<1>3. Cardinality(F) \in Nat /\ (F # {} => Cardinality(F) > 0) /\ Cardinality(O) \in Nat /\ (O # {} => Cardinality(O) > 0)
  <2>1. Cardinality(F) \in Nat /\ Cardinality(O) \in Nat
    BY FS_CardinalityType
  <2>2. (Cardinality(F) = 0 <=> F = {}) /\ (Cardinality(O) = 0 <=> O = {})
    BY FS_EmptySet
  <2> QED BY <2>1, <2>2
<1>4. ConceptCoverageScore(c, a) = (80 * required + 20 * optional) \div 100
  BY DEF ConceptCoverageScore
<1> HIDE DEF F, O
<1>5. required \in Int /\ optional \in Int
  BY <1>2, <1>3
<1> HIDE DEF required, optional
<1>6. ConceptCoverageScore(c, a) \in Int
  BY <1>4, <1>5
<1> QED BY <1>6 DEF DirectResponsivenessScore

\* What the strategies ask of a passage that answers.
Responsive(c, a) ==
  /\ Strategy.body_match /\ a.families # {} => PassageAt(c).body \cap a.families # {}
  /\ Strategy.type_conditions /\ a.type = "causal" => PassageAt(c).because
  /\ Strategy.type_conditions /\ a.type = "quantitative" => PassageAt(c).number
  /\ Strategy.type_conditions /\ a.direction = "added" => c.status = "NEW"

\* Nothing is held against it.
LEMMA EligibleResponds ==
  ASSUME NEW c, NEW a, Eligible(c, a)
  PROVE  Responsive(c, a)
<1>1. IneligibilityReasons(c, a) = {}
  BY DEF Eligible
<1>2. Strategy.body_match /\ a.families # {} => InBody(c, a) # {}
  BY <1>1 DEF IneligibilityReasons
<1>3. Strategy.type_conditions => UnmetConditions(c, a) = {}
  BY <1>1 DEF IneligibilityReasons
<1>4. ASSUME UnmetConditions(c, a) = {}
      PROVE  /\ a.type = "causal" => PassageAt(c).because
             /\ a.type = "quantitative" => PassageAt(c).number
             /\ a.direction # None => DirectionalCoverage(c, a)
  BY <1>4 DEF UnmetConditions
<1>5. "added" # None
  <2>1. 3 \in DOMAIN Directions /\ Directions[3] = "added"
    BY DEF Directions
  <2> QED BY <2>1, NoneIsNoDirection
<1>6. a.direction = "added" /\ DirectionalCoverage(c, a) => c.status = "NEW"
  BY DEF DirectionalCoverage
<1> QED BY <1>2, <1>3, <1>4, <1>5, <1>6 DEF Responsive, InBody

RankedSound(list, a) ==
  /\ IsList(list)
  /\ \A i \in DOMAIN list : FoundFor(list[i], a) /\ (list[i].eligible => Responsive(list[i], a))

LEMMA Ranks ==
  ASSUME input \in Reviews, NEW list, CandidatesSound(list, AnalyzeQuestion(Asked))
  PROVE  RankedSound(RankCandidates(list, AnalyzeQuestion(Asked)), AnalyzeQuestion(Asked))
<1> DEFINE a == AnalyzeQuestion(Asked)
           S == ToSet(list)
           responsive == [c \in S |-> <<-DirectResponsivenessScore(c, a), c.id, 0>>]
           rank == IF Strategy.drives_ranking THEN responsive ELSE RelevanceOrder(S)
           order == InOrder(S, rank)
           Judged(c) ==
             [id |-> c.id, passage |-> c.passage, side |-> c.side, status |-> c.status,
              categories |-> c.categories, subcategories |-> c.subcategories,
              lexical |-> c.lexical, raw |-> c.raw, adjusted |-> c.adjusted,
              fragment |-> NumericFragment(c, list), eligible |-> Eligible(c, a),
              reasons |-> IneligibilityReasons(c, a)]
           ranked == RankCandidates(list, a)
<1>1. ranked = [i \in DOMAIN order |-> Judged(order[i])]
  BY Zenon DEF RankCandidates
<1>2. IsFiniteSet(a.families) /\ IsFiniteSet(Asked.subcategories)
  BY AnalysisTyped
<1> HIDE DEF a
<1>3. CandidatesSound(list, a)
  BY DEF a
<1>4. \A c \in S : /\ c.passage \in DOMAIN input.passages /\ FoundFor(c, a)
                   /\ c.id \in Int /\ c.rrf \in Int /\ c.factor \in Int
  BY <1>3 DEF CandidatesSound, FoundFor, ToSet
<1>5. \A c, d \in S : c.id = d.id => c = d
  BY <1>3 DEF CandidatesSound, ToSet
<1>6. IsFiniteSet(S)
  BY <1>3, EntriesFinite DEF CandidatesSound
<1> HIDE DEF S
<1>7. \A c \in S : rank[c] \in Triples
  <2> SUFFICES ASSUME NEW c \in S PROVE rank[c] \in Triples
    OBVIOUS
  <2>1. DirectResponsivenessScore(c, a) \in Int
    BY <1>2, ScoresTyped
  <2>2. RelevanceScore(c) \in Int
    <3>1. PassageAt(c).terms \in Int
      BY <1>4, RetrievalsTyped DEF PassageAt
    <3>2. c.rrf \in Int /\ c.factor \in Int
      BY <1>4
    <3>3. -c.rrf \in Int /\ PassageAt(c).terms * c.factor \in Int
      BY <3>1, <3>2
    <3> QED BY <3>1, <3>3 DEF RelevanceScore
  <2>3. c.id \in Int /\ c.rrf \in Int
    BY <1>4
  <2>4. CASE Strategy.drives_ranking
    BY <2>1, <2>3, <2>4 DEF Triples
  <2>5. CASE ~ Strategy.drives_ranking
    BY <2>2, <2>3, <2>5 DEF Triples, RelevanceOrder
  <2> QED BY <2>4, <2>5
<1>8. \A c, d \in S : rank[c] = rank[d] => c = d
  <2> SUFFICES ASSUME NEW c \in S, NEW d \in S, rank[c] = rank[d] PROVE c = d
    OBVIOUS
  <2>1. CASE Strategy.drives_ranking
    BY <1>5, <2>1
  <2>2. CASE ~ Strategy.drives_ranking
    BY <1>5, <2>2 DEF RelevanceOrder
  <2> QED BY <2>1, <2>2
<1> HIDE DEF rank
<1>9. Cardinality(S) \in Nat /\ order \in [1 .. Cardinality(S) -> S]
  BY <1>6, <1>7, <1>8, InOrderLists
<1> HIDE DEF order
<1>10. IsList(ranked) /\ DOMAIN ranked = DOMAIN order
  <2> HIDE DEF Judged, ranked
  <2> QED BY <1>1, <1>9 DEF IsList
<1>11. ASSUME NEW i \in DOMAIN ranked
       PROVE  FoundFor(ranked[i], a) /\ (ranked[i].eligible => Responsive(ranked[i], a))
  <2> DEFINE c == order[i]
  <2>1. ranked[i] = Judged(c)
    BY <1>1, <1>10
  <2>2. c \in S
    BY <1>9, <1>10
  <2> HIDE DEF c, ranked
  <2>3. /\ ranked[i].passage = c.passage /\ ranked[i].lexical = c.lexical /\ ranked[i].raw = c.raw
        /\ ranked[i].status = c.status
    BY <2>1
  <2>4. ranked[i].eligible = Eligible(c, a)
    BY <2>1
  <2>5. FoundFor(ranked[i], a)
    BY <1>4, <2>2, <2>3 DEF FoundFor
  <2>6. ranked[i].eligible => Responsive(ranked[i], a)
    <3>1. Responsive(c, a) => Responsive(ranked[i], a)
      BY <2>3 DEF Responsive, PassageAt
    <3>2. Eligible(c, a) => Responsive(c, a)
      BY EligibleResponds
    <3> QED BY <2>4, <3>1, <3>2, Zenon
  <2> QED BY <2>5, <2>6
<1> QED BY <1>10, <1>11 DEF RankedSound, ranked, a

-----------------------------------------------------------------------------
(* From the ranked candidates to the verdict                                *)

LEMMA WhereAmong ==
  ASSUME NEW list, IsList(list), NEW S
  PROVE  IsList(Where(list, S)) /\ ToSet(Where(list, S)) \subseteq ToSet(list) \cap S
<1> DEFINE w == Where(list, S)
<1>1. IsList(w)
  BY WhereLists
<1>2. PICK at : /\ at \in [DOMAIN w -> DOMAIN list]
                /\ \A k \in DOMAIN w :
                     /\ w[k] = list[at[k]] /\ list[at[k]] \in S
                     /\ Cardinality({ j \in 1 .. at[k] : list[j] \in S }) = k
                /\ \A k, l \in DOMAIN w : at[k] = at[l] => k = l
  BY WhereLists, Zenon
<1> HIDE DEF w
<1>3. \A k \in DOMAIN w : w[k] \in ToSet(list) \cap S
  BY <1>2 DEF ToSet
<1>4. ToSet(w) \subseteq ToSet(list) \cap S
  BY <1>3 DEF ToSet
<1> QED BY <1>1, <1>4 DEF w

\* What is kept was found, is pairwise of different texts, and answers a narrow
\* question.
EvidenceSound(evidence, a) ==
  LET items == ToSet(evidence.selected)
  IN /\ \A c \in items : FoundFor(c, a) /\ (Narrow(a) => Responsive(c, a))
     /\ \A c, d \in items : c # d => PassageAt(c).text # PassageAt(d).text

LEMMA Keeps ==
  ASSUME NEW a, NEW ranked, RankedSound(ranked, a)
  PROVE  EvidenceSound(BuildEvidenceSet(ranked, a), a)
<1> DEFINE unique == Deduplicated(ranked)
           above == Where(unique, { c \in ToSet(unique) : ~BelowFloor(c) })
           scoped == Where(above, { c \in ToSet(above) : InScope(c, a) })
           answering == { c \in ToSet(scoped) : c.eligible }
           fit == IF Narrow(a) THEN Where(scoped, answering) ELSE scoped
           most == Min({Len(fit), 4 * ReviewConfig.max_evidence})
           examined == SubSeq(fit, 1, most)
           items == ToSet(BuildEvidenceSet(ranked, a).selected)
<1>1. items = ToSet(Chosen(examined).selected)
  BY DEF BuildEvidenceSet
<1>2. \A c \in answering : c.eligible
  BY Zenon
<1>3. /\ IsList(unique) /\ ToSet(unique) \subseteq ToSet(ranked)
      /\ \A k, l \in DOMAIN unique : k # l => PassageAt(unique[k]).text # PassageAt(unique[l]).text
  BY DeduplicatedLists DEF RankedSound, ToSet
<1> HIDE DEF unique
<1>4. IsList(above) /\ ToSet(above) \subseteq ToSet(unique)
  BY <1>3, WhereAmong
<1> HIDE DEF above
<1>5. IsList(scoped) /\ ToSet(scoped) \subseteq ToSet(above)
  BY <1>4, WhereAmong
<1> HIDE DEF scoped, answering
<1>6. IsList(fit) /\ ToSet(fit) \subseteq ToSet(scoped) /\ (Narrow(a) => ToSet(fit) \subseteq answering)
  <2>1. IsList(Where(scoped, answering)) /\ ToSet(Where(scoped, answering)) \subseteq ToSet(scoped) \cap answering
    BY <1>5, WhereAmong
  <2> QED BY <1>5, <2>1
<1> HIDE DEF fit
<1>7. IsList(examined) /\ ToSet(examined) \subseteq ToSet(fit)
  <2>1. Len(fit) \in Nat /\ DOMAIN fit = 1 .. Len(fit) /\ 4 * ReviewConfig.max_evidence \in Nat
    BY <1>6, ReviewConfigTyped DEF IsList
  <2>2. most \in Nat /\ most <= Len(fit)
    <3> DEFINE x == Len(fit)
               y == 4 * ReviewConfig.max_evidence
    <3>1. x \in Nat /\ y \in Nat /\ most = Min({x, y})
      BY <2>1
    <3> HIDE DEF x, y, most
    <3>2. IsFiniteSet({x} \cup {y}) /\ {x, y} = {x} \cup {y}
      BY FS_Singleton, FS_AddElement
    <3>3. {x, y} \in SUBSET Int /\ {x, y} # {} /\ IsFiniteSet({x, y})
      BY <3>1, <3>2
    <3>4. Min({x, y}) \in {x, y} /\ Min({x, y}) <= x
      BY <3>3, MinExists
    <3> QED BY <3>1, <3>4 DEF x
  <2> HIDE DEF most
  <2>3. \A i \in 1 .. most : fit[i] \in ToSet(fit)
    BY <2>1, <2>2 DEF ToSet
  <2>4. examined \in Seq(ToSet(fit))
    BY <2>2, <2>3, SubSeqProperties
  <2> HIDE DEF examined
  <2> QED BY <2>4 DEF IsList, ToSet
<1> HIDE DEF examined
<1>8. items \subseteq ToSet(examined)
  BY <1>1, <1>7, ChosenSelects
<1> HIDE DEF items
<1>9. ASSUME NEW c \in items PROVE FoundFor(c, a) /\ (Narrow(a) => Responsive(c, a))
  <2>1. c \in ToSet(ranked) /\ (Narrow(a) => c.eligible)
    BY <1>2, <1>3, <1>4, <1>5, <1>6, <1>7, <1>8
  <2> QED BY <2>1 DEF RankedSound, ToSet
<1>10. ASSUME NEW c \in items, NEW d \in items, c # d PROVE PassageAt(c).text # PassageAt(d).text
  <2>1. c \in ToSet(unique) /\ d \in ToSet(unique)
    BY <1>4, <1>5, <1>6, <1>7, <1>8
  <2>2. PICK k \in DOMAIN unique, l \in DOMAIN unique : c = unique[k] /\ d = unique[l]
    BY <2>1 DEF ToSet
  <2> QED BY <1>3, <1>10, <2>2
<1> QED BY <1>9, <1>10 DEF EvidenceSound, items

\* What a verdict in favour rests on.
VerdictSound(decision, evidence, a) ==
  LET items == ToSet(evidence.selected)
  IN decision.status \in {"SUPPORTED", "PARTIALLY_SUPPORTED"} =>
       /\ \E c \in items : Strong(c)
       /\ Strategy.strict_partial /\ Len(Asked.elements) > 1 /\ decision.status = "SUPPORTED" =>
            \A i \in DOMAIN Asked.elements : ElementSupported(Asked.elements[i], items)
       /\ Strategy.safeguards /\ a.type = "comparative" => BothSides \subseteq { c.side : c \in items }

LEMMA Decides ==
  ASSUME NEW evidence, NEW a, NEW coherence,
         coherence.comparison_satisfied = ComparisonSatisfied(ToSet(evidence.selected), a)
  PROVE  VerdictSound(EvaluateGroundedness(evidence, coherence, a), evidence, a)
<1> DEFINE items == ToSet(evidence.selected)
           decision == EvaluateGroundedness(evidence, coherence, a)
           split == Strategy.strict_partial /\ Len(Asked.elements) > 1
           judged == IF split THEN SeparableDecision(items) ELSE SoftDecision(evidence, a)
           favourable == {"SUPPORTED", "PARTIALLY_SUPPORTED"}
<1> SUFFICES ASSUME decision.status \in favourable
             PROVE  /\ \E c \in items : Strong(c)
                    /\ split /\ decision.status = "SUPPORTED" =>
                         \A i \in DOMAIN Asked.elements : ElementSupported(Asked.elements[i], items)
                    /\ Strategy.safeguards /\ a.type = "comparative" => BothSides \subseteq { c.side : c \in items }
  BY DEF VerdictSound
<1>1. \A status, reasons : Decision(status, reasons).status = status
  BY DEF Decision
<1>2. /\ items # {} /\ \E c \in items : Strong(c)
      /\ ~ (Strategy.safeguards /\ a.type = "comparative" /\ coherence.comparison_satisfied = FALSE)
      /\ decision = Caution(judged, coherence, a)
  <2> HIDE DEF items, judged
  <2>1. \A reasons : Decision("INSUFFICIENT_EVIDENCE", reasons).status \notin favourable
                     /\ Decision("AMBIGUOUS_OR_CONFLICTING", reasons).status \notin favourable
    BY <1>1
  <2> QED BY <2>1 DEF EvaluateGroundedness, items, judged
<1>3. Strategy.safeguards /\ a.type = "comparative" => BothSides \subseteq { c.side : c \in items }
  <2> SUFFICES ASSUME Strategy.safeguards, a.type = "comparative" PROVE BothSides \subseteq { c.side : c \in items }
    OBVIOUS
  <2> DEFINE sides == { c.side : c \in { i \in items : i.eligible } }
  <2>1. coherence.comparison_satisfied = (BothSides \subseteq sides)
    BY DEF ComparisonSatisfied, Compares
  <2>2. coherence.comparison_satisfied # FALSE
    BY <1>2
  <2>3. BothSides \subseteq sides
    BY <2>1, <2>2, Zenon
  <2> QED BY <2>3
<1>4. split /\ decision.status = "SUPPORTED" =>
        \A i \in DOMAIN Asked.elements : ElementSupported(Asked.elements[i], items)
  <2> SUFFICES ASSUME split, decision.status = "SUPPORTED"
               PROVE  \A i \in DOMAIN Asked.elements : ElementSupported(Asked.elements[i], items)
    OBVIOUS
  <2> DEFINE unsupported == { i \in DOMAIN Asked.elements : ~ElementSupported(Asked.elements[i], items) }
             partly == Decision(IF unsupported = DOMAIN Asked.elements THEN "INSUFFICIENT_EVIDENCE" ELSE "PARTIALLY_SUPPORTED",
                                {"INSUFFICIENT_TOPIC_COVERAGE"})
  <2>1. judged = IF unsupported = {} THEN SupportedBy(items) ELSE partly
    BY DEF SeparableDecision
  <2>2. judged.status = decision.status
    <3>1. judged.status \in {"SUPPORTED", "INSUFFICIENT_EVIDENCE", "PARTIALLY_SUPPORTED"} /\ DOMAIN judged = {"status", "reasons"}
      BY <2>1 DEF SupportedBy, Decision
    <3> HIDE DEF judged
    <3> QED BY <1>2 DEF Caution
  <2>3. partly.status # "SUPPORTED"
    BY <1>1
  <2> HIDE DEF judged, partly
  <2>4. unsupported = {}
    BY <2>1, <2>2, <2>3
  <2> QED BY <2>4
<1> QED BY <1>2, <1>3, <1>4

-----------------------------------------------------------------------------
(* The review, from its question to its verdict                             *)

\* Each stage has what the ones before it made of the question.
ReviewInv ==
  /\ stage \in {"idle", "asked", "understood", "candidates_gathered", "reranked", "kept", "reconsidered", "gated"}
  /\ stage # "idle" => input \in Reviews
  /\ stage \notin {"idle", "asked"} => found.analysis = AnalyzeQuestion(Asked)
  /\ stage = "candidates_gathered" => CandidatesSound(found.candidates, found.analysis)
  /\ stage = "reranked" => RankedSound(found.ranked, found.analysis)
  /\ stage \in {"kept", "reconsidered", "gated"} => EvidenceSound(found.evidence, found.analysis)
  /\ stage = "reconsidered" =>
       found.coherence.comparison_satisfied = ComparisonSatisfied(ToSet(found.evidence.selected), found.analysis)
  /\ stage = "gated" => VerdictSound(found.decision, found.evidence, found.analysis)

\* What a stage finds is judged by the question alone, which stays.
LEMMA SoundStays ==
  ASSUME UNCHANGED input
  PROVE  /\ Asked' = Asked
         /\ CandidatesSound(found'.candidates, found'.analysis) => CandidatesSound(found.candidates, found.analysis)'
         /\ RankedSound(found'.ranked, found'.analysis) => RankedSound(found.ranked, found.analysis)'
         /\ EvidenceSound(found'.evidence, found'.analysis) => EvidenceSound(found.evidence, found.analysis)'
         /\ ComparisonSatisfied(ToSet(found'.evidence.selected), found'.analysis)
              = ComparisonSatisfied(ToSet(found.evidence.selected), found.analysis)'
         /\ VerdictSound(found'.decision, found'.evidence, found'.analysis)
              => VerdictSound(found.decision, found.evidence, found.analysis)'
<1>1. Asked' = Asked /\ Strategy' = Strategy
  BY DEF Asked, Strategy
<1>2. CandidatesSound(found'.candidates, found'.analysis) => CandidatesSound(found.candidates, found.analysis)'
  BY DEF CandidatesSound, FoundFor, FoundUpTo, FitsCompany, FitsPeriod
<1>3. RankedSound(found'.ranked, found'.analysis) => RankedSound(found.ranked, found.analysis)'
  BY <1>1 DEF RankedSound, FoundFor, FoundUpTo, FitsCompany, FitsPeriod, Responsive, PassageAt
<1>4. EvidenceSound(found'.evidence, found'.analysis) => EvidenceSound(found.evidence, found.analysis)'
  BY <1>1 DEF EvidenceSound, FoundFor, FoundUpTo, FitsCompany, FitsPeriod, Responsive, PassageAt
<1>5. ComparisonSatisfied(ToSet(found'.evidence.selected), found'.analysis)
        = ComparisonSatisfied(ToSet(found.evidence.selected), found.analysis)'
  BY <1>1 DEF ComparisonSatisfied, Compares
<1>6. VerdictSound(found'.decision, found'.evidence, found'.analysis)
        => VerdictSound(found.decision, found.evidence, found.analysis)'
  BY <1>1 DEF VerdictSound, Strong, ElementSupported, PassageAt
<1> QED BY <1>1, <1>2, <1>3, <1>4, <1>5, <1>6

\* At every stage what is kept was found, and answers what was asked.
THEOREM ReviewInvariance == ReviewSpec => []ReviewInv
<1>1. Idle => ReviewInv
  BY DEF Idle, ReviewInv
<1>2. ReviewInv /\ [ReviewNext]_vars => ReviewInv'
  <2> SUFFICES ASSUME ReviewInv, [ReviewNext]_vars PROVE ReviewInv'
    OBVIOUS
  <2>1. CASE AskQuestion
    BY <2>1 DEF AskQuestion, Start, ReviewInv
  <2>2. CASE Analyze
    <3>1. /\ stage = "asked" /\ stage' = "understood" /\ UNCHANGED input
          /\ found' = [analysis |-> AnalyzeQuestion(Asked)]
      BY <2>2 DEF Analyze, Follow
    <3>2. found'.analysis = AnalyzeQuestion(Asked')
      BY <3>1, SoundStays
    <3> QED BY <3>1, <3>2 DEF ReviewInv
  <2>3. CASE GatherCandidates
    <3>1. /\ stage = "understood" /\ stage' = "candidates_gathered" /\ UNCHANGED input
          /\ found' = [analysis |-> found.analysis, candidates |-> GenerateCandidates(found.analysis)]
      BY <2>3 DEF GatherCandidates, Follow
    <3>2. found'.analysis = found.analysis /\ found'.candidates = GenerateCandidates(found.analysis)
      BY <3>1
    <3>3. input \in Reviews /\ found.analysis = AnalyzeQuestion(Asked)
      BY <3>1 DEF ReviewInv
    <3>4. CandidatesSound(found'.candidates, found'.analysis)
      BY <3>2, <3>3, Gathers
    <3> QED BY <3>1, <3>2, <3>3, <3>4, SoundStays DEF ReviewInv
  <2>4. CASE Rerank
    <3>1. /\ stage = "candidates_gathered" /\ stage' = "reranked" /\ UNCHANGED input
          /\ found' = [analysis |-> found.analysis, ranked |-> RankCandidates(found.candidates, found.analysis)]
      BY <2>4 DEF Rerank, Follow
    <3>2. found'.analysis = found.analysis /\ found'.ranked = RankCandidates(found.candidates, found.analysis)
      BY <3>1
    <3>3. /\ input \in Reviews /\ found.analysis = AnalyzeQuestion(Asked)
          /\ CandidatesSound(found.candidates, found.analysis)
      BY <3>1 DEF ReviewInv
    <3>4. RankedSound(found'.ranked, found'.analysis)
      BY <3>2, <3>3, Ranks
    <3> QED BY <3>1, <3>2, <3>3, <3>4, SoundStays DEF ReviewInv
  <2>5. CASE SelectEvidence
    <3>1. /\ stage = "reranked" /\ stage' = "kept" /\ UNCHANGED input
          /\ found' = [analysis |-> found.analysis, ranked |-> found.ranked,
                       evidence |-> BuildEvidenceSet(found.ranked, found.analysis)]
      BY <2>5 DEF SelectEvidence, Follow
    <3>2. found'.analysis = found.analysis /\ found'.evidence = BuildEvidenceSet(found.ranked, found.analysis)
      BY <3>1
    <3>3. /\ input \in Reviews /\ found.analysis = AnalyzeQuestion(Asked)
          /\ RankedSound(found.ranked, found.analysis)
      BY <3>1 DEF ReviewInv
    <3>4. EvidenceSound(found'.evidence, found'.analysis)
      BY <3>2, <3>3, Keeps
    <3> QED BY <3>1, <3>2, <3>3, <3>4, SoundStays DEF ReviewInv
  <2>6. CASE CheckEvidence
    <3>1. /\ stage = "kept" /\ stage' = "reconsidered" /\ UNCHANGED input
          /\ found' = [analysis |-> found.analysis, evidence |-> found.evidence,
                       coherence |-> CheckCoherence(found.evidence.selected, found.analysis)]
      BY <2>6 DEF CheckEvidence, Follow
    <3>2. /\ found'.analysis = found.analysis /\ found'.evidence = found.evidence
          /\ found'.coherence = CheckCoherence(found.evidence.selected, found.analysis)
      BY <3>1
    <3>3. /\ input \in Reviews /\ found.analysis = AnalyzeQuestion(Asked)
          /\ EvidenceSound(found.evidence, found.analysis)
      BY <3>1 DEF ReviewInv
    <3>4. CheckCoherence(found.evidence.selected, found.analysis).comparison_satisfied
            = ComparisonSatisfied(ToSet(found.evidence.selected), found.analysis)
      BY DEF CheckCoherence
    <3>5. /\ EvidenceSound(found'.evidence, found'.analysis)
          /\ found'.coherence.comparison_satisfied
               = ComparisonSatisfied(ToSet(found'.evidence.selected), found'.analysis)
      BY <3>2, <3>3, <3>4
    <3> QED BY <3>1, <3>2, <3>3, <3>5, SoundStays DEF ReviewInv
  <2>7. CASE Gate
    <3>1. /\ stage = "reconsidered" /\ stage' = "gated" /\ UNCHANGED input
          /\ found' = [analysis |-> found.analysis, evidence |-> found.evidence,
                       decision |-> EvaluateGroundedness(found.evidence, found.coherence, found.analysis)]
      BY <2>7 DEF Gate, Follow
    <3>2. /\ found'.analysis = found.analysis /\ found'.evidence = found.evidence
          /\ found'.decision = EvaluateGroundedness(found.evidence, found.coherence, found.analysis)
      BY <3>1
    <3>3. /\ input \in Reviews /\ found.analysis = AnalyzeQuestion(Asked)
          /\ EvidenceSound(found.evidence, found.analysis)
          /\ found.coherence.comparison_satisfied = ComparisonSatisfied(ToSet(found.evidence.selected), found.analysis)
      BY <3>1 DEF ReviewInv
    <3>4. EvidenceSound(found'.evidence, found'.analysis) /\ VerdictSound(found'.decision, found'.evidence, found'.analysis)
      BY <3>2, <3>3, Decides
    <3> QED BY <3>1, <3>2, <3>3, <3>4, SoundStays DEF ReviewInv
  <2>8. CASE UNCHANGED vars
    <3>1. UNCHANGED <<stage, input, found>>
      BY <2>8 DEF vars
    <3>2. found' = found /\ UNCHANGED input
      BY <3>1
    <3>3. /\ CandidatesSound(found'.candidates, found'.analysis) <=> CandidatesSound(found.candidates, found.analysis)
          /\ RankedSound(found'.ranked, found'.analysis) <=> RankedSound(found.ranked, found.analysis)
          /\ EvidenceSound(found'.evidence, found'.analysis) <=> EvidenceSound(found.evidence, found.analysis)
          /\ ComparisonSatisfied(ToSet(found'.evidence.selected), found'.analysis)
               = ComparisonSatisfied(ToSet(found.evidence.selected), found.analysis)
          /\ VerdictSound(found'.decision, found'.evidence, found'.analysis)
               <=> VerdictSound(found.decision, found.evidence, found.analysis)
      BY <3>2
    <3> QED BY <3>1, <3>2, <3>3, SoundStays DEF ReviewInv
  <2> QED BY <2>1, <2>2, <2>3, <2>4, <2>5, <2>6, <2>7, <2>8 DEF ReviewNext
<1> QED BY <1>1, <1>2, PTL DEF ReviewSpec

\* What the analysis of a question about one company says.
LEMMA OneCompany ==
  ASSUME input \in Reviews, Cardinality(Asked.tickers) = 1
  PROVE  LET a == AnalyzeQuestion(Asked)
         IN /\ Narrow(a)
            /\ \A p : FitsCompany(a, p) <=> AskedOf(p)
            /\ \A p : FitsPeriod(a, p) /\ Asked.years # {} =>
                 Min(Asked.years) <= input.passages[p].period /\ input.passages[p].period <= Max(Asked.years)
            /\ Min(Asked.years) \in Int \/ Asked.years = {}
            /\ a.families = UNION { Asked.elements[i].families : i \in DOMAIN Asked.elements }
            /\ "why" \in Asked.asks => a.type = "causal"
            /\ Asked.asks = {"how_much"} => a.type = "quantitative"
            /\ Asked.directions = {"added"} => a.direction = "added"
<1> DEFINE a == AnalyzeQuestion(Asked)
<1>1. /\ IsFiniteSet(Asked.tickers) /\ None \notin Asked.tickers
      /\ IsFiniteSet(Asked.years) /\ Asked.years \subseteq Int
      /\ Asked.years # {} => None # <<Min(Asked.years), Max(Asked.years)>>
  BY QuestionsTyped DEF Asked
<1>2. PICK ticker : Asked.tickers = {ticker}
  BY <1>1, FS_Singleton
<1>3. /\ a.ticker = Sole(Asked.tickers) /\ a.scope = RequestedScope(Asked) /\ a.type = QuestionType(Asked)
      /\ a.direction = ComparisonDirection(Asked)
      /\ a.range = IF Asked.years = {} THEN None ELSE <<Min(Asked.years), Max(Asked.years)>>
      /\ a.families = UNION { Asked.elements[i].families : i \in DOMAIN Asked.elements }
  BY DEF AnalyzeQuestion
<1> HIDE DEF a
<1>4. a.ticker = ticker /\ ticker # None
  BY <1>1, <1>2, <1>3 DEF Sole
<1>5. Narrow(a)
  BY <1>3 DEF Narrow, RequestedScope
<1>6. \A p : FitsCompany(a, p) <=> AskedOf(p)
  BY <1>2, <1>4 DEF FitsCompany, AskedOf
<1>7. \A p : FitsPeriod(a, p) /\ Asked.years # {} =>
        Min(Asked.years) <= input.passages[p].period /\ input.passages[p].period <= Max(Asked.years)
  BY <1>1, <1>3 DEF FitsPeriod, Within
<1>8. Min(Asked.years) \in Int \/ Asked.years = {}
  BY <1>1, MinExists
<1>9. ("why" \in Asked.asks => a.type = "causal") /\ (Asked.asks = {"how_much"} => a.type = "quantitative")
  BY <1>3 DEF QuestionType
<1>10. Asked.directions = {"added"} => a.direction = "added"
  <2> SUFFICES ASSUME Asked.directions = {"added"} PROVE ComparisonDirection(Asked) = "added"
    BY <1>3
  <2> DEFINE named == { i \in DOMAIN Directions : Directions[i] \in Asked.directions }
  <2>1. named = {3} /\ Directions[3] = "added"
    BY DEF Directions
  <2>2. ComparisonDirection(Asked) = IF named = {} THEN None ELSE Directions[Min(named)]
    BY DEF ComparisonDirection
  <2> HIDE DEF named
  <2>3. IsFiniteSet(named) /\ named \in SUBSET Int /\ named # {}
    <3>1. IsFiniteSet({3})
      BY FS_Singleton
    <3> QED BY <2>1, <3>1
  <2>4. Min(named) = 3
    BY <2>1, <2>3, MinExists
  <2> QED BY <2>1, <2>2, <2>3, <2>4
<1> QED BY <1>3, <1>5, <1>6, <1>7, <1>8, <1>9, <1>10 DEF a

LEMMA Grounds ==
  ASSUME ReviewInv, stage = "gated", found.decision.status \in {"SUPPORTED", "PARTIALLY_SUPPORTED"},
         Cardinality(Asked.tickers) = 1
  PROVE  /\ Selected # {} /\ \A c \in Selected : Answers(c)
         /\ \A c, d \in Selected : c # d => PassageAt(c).text # PassageAt(d).text
         /\ \E c \in Selected :
              \/ \E i \in DOMAIN input.keyword :
                   /\ input.keyword[i] = c.passage
                   /\ Cardinality({ j \in 1 .. i : AskedOf(input.keyword[j]) }) <= ReviewConfig.strong_rank
              \/ \E s \in ToSet(input.similar) : s[1] = c.passage /\ s[2] >= ReviewConfig.floor
         /\ Strategy.strict_partial /\ Len(Asked.elements) > 1 /\ found.decision.status = "SUPPORTED" =>
              \A i \in DOMAIN Asked.elements :
                Asked.elements[i].families = {} \/ \E c \in Selected : Asked.elements[i].families \cap Says(c) # {}
         /\ Strategy.safeguards /\ found.analysis.type = "comparative" => BothSides \subseteq { c.side : c \in Selected }
<1> DEFINE a == AnalyzeQuestion(Asked)
           families == UNION { Asked.elements[i].families : i \in DOMAIN Asked.elements }
<1>1. input \in Reviews /\ found.analysis = a
  BY DEF ReviewInv
<1>2. EvidenceSound(found.evidence, a) /\ VerdictSound(found.decision, found.evidence, a)
  BY <1>1 DEF ReviewInv
<1>3. /\ Narrow(a) /\ \A p : FitsCompany(a, p) <=> AskedOf(p)
      /\ \A p : FitsPeriod(a, p) /\ Asked.years # {} =>
           Min(Asked.years) <= input.passages[p].period /\ input.passages[p].period <= Max(Asked.years)
      /\ Min(Asked.years) \in Int \/ Asked.years = {}
      /\ a.families = families
      /\ "why" \in Asked.asks => a.type = "causal"
      /\ Asked.asks = {"how_much"} => a.type = "quantitative"
      /\ Asked.directions = {"added"} => a.direction = "added"
  BY <1>1, OneCompany
<1> HIDE DEF a, families
<1>4. /\ \A c \in Selected : FoundFor(c, a) /\ Responsive(c, a)
      /\ \A c, d \in Selected : c # d => PassageAt(c).text # PassageAt(d).text
  BY <1>2, <1>3 DEF EvidenceSound, Selected
<1>5. /\ \E c \in Selected : Strong(c)
      /\ Strategy.strict_partial /\ Len(Asked.elements) > 1 /\ found.decision.status = "SUPPORTED" =>
           \A i \in DOMAIN Asked.elements : ElementSupported(Asked.elements[i], Selected)
      /\ Strategy.safeguards /\ a.type = "comparative" => BothSides \subseteq { c.side : c \in Selected }
  BY <1>2 DEF VerdictSound, Selected
<1>6. ASSUME NEW c \in Selected PROVE Answers(c)
  <2>1. FoundFor(c, a) /\ Responsive(c, a)
    BY <1>4
  <2>2. AskedOf(c.passage)
    BY <1>3, <2>1 DEF FoundFor
  <2>3. Asked.years # {} => PassageAt(c).period \in Min(Asked.years) .. Max(Asked.years)
    <3> SUFFICES ASSUME Asked.years # {} PROVE PassageAt(c).period \in Min(Asked.years) .. Max(Asked.years)
      OBVIOUS
    <3>1. PassageAt(c).period \in Int /\ PassageAt(c) = input.passages[c.passage]
      BY <1>1, <2>1, RetrievalsTyped DEF FoundFor, PassageAt
    <3>2. Min(Asked.years) <= PassageAt(c).period /\ PassageAt(c).period <= Max(Asked.years)
      BY <1>3, <2>1, <3>1 DEF FoundFor
    <3>3. Min(Asked.years) \in Int /\ Max(Asked.years) \in Int
      <4>1. IsFiniteSet(Asked.years) /\ Asked.years \in SUBSET Int
        BY <1>1, QuestionsTyped DEF Asked
      <4> QED BY <4>1, MinExists, MaxExists
    <3> QED BY <3>1, <3>2, <3>3
  <2>4. /\ Strategy.body_match /\ families # {} => PassageAt(c).body \cap families # {}
        /\ Strategy.type_conditions /\ "why" \in Asked.asks => PassageAt(c).because
        /\ Strategy.type_conditions /\ Asked.asks = {"how_much"} => PassageAt(c).number
        /\ Strategy.type_conditions /\ Asked.directions = {"added"} => c.status = "NEW"
    BY <1>3, <2>1 DEF Responsive
  <2> QED BY <2>2, <2>3, <2>4 DEF Answers, families
<1>7. PICK c \in Selected : Strong(c)
  BY <1>5
<1>8. FoundFor(c, a)
  BY <1>4
<1>9. ReviewConfig.floor \in Int /\ ReviewConfig.strong_rank \in Int
  BY ReviewConfigTyped
<1>10. \/ \E i \in DOMAIN input.keyword :
             /\ input.keyword[i] = c.passage
             /\ Cardinality({ j \in 1 .. i : AskedOf(input.keyword[j]) }) <= ReviewConfig.strong_rank
       \/ \E s \in ToSet(input.similar) : s[1] = c.passage /\ s[2] >= ReviewConfig.floor
  <2>1. CASE c.lexical # None /\ c.lexical <= ReviewConfig.strong_rank
    <3>1. PICK i \in DOMAIN input.keyword :
            input.keyword[i] = c.passage /\ Cardinality(FoundUpTo(i, a)) <= c.lexical
      BY <1>8, <2>1 DEF FoundFor
    <3>2. FoundUpTo(i, a) = { j \in 1 .. i : AskedOf(input.keyword[j]) }
      BY <1>3 DEF FoundUpTo
    <3>3. Cardinality(FoundUpTo(i, a)) \in Nat
      <4>1. DOMAIN input.keyword = 1 .. Len(input.keyword)
        BY <1>1, RetrievalsTyped DEF IsList
      <4>2. IsFiniteSet(1 .. i) /\ FoundUpTo(i, a) \subseteq 1 .. i
        BY <4>1, FS_Interval DEF FoundUpTo
      <4> QED BY <4>2, FS_Subset, FS_CardinalityType
    <3>4. Cardinality(FoundUpTo(i, a)) <= ReviewConfig.strong_rank
      BY <1>8, <1>9, <2>1, <3>1, <3>3 DEF FoundFor
    <3> QED BY <3>1, <3>2, <3>4
  <2>2. CASE c.raw # None /\ c.raw >= 100 * ReviewConfig.floor
    <3>1. PICK s \in ToSet(input.similar) : s[1] = c.passage /\ c.raw = 100 * s[2]
      BY <1>8, <2>2 DEF FoundFor
    <3>2. s[2] \in Int
      BY <1>1, RetrievalsTyped DEF ToSet
    <3>3. s[2] >= ReviewConfig.floor
      BY <1>9, <2>2, <3>1, <3>2
    <3> QED BY <3>1, <3>3
  <2> QED BY <1>7, <2>1, <2>2 DEF Strong
<1>11. \A i \in DOMAIN Asked.elements :
         ElementSupported(Asked.elements[i], Selected) =>
           Asked.elements[i].families = {} \/ \E d \in Selected : Asked.elements[i].families \cap Says(d) # {}
  BY DEF ElementSupported, Says
<1> QED BY <1>1, <1>4, <1>5, <1>6, <1>10, <1>11

\* No question about one company is called supported by less than it asks for.
THEOREM GroundedSupportAlways == ReviewSpec => []GroundedSupport
<1>1. ReviewInv => GroundedSupport
  BY Grounds DEF GroundedSupport
<1> QED BY <1>1, ReviewInvariance, PTL

-----------------------------------------------------------------------------
(* Sums and lists of lists                                                  *)

\* A sum is taken term by term.
LEMMA TotalSteps ==
  ASSUME NEW n \in Nat, NEW terms \in [1 .. n -> Int]
  PROVE  \E f \in [0 .. n -> Int] :
           f[0] = 0 /\ (\A i \in 1 .. n : f[i] = f[i - 1] + terms[i]) /\ Total(terms) = f[n]
<1> DEFINE Runs(f) == f = [k \in 0 .. n |-> IF k = 0 THEN 0 ELSE f[k - 1] + terms[k]]
           sums == CHOOSE f : Runs(f)
           step == [x \in Int \X (1 .. n) |-> x[1] + terms[x[2]]]
<1>1. step \in [Int \X (1 .. n) -> Int]
  OBVIOUS
<1>2. Total(terms) = sums[n]
  <2>1. Len(terms) = n
    OBVIOUS
  <2> QED BY <2>1 DEF Total
<1>3. PICK f \in [0 .. n -> Int] : Iterates(f, 0, step, n)
  <2> HIDE DEF step
  <2>1. 0 \in Int
    OBVIOUS
  <2> QED BY <1>1, <2>1, IterationExists
<1>4. Runs(f)
  <2>1. \A i \in 0 .. n : f[i] = IF i = 0 THEN 0 ELSE f[i - 1] + terms[i]
    <3> SUFFICES ASSUME NEW i \in 0 .. n, i # 0 PROVE f[i] = f[i - 1] + terms[i]
      BY <1>3 DEF Iterates
    <3>1. i \in 1 .. n /\ i - 1 \in 0 .. n
      OBVIOUS
    <3>2. f[i] = step[<<f[i - 1], i>>] /\ f[i - 1] \in Int
      BY <1>3, <3>1 DEF Iterates
    <3> QED BY <3>1, <3>2
  <2> QED BY <2>1
<1>5. Runs(sums)
  BY <1>4
<1> HIDE DEF sums, step
<1>6. sums[0] = 0 /\ \A i \in 1 .. n : sums[i] = sums[i - 1] + terms[i]
  <2>1. \A k \in 0 .. n : sums[k] = IF k = 0 THEN 0 ELSE sums[k - 1] + terms[k]
    BY <1>5
  <2>2. 0 \in 0 .. n /\ \A i \in 1 .. n : i \in 0 .. n /\ i # 0
    OBVIOUS
  <2> QED BY <2>1, <2>2
<1>7. \A i \in 0 .. n : sums[i] \in Int
  <2>1. sums[0] \in Int /\ \A i \in 1 .. n : sums[i - 1] \in Int => sums[i] \in Int
    BY <1>6
  <2> QED BY <2>1, IterationKeeps
<1>8. sums = [k \in 0 .. n |-> IF k = 0 THEN 0 ELSE sums[k - 1] + terms[k]]
  BY <1>5
<1>9. sums \in [0 .. n -> Int]
  <2>1. DOMAIN sums = 0 .. n /\ sums = [k \in 0 .. n |-> sums[k]]
    BY <1>8
  <2> QED BY <1>7, <2>1
<1> QED BY <1>2, <1>6, <1>9

\* The sum of one list after another.
LEMMA TotalOfBoth ==
  ASSUME NEW m \in Nat, NEW a \in [1 .. m -> Int], NEW n \in Nat, NEW b \in [1 .. n -> Int],
         NEW c \in [1 .. m + n -> Int], \A i \in 1 .. m : c[i] = a[i], \A i \in 1 .. n : c[m + i] = b[i]
  PROVE  Total(c) = Total(a) + Total(b)
<1>1. PICK f \in [0 .. m -> Int] :
        f[0] = 0 /\ (\A i \in 1 .. m : f[i] = f[i - 1] + a[i]) /\ Total(a) = f[m]
  BY TotalSteps
<1>2. PICK g \in [0 .. n -> Int] :
        g[0] = 0 /\ (\A i \in 1 .. n : g[i] = g[i - 1] + b[i]) /\ Total(b) = g[n]
  BY TotalSteps
<1>3. m + n \in Nat
  OBVIOUS
<1>4. PICK h \in [0 .. m + n -> Int] :
        h[0] = 0 /\ (\A i \in 1 .. m + n : h[i] = h[i - 1] + c[i]) /\ Total(c) = h[m + n]
  BY <1>3, TotalSteps
<1> DEFINE S == { i \in 0 .. m : h[i] = f[i] }
           T == { i \in 0 .. n : h[m + i] = f[m] + g[i] }
<1>5. m \in S
  <2>1. 0 \in S
    BY <1>1, <1>4
  <2>2. ASSUME NEW i \in 1 .. m, i - 1 \in S PROVE i \in S
    <3>1. i \in 1 .. m + n
      OBVIOUS
    <3>2. h[i] = h[i - 1] + c[i] /\ f[i] = f[i - 1] + a[i]
      BY <1>1, <1>4, <3>1
    <3> QED BY <2>2, <3>2
  <2>3. 0 .. m \subseteq S
    <3> HIDE DEF S
    <3> QED BY <2>1, <2>2, UpTo
  <2> QED BY <2>3
<1>6. n \in T
  <2>1. 0 \in T
    BY <1>2, <1>5
  <2>2. ASSUME NEW i \in 1 .. n, i - 1 \in T PROVE i \in T
    <3>1. m + i \in 1 .. m + n /\ (m + i) - 1 = m + (i - 1)
      OBVIOUS
    <3>2. h[m + i] = h[m + (i - 1)] + c[m + i] /\ g[i] = g[i - 1] + b[i]
      BY <1>2, <1>4, <3>1
    <3>3. h[m + (i - 1)] = f[m] + g[i - 1] /\ c[m + i] = b[i]
      BY <2>2
    <3>4. g[i - 1] \in Int /\ b[i] \in Int /\ f[m] \in Int
      BY <3>1
    <3> QED BY <3>2, <3>3, <3>4
  <2>3. 0 .. n \subseteq T
    <3> HIDE DEF T
    <3> QED BY <2>1, <2>2, UpTo
  <2> QED BY <2>3
<1> QED BY <1>1, <1>2, <1>4, <1>5, <1>6

\* f goes through the lists and puts each after what it has.
Flattens(f, lists, n) == f[1] = lists[1] /\ \A i \in 2 .. n : f[i] = f[i - 1] \o lists[i]

\* A list of lists is flattened list by list.
LEMMA FlattenSteps ==
  ASSUME NEW T, NEW n \in Nat, n # 0, NEW lists \in [1 .. n -> Seq(T)]
  PROVE  \E f \in [1 .. n -> Seq(T)] : Flattens(f, lists, n) /\ FlattenSeq(lists) = f[n]
<1> DEFINE Runs(f) == f = [i \in 1 .. n |-> IF i = 1 THEN lists[i] ELSE f[i - 1] \o lists[i]]
           flatten == CHOOSE f : Runs(f)
           step == [x \in Seq(T) \X (1 .. n) |-> IF x[2] = 1 THEN lists[1] ELSE x[1] \o lists[x[2]]]
<1>1. step \in [Seq(T) \X (1 .. n) -> Seq(T)]
  <2>1. \A s \in Seq(T), i \in 1 .. n : lists[i] \in Seq(T) /\ s \o lists[i] \in Seq(T)
    OBVIOUS
  <2>2. 1 \in 1 .. n
    OBVIOUS
  <2> QED BY <2>1, <2>2
<1>2. FlattenSeq(lists) = flatten[n]
  <2>1. Len(lists) = n
    OBVIOUS
  <2> QED BY <2>1 DEF FlattenSeq
<1>3. PICK f \in [0 .. n -> Seq(T)] : Iterates(f, <<>>, step, n)
  <2>1. <<>> \in Seq(T)
    OBVIOUS
  <2> HIDE DEF step
  <2> QED BY <1>1, <2>1, IterationExists
<1> DEFINE g == [i \in 1 .. n |-> f[i]]
<1>4. ASSUME NEW i \in 1 .. n PROVE f[i] = IF i = 1 THEN lists[i] ELSE f[i - 1] \o lists[i]
  <2>1. i - 1 \in 0 .. n
    OBVIOUS
  <2>2. f[i] = step[<<f[i - 1], i>>] /\ f[i - 1] \in Seq(T)
    BY <1>3, <2>1 DEF Iterates
  <2> QED BY <2>2
<1>5. g \in [1 .. n -> Seq(T)] /\ Runs(g)
  <2>1. \A i \in 1 .. n : i # 1 => g[i - 1] = f[i - 1]
    OBVIOUS
  <2> HIDE DEF step
  <2> QED BY <1>3, <1>4, <2>1
<1>6. Runs(flatten)
  BY <1>5
<1> HIDE DEF flatten, step, g
<1>7. \A i \in 1 .. n : flatten[i] = IF i = 1 THEN lists[i] ELSE flatten[i - 1] \o lists[i]
  BY <1>6
<1> DEFINE S == { i \in 0 .. n : i # 0 => flatten[i] \in Seq(T) }
<1>9. \A i \in 1 .. n : flatten[i] \in Seq(T)
  <2>1. 0 \in S
    OBVIOUS
  <2>2. ASSUME NEW i \in 1 .. n, i - 1 \in S PROVE i \in S
    <3>1. ASSUME i = 1 PROVE flatten[i] \in Seq(T)
      BY <1>7, <3>1
    <3>2. ASSUME i # 1 PROVE flatten[i] \in Seq(T)
      <4>1. flatten[i - 1] \in Seq(T) /\ lists[i] \in Seq(T)
        BY <2>2, <3>2
      <4>2. flatten[i - 1] \o lists[i] \in Seq(T)
        BY <4>1
      <4>3. flatten[i] = flatten[i - 1] \o lists[i]
        BY <1>7, <3>2
      <4> QED BY <4>2, <4>3, Zenon
    <3>3. flatten[i] \in Seq(T)
      BY <3>1, <3>2, Zenon
    <3> QED BY <3>3
  <2>3. 0 .. n \subseteq S
    <3> HIDE DEF S
    <3> QED BY <2>1, <2>2, UpTo
  <2> QED BY <2>3
<1>10. flatten \in [1 .. n -> Seq(T)]
  <2>1. flatten = [i \in 1 .. n |-> flatten[i]]
    BY <1>6
  <2> QED BY <1>9, <2>1
<1>11. flatten[1] = lists[1] /\ \A i \in 2 .. n : flatten[i] = flatten[i - 1] \o lists[i]
  <2>1. 1 \in 1 .. n /\ \A i \in 2 .. n : i \in 1 .. n /\ i # 1
    OBVIOUS
  <2> QED BY <1>7, <2>1
<1> QED BY <1>2, <1>10, <1>11 DEF Flattens

-----------------------------------------------------------------------------
(* Pieces of a text                                                         *)

TextWords == [tokens : Nat, ends : BOOLEAN, encodable : BOOLEAN]

\* The tokens up to a word never decrease.
LEMMA CumulativeGrows ==
  ASSUME NEW text \in Seq(TextWords)
  PROVE  /\ \A i \in 0 .. Len(text) : Cumulative(text)[i] \in Nat
         /\ \A i, j \in 0 .. Len(text) : i <= j => Cumulative(text)[i] <= Cumulative(text)[j]
<1> DEFINE n == Len(text)
           Runs(f) == f = [k \in 0 .. n |-> IF k = 0 THEN 0 ELSE f[k - 1] + text[k].tokens]
           upTo == CHOOSE f : Runs(f)
           step == [x \in Nat \X (1 .. n) |-> x[1] + text[x[2]].tokens]
<1>0. n \in Nat /\ \A i \in 1 .. n : text[i].tokens \in Nat
  <2>1. \A i \in 1 .. n : text[i] \in TextWords
    OBVIOUS
  <2> QED BY <2>1 DEF TextWords
<1>1. step \in [Nat \X (1 .. n) -> Nat]
  BY <1>0
<1>2. Cumulative(text) = upTo
  BY DEF Cumulative
<1> HIDE DEF n
<1>3. PICK f \in [0 .. n -> Nat] : Iterates(f, 0, step, n)
  <2> HIDE DEF step
  <2>1. 0 \in Nat
    OBVIOUS
  <2> QED BY <1>0, <1>1, <2>1, IterationExists
<1>4. Runs(f)
  <2>1. \A i \in 0 .. n : f[i] = IF i = 0 THEN 0 ELSE f[i - 1] + text[i].tokens
    <3> SUFFICES ASSUME NEW i \in 0 .. n, i # 0 PROVE f[i] = f[i - 1] + text[i].tokens
      BY <1>3 DEF Iterates
    <3>1. i \in 1 .. n /\ i - 1 \in 0 .. n
      BY <1>0
    <3>2. f[i] = step[<<f[i - 1], i>>] /\ f[i - 1] \in Nat
      BY <1>3, <3>1 DEF Iterates
    <3> QED BY <3>1, <3>2
  <2> QED BY <2>1
<1>5. Runs(upTo)
  BY <1>4
<1> HIDE DEF upTo, step
<1>6. upTo[0] = 0 /\ \A i \in 1 .. n : upTo[i] = upTo[i - 1] + text[i].tokens
  <2>1. \A k \in 0 .. n : upTo[k] = IF k = 0 THEN 0 ELSE upTo[k - 1] + text[k].tokens
    BY <1>5
  <2>2. 0 \in 0 .. n /\ \A i \in 1 .. n : i \in 0 .. n /\ i # 0
    BY <1>0
  <2> QED BY <2>1, <2>2
<1>7. \A i \in 0 .. n : upTo[i] \in Nat
  <2>1. ASSUME NEW i \in 1 .. n, upTo[i - 1] \in Nat PROVE upTo[i] \in Nat
    <3>1. upTo[i] = upTo[i - 1] + text[i].tokens /\ text[i].tokens \in Nat
      BY <1>0, <1>6
    <3>2. \A x, y \in Nat : x + y \in Nat
      OBVIOUS
    <3> QED BY <2>1, <3>1, <3>2, Zenon
  <2>2. upTo[0] \in Nat
    BY <1>6
  <2> QED BY <1>0, <2>1, <2>2, IterationKeeps
<1>8. ASSUME NEW i \in 0 .. n, NEW j \in 0 .. n, i <= j PROVE upTo[i] <= upTo[j]
  <2> DEFINE S == { k \in 0 .. n : i <= k => upTo[i] <= upTo[k] }
  <2>1. 0 \in S
    <3>1. 0 \in 0 .. n /\ (i <= 0 => i = 0) /\ upTo[0] <= upTo[0]
      BY <1>0, <1>7
    <3> QED BY <3>1
  <2>2. ASSUME NEW k \in 1 .. n, k - 1 \in S PROVE k \in S
    <3>1. upTo[k] = upTo[k - 1] + text[k].tokens /\ text[k].tokens \in Nat
      BY <1>0, <1>6
    <3>2. upTo[i] \in Nat /\ upTo[k] \in Nat /\ upTo[k - 1] \in Nat
      BY <1>0, <1>7
    <3>3. i <= k => i <= k - 1 \/ i = k
      BY <1>0
    <3>4. k - 1 \in 0 .. n /\ k \in 0 .. n
      BY <1>0
    <3>5. i <= k - 1 => upTo[i] <= upTo[k - 1]
      BY <2>2
    <3>6. upTo[k - 1] <= upTo[k]
      BY <3>1, <3>2
    <3>7. i <= k => upTo[i] <= upTo[k]
      BY <3>2, <3>3, <3>5, <3>6
    <3> QED BY <3>4, <3>7
  <2>3. 0 .. n \subseteq S
    <3> HIDE DEF S
    <3> QED BY <1>0, <2>1, <2>2, UpTo
  <2> QED BY <1>8, <2>3
<1> QED BY <1>2, <1>7, <1>8 DEF n

\* Spans one after the other, from word a to word b.
Chain(spans, a, b) ==
  /\ spans \in Seq(Int \X Int)
  /\ a \in Int /\ b \in Int
  /\ \A i \in DOMAIN spans :
       spans[i][1] <= spans[i][2] /\ spans[i][1] = IF i = 1 THEN a ELSE spans[i - 1][2] + 1
  /\ b = IF spans = <<>> THEN a - 1 ELSE spans[Len(spans)][2]

\* A chain goes on with the span that follows it.
LEMMA ChainAppend ==
  ASSUME NEW spans, NEW a, NEW b, Chain(spans, a, b), NEW c \in Int, b + 1 <= c
  PROVE  Chain(Append(spans, <<b + 1, c>>), a, c)
<1> DEFINE more == Append(spans, <<b + 1, c>>)
           n == Len(spans)
<1>1. spans \in Seq(Int \X Int) /\ n \in Nat /\ DOMAIN spans = 1 .. n /\ a \in Int /\ b \in Int
  BY DEF Chain
<1>2. /\ more \in Seq(Int \X Int) /\ Len(more) = n + 1 /\ DOMAIN more = 1 .. n + 1
      /\ more[n + 1] = <<b + 1, c>> /\ \A i \in 1 .. n : more[i] = spans[i]
  BY <1>1
<1>3. more # <<>>
  BY <1>1, <1>2
<1>4. b = IF n = 0 THEN a - 1 ELSE spans[n][2]
  BY <1>1 DEF Chain
<1> HIDE DEF more, n
<1>5. ASSUME NEW i \in 1 .. n + 1
      PROVE  more[i][1] <= more[i][2] /\ more[i][1] = IF i = 1 THEN a ELSE more[i - 1][2] + 1
  <2>1. CASE i \in 1 .. n
    <3>1. i # 1 => i - 1 \in 1 .. n
      BY <1>1
    <3> QED BY <1>1, <1>2, <2>1, <3>1 DEF Chain
  <2>2. CASE i = n + 1
    <3>1. i # 1 => i - 1 = n /\ n \in 1 .. n
      BY <1>1, <2>2
    <3> QED BY <1>1, <1>2, <1>4, <2>2, <3>1
  <2> QED BY <1>1, <2>1, <2>2
<1>6. c = IF more = <<>> THEN a - 1 ELSE more[Len(more)][2]
  BY <1>2, <1>3
<1>7. Chain(more, a, c)
  BY <1>1, <1>2, <1>5, <1>6 DEF Chain
<1> QED BY <1>7 DEF more

\* The last span gone, the others are a chain to where it began.
LEMMA ChainFront ==
  ASSUME NEW spans \in Seq(Int \X Int), NEW x \in Int \X Int, NEW a, NEW b, Chain(Append(spans, x), a, b)
  PROVE  Chain(spans, a, x[1] - 1) /\ x[1] <= x[2] /\ x[2] = b
<1> DEFINE more == Append(spans, x)
           n == Len(spans)
<1>1. n \in Nat /\ DOMAIN spans = 1 .. n
  OBVIOUS
<1>2. /\ more \in Seq(Int \X Int) /\ Len(more) = n + 1 /\ DOMAIN more = 1 .. n + 1
      /\ more[n + 1] = x /\ \A i \in 1 .. n : more[i] = spans[i]
  BY <1>1
<1>3. more # <<>>
  BY <1>1, <1>2
<1> HIDE DEF more, n
<1>4. Chain(more, a, b)
  BY DEF more
<1>5. a \in Int /\ b \in Int /\ b = x[2]
  BY <1>2, <1>3, <1>4 DEF Chain
<1>6. x[1] <= x[2] /\ x[1] = IF n = 0 THEN a ELSE spans[n][2] + 1
  <2>1. n + 1 \in 1 .. n + 1 /\ (n + 1) - 1 = n /\ (n + 1 = 1 <=> n = 0) /\ (n # 0 => n \in 1 .. n)
    BY <1>1
  <2> QED BY <1>2, <1>4, <2>1 DEF Chain
<1>7. ASSUME NEW i \in 1 .. n
      PROVE  spans[i][1] <= spans[i][2] /\ spans[i][1] = IF i = 1 THEN a ELSE spans[i - 1][2] + 1
  <2>1. i \in 1 .. n + 1 /\ (i # 1 => i - 1 \in 1 .. n)
    BY <1>1
  <2> QED BY <1>2, <1>4, <2>1 DEF Chain
<1>8. x[1] - 1 = IF spans = <<>> THEN a - 1 ELSE spans[Len(spans)][2]
  <2>1. n = 0 <=> spans = <<>>
    BY <1>1 DEF n
  <2>2. n # 0 => spans[n] \in Int \X Int
    BY <1>1 DEF n
  <2> QED BY <1>5, <1>6, <2>1, <2>2 DEF n
<1>9. x[1] - 1 \in Int
  OBVIOUS
<1> QED BY <1>1, <1>5, <1>6, <1>7, <1>8, <1>9 DEF Chain, n

\* A chain goes on with the chain that follows it.
LEMMA ChainJoin ==
  ASSUME NEW l, NEW m, NEW a, NEW b, NEW c, Chain(l, a, b), Chain(m, b + 1, c)
  PROVE  Chain(l \o m, a, c)
<1> DEFINE j == Len(l)
           k == Len(m)
           all == l \o m
<1>1. /\ l \in Seq(Int \X Int) /\ m \in Seq(Int \X Int) /\ j \in Nat /\ k \in Nat
      /\ DOMAIN l = 1 .. j /\ DOMAIN m = 1 .. k /\ a \in Int /\ b \in Int /\ c \in Int
  BY DEF Chain
<1>2. /\ all \in Seq(Int \X Int) /\ Len(all) = j + k /\ DOMAIN all = 1 .. j + k
      /\ \A i \in 1 .. j : all[i] = l[i]
      /\ \A i \in 1 .. k : all[j + i] = m[i]
  BY <1>1
<1>3. /\ b = IF j = 0 THEN a - 1 ELSE l[j][2]
      /\ c = IF k = 0 THEN b ELSE m[k][2]
  <2>1. (l = <<>> <=> j = 0) /\ (m = <<>> <=> k = 0)
    BY <1>1
  <2> QED BY <1>1, <2>1 DEF Chain
<1>4. all = <<>> <=> j + k = 0
  BY <1>1, <1>2
<1> HIDE DEF all, j, k
<1>5. ASSUME NEW i \in 1 .. j + k
      PROVE  all[i][1] <= all[i][2] /\ all[i][1] = IF i = 1 THEN a ELSE all[i - 1][2] + 1
  <2>1. CASE i \in 1 .. j
    <3>1. i # 1 => i - 1 \in 1 .. j
      BY <1>1, <2>1
    <3> QED BY <1>1, <1>2, <2>1, <3>1 DEF Chain
  <2>2. ASSUME NEW h \in 1 .. k, i = j + h
        PROVE  all[i][1] <= all[i][2] /\ all[i][1] = IF i = 1 THEN a ELSE all[i - 1][2] + 1
    <3>0. h \in DOMAIN m
      BY <1>1
    <3>1. all[i] = m[h] /\ m[h][1] <= m[h][2] /\ m[h][1] = IF h = 1 THEN b + 1 ELSE m[h - 1][2] + 1
      <4>1. all[i] = m[h]
        BY <1>2, <2>2
      <4> QED BY <3>0, <4>1 DEF Chain
    <3>2. CASE h = 1 /\ j = 0
      BY <1>1, <1>3, <2>2, <3>1, <3>2
    <3>3. CASE h = 1 /\ j # 0
      <4>1. i - 1 = j /\ j \in 1 .. j /\ i # 1
        BY <1>1, <2>2, <3>3
      <4> QED BY <1>2, <1>3, <3>1, <3>3, <4>1
    <3>4. CASE h # 1
      <4>1. i - 1 = j + (h - 1) /\ h - 1 \in 1 .. k /\ i # 1
        BY <1>1, <2>2, <3>4
      <4>2. all[i - 1] = m[h - 1]
        BY <1>2, <4>1
      <4> QED BY <3>1, <3>4, <4>1, <4>2
    <3> QED BY <3>2, <3>3, <3>4
  <2>3. i \in 1 .. j \/ \E h \in 1 .. k : i = j + h
    <3>1. i <= j \/ (i - j \in 1 .. k /\ i = j + (i - j))
      BY <1>1
    <3> QED BY <3>1
  <2> QED BY <2>1, <2>2, <2>3
<1>6. c = IF j + k = 0 THEN a - 1 ELSE all[j + k][2]
  <2>1. CASE k = 0
    <3>1. j # 0 => j \in 1 .. j
      BY <1>1
    <3>2. j + k = j
      BY <1>1, <2>1
    <3> QED BY <1>2, <1>3, <2>1, <3>1, <3>2
  <2>2. CASE k # 0
    <3>1. k \in 1 .. k /\ j + k # 0
      BY <1>1, <2>2
    <3>2. all[j + k] = m[k]
      BY <1>2, <3>1
    <3> QED BY <1>3, <2>2, <3>1, <3>2
  <2> QED BY <2>1, <2>2
<1> QED BY <1>1, <1>2, <1>4, <1>5, <1>6 DEF Chain, all

\* The spans of a chain are in order and leave out nothing.
LEMMA ChainCovers ==
  ASSUME NEW spans, NEW a, NEW b, Chain(spans, a, b)
  PROVE  /\ \A i \in DOMAIN spans : a <= spans[i][1] /\ spans[i][1] <= spans[i][2] /\ spans[i][2] <= b
         /\ \A i, j \in DOMAIN spans : i < j => spans[i][2] < spans[j][1]
         /\ \A w \in a .. b : \E i \in DOMAIN spans : w \in spans[i][1] .. spans[i][2]
<1> DEFINE n == Len(spans)
<1>1. n \in Nat /\ DOMAIN spans = 1 .. n /\ spans \in Seq(Int \X Int) /\ a \in Int /\ b \in Int
  BY DEF Chain
<1>2. \A i \in 1 .. n : spans[i][1] \in Int /\ spans[i][2] \in Int
  BY <1>1
<1>3. \A i \in 1 .. n : spans[i][1] <= spans[i][2] /\ spans[i][1] = IF i = 1 THEN a ELSE spans[i - 1][2] + 1
  BY <1>1 DEF Chain
<1>4. b = IF n = 0 THEN a - 1 ELSE spans[n][2]
  <2>1. spans = <<>> <=> n = 0
    BY <1>1
  <2> QED BY <2>1 DEF Chain
<1> HIDE DEF n
<1>5. ASSUME NEW i \in 1 .. n, NEW j \in 1 .. n, i < j PROVE spans[i][2] < spans[j][1]
  <2> DEFINE S == { k \in 0 .. n : k > i => spans[i][2] < spans[k][1] }
  <2>1. 0 \in S
    BY <1>1
  <2>2. ASSUME NEW k \in 1 .. n, k - 1 \in S PROVE k \in S
    <3>1. k > i => spans[i][2] < spans[k][1]
      <4> SUFFICES ASSUME k > i PROVE spans[i][2] < spans[k][1]
        OBVIOUS
      <4>1. k - 1 \in 1 .. n /\ k # 1 /\ (k - 1 = i \/ k - 1 > i)
        BY <1>1
      <4>2. spans[k][1] = spans[k - 1][2] + 1 /\ spans[k - 1][1] <= spans[k - 1][2]
        BY <1>3, <4>1
      <4>3. k - 1 > i => spans[i][2] < spans[k - 1][1]
        BY <2>2
      <4>4. spans[k - 1][1] \in Int /\ spans[k - 1][2] \in Int /\ spans[i][2] \in Int
        BY <1>2, <4>1
      <4> QED BY <4>1, <4>2, <4>3, <4>4
    <3> QED BY <1>1, <3>1
  <2>3. 0 .. n \subseteq S
    <3> HIDE DEF S
    <3> QED BY <1>1, <2>1, <2>2, UpTo
  <2>4. j \in S
    BY <1>1, <2>3
  <2> QED BY <1>5, <2>4
<1>6. ASSUME NEW i \in 1 .. n PROVE a <= spans[i][1] /\ spans[i][2] <= b
  <2>1. 1 \in 1 .. n /\ n \in 1 .. n /\ n # 0
    BY <1>1
  <2>2. spans[1][1] = a /\ b = spans[n][2]
    BY <1>3, <1>4, <2>1
  <2>3. i # 1 => spans[1][2] < spans[i][1]
    BY <1>1, <1>5, <2>1
  <2>4. i # n => spans[i][2] < spans[n][1]
    BY <1>1, <1>5, <2>1
  <2>5. spans[1][1] <= spans[1][2] /\ spans[n][1] <= spans[n][2]
    BY <1>3, <2>1
  <2> QED BY <1>2, <2>1, <2>2, <2>3, <2>4, <2>5
<1>7. ASSUME NEW w \in a .. b PROVE \E i \in 1 .. n : w \in spans[i][1] .. spans[i][2]
  <2> DEFINE T == { i \in 1 .. n : w <= spans[i][2] }
  <2>1. n # 0 /\ n \in 1 .. n
    BY <1>1, <1>4
  <2>2. n \in T
    BY <1>4, <2>1
  <2>3. T \in SUBSET Nat /\ T # {}
    <3>1. T \subseteq 1 .. n /\ 1 .. n \subseteq Nat
      BY <1>1
    <3> QED BY <2>2, <3>1, Zenon
  <2>4. PICK m \in T : \A k \in T : m <= k
    <3> HIDE DEF T
    <3> QED BY <2>3, LeastNatural
  <2>5. m \in 1 .. n /\ w <= spans[m][2]
    BY <2>4
  <2>6. spans[m][1] <= w
    <3>1. CASE m = 1
      BY <1>3, <2>5, <3>1
    <3>2. CASE m # 1
      <4>1. m - 1 \in 1 .. n /\ m - 1 \notin T
        BY <1>1, <2>4, <2>5, <3>2
      <4>2. ~(w <= spans[m - 1][2]) /\ spans[m][1] = spans[m - 1][2] + 1
        BY <1>3, <2>5, <3>2, <4>1
      <4>3. spans[m - 1][2] \in Int /\ w \in Int
        BY <1>1, <1>2, <4>1
      <4> QED BY <4>2, <4>3
    <3> QED BY <3>1, <3>2
  <2>7. w \in spans[m][1] .. spans[m][2]
    BY <1>1, <1>2, <2>5, <2>6
  <2> QED BY <2>5, <2>7
<1> QED BY <1>1, <1>3, <1>5, <1>6, <1>7

\* Packing goes on with a chain of good spans, when what it cuts finer is cut into
\* such chains and whatever fits is good.
LEMMA PackSpanKeeps ==
  ASSUME NEW Good \in SUBSET (Int \X Int), NEW acc \in [done : Seq(Good), open : {<<>>} \cup Good],
         NEW a, NEW e \in Int, Chain(Closed(acc), a, e),
         NEW span \in Int \X Int, span[1] = e + 1, span[1] <= span[2],
         NEW size, NEW limit \in Int, NEW finer, size[span] \in Int,
         span \in DOMAIN finer => Chain(finer[span], span[1], span[2]) /\ finer[span] \in Seq(Good),
         span \notin DOMAIN finer => span \in Good,
         \A x \in Int \X Int : size[x] <= limit => x \in Good
  PROVE  /\ PackSpan(acc, span, size, limit, finer) \in [done : Seq(Good), open : {<<>>} \cup Good]
         /\ Chain(Closed(PackSpan(acc, span, size, limit, finer)), a, span[2])
<1> DEFINE next == PackSpan(acc, span, size, limit, finer)
           wide == <<acc.open[1], span[2]>>
<1>1. /\ acc.done \in Seq(Good) /\ acc.open \in {<<>>} \cup Good /\ <<>> \notin Good
      /\ acc = [done |-> acc.done, open |-> acc.open]
  <2>1. <<>> \notin Int \X Int
    OBVIOUS
  <2> QED BY <2>1
<1>2. Closed(acc) \in Seq(Good) /\ span[2] \in Int /\ e + 1 <= span[2] /\ span = <<e + 1, span[2]>>
  BY <1>1 DEF Closed
<1>3. CASE size[span] > limit /\ span \in DOMAIN finer
  <2>1. next = [done |-> Closed(acc) \o finer[span], open |-> <<>>]
    BY <1>3 DEF PackSpan
  <2>2. Chain(Closed(acc) \o finer[span], a, span[2])
    <3>1. Chain(finer[span], e + 1, span[2])
      BY <1>3
    <3> QED BY <3>1, ChainJoin
  <2>3. Closed(acc) \o finer[span] \in Seq(Good)
    BY <1>2, <1>3
  <2> DEFINE all == Closed(acc) \o finer[span]
  <2> HIDE DEF next, all
  <2>4. next = [done |-> all, open |-> <<>>] /\ all \in Seq(Good) /\ Chain(all, a, span[2])
    BY <2>1, <2>2, <2>3 DEF all
  <2>5. Closed(next) = all /\ next \in [done : Seq(Good), open : {<<>>} \cup Good]
    BY <2>4 DEF Closed
  <2> QED BY <2>4, <2>5 DEF next
<1>4. CASE ~(size[span] > limit /\ span \in DOMAIN finer)
  <2>0. span \in Good
    BY <1>4
  <2>1. CASE acc.open = <<>>
    <3>1. next = [done |-> acc.done, open |-> span]
      BY <1>1, <1>4, <2>1 DEF PackSpan
    <3>2. Closed(acc) = acc.done
      BY <2>1 DEF Closed
    <3>3. Closed(next) = Append(Closed(acc), <<e + 1, span[2]>>)
      BY <1>1, <1>2, <2>0, <3>1, <3>2 DEF Closed
    <3>4. Chain(Closed(next), a, span[2])
      BY <1>2, <3>3, ChainAppend
    <3> QED BY <1>1, <2>0, <3>1, <3>4
  <2>2. CASE acc.open # <<>> /\ size[wide] <= limit
    <3>1. next = [done |-> acc.done, open |-> wide]
      BY <1>1, <1>4, <2>2 DEF PackSpan
    <3>2. Closed(acc) = Append(acc.done, acc.open) /\ acc.open \in Int \X Int /\ acc.done \in Seq(Int \X Int)
      BY <1>1, <2>2 DEF Closed
    <3>3. Chain(acc.done, a, acc.open[1] - 1) /\ acc.open[1] <= acc.open[2] /\ acc.open[2] = e
      BY <3>2, ChainFront
    <3>4. wide \in Good /\ wide # <<>>
      BY <1>1, <1>2, <2>2, <3>2
    <3>5. wide = <<(acc.open[1] - 1) + 1, span[2]>> /\ (acc.open[1] - 1) + 1 <= span[2]
      <4>1. acc.open[1] \in Int /\ acc.open[2] \in Int
        BY <3>2
      <4>2. (acc.open[1] - 1) + 1 = acc.open[1]
        BY <4>1
      <4>3. acc.open[1] <= span[2]
        BY <1>2, <3>3, <4>1
      <4> QED BY <4>2, <4>3
    <3>6. Closed(next) = Append(acc.done, wide)
      BY <3>1, <3>4 DEF Closed
    <3>7. Chain(Closed(next), a, span[2])
      <4> HIDE DEF wide, next
      <4> QED BY <1>2, <3>3, <3>5, <3>6, ChainAppend
    <3> QED BY <1>1, <3>1, <3>4, <3>7
  <2>3. CASE acc.open # <<>> /\ ~(size[wide] <= limit)
    <3>1. next = [done |-> Append(acc.done, acc.open), open |-> span]
      BY <1>1, <1>4, <2>3 DEF PackSpan
    <3>2. Closed(acc) = Append(acc.done, acc.open) /\ acc.open \in Good
      BY <1>1, <2>3 DEF Closed
    <3>3. Closed(next) = Append(Closed(acc), <<e + 1, span[2]>>)
      BY <1>1, <1>2, <2>0, <3>1, <3>2 DEF Closed
    <3>4. Chain(Closed(next), a, span[2])
      BY <1>2, <3>3, ChainAppend
    <3> QED BY <1>1, <2>0, <3>1, <3>2, <3>4
  <2> QED BY <2>1, <2>2, <2>3
<1> QED BY <1>3, <1>4

\* A list of spans is packed into a chain of good ones.
LEMMA PackSpansChain ==
  ASSUME NEW spans, NEW a, NEW b, Chain(spans, a, b), NEW Good \in SUBSET (Int \X Int),
         NEW size, NEW limit \in Int, NEW finer,
         \A i \in DOMAIN spans :
           /\ size[spans[i]] \in Int
           /\ spans[i] \in DOMAIN finer =>
                Chain(finer[spans[i]], spans[i][1], spans[i][2]) /\ finer[spans[i]] \in Seq(Good)
           /\ spans[i] \notin DOMAIN finer => spans[i] \in Good,
         \A x \in Int \X Int : size[x] <= limit => x \in Good
  PROVE  Chain(PackSpans(spans, size, limit, finer), a, b) /\ PackSpans(spans, size, limit, finer) \in Seq(Good)
<1> DEFINE n == Len(spans)
           T == [done : Seq(Good), open : {<<>>} \cup Good]
           End(i) == IF i = 0 THEN a - 1 ELSE spans[i][2]
           K == [0 .. n -> T]
           next(acc, i) == PackSpan(acc, spans[i], size, limit, finer)
           Runs(f) == f = [k \in 0 .. n |-> IF k = 0 THEN Nothing ELSE next(f[k - 1], k)]
           after == CHOOSE f : Runs(f)
           step == [x \in T \X (1 .. n) |-> IF Chain(Closed(x[1]), a, End(x[2] - 1)) THEN next(x[1], x[2]) ELSE x[1]]
<1>0. /\ n \in Nat /\ DOMAIN spans = 1 .. n /\ a \in Int /\ b \in Int
      /\ b = End(n) /\ \A i \in 1 .. n : spans[i] \in Int \X Int
  <2>1. spans \in Seq(Int \X Int) /\ (spans = <<>> <=> n = 0)
    BY DEF Chain
  <2> QED BY <2>1 DEF Chain
<1>1. ASSUME NEW i \in 1 .. n
      PROVE  /\ End(i - 1) \in Int /\ End(i) = spans[i][2]
             /\ spans[i][1] = End(i - 1) + 1 /\ spans[i][1] <= spans[i][2]
  <2>1. i # 1 => i - 1 \in 1 .. n
    BY <1>0
  <2>2. i # 1 => spans[i - 1] \in Int \X Int
    BY <1>0, <2>1
  <2>3. spans[i][1] <= spans[i][2] /\ spans[i][1] = IF i = 1 THEN a ELSE spans[i - 1][2] + 1
    BY <1>0 DEF Chain
  <2> QED BY <1>0, <2>2, <2>3
<1> HIDE DEF n, End
<1>2. ASSUME NEW acc \in T, NEW i \in 1 .. n, Chain(Closed(acc), a, End(i - 1))
      PROVE  next(acc, i) \in T /\ Chain(Closed(next(acc, i)), a, End(i))
  <2> DEFINE span == spans[i]
  <2>1. /\ span \in Int \X Int /\ span[1] = End(i - 1) + 1 /\ span[1] <= span[2]
        /\ End(i) = span[2] /\ End(i - 1) \in Int
    BY <1>0, <1>1
  <2>2. /\ size[span] \in Int
        /\ span \in DOMAIN finer => Chain(finer[span], span[1], span[2]) /\ finer[span] \in Seq(Good)
        /\ span \notin DOMAIN finer => span \in Good
    BY <1>0
  <2> HIDE DEF span
  <2>3. /\ PackSpan(acc, span, size, limit, finer) \in T
        /\ Chain(Closed(PackSpan(acc, span, size, limit, finer)), a, span[2])
    BY <1>2, <2>1, <2>2, PackSpanKeeps
  <2> QED BY <2>1, <2>3 DEF span
<1> HIDE DEF next
<1>3. step \in [T \X (1 .. n) -> T]
  BY <1>2
<1>4. Nothing \in T /\ Closed(Nothing) = <<>> /\ Chain(<<>>, a, End(0))
  <2>1. <<>> \in Seq(Good) /\ <<>> \in Seq(Int \X Int) /\ Len(<<>>) = 0 /\ DOMAIN <<>> = {}
    OBVIOUS
  <2>2. End(0) = a - 1 /\ a - 1 \in Int
    BY <1>0 DEF End
  <2>3. Chain(<<>>, a, a - 1)
    BY <1>0, <2>1, <2>2 DEF Chain
  <2> QED BY <2>1, <2>2, <2>3 DEF Nothing, Closed
<1> HIDE DEF T
<1>5. PICK f \in [0 .. n -> T] : Iterates(f, Nothing, step, n)
  <2> HIDE DEF step
  <2> QED BY <1>0, <1>3, <1>4, IterationExists
<1>6. ASSUME NEW i \in 1 .. n, Chain(Closed(f[i - 1]), a, End(i - 1))
      PROVE  f[i] = next(f[i - 1], i) /\ f[i] \in T /\ Chain(Closed(f[i]), a, End(i))
  <2>1. i - 1 \in 0 .. n
    BY <1>0
  <2>2. f[i] = step[<<f[i - 1], i>>] /\ f[i - 1] \in T
    BY <1>5, <2>1 DEF Iterates
  <2>3. f[i] = next(f[i - 1], i)
    BY <1>6, <2>2
  <2> QED BY <1>2, <1>6, <2>2, <2>3
<1>7. \A i \in 0 .. n : Chain(Closed(f[i]), a, End(i))
  <2> DEFINE S == { i \in 0 .. n : Chain(Closed(f[i]), a, End(i)) }
  <2>1. 0 \in S
    BY <1>0, <1>4, <1>5 DEF Iterates
  <2>2. ASSUME NEW i \in 1 .. n, i - 1 \in S PROVE i \in S
    BY <1>6, <2>2
  <2>3. 0 .. n \subseteq S
    <3> HIDE DEF S
    <3> QED BY <1>0, <2>1, <2>2, UpTo
  <2> QED BY <2>3
<1>8. Runs(f)
  <2>1. \A i \in 0 .. n : f[i] = IF i = 0 THEN Nothing ELSE next(f[i - 1], i)
    <3> SUFFICES ASSUME NEW i \in 0 .. n, i # 0 PROVE f[i] = next(f[i - 1], i)
      BY <1>5 DEF Iterates
    <3>1. i \in 1 .. n /\ i - 1 \in 0 .. n
      BY <1>0
    <3> QED BY <1>6, <1>7, <3>1
  <2> HIDE DEF step
  <2> QED BY <1>5, <2>1
<1>9. Runs(after)
  BY <1>8
<1>10. PackSpans(spans, size, limit, finer) = Closed(after[n])
  BY DEF PackSpans, next, n
<1> HIDE DEF after, step
<1>11. \A i \in 0 .. n : after[i] = IF i = 0 THEN Nothing ELSE next(after[i - 1], i)
  BY <1>9
<1>12. \A i \in 0 .. n : after[i] \in T /\ Chain(Closed(after[i]), a, End(i))
  <2> DEFINE S == { i \in 0 .. n : after[i] \in T /\ Chain(Closed(after[i]), a, End(i)) }
  <2>1. 0 \in S
    BY <1>0, <1>4, <1>11
  <2>2. ASSUME NEW i \in 1 .. n, i - 1 \in S PROVE i \in S
    <3>1. i \in 0 .. n /\ i # 0
      BY <1>0
    <3>2. after[i] = next(after[i - 1], i)
      BY <1>11, <3>1
    <3> QED BY <1>2, <2>2, <3>1, <3>2
  <2>3. 0 .. n \subseteq S
    <3> HIDE DEF S
    <3> QED BY <1>0, <2>1, <2>2, UpTo
  <2> QED BY <2>3
<1>13. after[n] \in T /\ Chain(Closed(after[n]), a, b)
  BY <1>0, <1>12
<1>14. Closed(after[n]) \in Seq(Good)
  BY <1>13 DEF T, Closed
<1> QED BY <1>10, <1>13, <1>14

\* The words of a span, one by one.
LEMMA WordsChain ==
  ASSUME NEW span \in Int \X Int, span[1] <= span[2]
  PROVE  /\ Chain(WordSpans(span), span[1], span[2])
         /\ \A i \in DOMAIN WordSpans(span) :
              /\ WordSpans(span)[i][1] = WordSpans(span)[i][2]
              /\ WordSpans(span)[i] \in (span[1] .. span[2]) \X (span[1] .. span[2])
<1> DEFINE a == span[1]
           n == span[2] - a + 1
           w == [i \in 1 .. n |-> <<a + i - 1, a + i - 1>>]
<1>1. a \in Int /\ n \in Nat /\ n # 0 /\ span[2] = a + n - 1
  OBVIOUS
<1>2. WordSpans(span) = w
  BY DEF WordSpans
<1> HIDE DEF a, n
<1>3. \A i \in 1 .. n : a + i - 1 \in Int /\ a + i - 1 \in a .. a + n - 1
  BY <1>1
<1>4. w \in Seq(Int \X Int) /\ Len(w) = n /\ DOMAIN w = 1 .. n /\ \A i \in 1 .. n : w[i] = <<a + i - 1, a + i - 1>>
  BY <1>1, <1>3
<1> HIDE DEF w
<1>5. w # <<>> /\ n \in 1 .. n
  BY <1>1, <1>4
<1>6. ASSUME NEW i \in 1 .. n PROVE w[i][1] <= w[i][2] /\ w[i][1] = IF i = 1 THEN a ELSE w[i - 1][2] + 1
  <2>1. w[i][1] = a + i - 1 /\ w[i][2] = a + i - 1
    BY <1>4
  <2>2. i # 1 => i - 1 \in 1 .. n
    BY <1>1
  <2>3. i # 1 => w[i - 1][2] = a + (i - 1) - 1
    BY <1>4, <2>2
  <2> QED BY <1>1, <2>1, <2>3
<1>7. span[2] = w[Len(w)][2]
  BY <1>1, <1>4, <1>5
<1>8. span[2] \in Int
  OBVIOUS
<1>9. Chain(w, a, span[2])
  BY <1>1, <1>4, <1>5, <1>6, <1>7, <1>8 DEF Chain
<1>10. \A i \in 1 .. n : w[i][1] = w[i][2] /\ w[i] \in (a .. a + n - 1) \X (a .. a + n - 1)
  BY <1>3, <1>4
<1> QED BY <1>1, <1>2, <1>4, <1>9, <1>10 DEF a

\* The sentences of a text.
LEMMA SentencesChain ==
  ASSUME NEW text \in Seq(TextWords)
  PROVE  Chain(SentenceSpans(text), 1, Len(text))
<1> DEFINE n == Len(text)
           ends == { i \in DOMAIN text : text[i].ends \/ i = n }
           last == Increasing(ends)
           m == Cardinality(ends)
           spans == [i \in DOMAIN last |-> <<IF i = 1 THEN 1 ELSE last[i - 1] + 1, last[i]>>]
<1>1. n \in Nat /\ DOMAIN text = 1 .. n
  OBVIOUS
<1>2. ends \in SUBSET (1 .. n) /\ ends \in SUBSET Int /\ IsFiniteSet(ends)
  <2>1. ends \subseteq 1 .. n /\ 1 .. n \subseteq Int
    BY <1>1
  <2>2. IsFiniteSet(1 .. n)
    BY <1>1, FS_Interval
  <2> QED BY <2>1, <2>2, FS_Subset
<1>3. SentenceSpans(text) = spans
  BY DEF SentenceSpans
<1>4. /\ m \in Nat /\ last \in [1 .. m -> ends]
      /\ \A i, j \in 1 .. m : i < j <=> last[i] < last[j]
      /\ \A i \in 1 .. m : Cardinality({ y \in ends : y < last[i] }) = i - 1
  <2> HIDE DEF ends
  <2> QED BY <1>2, IncreasingLists
<1>5. n # 0 => n \in ends
  BY <1>1
<1> HIDE DEF n, ends, last, m
<1>6. \A i \in 1 .. m : last[i] \in 1 .. n
  BY <1>2, <1>4
<1>7. n # 0 => m # 0 /\ last[m] = n
  <2> SUFFICES ASSUME n # 0 PROVE m # 0 /\ last[m] = n
    OBVIOUS
  <2>1. m # 0
    <3> SUFFICES ASSUME m = 0 PROVE FALSE
      OBVIOUS
    <3>1. ends = {}
      BY <1>2, FS_EmptySet DEF m
    <3> QED BY <1>5, <3>1
  <2>2. m \in 1 .. m
    BY <1>4, <2>1
  <2>3. last[m] \in ends /\ last[m] <= n
    BY <1>1, <1>4, <1>6, <2>2
  <2> SUFFICES ASSUME last[m] < n PROVE FALSE
    BY <1>1, <1>6, <2>1, <2>2, <2>3
  <2> DEFINE less == { y \in ends : y < last[m] }
             all == { last[i] : i \in 1 .. m }
  <2>4. Cardinality(less) = m - 1
    BY <1>4, <2>2
  <2>5. less \cup {last[m]} \subseteq ends \ {n} /\ last[m] \notin less
    <3>1. n \in Int /\ last[m] \in Int
      BY <1>1, <1>6, <2>2
    <3>2. \A y \in less : y \in ends /\ y < last[m] /\ y \in Int
      BY <1>2
    <3>3. \A y \in less : y # n /\ y # last[m]
      BY <3>1, <3>2
    <3>4. last[m] # n
      BY <3>1
    <3> QED BY <2>3, <3>2, <3>3, <3>4
  <2>6. IsFiniteSet(less) /\ IsFiniteSet(ends \ {n})
    <3>1. less \subseteq ends /\ ends \ {n} \subseteq ends
      OBVIOUS
    <3> QED BY <1>2, <3>1, FS_Subset
  <2> HIDE DEF less
  <2>7. IsFiniteSet(less \cup {last[m]}) /\ Cardinality(less \cup {last[m]}) = (m - 1) + 1
    BY <2>4, <2>5, <2>6, FS_AddElement
  <2>8. Cardinality(ends \ {n}) = m - 1
    BY <1>2, <1>5, FS_RemoveElement DEF m
  <2>9. Cardinality(less \cup {last[m]}) <= Cardinality(ends \ {n})
    BY <2>5, <2>6, FS_Subset
  <2> QED BY <1>4, <2>7, <2>8, <2>9
<1>8. n = 0 => m = 0
  <2> SUFFICES ASSUME n = 0 PROVE m = 0
    OBVIOUS
  <2>1. ends = {}
    BY <1>2
  <2> QED BY <2>1, FS_EmptySet DEF m
<1>9. ASSUME NEW i \in 1 .. m
      PROVE  /\ spans[i] \in Int \X Int /\ spans[i][2] = last[i] /\ spans[i][1] <= spans[i][2]
             /\ spans[i][1] = IF i = 1 THEN 1 ELSE last[i - 1] + 1
  <2>1. DOMAIN last = 1 .. m
    BY <1>4
  <2>2. spans[i] = <<IF i = 1 THEN 1 ELSE last[i - 1] + 1, last[i]>>
    BY <2>1
  <2>3. last[i] \in 1 .. n
    BY <1>6
  <2>4. i # 1 => i - 1 \in 1 .. m /\ i - 1 < i
    BY <1>4
  <2>5. i # 1 => last[i - 1] \in 1 .. n /\ last[i - 1] < last[i]
    BY <1>4, <1>6, <2>4
  <2>6. (IF i = 1 THEN 1 ELSE last[i - 1] + 1) \in Int
    BY <1>1, <2>5
  <2>7. (IF i = 1 THEN 1 ELSE last[i - 1] + 1) <= last[i]
    BY <1>1, <2>3, <2>5
  <2> QED BY <1>1, <2>2, <2>3, <2>6, <2>7
<1>10. spans \in Seq(Int \X Int) /\ Len(spans) = m /\ DOMAIN spans = 1 .. m
  <2>1. DOMAIN last = 1 .. m
    BY <1>4
  <2>2. DOMAIN spans = 1 .. m
    BY <2>1
  <2>3. spans = [i \in 1 .. m |-> spans[i]]
    BY <2>1
  <2> HIDE DEF spans
  <2>4. \A i \in 1 .. m : spans[i] \in Int \X Int
    BY <1>9
  <2>5. spans \in [1 .. m -> Int \X Int]
    BY <2>3, <2>4
  <2> QED BY <1>4, <2>2, <2>5
<1> HIDE DEF spans
<1>11. ASSUME NEW i \in 1 .. m
       PROVE  spans[i][1] <= spans[i][2] /\ spans[i][1] = IF i = 1 THEN 1 ELSE spans[i - 1][2] + 1
  <2>1. i # 1 => i - 1 \in 1 .. m
    BY <1>4
  <2> QED BY <1>9, <2>1
<1>12. n = IF spans = <<>> THEN 1 - 1 ELSE spans[Len(spans)][2]
  <2>1. spans = <<>> <=> m = 0
    BY <1>4, <1>10
  <2>2. m # 0 => m \in 1 .. m
    BY <1>4
  <2>3. m # 0 => spans[m][2] = last[m]
    BY <1>9, <2>2
  <2>4. m = 0 <=> n = 0
    BY <1>7, <1>8
  <2> QED BY <1>7, <1>10, <2>1, <2>3, <2>4
<1>13. 1 \in Int /\ n \in Int
  BY <1>1
<1> QED BY <1>3, <1>10, <1>11, <1>12, <1>13 DEF Chain, n

\* A text is cut into pieces, one after the other, that are small enough or a word.
LEMMA PackChain ==
  ASSUME NEW text \in Seq(TextWords), NEW size \in [SpansOf(text) -> Int], NEW limit \in Int
  PROVE  /\ Chain(Pack(text, size, limit), 1, Len(text))
         /\ \A i \in DOMAIN Pack(text, size, limit) :
              size[Pack(text, size, limit)[i]] <= limit \/ Pack(text, size, limit)[i][1] = Pack(text, size, limit)[i][2]
<1> DEFINE n == Len(text)
           Good == { x \in Int \X Int : size[x] <= limit \/ x[1] = x[2] }
           sentences == SentenceSpans(text)
           byWord == [span \in ToSet(sentences) |-> PackSpans(WordSpans(span), size, limit, <<>>)]
           pack == PackSpans(sentences, size, limit, byWord)
<1>1. Good \in SUBSET (Int \X Int) /\ \A x \in Int \X Int : size[x] <= limit => x \in Good
  OBVIOUS
<1>2. n \in Nat /\ DOMAIN text = 1 .. n
  OBVIOUS
<1>3. \A x \in (1 .. n) \X (1 .. n) : size[x] \in Int
  BY <1>2 DEF SpansOf
<1>4. Chain(sentences, 1, n)
  BY SentencesChain
<1>5. Pack(text, size, limit) = pack
  BY DEF Pack
<1>6. sentences \in Seq(Int \X Int)
  BY <1>4 DEF Chain
<1> HIDE DEF n, sentences, Good
<1>7. ASSUME NEW i \in DOMAIN sentences
      PROVE  /\ sentences[i] \in (1 .. n) \X (1 .. n) /\ sentences[i][1] <= sentences[i][2]
             /\ sentences[i] \in ToSet(sentences)
  <2>1. sentences[i] \in Int \X Int
    BY <1>6
  <2>2. 1 <= sentences[i][1] /\ sentences[i][1] <= sentences[i][2] /\ sentences[i][2] <= n
    BY <1>4, ChainCovers
  <2>3. sentences[i][1] \in 1 .. n /\ sentences[i][2] \in 1 .. n
    BY <1>2, <2>1, <2>2
  <2>4. sentences[i] \in ToSet(sentences)
    BY DEF ToSet
  <2> QED BY <2>1, <2>2, <2>3, <2>4
<1>8. ASSUME NEW span \in (1 .. n) \X (1 .. n), span[1] <= span[2]
      PROVE  /\ Chain(PackSpans(WordSpans(span), size, limit, <<>>), span[1], span[2])
             /\ PackSpans(WordSpans(span), size, limit, <<>>) \in Seq(Good)
  <2> DEFINE w == WordSpans(span)
  <2>1. span \in Int \X Int /\ span[1] \in 1 .. n /\ span[2] \in 1 .. n
    BY <1>2
  <2>2. /\ Chain(w, span[1], span[2])
        /\ \A i \in DOMAIN w : w[i][1] = w[i][2] /\ w[i] \in (span[1] .. span[2]) \X (span[1] .. span[2])
    BY <1>8, <2>1, WordsChain
  <2>3. span[1] .. span[2] \subseteq 1 .. n
    BY <1>2, <2>1
  <2> HIDE DEF w
  <2>4. ASSUME NEW i \in DOMAIN w PROVE size[w[i]] \in Int /\ w[i] \notin DOMAIN <<>> /\ w[i] \in Good
    <3>1. w[i] \in (1 .. n) \X (1 .. n) /\ w[i][1] = w[i][2]
      BY <2>2, <2>3
    <3>2. w[i] \in Int \X Int
      BY <1>2, <3>1
    <3>3. DOMAIN <<>> = {}
      OBVIOUS
    <3> QED BY <1>3, <3>1, <3>2, <3>3 DEF Good
  <2> QED BY <1>1, <2>2, <2>4, PackSpansChain DEF w
<1>9. ASSUME NEW i \in DOMAIN sentences
      PROVE  /\ size[sentences[i]] \in Int /\ sentences[i] \in DOMAIN byWord
             /\ Chain(byWord[sentences[i]], sentences[i][1], sentences[i][2]) /\ byWord[sentences[i]] \in Seq(Good)
  <2> DEFINE span == sentences[i]
  <2>1. span \in (1 .. n) \X (1 .. n) /\ span[1] <= span[2] /\ span \in ToSet(sentences)
    BY <1>7
  <2> HIDE DEF span
  <2>2. byWord[span] = PackSpans(WordSpans(span), size, limit, <<>>) /\ span \in DOMAIN byWord
    BY <2>1
  <2>3. Chain(byWord[span], span[1], span[2]) /\ byWord[span] \in Seq(Good)
    BY <1>8, <2>1, <2>2
  <2> QED BY <1>3, <2>1, <2>2, <2>3 DEF span
<1> HIDE DEF byWord
<1>10. Chain(pack, 1, n) /\ pack \in Seq(Good)
  BY <1>1, <1>4, <1>9, PackSpansChain
<1> HIDE DEF pack
<1>11. \A i \in DOMAIN pack : size[pack[i]] <= limit \/ pack[i][1] = pack[i][2]
  <2>1. \A i \in DOMAIN pack : pack[i] \in Good
    BY <1>10
  <2> QED BY <2>1 DEF Good
<1> QED BY <1>5, <1>10, <1>11 DEF n

-----------------------------------------------------------------------------
(* Embeddings                                                               *)

\* The chunks of a passage are a chain, and one of several words is small enough.
LEMMA ChunksChain ==
  ASSUME NEW text \in Seq(TextWords)
  PROVE  /\ Chain(RetrievalChunks(text), 1, Len(text))
         /\ \A i \in DOMAIN RetrievalChunks(text) :
              LET c == RetrievalChunks(text)[i]
              IN c[1] < c[2] => TokensIn(text, c[1], c[2]) + 2 <= Sizes.chunk_tokens
<1> DEFINE n == Len(text)
           size == [span \in SpansOf(text) |-> TokensIn(text, span[1], span[2]) + 2]
           pack == RetrievalChunks(text)
<1>1. n \in Nat /\ DOMAIN text = 1 .. n /\ SpansOf(text) = (1 .. n) \X (1 .. n)
  BY DEF SpansOf
<1>2. size \in [SpansOf(text) -> Int]
  <2>1. ASSUME NEW span \in (1 .. n) \X (1 .. n) PROVE TokensIn(text, span[1], span[2]) + 2 \in Int
    <3>1. span[1] - 1 \in 0 .. n /\ span[2] \in 0 .. n
      BY <1>1
    <3>2. Cumulative(text)[span[1] - 1] \in Nat /\ Cumulative(text)[span[2]] \in Nat
      BY <3>1, CumulativeGrows
    <3> QED BY <3>2 DEF TokensIn
  <2> QED BY <1>1, <2>1
<1>3. Sizes.chunk_tokens \in Int
  BY SizesTyped
<1>4. pack = Pack(text, size, Sizes.chunk_tokens)
  BY DEF RetrievalChunks
<1> HIDE DEF pack
<1>5. /\ Chain(pack, 1, n)
      /\ \A i \in DOMAIN pack : size[pack[i]] <= Sizes.chunk_tokens \/ pack[i][1] = pack[i][2]
  <2> HIDE DEF size
  <2> QED BY <1>2, <1>3, <1>4, PackChain
<1>6. ASSUME NEW i \in DOMAIN pack
      PROVE  pack[i][1] < pack[i][2] => TokensIn(text, pack[i][1], pack[i][2]) + 2 <= Sizes.chunk_tokens
  <2>1. pack[i] \in Int \X Int
    BY <1>5 DEF Chain
  <2>2. 1 <= pack[i][1] /\ pack[i][1] <= pack[i][2] /\ pack[i][2] <= n
    BY <1>5, ChainCovers
  <2>3. pack[i] \in (1 .. n) \X (1 .. n)
    BY <1>1, <2>1, <2>2
  <2>4. size[pack[i]] = TokensIn(text, pack[i][1], pack[i][2]) + 2
    BY <1>1, <2>3
  <2>5. pack[i][1] < pack[i][2] => pack[i][1] # pack[i][2]
    BY <2>1
  <2> QED BY <1>5, <2>4, <2>5
<1> QED BY <1>5, <1>6 DEF pack

\* What a run of the embedding has stored, cut and skipped is all there was to embed.
LEMMA Accounts ==
  ASSUME IsList(found.passages), \A p \in DOMAIN found.passages : found.passages[p].text \in Seq(TextWords),
         found.embedding = Embed(found.passages, input.encoder)
  PROVE  EmbeddingAccounts
<1> DEFINE passages == found.passages
           encoder == input.encoder
           run == found.embedding
           eligible == { p \in DOMAIN passages : ~passages[p].excluded }
           long == { p \in eligible : Weight(passages[p].text) + 2 > Sizes.model_tokens }
           BatchOf(p) == Cardinality({ q \in eligible \ long : q < p }) \div Sizes.batch
           Batch(p) == [q \in { r \in eligible \ long : BatchOf(r) = BatchOf(p) } |-> passages[q].text]
           stored == { p \in eligible \ long : p \in Encoded(Batch(p), encoder) }
           chunks == [p \in long |-> Chunks(passages[p].text, encoder)]
           chunked == { p \in long : chunks[p] # {} }
           skipped == Cardinality(eligible \ (stored \cup chunked))
<1>1. /\ run.vectors = stored /\ run.chunks = chunks /\ run.skipped = skipped
      /\ run.status = IF eligible = {} THEN "INELIGIBLE"
                      ELSE IF skipped = 0 /\ chunked = {} THEN "COMPLETED" ELSE "COMPLETED_WITH_WARNINGS"
  <2> DEFINE status == IF eligible = {} THEN "INELIGIBLE"
                       ELSE IF skipped = 0 /\ chunked = {} THEN "COMPLETED" ELSE "COMPLETED_WITH_WARNINGS"
  <2>1. Embed(passages, encoder) = [vectors |-> stored, chunks |-> chunks, skipped |-> skipped, status |-> status]
    BY Zenon DEF Embed
  <2> HIDE DEF stored, chunks, skipped, status
  <2>2. run = [vectors |-> stored, chunks |-> chunks, skipped |-> skipped, status |-> status]
    BY <2>1
  <2>3. run.vectors = stored /\ run.chunks = chunks /\ run.skipped = skipped /\ run.status = status
    BY <2>2
  <2> QED BY <2>3 DEF status
<1>2. long \subseteq eligible /\ DOMAIN chunks = long /\ stored \subseteq eligible \ long
  OBVIOUS
<1>3. IsFiniteSet(eligible)
  <2>1. eligible \subseteq 1 .. Len(passages) /\ IsFiniteSet(1 .. Len(passages))
    BY FS_Interval DEF IsList
  <2> QED BY <2>1, FS_Subset
<1>4. ASSUME NEW p \in eligible \ long, Encodable(passages[p].text), ~encoder.wrong_length PROVE p \in stored
  <2> DEFINE batch == Batch(p)
  <2>1. p \in DOMAIN batch /\ batch[p] = passages[p].text
    OBVIOUS
  <2> HIDE DEF batch
  <2>2. p \in Encoded(batch, encoder)
    BY <1>4, <2>1 DEF Encoded
  <2> QED BY <2>2 DEF batch
<1>5. ASSUME NEW p \in long, Encodable(passages[p].text), ~encoder.wrong_length
      PROVE  UNION { c[1] .. c[2] : c \in chunks[p] } = DOMAIN passages[p].text
  <2> DEFINE text == passages[p].text
             spans == RetrievalChunks(text)
             texts == [d \in DOMAIN spans |-> Words(text, spans[d])]
  <2>1. text \in Seq(TextWords) /\ Len(text) \in Nat /\ DOMAIN text = 1 .. Len(text)
    OBVIOUS
  <2>2. Chain(spans, 1, Len(text))
    BY <2>1, ChunksChain
  <2>3. /\ spans \in Seq(Int \X Int)
        /\ \A i \in DOMAIN spans : 1 <= spans[i][1] /\ spans[i][1] <= spans[i][2] /\ spans[i][2] <= Len(text)
        /\ \A w \in 1 .. Len(text) : \E i \in DOMAIN spans : w \in spans[i][1] .. spans[i][2]
    BY <2>2, ChainCovers DEF Chain
  <2>4. chunks[p] = Chunks(text, encoder)
    OBVIOUS
  <2>5. Encodable(text)
    BY <1>5
  <2> HIDE DEF text, spans
  <2>6. ASSUME NEW d \in DOMAIN spans PROVE Encodable(texts[d])
    <3>1. texts[d] = SubSeq(text, spans[d][1], spans[d][2])
      BY DEF Words
    <3>2. spans[d] \in Int \X Int /\ 1 <= spans[d][1] /\ spans[d][2] <= Len(text)
      BY <2>3
    <3> DEFINE from == spans[d][1]
               to == spans[d][2]
    <3>3. from \in Int /\ to \in Int /\ 1 <= from /\ to <= Len(text)
      BY <3>2
    <3> HIDE DEF from, to
    <3>4. ASSUME NEW i \in DOMAIN SubSeq(text, from, to)
          PROVE  \E j \in DOMAIN text : SubSeq(text, from, to)[i] = text[j]
      <4>1. i \in 1 .. to - from + 1 /\ SubSeq(text, from, to)[i] = text[from + i - 1]
        BY <2>1, <3>3, <3>4
      <4>2. from + i - 1 \in 1 .. Len(text)
        BY <2>1, <3>3, <4>1
      <4> QED BY <2>1, <4>1, <4>2
    <3> QED BY <2>5, <3>1, <3>4 DEF Encodable, from, to
  <2>7. Encoded(texts, encoder) = DOMAIN spans
    <3>1. DOMAIN texts = DOMAIN spans
      OBVIOUS
    <3> HIDE DEF texts
    <3> QED BY <1>5, <2>6, <3>1 DEF Encoded
  <2>8. chunks[p] = { spans[c] : c \in DOMAIN spans }
    <3>1. Chunks(text, encoder) = { spans[c] : c \in Encoded(texts, encoder) }
      BY DEF Chunks, spans
    <3> QED BY <2>4, <2>7, <3>1
  <2>9. \A c \in DOMAIN spans : spans[c][1] .. spans[c][2] \subseteq 1 .. Len(text)
    <3> SUFFICES ASSUME NEW c \in DOMAIN spans PROVE spans[c][1] .. spans[c][2] \subseteq 1 .. Len(text)
      OBVIOUS
    <3>1. spans[c] \in Int \X Int /\ 1 <= spans[c][1] /\ spans[c][2] <= Len(text)
      BY <2>3
    <3> QED BY <2>1, <3>1
  <2> HIDE DEF chunks
  <2>10. UNION { c[1] .. c[2] : c \in chunks[p] } = 1 .. Len(text)
    BY <2>3, <2>8, <2>9
  <2> QED BY <2>1, <2>10 DEF text
<1>6. ASSUME NEW p \in long, NEW c \in chunks[p], c[1] < c[2]
      PROVE  TokensIn(passages[p].text, c[1], c[2]) + 2 <= Sizes.model_tokens
  <2> DEFINE text == passages[p].text
             spans == RetrievalChunks(text)
  <2>1. text \in Seq(TextWords)
    OBVIOUS
  <2>2. chunks[p] = Chunks(text, encoder)
    OBVIOUS
  <2> HIDE DEF text
  <2>3. PICK i \in DOMAIN spans : c = spans[i]
    <3>1. Encoded([d \in DOMAIN spans |-> Words(text, spans[d])], encoder) \subseteq DOMAIN spans
      BY DEF Encoded
    <3> QED BY <2>2, <3>1 DEF Chunks
  <2>4. TokensIn(text, c[1], c[2]) + 2 <= Sizes.chunk_tokens
    BY <1>6, <2>1, <2>3, ChunksChain
  <2>5. Chain(spans, 1, Len(text))
    BY <2>1, ChunksChain
  <2> HIDE DEF spans
  <2>6. c \in Int \X Int /\ 1 <= c[1] /\ c[1] <= c[2] /\ c[2] <= Len(text)
    <3>1. spans \in Seq(Int \X Int)
      BY <2>5 DEF Chain
    <3>2. spans[i] \in Int \X Int
      BY <3>1
    <3>3. 1 <= spans[i][1] /\ spans[i][1] <= spans[i][2] /\ spans[i][2] <= Len(text)
      BY <2>5, ChainCovers
    <3> QED BY <2>3, <3>2, <3>3
  <2>7. Len(text) \in Nat
    BY <2>1
  <2>8. c[1] - 1 \in 0 .. Len(text) /\ c[2] \in 0 .. Len(text)
    BY <2>6, <2>7
  <2>9. TokensIn(text, c[1], c[2]) \in Int
    <3>1. Cumulative(text)[c[1] - 1] \in Nat /\ Cumulative(text)[c[2]] \in Nat
      BY <2>1, <2>8, CumulativeGrows
    <3> QED BY <3>1 DEF TokensIn
  <2> QED BY <2>4, <2>9, SizesTyped DEF text
<1>7. run.status = "COMPLETED" => run.vectors = eligible
  <2> HIDE DEF eligible, stored, chunked
  <2> SUFFICES ASSUME run.status = "COMPLETED" PROVE stored = eligible
    BY <1>1
  <2>1. skipped = 0 /\ chunked = {}
    BY <1>1
  <2>2. IsFiniteSet(eligible \ (stored \cup chunked))
    BY <1>3, FS_Subset
  <2>3. eligible \ (stored \cup chunked) = {}
    BY <2>1, <2>2, FS_EmptySet
  <2>4. stored \subseteq eligible
    BY <1>2 DEF eligible, stored
  <2> QED BY <2>1, <2>3, <2>4
<1>8. run.vectors \cap DOMAIN run.chunks = {}
  BY <1>1, <1>2
<1>9. run.skipped = Cardinality(eligible \ (run.vectors \cup { p \in DOMAIN run.chunks : run.chunks[p] # {} }))
  BY <1>1, <1>2
<1>10. ASSUME NEW p \in eligible, Encodable(passages[p].text), ~encoder.wrong_length
       PROVE  IF p \in DOMAIN run.chunks
              THEN UNION { c[1] .. c[2] : c \in run.chunks[p] } = DOMAIN passages[p].text
              ELSE p \in run.vectors
  <2>1. DOMAIN run.chunks = long
    BY <1>1, <1>2
  <2>2. CASE p \in long
    <3>1. UNION { c[1] .. c[2] : c \in chunks[p] } = DOMAIN passages[p].text
      BY <1>5, <1>10, <2>2
    <3> QED BY <1>1, <2>1, <2>2, <3>1
  <2>3. CASE p \notin long
    <3>1. p \in stored
      BY <1>4, <1>10, <2>3
    <3> QED BY <1>1, <2>1, <2>3, <3>1
  <2> QED BY <2>2, <2>3
<1>11. \A p \in DOMAIN run.chunks : \A c \in run.chunks[p] :
         c[1] < c[2] => TokensIn(passages[p].text, c[1], c[2]) + 2 <= Sizes.model_tokens
  BY <1>1, <1>2, <1>6
<1> HIDE DEF long, stored, chunks, chunked, skipped
<1> QED BY <1>7, <1>8, <1>9, <1>10, <1>11 DEF EmbeddingAccounts

-----------------------------------------------------------------------------
(* Chunks for answering questions                                           *)

\* Every stretch without a sentence end is shorter than the overlap, and the text
\* ends a sentence.
Punctuated(text) ==
  \A a, b \in DOMAIN text :
    a <= b /\ (\A k \in a .. b : ~text[k].ends) => TokensIn(text, a, b) < Sizes.qa_overlap /\ b < Len(text)

\* The words of a text between two others weigh a number of tokens.
LEMMA TokensTyped ==
  ASSUME NEW text \in Seq(TextWords), NEW a \in 1 .. Len(text), NEW b \in 1 .. Len(text)
  PROVE  TokensIn(text, a, b) \in Int
<1>1. a - 1 \in 0 .. Len(text) /\ b \in 0 .. Len(text)
  OBVIOUS
<1>2. Cumulative(text)[a - 1] \in Nat /\ Cumulative(text)[b] \in Nat
  BY <1>1, CumulativeGrows
<1> QED BY <1>2 DEF TokensIn

\* A window reaches from its first word to a word not before it, no sentence ends
\* in what it leaves off its raw end, and the last one takes the end of the text.
LEMMA WindowFacts ==
  ASSUME NEW text \in Seq(TextWords), Punctuated(text), NEW first \in 1 .. Len(text)
  PROVE  LET w == QaWindow(text, first)
         IN /\ w \in [from : 1 .. Len(text), raw : 1 .. Len(text), to : 1 .. Len(text)]
            /\ w.from = first /\ first <= w.raw /\ first <= w.to
            /\ w.raw = Len(text) => w.to = Len(text)
            /\ \A k \in w.to + 1 .. w.raw : ~text[k].ends
<1> DEFINE n == Len(text)
           reach == { k \in first .. n : TokensIn(text, first, k) >= Sizes.qa_target }
           raw == Min(reach \cup {n})
           hard == Min({raw + 1, n})
           sentences == { k \in first .. hard : text[k].ends }
           to == IF sentences = {} THEN raw ELSE Max(sentences)
<1>1. n \in Nat /\ DOMAIN text = 1 .. n /\ first \in 1 .. n
  OBVIOUS
<1>2. QaWindow(text, first) = [from |-> first, raw |-> raw, to |-> to]
  BY DEF QaWindow
<1> HIDE DEF n
<1>3. raw \in first .. n
  <2>0. first \in Int /\ n \in Int
    BY <1>1
  <2>1. reach \cup {n} \subseteq first .. n /\ IsFiniteSet(first .. n) /\ reach \cup {n} # {}
    <3>1. IsFiniteSet(first .. n)
      BY <2>0, FS_Interval
    <3>2. reach \cup {n} \subseteq first .. n /\ reach \cup {n} # {}
      BY <1>1
    <3> QED BY <3>1, <3>2
  <2>2. reach \cup {n} \in SUBSET Int /\ IsFiniteSet(reach \cup {n})
    <3>1. first .. n \subseteq Int
      OBVIOUS
    <3> HIDE DEF reach
    <3> QED BY <2>1, <3>1, FS_Subset
  <2> HIDE DEF reach
  <2>3. raw \in reach \cup {n}
    BY <2>1, <2>2, MinExists
  <2> QED BY <2>1, <2>3
<1> HIDE DEF raw, reach
<1>4. hard \in raw .. n /\ hard <= raw + 1 /\ (raw = n => hard = n)
  <2>1. {raw + 1, n} \in SUBSET Int /\ {raw + 1, n} # {} /\ IsFiniteSet({raw + 1, n})
    <3>1. {raw + 1, n} = {n} \cup {raw + 1}
      OBVIOUS
    <3>2. IsFiniteSet({n} \cup {raw + 1})
      BY FS_Singleton, FS_AddElement
    <3>3. IsFiniteSet({raw + 1, n})
      BY <3>1, <3>2
    <3> QED BY <1>1, <1>3, <3>3
  <2>2. hard \in {raw + 1, n} /\ \A y \in {raw + 1, n} : hard <= y
    BY <2>1, MinExists
  <2> HIDE DEF hard
  <2> QED BY <1>1, <1>3, <2>2
<1> HIDE DEF hard
<1>5. sentences # {} => Max(sentences) \in sentences /\ \A k \in sentences : k <= Max(sentences)
  <2>1. sentences \subseteq first .. hard /\ IsFiniteSet(first .. hard) /\ first .. hard \subseteq Int
    BY <1>1, <1>4, FS_Interval
  <2>2. IsFiniteSet(sentences) /\ sentences \in SUBSET Int
    <3> HIDE DEF sentences
    <3> QED BY <2>1, FS_Subset
  <2> HIDE DEF sentences
  <2> QED BY <2>2, MaxExists
<1>6. to \in first .. n
  <2>1. sentences # {} => Max(sentences) \in first .. hard
    BY <1>5
  <2> HIDE DEF sentences
  <2> QED BY <1>1, <1>3, <1>4, <2>1
<1>7. raw = n => to = n
  <2> SUFFICES ASSUME raw = n PROVE to = n
    OBVIOUS
  <2>1. text[n].ends
    <3> SUFFICES ASSUME ~text[n].ends PROVE FALSE
      OBVIOUS
    <3>1. n \in DOMAIN text /\ n <= n /\ \A k \in n .. n : k = n
      BY <1>1
    <3>2. n < Len(text)
      BY <3>1 DEF Punctuated
    <3> QED BY <1>1, <3>2 DEF n
  <2>2. n \in sentences
    BY <1>1, <1>4, <2>1
  <2>3. n <= Max(sentences)
    BY <1>5, <2>2
  <2> QED BY <1>1, <1>6, <2>2, <2>3
<1>8. ASSUME NEW k \in to + 1 .. raw PROVE ~text[k].ends
  <2>1. sentences # {}
    BY <1>3, <1>8
  <2>2. to = Max(sentences)
    BY <2>1
  <2>3. k \in first .. hard /\ ~(k <= to)
    BY <1>1, <1>3, <1>4, <1>6
  <2>4. k \notin sentences
    BY <1>5, <2>1, <2>2, <2>3
  <2> QED BY <2>3, <2>4
<1> HIDE DEF to
<1> DEFINE w == [from |-> first, raw |-> raw, to |-> to]
<1>9. /\ w \in [from : 1 .. n, raw : 1 .. n, to : 1 .. n]
      /\ w.from = first /\ first <= w.raw /\ first <= w.to
      /\ w.raw = n => w.to = n
      /\ \A k \in w.to + 1 .. w.raw : ~text[k].ends
  BY <1>1, <1>3, <1>6, <1>7, <1>8
<1> QED BY <1>2, <1>9 DEF n

\* The next window starts later, and leaves no gap after this one.
LEMMA NextFacts ==
  ASSUME NEW text \in Seq(TextWords), Punctuated(text),
         NEW w \in [from : 1 .. Len(text), raw : 1 .. Len(text), to : 1 .. Len(text)],
         w.from <= w.raw, w.from <= w.to, w.raw # Len(text),
         \A k \in w.to + 1 .. w.raw : ~text[k].ends
  PROVE  QaNext(text, w) \in w.from + 1 .. w.to + 1 /\ QaNext(text, w) \in 1 .. Len(text)
<1> DEFINE n == Len(text)
           far == { k \in w.from .. w.raw : k = w.from \/ TokensIn(text, k, w.raw) >= Sizes.qa_overlap }
           k == Max(far)
           both == {k, w.from + 1}
<1>1. n \in Nat /\ DOMAIN text = 1 .. n /\ w.from \in 1 .. n /\ w.raw \in 1 .. n /\ w.to \in 1 .. n /\ w.raw < n
  OBVIOUS
<1> HIDE DEF n
<1>2. k \in far
  <2>1. far \subseteq w.from .. w.raw /\ w.from \in far /\ IsFiniteSet(w.from .. w.raw)
    <3>1. w.from \in Int /\ w.raw \in Int
      BY <1>1
    <3>2. IsFiniteSet(w.from .. w.raw)
      BY <3>1, FS_Interval
    <3> QED BY <1>1, <3>2
  <2>2. w.from .. w.raw \subseteq Int
    OBVIOUS
  <2> HIDE DEF far
  <2>3. IsFiniteSet(far) /\ far \in SUBSET Int
    BY <2>1, <2>2, FS_Subset
  <2> QED BY <2>1, <2>3, MaxExists
<1> HIDE DEF k
<1>3. k \in w.from .. w.raw /\ (k = w.from \/ TokensIn(text, k, w.raw) >= Sizes.qa_overlap)
  BY <1>2
<1>4. k <= w.to
  <2> SUFFICES ASSUME ~(k <= w.to) PROVE FALSE
    OBVIOUS
  <2>1. k # w.from /\ k \in 1 .. n /\ k <= w.raw
    BY <1>1, <1>3
  <2>2. \A i \in k .. w.raw : ~text[i].ends
    BY <1>1, <2>1
  <2>3. TokensIn(text, k, w.raw) < Sizes.qa_overlap
    BY <1>1, <2>1, <2>2 DEF Punctuated
  <2>4. TokensIn(text, k, w.raw) \in Int
    BY <1>1, <2>1, TokensTyped DEF n
  <2> QED BY <1>3, <2>1, <2>3, <2>4, SizesTyped
<1>5. QaNext(text, w) = Max(both)
  BY DEF QaNext, k
<1>6. Max(both) \in both /\ \A y \in both : y <= Max(both)
  <2>1. both \in SUBSET Int /\ both # {}
    BY <1>1, <1>3
  <2>2. IsFiniteSet(both)
    <3>1. both = {k} \cup {w.from + 1}
      OBVIOUS
    <3>2. IsFiniteSet({k} \cup {w.from + 1})
      BY FS_Singleton, FS_AddElement
    <3> QED BY <3>1, <3>2
  <2> HIDE DEF both
  <2> QED BY <2>1, <2>2, MaxExists
<1> DEFINE next == Max(both)
<1>7. next \in {k, w.from + 1} /\ w.from + 1 <= next
  BY <1>6
<1> HIDE DEF next
<1>8. next \in w.from + 1 .. w.to + 1 /\ next \in 1 .. n
  BY <1>1, <1>3, <1>4, <1>7
<1> QED BY <1>5, <1>8 DEF n, next

\* The windows of a punctuated text hold every word of it.
LEMMA Quotes ==
  ASSUME NEW text \in Seq(TextWords), Punctuated(text)
  PROVE  UNION { QaWindows(text)[w].from .. QaWindows(text)[w].to : w \in DOMAIN QaWindows(text) } = DOMAIN text
<1> DEFINE n == Len(text)
           Sound(w) == /\ w.from <= w.raw /\ w.from <= w.to /\ (w.raw = n => w.to = n)
                       /\ \A k \in w.to + 1 .. w.raw : ~text[k].ends
           Win == { w \in [from : 1 .. n, raw : 1 .. n, to : 1 .. n] : Sound(w) }
           EndOf(ws) == ws[Len(ws)]
           Covers(ws) == \A k \in 1 .. EndOf(ws).to : \E i \in DOMAIN ws : k \in ws[i].from .. ws[i].to
           T == { ws \in Seq(Win) : ws # <<>> /\ Covers(ws) }
           first == <<QaWindow(text, 1)>>
           Runs(f) == f = [i \in 0 .. n |-> IF i = 0 THEN first ELSE QaStep(text, f[i - 1])]
           after == CHOOSE f : Runs(f)
           step == [x \in T \X (1 .. n) |-> QaStep(text, x[1])]
<1>1. n \in Nat /\ DOMAIN text = 1 .. n
  OBVIOUS
<1>2. CASE n = 0
  <2>1. text = <<>> /\ DOMAIN text = {}
    BY <1>2
  <2>2. QaWindows(text) = <<>> /\ DOMAIN QaWindows(text) = {}
    BY <2>1 DEF QaWindows
  <2> QED BY <2>1, <2>2
<1>3. CASE n # 0
  <2>1. text # <<>> /\ QaWindows(text) = after[n]
    BY <1>3 DEF QaWindows
  <2>2. ASSUME NEW x \in 1 .. n PROVE QaWindow(text, x) \in Win /\ QaWindow(text, x).from = x
    BY <2>2, WindowFacts
  <2>3. ASSUME NEW w \in Win, w.raw # n PROVE QaNext(text, w) \in w.from + 1 .. w.to + 1 /\ QaNext(text, w) \in 1 .. n
    BY <2>3, NextFacts
  <2>4. \A w \in Win : w.from \in 1 .. n /\ w.raw \in 1 .. n /\ w.to \in 1 .. n /\ (w.raw = n => w.to = n)
    OBVIOUS
  <2> HIDE DEF Win, n
  <2>5. first \in T /\ EndOf(first).from = 1
    <3> DEFINE v == QaWindow(text, 1)
    <3>1. v \in Win /\ v.from = 1
      BY <1>1, <1>3, <2>2
    <3> HIDE DEF v
    <3>2. <<v>> \in Seq(Win) /\ <<v>> # <<>> /\ Len(<<v>>) = 1 /\ <<v>>[1] = v /\ DOMAIN <<v>> = {1}
      BY <3>1
    <3> QED BY <3>1, <3>2 DEF v
  <2> HIDE DEF first
  <2>6. ASSUME NEW ws \in T
        PROVE  /\ QaStep(text, ws) \in T
               /\ EndOf(ws).raw = n => EndOf(QaStep(text, ws)).raw = n
               /\ EndOf(ws).raw # n => EndOf(QaStep(text, ws)).from >= EndOf(ws).from + 1
    <3> DEFINE w == EndOf(ws)
               m == Len(ws)
               v == QaWindow(text, QaNext(text, w))
               more == Append(ws, v)
    <3>1. m \in Nat \ {0} /\ DOMAIN ws = 1 .. m /\ w \in Win /\ \A i \in 1 .. m : ws[i] \in Win
      OBVIOUS
    <3>2. CASE w.raw = n
      <4>1. QaStep(text, ws) = ws
        BY <3>2 DEF QaStep, n
      <4> QED BY <3>2, <4>1
    <3>3. CASE w.raw # n
      <4>1. QaStep(text, ws) = more
        BY <3>3 DEF QaStep, n
      <4>2. v \in Win /\ v.from \in w.from + 1 .. w.to + 1
        BY <2>2, <2>3, <3>1, <3>3
      <4>3. Covers(ws)
        OBVIOUS
      <4> HIDE DEF v, m
      <4>4. /\ more \in Seq(Win) /\ more # <<>> /\ Len(more) = m + 1 /\ DOMAIN more = 1 .. m + 1
            /\ more[m + 1] = v /\ \A i \in 1 .. m : more[i] = ws[i]
        BY <3>1, <4>2 DEF m
      <4> HIDE DEF more, w
      <4>5. EndOf(more) = v
        BY <4>4
      <4>6. ASSUME NEW k \in 1 .. v.to PROVE \E i \in DOMAIN more : k \in more[i].from .. more[i].to
        <5>1. CASE k <= w.to
          <6>1. k \in 1 .. w.to
            BY <2>4, <3>1, <5>1
          <6>2. PICK i \in DOMAIN ws : k \in ws[i].from .. ws[i].to
            BY <4>3, <6>1 DEF w
          <6>3. i \in 1 .. m + 1 /\ more[i] = ws[i]
            BY <3>1, <4>4, <6>2
          <6> QED BY <4>4, <6>2, <6>3
        <5>2. CASE ~(k <= w.to)
          <6>1. v.to \in 1 .. n /\ w.to \in 1 .. n /\ w.from \in 1 .. n
            BY <2>4, <3>1, <4>2
          <6>2. k \in v.from .. v.to
            BY <1>1, <4>2, <5>2, <6>1
          <6>3. m + 1 \in 1 .. m + 1
            BY <3>1
          <6> QED BY <4>4, <6>2, <6>3
        <5> QED BY <5>1, <5>2
      <4>7. more \in T
        BY <4>4, <4>5, <4>6
      <4>8. v.from >= w.from + 1
        <5>1. w.from \in 1 .. n /\ w.to \in 1 .. n
          BY <2>4, <3>1
        <5> QED BY <4>2, <5>1
      <4> QED BY <3>3, <4>1, <4>5, <4>7, <4>8 DEF w
    <3> QED BY <3>2, <3>3
  <2>7. \A ws \in T : EndOf(ws) \in Win /\ Covers(ws)
    OBVIOUS
  <2> HIDE DEF T
  <2>8. step \in [T \X (1 .. n) -> T]
    BY <2>6
  <2>9. PICK f \in [0 .. n -> T] : Iterates(f, first, step, n)
    <3> HIDE DEF step
    <3> QED BY <1>1, <2>5, <2>8, IterationExists
  <2>10. ASSUME NEW i \in 1 .. n PROVE i - 1 \in 0 .. n /\ f[i - 1] \in T /\ f[i] = QaStep(text, f[i - 1])
    <3>1. i - 1 \in 0 .. n
      BY <1>1
    <3>2. f[i] = step[<<f[i - 1], i>>] /\ f[i - 1] \in T
      BY <2>9, <3>1 DEF Iterates
    <3> QED BY <3>1, <3>2
  <2>11. Runs(f)
    <3>1. \A i \in 0 .. n : f[i] = IF i = 0 THEN first ELSE QaStep(text, f[i - 1])
      <4>1. \A i \in 0 .. n : i # 0 => i \in 1 .. n
        BY <1>1
      <4>2. f[0] = first
        BY <2>9 DEF Iterates
      <4> QED BY <2>10, <4>1, <4>2
    <3> HIDE DEF step
    <3> QED BY <2>9, <3>1
  <2>12. Runs(after)
    BY <2>11
  <2> HIDE DEF after, step
  <2>13. \A i \in 0 .. n : after[i] = IF i = 0 THEN first ELSE QaStep(text, after[i - 1])
    BY <2>12
  <2> DEFINE S == { i \in 0 .. n : after[i] \in T /\ (EndOf(after[i]).raw = n \/ EndOf(after[i]).from >= i + 1) }
  <2>14. n \in S
    <3>1. 0 \in S
      <4>1. 0 \in 0 .. n /\ after[0] = first
        BY <1>1, <2>13
      <4> QED BY <2>5, <4>1
    <3>2. ASSUME NEW i \in 1 .. n, i - 1 \in S PROVE i \in S
      <4> DEFINE ws == after[i - 1]
      <4>1. i \in 0 .. n /\ i # 0
        BY <1>1
      <4>2. after[i] = QaStep(text, ws)
        BY <2>13, <4>1
      <4>3. ws \in T /\ (EndOf(ws).raw = n \/ EndOf(ws).from >= (i - 1) + 1)
        BY <3>2
      <4> HIDE DEF ws
      <4>4. after[i] \in T
        BY <2>6, <4>2, <4>3
      <4>5. CASE EndOf(ws).raw = n
        <5>1. EndOf(after[i]).raw = n
          BY <2>6, <4>2, <4>3, <4>5
        <5> QED BY <4>1, <4>4, <5>1
      <4>6. CASE EndOf(ws).raw # n
        <5>1. EndOf(after[i]).from >= EndOf(ws).from + 1 /\ EndOf(ws).from >= (i - 1) + 1
          BY <2>6, <4>2, <4>3, <4>6
        <5>2. EndOf(ws).from \in Int /\ EndOf(after[i]).from \in Int
          BY <2>4, <2>7, <4>3, <4>4
        <5>3. EndOf(after[i]).from >= i + 1
          BY <5>1, <5>2
        <5> QED BY <4>1, <4>4, <5>3
      <4> QED BY <4>5, <4>6
    <3>3. 0 .. n \subseteq S
      <4> HIDE DEF S
      <4> QED BY <1>1, <3>1, <3>2, UpTo
    <3> QED BY <1>1, <3>3
  <2> DEFINE ws == after[n]
  <2>15. ws \in T /\ (EndOf(ws).raw = n \/ EndOf(ws).from >= n + 1)
    BY <2>14
  <2> HIDE DEF ws
  <2>16. EndOf(ws).to = n
    <3>1. EndOf(ws).from \in 1 .. n
      BY <2>4, <2>7, <2>15
    <3>2. EndOf(ws).raw = n
      BY <1>1, <2>15, <3>1
    <3> QED BY <2>4, <2>7, <2>15, <3>2
  <2>17. \A k \in 1 .. n : \E i \in DOMAIN ws : k \in ws[i].from .. ws[i].to
    BY <2>7, <2>15, <2>16
  <2>18. \A i \in DOMAIN ws : ws[i].from .. ws[i].to \subseteq 1 .. n
    <3>1. \A i \in DOMAIN ws : ws[i] \in Win
      BY <2>15 DEF T
    <3> SUFFICES ASSUME NEW i \in DOMAIN ws PROVE ws[i].from .. ws[i].to \subseteq 1 .. n
      OBVIOUS
    <3>2. ws[i].from \in 1 .. n /\ ws[i].to \in 1 .. n
      BY <2>4, <3>1
    <3> QED BY <1>1, <3>2
  <2>19. UNION { ws[w].from .. ws[w].to : w \in DOMAIN ws } = 1 .. n
    BY <2>17, <2>18
  <2> QED BY <1>1, <2>1, <2>19 DEF ws
<1> QED BY <1>2, <1>3

-----------------------------------------------------------------------------
(* Groups of pieces                                                         *)

Heading(blocks, b) == blocks[b].type = "HEADING_CANDIDATE"

\* Pieces of blocks, and the groups of them a passage may be made of.
Pieces(blocks) ==
  { x \in [block : DOMAIN blocks, from : Int, to : Int] :
      1 <= x.from /\ x.from <= x.to /\ x.to <= Len(blocks[x.block].words) }

Groups(blocks) ==
  { g \in Seq(Pieces(blocks)) :
      /\ g # <<>> /\ GroupWords(g) <= Sizes.max_words
      /\ \A i \in DOMAIN g : Heading(blocks, g[i].block) => i = 1 }

\* The groups hold the words of the blocks S in order, a heading first of all.
Packs(groups, blocks, S) ==
  /\ groups \in Seq(Groups(blocks))
  /\ Tile(groups, blocks, S)
  /\ \A p \in DOMAIN groups : \A i \in DOMAIN groups[p] : Heading(blocks, groups[p][i].block) => p = 1 /\ i = 1

\* The words of a group are those of its pieces.
LEMMA GroupsAdd ==
  ASSUME NEW blocks, NEW g \in Seq(Pieces(blocks)), NEW h \in Seq(Pieces(blocks))
  PROVE  /\ GroupWords(g) \in Int /\ GroupWords(h) \in Int
         /\ GroupWords(g \o h) = GroupWords(g) + GroupWords(h)
<1> DEFINE m == Len(g)
           n == Len(h)
           all == g \o h
           a == [i \in DOMAIN g |-> PieceWords(g[i])]
           b == [i \in DOMAIN h |-> PieceWords(h[i])]
           c == [i \in DOMAIN all |-> PieceWords(all[i])]
<1>1. /\ m \in Nat /\ n \in Nat /\ DOMAIN g = 1 .. m /\ DOMAIN h = 1 .. n /\ DOMAIN all = 1 .. m + n
      /\ \A i \in 1 .. m : all[i] = g[i] /\ g[i] \in Pieces(blocks)
      /\ \A i \in 1 .. n : all[m + i] = h[i] /\ h[i] \in Pieces(blocks)
  OBVIOUS
<1>2. \A x \in Pieces(blocks) : PieceWords(x) \in Int
  BY DEF PieceWords, Pieces
<1> HIDE DEF m, n, all
<1>3. /\ a \in [1 .. m -> Int] /\ b \in [1 .. n -> Int]
      /\ \A i \in 1 .. m : c[i] = a[i]
      /\ \A i \in 1 .. n : c[m + i] = b[i]
      /\ DOMAIN c = 1 .. m + n
  BY <1>1, <1>2
<1>4. c \in [1 .. m + n -> Int]
  <2>1. ASSUME NEW i \in 1 .. m + n PROVE PieceWords(all[i]) \in Int
    <3>1. i \in 1 .. m \/ (i - m \in 1 .. n /\ i = m + (i - m))
      BY <1>1
    <3> QED BY <1>1, <1>2, <3>1
  <2> QED BY <1>1, <2>1
<1>5. GroupWords(g) = Total(a) /\ GroupWords(h) = Total(b) /\ GroupWords(all) = Total(c)
  BY DEF GroupWords
<1> HIDE DEF a, b, c
<1>6. Total(c) = Total(a) + Total(b)
  BY <1>1, <1>3, <1>4, TotalOfBoth
<1>7. Total(a) \in Int /\ Total(b) \in Int
  <2>1. \A k \in Nat : \A t \in [1 .. k -> Int] : Total(t) \in Int
    <3> SUFFICES ASSUME NEW k \in Nat, NEW t \in [1 .. k -> Int] PROVE Total(t) \in Int
      OBVIOUS
    <3>1. PICK f \in [0 .. k -> Int] : Total(t) = f[k]
      BY TotalSteps
    <3> QED BY <3>1
  <2> QED BY <1>1, <1>3, <2>1
<1> QED BY <1>5, <1>6, <1>7 DEF all

\* A group of one piece.
LEMMA GroupOfOne ==
  ASSUME NEW blocks, NEW x \in Pieces(blocks)
  PROVE  GroupWords(<<x>>) = PieceWords(x)
<1> DEFINE t == [i \in DOMAIN <<x>> |-> PieceWords(<<x>>[i])]
<1>1. PieceWords(x) \in Int
  BY DEF PieceWords, Pieces
<1>2. DOMAIN <<x>> = 1 .. 1 /\ <<x>>[1] = x
  OBVIOUS
<1>3. t \in [1 .. 1 -> Int] /\ t[1] = PieceWords(x)
  BY <1>1, <1>2
<1>4. GroupWords(<<x>>) = Total(t)
  BY DEF GroupWords
<1> HIDE DEF t
<1>5. PICK f \in [0 .. 1 -> Int] : f[0] = 0 /\ (\A i \in 1 .. 1 : f[i] = f[i - 1] + t[i]) /\ Total(t) = f[1]
  BY <1>3, TotalSteps
<1> QED BY <1>1, <1>3, <1>4, <1>5

\* One list of groups after another.
LEMMA TileJoin ==
  ASSUME NEW U, NEW C \in Seq(Seq(U)), NEW N \in Seq(Seq(U)), NEW blocks, NEW S \in SUBSET Int, NEW T \in SUBSET Int,
         Tile(C, blocks, S), Tile(N, blocks, T), \A s \in S, t \in T : s < t
  PROVE  Tile(C \o N, blocks, S \cup T)
<1> DEFINE m == Len(C)
           n == Len(N)
           all == C \o N
<1>1. /\ m \in Nat /\ n \in Nat /\ DOMAIN C = 1 .. m /\ DOMAIN N = 1 .. n /\ DOMAIN all = 1 .. m + n
      /\ \A p \in 1 .. m : all[p] = C[p]
      /\ \A p \in 1 .. n : all[m + p] = N[p]
  OBVIOUS
<1> HIDE DEF m, n, all
<1>2. ASSUME NEW p \in DOMAIN all PROVE p \in 1 .. m \/ (p - m \in 1 .. n /\ all[p] = N[p - m] /\ p > m)
  <2>1. p <= m \/ (p - m \in 1 .. n /\ p = m + (p - m) /\ p > m)
    BY <1>1
  <2> QED BY <1>1, <2>1
<1>3. ASSUME NEW p \in DOMAIN all, NEW i \in DOMAIN all[p]
      PROVE  /\ p \in 1 .. m => all[p][i].block \in S
             /\ p > m => all[p][i].block \in T
             /\ all[p][i].block \in S \cup T
             /\ 1 <= all[p][i].from /\ all[p][i].from <= all[p][i].to
             /\ all[p][i].to <= Len(blocks[all[p][i].block].words)
  <2>1. CASE p \in 1 .. m
    BY <1>1, <2>1 DEF Tile
  <2>2. CASE p - m \in 1 .. n /\ all[p] = N[p - m] /\ p > m
    BY <1>1, <2>2 DEF Tile
  <2> QED BY <1>2, <2>1, <2>2
<1>4. ASSUME NEW p \in DOMAIN all, NEW q \in DOMAIN all, NEW i \in DOMAIN all[p], NEW j \in DOMAIN all[q],
             p < q \/ (p = q /\ i < j)
      PROVE  Precedes(all[p][i], all[q][j])
  <2>1. CASE p \in 1 .. m /\ q \in 1 .. m
    BY <1>1, <1>4, <2>1 DEF Tile
  <2>2. CASE p \in 1 .. m /\ q > m
    <3>1. all[p][i].block \in S /\ all[q][j].block \in T
      BY <1>3, <2>2
    <3> QED BY <3>1 DEF Precedes
  <2>3. CASE p > m
    <3>1. p \in Int /\ q \in Int /\ q > m
      BY <1>1, <1>4, <2>3
    <3>2. p - m \in 1 .. n /\ q - m \in 1 .. n /\ all[p] = N[p - m] /\ all[q] = N[q - m]
      BY <1>1, <1>2, <2>3, <3>1
    <3>3. p < q => p - m < q - m
      BY <1>1, <3>1
    <3> QED BY <1>1, <1>4, <3>2, <3>3 DEF Tile
  <2> QED BY <1>1, <1>2, <2>1, <2>2, <2>3
<1>5. ASSUME NEW b \in S \cup T, NEW w \in DOMAIN blocks[b].words
      PROVE  \E p \in DOMAIN all : \E i \in DOMAIN all[p] : all[p][i].block = b /\ w \in all[p][i].from .. all[p][i].to
  <2>1. CASE b \in S
    <3>1. PICK p \in DOMAIN C : \E i \in DOMAIN C[p] : C[p][i].block = b /\ w \in C[p][i].from .. C[p][i].to
      BY <2>1 DEF Tile
    <3>2. p \in DOMAIN all /\ all[p] = C[p]
      BY <1>1
    <3> QED BY <3>1, <3>2
  <2>2. CASE b \in T
    <3>1. PICK p \in DOMAIN N : \E i \in DOMAIN N[p] : N[p][i].block = b /\ w \in N[p][i].from .. N[p][i].to
      BY <2>2 DEF Tile
    <3>2. m + p \in DOMAIN all /\ all[m + p] = N[p]
      <4>1. p \in 1 .. n /\ m + p \in 1 .. m + n
        BY <1>1
      <4> QED BY <1>1, <4>1
    <3> QED BY <3>1, <3>2
  <2> QED BY <2>1, <2>2
<1>6. Tile(all, blocks, S \cup T)
  BY <1>3, <1>4, <1>5 DEF Tile
<1> QED BY <1>6 DEF all

\* The last two groups made one.
LEMMA TileMerge ==
  ASSUME NEW U, NEW l \in Seq(Seq(U)), NEW g \in Seq(U), NEW h \in Seq(U), NEW blocks, NEW S,
         Tile(Append(Append(l, g), h), blocks, S)
  PROVE  Tile(Append(l, g \o h), blocks, S)
<1> DEFINE m == Len(l)
           c == Len(g)
           old == Append(Append(l, g), h)
           both == g \o h
           new == Append(l, both)
           Origin(p, i) == IF p <= m THEN p ELSE IF i <= c THEN m + 1 ELSE m + 2
           At(p, i) == IF p <= m \/ i <= c THEN i ELSE i - c
<1>1. /\ m \in Nat /\ c \in Nat /\ DOMAIN old = 1 .. m + 2 /\ DOMAIN new = 1 .. m + 1
      /\ DOMAIN g = 1 .. c /\ DOMAIN h = 1 .. Len(h) /\ Len(h) \in Nat /\ DOMAIN both = 1 .. c + Len(h)
  <2> DEFINE mid == Append(l, g)
  <2>1. mid \in Seq(Seq(U)) /\ both \in Seq(U) /\ Len(mid) = m + 1 /\ DOMAIN both = 1 .. c + Len(h)
    OBVIOUS
  <2> HIDE DEF both, mid
  <2>2. DOMAIN Append(mid, h) = 1 .. m + 2 /\ DOMAIN new = 1 .. m + 1
    <3>1. Len(Append(mid, h)) = (m + 1) + 1 /\ (m + 1) + 1 = m + 2 /\ Append(mid, h) \in Seq(Seq(U))
      BY <2>1
    <3>2. Len(new) = m + 1 /\ new \in Seq(Seq(U))
      BY <2>1
    <3> HIDE DEF new
    <3> QED BY <3>1, <3>2
  <2> QED BY <2>1, <2>2 DEF mid
<1>2. /\ \A i \in 1 .. c : both[i] = g[i]
      /\ \A i \in 1 .. Len(h) : both[c + i] = h[i]
  BY <1>1
<1>3. /\ \A p \in 1 .. m : old[p] = l[p] /\ new[p] = l[p]
      /\ old[m + 1] = g /\ old[m + 2] = h /\ new[m + 1] = both
  <2>1. Append(l, g) \in Seq(Seq(U)) /\ both \in Seq(U) /\ Len(Append(l, g)) = m + 1
    OBVIOUS
  <2> HIDE DEF both
  <2> QED BY <2>1
<1>4. Tile(old, blocks, S)
  OBVIOUS
<1> HIDE DEF m, c, old, both, new
<1>5. ASSUME NEW p \in DOMAIN new, NEW i \in DOMAIN new[p]
      PROVE  /\ Origin(p, i) \in DOMAIN old /\ At(p, i) \in DOMAIN old[Origin(p, i)]
             /\ old[Origin(p, i)][At(p, i)] = new[p][i]
             /\ p \in Int /\ (p > m => i \in 1 .. c + Len(h) /\ p = m + 1)
  <2>1. CASE p \in 1 .. m
    BY <1>1, <1>3, <2>1
  <2>2. CASE p = m + 1
    <3>1. i \in 1 .. c + Len(h) /\ new[p] = both /\ p > m /\ ~(p <= m)
      BY <1>1, <1>3, <2>2
    <3>2. CASE i <= c
      <4>1. Origin(p, i) = m + 1 /\ At(p, i) = i /\ i \in 1 .. c /\ m + 1 \in 1 .. m + 2
        BY <1>1, <3>1, <3>2
      <4> QED BY <1>1, <1>2, <1>3, <2>2, <3>1, <4>1
    <3>3. CASE ~(i <= c)
      <4>1. Origin(p, i) = m + 2 /\ At(p, i) = i - c /\ i - c \in 1 .. Len(h) /\ m + 2 \in 1 .. m + 2 /\ i = c + (i - c)
        BY <1>1, <3>1, <3>3
      <4>2. both[i] = h[i - c]
        BY <1>2, <4>1
      <4> QED BY <1>1, <1>3, <2>2, <3>1, <4>1, <4>2
    <3> QED BY <3>2, <3>3
  <2>3. p \in 1 .. m \/ p = m + 1
    <3>1. p \in 1 .. m + 1 /\ m \in Nat
      BY <1>1
    <3> QED BY ONLY <3>1
  <2> QED BY <2>1, <2>2, <2>3
<1>6. ASSUME NEW p \in DOMAIN new, NEW q \in DOMAIN new, NEW i \in DOMAIN new[p], NEW j \in DOMAIN new[q],
             p < q \/ (p = q /\ i < j)
      PROVE  Origin(p, i) < Origin(q, j) \/ (Origin(p, i) = Origin(q, j) /\ At(p, i) < At(q, j))
  <2>1. p \in Int /\ q \in Int
    BY <1>5
  <2>2. CASE q <= m
    <3>1. p <= m
      BY <1>1, <1>6, <2>1, <2>2
    <3> QED BY <1>6, <2>2, <3>1
  <2>3. CASE p <= m /\ ~(q <= m)
    BY <1>1, <2>1, <2>3
  <2>4. CASE ~(p <= m) /\ ~(q <= m)
    <3>1. p = m + 1 /\ q = m + 1 /\ i \in 1 .. c + Len(h) /\ j \in 1 .. c + Len(h)
      BY <1>1, <1>5, <2>1, <2>4
    <3>2. i < j
      BY <1>1, <1>6, <3>1
    <3> QED BY <1>1, <2>4, <3>1, <3>2
  <2> QED BY <1>1, <2>1, <2>2, <2>3, <2>4
<1> HIDE DEF Origin, At
<1>7. \A p \in DOMAIN new : \A i \in DOMAIN new[p] :
        LET piece == new[p][i]
        IN piece.block \in S /\ 1 <= piece.from /\ piece.from <= piece.to /\ piece.to <= Len(blocks[piece.block].words)
  <2>1. \A p \in DOMAIN old : \A i \in DOMAIN old[p] :
          LET piece == old[p][i]
          IN piece.block \in S /\ 1 <= piece.from /\ piece.from <= piece.to /\ piece.to <= Len(blocks[piece.block].words)
    BY <1>4 DEF Tile
  <2> SUFFICES ASSUME NEW p \in DOMAIN new, NEW i \in DOMAIN new[p]
               PROVE  LET piece == new[p][i]
                      IN /\ piece.block \in S /\ 1 <= piece.from /\ piece.from <= piece.to
                         /\ piece.to <= Len(blocks[piece.block].words)
    OBVIOUS
  <2>2. Origin(p, i) \in DOMAIN old /\ At(p, i) \in DOMAIN old[Origin(p, i)] /\ old[Origin(p, i)][At(p, i)] = new[p][i]
    BY <1>5
  <2> QED BY <2>1, <2>2
<1>8. \A p, q \in DOMAIN new : \A i \in DOMAIN new[p], j \in DOMAIN new[q] :
        p < q \/ (p = q /\ i < j) => Precedes(new[p][i], new[q][j])
  <2> SUFFICES ASSUME NEW p \in DOMAIN new, NEW q \in DOMAIN new, NEW i \in DOMAIN new[p], NEW j \in DOMAIN new[q],
                      p < q \/ (p = q /\ i < j)
               PROVE  Precedes(new[p][i], new[q][j])
    OBVIOUS
  <2>1. Origin(p, i) \in DOMAIN old /\ At(p, i) \in DOMAIN old[Origin(p, i)] /\ old[Origin(p, i)][At(p, i)] = new[p][i]
    BY <1>5
  <2>2. Origin(q, j) \in DOMAIN old /\ At(q, j) \in DOMAIN old[Origin(q, j)] /\ old[Origin(q, j)][At(q, j)] = new[q][j]
    BY <1>5
  <2>3. Origin(p, i) < Origin(q, j) \/ (Origin(p, i) = Origin(q, j) /\ At(p, i) < At(q, j))
    BY <1>6
  <2>4. \A x, y \in DOMAIN old : \A k \in DOMAIN old[x], n \in DOMAIN old[y] :
          x < y \/ (x = y /\ k < n) => Precedes(old[x][k], old[y][n])
    BY <1>4 DEF Tile
  <2>5. Precedes(old[Origin(p, i)][At(p, i)], old[Origin(q, j)][At(q, j)])
    BY <2>1, <2>2, <2>3, <2>4
  <2> QED BY <2>1, <2>2, <2>5
<1>9. ASSUME NEW b \in S, NEW w \in DOMAIN blocks[b].words
      PROVE  \E p \in DOMAIN new : \E i \in DOMAIN new[p] : new[p][i].block = b /\ w \in new[p][i].from .. new[p][i].to
  <2>1. PICK q \in DOMAIN old : \E j \in DOMAIN old[q] : old[q][j].block = b /\ w \in old[q][j].from .. old[q][j].to
    BY <1>4 DEF Tile
  <2>2. PICK j \in DOMAIN old[q] : old[q][j].block = b /\ w \in old[q][j].from .. old[q][j].to
    BY <2>1
  <2>3. \E p \in DOMAIN new : \E i \in DOMAIN new[p] : new[p][i] = old[q][j]
    <3>1. CASE q \in 1 .. m
      <4>1. q \in DOMAIN new /\ new[q] = old[q]
        BY <1>1, <1>3, <3>1
      <4> QED BY <4>1
    <3>2. CASE q = m + 1
      <4>1. m + 1 \in DOMAIN new /\ j \in 1 .. c /\ j \in 1 .. c + Len(h)
        BY <1>1, <1>3, <3>2
      <4>2. j \in DOMAIN new[m + 1] /\ new[m + 1][j] = old[q][j]
        BY <1>1, <1>2, <1>3, <3>2, <4>1
      <4> QED BY <4>1, <4>2
    <3>3. CASE q = m + 2
      <4>1. m + 1 \in DOMAIN new /\ j \in 1 .. Len(h) /\ c + j \in 1 .. c + Len(h)
        BY <1>1, <1>3, <3>3
      <4>2. c + j \in DOMAIN new[m + 1] /\ new[m + 1][c + j] = old[q][j]
        BY <1>1, <1>2, <1>3, <3>3, <4>1
      <4> QED BY <4>1, <4>2
    <3>4. q \in 1 .. m \/ q = m + 1 \/ q = m + 2
      BY <1>1
    <3> QED BY <3>1, <3>2, <3>3, <3>4
  <2>4. PICK p \in DOMAIN new : \E i \in DOMAIN new[p] : new[p][i] = old[q][j]
    BY <2>3
  <2> QED BY <2>2, <2>4
<1>10. Tile(new, blocks, S)
  BY <1>7, <1>8, <1>9 DEF Tile
<1> QED BY <1>10 DEF new, both

\* What is known of the blocks of a report.
BlockFacts(blocks) ==
  /\ IsList(blocks)
  /\ \A b \in DOMAIN blocks :
       blocks[b].words \in Seq(TextWords) /\ (Heading(blocks, b) => Len(blocks[b].words) <= Sizes.max_words)

\* Spans of a block that are short enough are groups of their own.
LEMMA PacksSpans ==
  ASSUME NEW blocks, BlockFacts(blocks), NEW b \in DOMAIN blocks, NEW spans,
         Chain(spans, 1, Len(blocks[b].words)),
         \A i \in DOMAIN spans : spans[i][2] - spans[i][1] + 1 <= Sizes.max_words,
         Heading(blocks, b) => Len(spans) = 1
  PROVE  Packs([i \in DOMAIN spans |-> <<[block |-> b, from |-> spans[i][1], to |-> spans[i][2]]>>], blocks, {b})
<1> DEFINE n == Len(spans)
           piece(i) == [block |-> b, from |-> spans[i][1], to |-> spans[i][2]]
           groups == [i \in DOMAIN spans |-> <<piece(i)>>]
           size == Len(blocks[b].words)
<1>1. spans \in Seq(Int \X Int) /\ n \in Nat /\ DOMAIN spans = 1 .. n
  BY DEF Chain
<1>2. /\ \A i \in 1 .. n : 1 <= spans[i][1] /\ spans[i][1] <= spans[i][2] /\ spans[i][2] <= size
      /\ \A i, j \in 1 .. n : i < j => spans[i][2] < spans[j][1]
      /\ \A w \in 1 .. size : \E i \in 1 .. n : w \in spans[i][1] .. spans[i][2]
  BY <1>1, ChainCovers
<1>3. \A i \in 1 .. n : spans[i][1] \in Int /\ spans[i][2] \in Int
  BY <1>1
<1>4. blocks[b].words \in Seq(TextWords) /\ DOMAIN blocks[b].words = 1 .. size
  BY DEF BlockFacts
<1> HIDE DEF n, size
<1>5. ASSUME NEW i \in 1 .. n
      PROVE  piece(i) \in Pieces(blocks) /\ PieceWords(piece(i)) <= Sizes.max_words
  <2>1. spans[i][1] \in Int /\ spans[i][2] \in Int /\ spans[i][2] - spans[i][1] + 1 <= Sizes.max_words
    BY <1>1, <1>3
  <2> QED BY <1>2, <2>1 DEF Pieces, PieceWords, size
<1>6. ASSUME NEW i \in 1 .. n PROVE <<piece(i)>> \in Groups(blocks)
  <2> DEFINE x == piece(i)
  <2>1. x \in Pieces(blocks) /\ PieceWords(x) <= Sizes.max_words
    BY <1>5
  <2> HIDE DEF x
  <2>2. GroupWords(<<x>>) <= Sizes.max_words
    BY <2>1, GroupOfOne
  <2>3. <<x>> \in Seq(Pieces(blocks)) /\ <<x>> # <<>> /\ \A k \in DOMAIN <<x>> : k = 1
    BY <2>1
  <2>4. <<x>> \in Groups(blocks)
    BY <2>2, <2>3 DEF Groups
  <2> QED BY <2>4 DEF x
<1>7. groups \in Seq(Groups(blocks)) /\ DOMAIN groups = 1 .. n
  <2>1. groups \in [1 .. n -> Groups(blocks)]
    BY <1>1, <1>6
  <2>2. DOMAIN groups = 1 .. n
    BY <1>1
  <2> HIDE DEF groups
  <2>3. groups \in Seq(Groups(blocks))
    BY <1>1, <2>1
  <2> QED BY <2>2, <2>3
<1>8. \A p \in 1 .. n : groups[p] = <<piece(p)>> /\ DOMAIN groups[p] = {1} /\ groups[p][1] = piece(p)
  <2>1. \A x : DOMAIN <<x>> = {1} /\ <<x>>[1] = x
    OBVIOUS
  <2>2. \A p \in 1 .. n : groups[p] = <<piece(p)>>
    BY <1>1
  <2> HIDE DEF groups, piece
  <2> QED BY <2>1, <2>2
<1> HIDE DEF groups
<1>9. Tile(groups, blocks, {b})
  <2>1. ASSUME NEW p \in DOMAIN groups, NEW i \in DOMAIN groups[p]
        PROVE  /\ groups[p][i].block \in {b} /\ 1 <= groups[p][i].from /\ groups[p][i].from <= groups[p][i].to
               /\ groups[p][i].to <= Len(blocks[groups[p][i].block].words)
    <3>1. p \in 1 .. n /\ groups[p][i] = piece(p)
      BY <1>7, <1>8
    <3> QED BY <1>2, <3>1 DEF size
  <2>2. ASSUME NEW p \in DOMAIN groups, NEW q \in DOMAIN groups, NEW i \in DOMAIN groups[p], NEW j \in DOMAIN groups[q],
               p < q \/ (p = q /\ i < j)
        PROVE  Precedes(groups[p][i], groups[q][j])
    <3>1. p \in 1 .. n /\ groups[p][i] = piece(p) /\ q \in 1 .. n /\ groups[q][j] = piece(q) /\ i = 1 /\ j = 1
      <4> HIDE DEF piece
      <4>1. p \in 1 .. n /\ q \in 1 .. n
        BY <1>7
      <4>2. i \in {1} /\ j \in {1}
        BY <1>8, <4>1
      <4> QED BY <1>8, <4>1, <4>2
    <3>2. p < q
      BY <2>2, <3>1
    <3> QED BY <1>2, <3>1, <3>2 DEF Precedes
  <2>3. ASSUME NEW w \in DOMAIN blocks[b].words
        PROVE  \E p \in DOMAIN groups : \E i \in DOMAIN groups[p] :
                 groups[p][i].block = b /\ w \in groups[p][i].from .. groups[p][i].to
    <3>1. PICK p \in 1 .. n : w \in spans[p][1] .. spans[p][2]
      BY <1>2, <1>4
    <3>2. p \in DOMAIN groups /\ 1 \in DOMAIN groups[p] /\ groups[p][1] = piece(p)
      BY <1>7, <1>8
    <3> QED BY <3>1, <3>2
  <2> QED BY <2>1, <2>2, <2>3 DEF Tile
<1>10. ASSUME NEW p \in DOMAIN groups, NEW i \in DOMAIN groups[p], Heading(blocks, groups[p][i].block)
       PROVE  p = 1 /\ i = 1
  <2>1. p \in 1 .. n /\ i = 1 /\ groups[p][i] = piece(p)
    <3> HIDE DEF piece
    <3>1. p \in 1 .. n
      BY <1>7
    <3>2. i \in {1}
      BY <1>8, <3>1
    <3> QED BY <1>8, <3>1, <3>2
  <2>2. n = 1
    BY <1>10, <2>1 DEF n
  <2> QED BY <2>1, <2>2
<1>11. Packs(groups, blocks, {b})
  BY <1>7, <1>9, <1>10 DEF Packs
<1> QED BY <1>11 DEF groups

\* Groups of later blocks, no heading among them or nothing before them.
LEMMA PacksJoin ==
  ASSUME NEW blocks, NEW C, NEW N, NEW S \in SUBSET Int, NEW T \in SUBSET Int,
         Packs(C, blocks, S), Packs(N, blocks, T), \A s \in S, t \in T : s < t,
         C = <<>> \/ \A t \in T : ~Heading(blocks, t)
  PROVE  Packs(C \o N, blocks, S \cup T)
<1> DEFINE m == Len(C)
           n == Len(N)
           all == C \o N
           G == Groups(blocks)
<1>0. C \in Seq(G) /\ N \in Seq(G) /\ Tile(C, blocks, S) /\ Tile(N, blocks, T)
  BY DEF Packs
<1>1. G \subseteq Seq(Pieces(blocks))
  BY DEF Groups
<1> HIDE DEF G
<1>2. /\ m \in Nat /\ n \in Nat /\ DOMAIN C = 1 .. m /\ DOMAIN N = 1 .. n /\ DOMAIN all = 1 .. m + n
      /\ \A p \in 1 .. m : all[p] = C[p]
      /\ \A p \in 1 .. n : all[m + p] = N[p]
      /\ all \in Seq(G)
      /\ m = 0 <=> C = <<>>
  BY <1>0
<1>3. Tile(all, blocks, S \cup T)
  <2>1. C \in Seq(Seq(Pieces(blocks))) /\ N \in Seq(Seq(Pieces(blocks)))
    BY <1>0, <1>1
  <2> QED BY <1>0, <2>1, TileJoin
<1> HIDE DEF m, n, all
<1>4. ASSUME NEW p \in DOMAIN all, NEW i \in DOMAIN all[p], Heading(blocks, all[p][i].block) PROVE p = 1 /\ i = 1
  <2>1. CASE p \in 1 .. m
    BY <1>2, <1>4, <2>1 DEF Packs
  <2>2. CASE p \notin 1 .. m
    <3>1. p - m \in 1 .. n /\ p = m + (p - m)
      BY <1>2, <2>2
    <3>2. all[p] = N[p - m]
      BY <1>2, <3>1
    <3>3. all[p][i].block \in T
      BY <1>0, <1>2, <3>1, <3>2 DEF Tile
    <3>4. m = 0
      BY <1>2, <1>4, <3>3
    <3>5. p - m = 1 /\ i = 1
      BY <1>2, <1>4, <3>1, <3>2 DEF Packs
    <3>6. p \in Int
      BY <1>2
    <3> QED BY <3>4, <3>5, <3>6
  <2> QED BY <2>1, <2>2
<1>5. Packs(all, blocks, S \cup T)
  BY <1>2, <1>3, <1>4 DEF Packs, G
<1> QED BY <1>5 DEF all

\* The last two groups made one.
LEMMA PacksMerge ==
  ASSUME NEW blocks, NEW S, NEW l \in Seq(Groups(blocks)), NEW g \in Groups(blocks), NEW h \in Groups(blocks),
         Packs(Append(Append(l, g), h), blocks, S), GroupWords(g) + GroupWords(h) <= Sizes.max_words
  PROVE  Packs(Append(l, g \o h), blocks, S)
<1> DEFINE m == Len(l)
           c == Len(g)
           old == Append(Append(l, g), h)
           both == g \o h
           new == Append(l, both)
           G == Groups(blocks)
           P == Pieces(blocks)
<1>0. g \in Seq(P) /\ h \in Seq(P) /\ G \subseteq Seq(P) /\ g # <<>>
  BY DEF Groups
<1>1. GroupWords(both) = GroupWords(g) + GroupWords(h)
  <2> HIDE DEF P
  <2>1. GroupWords(g \o h) = GroupWords(g) + GroupWords(h)
    BY <1>0, GroupsAdd DEF P
  <2> QED BY <2>1
<1> HIDE DEF P, G
<1>2. /\ both \in Seq(P) /\ both # <<>> /\ c \in Nat /\ DOMAIN g = 1 .. c /\ Len(h) \in Nat /\ DOMAIN h = 1 .. Len(h)
      /\ DOMAIN both = 1 .. c + Len(h)
      /\ \A i \in 1 .. c : both[i] = g[i]
      /\ \A i \in 1 .. Len(h) : both[c + i] = h[i]
  <2>1. /\ both \in Seq(P) /\ c \in Nat /\ DOMAIN g = 1 .. c /\ Len(h) \in Nat /\ DOMAIN h = 1 .. Len(h)
        /\ Len(both) = c + Len(h) /\ DOMAIN both = 1 .. c + Len(h)
        /\ \A i \in 1 .. c : both[i] = g[i]
        /\ \A i \in 1 .. Len(h) : both[c + i] = h[i]
        /\ c # 0
    BY <1>0
  <2> HIDE DEF both, c
  <2>2. both # <<>>
    <3>1. Len(both) # 0
      BY <2>1
    <3> QED BY <3>1
  <2> QED BY <2>1, <2>2
<1>3. /\ m \in Nat /\ DOMAIN l = 1 .. m /\ DOMAIN old = 1 .. m + 2 /\ \A p \in 1 .. m : old[p] = l[p] /\ l[p] \in G
      /\ old[m + 1] = g /\ old[m + 2] = h
  <2> DEFINE mid == Append(l, g)
  <2>1. l \in Seq(G) /\ g \in G /\ h \in G
    BY DEF G
  <2>2. mid \in Seq(G) /\ Len(mid) = m + 1 /\ m \in Nat /\ mid[m + 1] = g /\ \A p \in 1 .. m : mid[p] = l[p] /\ l[p] \in G
    BY <2>1
  <2> HIDE DEF mid, m
  <2>3. /\ Append(mid, h) \in Seq(G) /\ Len(Append(mid, h)) = (m + 1) + 1 /\ Append(mid, h)[(m + 1) + 1] = h
        /\ \A p \in 1 .. m + 1 : Append(mid, h)[p] = mid[p]
    BY <2>1, <2>2
  <2>4. (m + 1) + 1 = m + 2 /\ m + 1 \in 1 .. m + 1 /\ \A p \in 1 .. m : p \in 1 .. m + 1
    BY <2>2
  <2>5. DOMAIN Append(mid, h) = 1 .. m + 2
    BY <2>3, <2>4
  <2>6. DOMAIN l = 1 .. m
    BY <2>1 DEF m
  <2> QED BY <2>2, <2>3, <2>4, <2>5, <2>6 DEF mid
<1>4. ASSUME NEW p \in 1 .. m + 2, NEW i \in DOMAIN old[p], Heading(blocks, old[p][i].block) PROVE p = 1 /\ i = 1
  <2> HIDE DEF old
  <2> QED BY <1>3, <1>4 DEF Packs, old
<1> HIDE DEF both, c
<1>5. \A i \in DOMAIN both : Heading(blocks, both[i].block) => m = 0 /\ i = 1
  <2> SUFFICES ASSUME NEW i \in DOMAIN both, Heading(blocks, both[i].block) PROVE m = 0 /\ i = 1
    OBVIOUS
  <2> HIDE DEF old
  <2>1. CASE i \in 1 .. c
    <3>1. both[i] = old[m + 1][i] /\ i \in DOMAIN old[m + 1] /\ m + 1 \in 1 .. m + 2
      BY <1>2, <1>3, <2>1
    <3>2. m + 1 = 1 /\ i = 1
      BY <1>4, <3>1
    <3> QED BY <1>3, <3>2
  <2>2. CASE i \notin 1 .. c
    <3>1. i - c \in 1 .. Len(h) /\ i = c + (i - c)
      BY <1>2, <2>2
    <3>2. both[i] = old[m + 2][i - c] /\ i - c \in DOMAIN old[m + 2] /\ m + 2 \in 1 .. m + 2
      BY <1>2, <1>3, <3>1
    <3>3. m + 2 = 1
      BY <1>4, <3>2
    <3> QED BY <1>3, <3>3
  <2> QED BY <2>1, <2>2
<1>6. both \in G
  BY <1>1, <1>2, <1>5 DEF Groups, G, P
<1>7. new \in Seq(G) /\ DOMAIN new = 1 .. m + 1 /\ new[m + 1] = both /\ \A p \in 1 .. m : new[p] = l[p]
  <2>1. l \in Seq(G)
    BY DEF G
  <2> QED BY <1>6, <2>1
<1>8. Tile(new, blocks, S)
  <2>1. l \in Seq(Seq(P))
    BY <1>0 DEF G
  <2>2. Tile(old, blocks, S)
    BY DEF Packs
  <2> QED BY <1>0, <2>1, <2>2, TileMerge DEF both
<1> HIDE DEF new, old
<1>9. ASSUME NEW p \in DOMAIN new, NEW i \in DOMAIN new[p], Heading(blocks, new[p][i].block) PROVE p = 1 /\ i = 1
  <2>0. p \in 1 .. m + 1
    BY <1>7
  <2>1. CASE p \in 1 .. m
    <3>1. new[p] = old[p] /\ p \in 1 .. m + 2
      BY <1>3, <1>7, <2>1
    <3> QED BY <1>4, <1>9, <3>1
  <2>2. CASE p = m + 1
    <3>1. new[p] = both
      BY <1>7, <2>2
    <3>2. m = 0 /\ i = 1
      BY <1>5, <1>9, <3>1
    <3> QED BY <2>2, <3>2
  <2> QED BY <1>3, <2>0, <2>1, <2>2
<1>10. Packs(new, blocks, S)
  BY <1>7, <1>8, <1>9 DEF Packs, G
<1> QED BY <1>10 DEF new, both

\* One span or one word is a chain.
LEMMA ChainOfOne ==
  ASSUME NEW n \in Nat, n # 0
  PROVE  Chain(<<<<1, n>>>>, 1, n)
<1> DEFINE s == <<<<1, n>>>>
<1>1. s \in Seq(Int \X Int) /\ Len(s) = 1 /\ s[1] = <<1, n>> /\ DOMAIN s = {1} /\ s # <<>>
  OBVIOUS
<1> HIDE DEF s
<1>2. \A i \in DOMAIN s : s[i][1] <= s[i][2] /\ s[i][1] = IF i = 1 THEN 1 ELSE s[i - 1][2] + 1
  BY <1>1
<1>3. n = IF s = <<>> THEN 1 - 1 ELSE s[Len(s)][2]
  BY <1>1
<1>4. 1 \in Int /\ n \in Int
  OBVIOUS
<1>5. Chain(s, 1, n)
  BY <1>1, <1>2, <1>3, <1>4 DEF Chain
<1> QED BY <1>5 DEF s

\* A block put with what is packed: the groups hold its words after the others'.
LEMMA PackBlockKeeps ==
  ASSUME NEW blocks, BlockFacts(blocks), NEW S \in SUBSET Int, NEW b \in DOMAIN blocks,
         NEW acc \in [done : Seq(Groups(blocks)), open : {<<>>} \cup Groups(blocks)],
         Packs(Closed(acc), blocks, S), \A s \in S : s < b, blocks[b].words # <<>>,
         Heading(blocks, b) => Closed(acc) = <<>>
  PROVE  /\ PackBlock(blocks, acc, b) \in [done : Seq(Groups(blocks)), open : {<<>>} \cup Groups(blocks)]
         /\ Packs(Closed(PackBlock(blocks, acc, b)), blocks, S \cup {b})
<1> DEFINE G == Groups(blocks)
           next == PackBlock(blocks, acc, b)
           words == blocks[b].words
           size == Len(words)
           whole == [block |-> b, from |-> 1, to |-> size]
           joined == Append(acc.open, whole)
           spans == SplitBlock(words)
           cut == [i \in DOMAIN spans |-> <<[block |-> b, from |-> spans[i][1], to |-> spans[i][2]]>>]
           done == acc.done
           open == acc.open
<1>0. Sizes.max_words \in Nat \ {0}
  BY SizesTyped
<1>1. words \in Seq(TextWords) /\ size \in Nat /\ size # 0 /\ (Heading(blocks, b) => size <= Sizes.max_words) /\ b \in Int
  <2>1. words \in Seq(TextWords) /\ (Heading(blocks, b) => size <= Sizes.max_words) /\ DOMAIN blocks = 1 .. Len(blocks)
    BY DEF BlockFacts, IsList
  <2> HIDE DEF words
  <2>2. words # <<>>
    BY DEF words
  <2>3. size \in Nat /\ size # 0
    BY <2>1, <2>2
  <2> QED BY <2>1, <2>3 DEF words
<1>2. done \in Seq(G) /\ open \in {<<>>} \cup G /\ acc = [done |-> done, open |-> open]
  OBVIOUS
<1>3. S \in SUBSET Int /\ {b} \in SUBSET Int /\ \A s \in S, t \in {b} : s < t
  BY <1>1
<1>4. Closed(acc) = <<>> \/ \A t \in {b} : ~Heading(blocks, t)
  OBVIOUS
<1>5. <<>> \notin G
  BY DEF Groups
<1>6. next = IF size > Sizes.max_words THEN [done |-> Closed(acc) \o cut, open |-> <<>>]
             ELSE IF open # <<>> /\ GroupWords(joined) > Sizes.max_words THEN [done |-> Append(done, open), open |-> <<whole>>]
             ELSE IF GroupWords(joined) >= Sizes.target_words THEN [done |-> Append(done, joined), open |-> <<>>]
             ELSE [done |-> done, open |-> joined]
  <2>1. [acc EXCEPT !.open = joined] = [done |-> done, open |-> joined]
    <3> HIDE DEF joined
    <3> QED OBVIOUS
  <2>2. next = IF size > Sizes.max_words THEN [done |-> Closed(acc) \o cut, open |-> <<>>]
               ELSE IF open # <<>> /\ GroupWords(joined) > Sizes.max_words THEN [done |-> Append(done, open), open |-> <<whole>>]
               ELSE IF GroupWords(joined) >= Sizes.target_words THEN [done |-> Append(done, joined), open |-> <<>>]
               ELSE [acc EXCEPT !.open = joined]
    BY Zenon DEF PackBlock
  <2> QED BY <2>1, <2>2, Zenon
<1> HIDE DEF next, words, done, open
<1>7. CASE size > Sizes.max_words
  <2>1. SpansOf(words) = (1 .. size) \X (1 .. size)
    BY <1>1 DEF SpansOf
  <2> DEFINE sizes == [span \in SpansOf(words) |-> span[2] - span[1] + 1]
  <2>2. sizes \in [SpansOf(words) -> Int] /\ Sizes.max_words \in Int
    BY <1>0, <2>1
  <2>3. spans = Pack(words, sizes, Sizes.max_words)
    BY DEF SplitBlock
  <2> HIDE DEF sizes, spans
  <2>4. /\ Chain(spans, 1, size)
        /\ \A i \in DOMAIN spans : sizes[spans[i]] <= Sizes.max_words \/ spans[i][1] = spans[i][2]
    BY <1>1, <2>2, <2>3, PackChain
  <2>5. ASSUME NEW i \in DOMAIN spans PROVE spans[i][2] - spans[i][1] + 1 <= Sizes.max_words
    <3>1. spans[i] \in Int \X Int
      BY <2>4 DEF Chain
    <3>2. 1 <= spans[i][1] /\ spans[i][1] <= spans[i][2] /\ spans[i][2] <= size
      BY <2>4, ChainCovers
    <3>3. spans[i] \in SpansOf(words)
      BY <1>1, <2>1, <3>1, <3>2
    <3>4. sizes[spans[i]] = spans[i][2] - spans[i][1] + 1
      BY <3>3 DEF sizes
    <3> QED BY <1>0, <2>4, <3>1, <3>4
  <2>6. ~Heading(blocks, b)
    BY <1>0, <1>1, <1>7
  <2>7. Packs(cut, blocks, {b})
    BY <2>4, <2>5, <2>6, PacksSpans DEF size, words
  <2> HIDE DEF cut
  <2>8. Packs(Closed(acc) \o cut, blocks, S \cup {b})
    BY <1>3, <1>4, <2>7, PacksJoin
  <2>9. next = [done |-> Closed(acc) \o cut, open |-> <<>>]
    BY <1>6, <1>7
  <2>10. Closed(acc) \o cut \in Seq(G)
    BY <2>8 DEF Packs
  <2>11. Closed(next) = Closed(acc) \o cut
    BY <2>9 DEF Closed
  <2>12. next \in [done : Seq(G), open : {<<>>} \cup G]
    BY <2>9, <2>10
  <2> QED BY <2>8, <2>11, <2>12 DEF next
<1> HIDE DEF cut, spans
<1>8. CASE ~(size > Sizes.max_words)
  <2> DEFINE one == <<<<whole>>>>
  <2>1. Packs(one, blocks, {b})
    <3> DEFINE s == <<<<1, size>>>>
               built == [i \in DOMAIN s |-> <<[block |-> b, from |-> s[i][1], to |-> s[i][2]]>>]
    <3>1. Chain(s, 1, size)
      BY <1>1, ChainOfOne
    <3>2. Len(s) = 1 /\ DOMAIN s = {1} /\ s[1] = <<1, size>> /\ s[1][1] = 1 /\ s[1][2] = size
      OBVIOUS
    <3> HIDE DEF s
    <3>3. \A i \in DOMAIN s : s[i][2] - s[i][1] + 1 <= Sizes.max_words
      BY <1>0, <1>1, <1>8, <3>2
    <3>4. Packs(built, blocks, {b})
      BY <3>1, <3>2, <3>3, PacksSpans DEF size, words
    <3>5. built = one
      <4>1. DOMAIN one = {1} /\ one[1] = <<whole>>
        OBVIOUS
      <4>2. DOMAIN built = {1} /\ built[1] = <<whole>>
        BY <3>2
      <4>3. one = [i \in {1} |-> <<whole>>] /\ built = [i \in {1} |-> <<whole>>]
        BY <3>2
      <4> QED BY <4>3
    <3> QED BY <3>4, <3>5
  <2>2. Packs(Closed(acc) \o one, blocks, S \cup {b})
    <3> HIDE DEF one
    <3> QED BY <1>3, <1>4, <2>1, PacksJoin
  <2>3. <<whole>> \in G
    <3>1. one \in Seq(G)
      BY <2>1 DEF Packs
    <3>2. Len(one) = 1 /\ one[1] = <<whole>>
      OBVIOUS
    <3> HIDE DEF one, whole, G
    <3> QED BY <3>1, <3>2
  <2>4. whole \in Pieces(blocks) /\ <<whole>> \in Seq(Pieces(blocks))
    <3>1. <<whole>> \in Seq(Pieces(blocks)) /\ <<whole>>[1] = whole /\ Len(<<whole>>) = 1
      BY <2>3 DEF Groups
    <3> HIDE DEF whole
    <3> QED BY <3>1
  <2> HIDE DEF whole
  <2>5. CASE open = <<>>
    <3>1. joined = <<whole>> /\ Closed(acc) = done
      BY <2>5 DEF Closed, open, done
    <3>2. Closed(acc) \o one = Append(done, <<whole>>)
      <4>1. done \in Seq(G) /\ Closed(acc) = done
        BY <1>2, <3>1
      <4> QED BY <4>1
    <3>3. next = [done |-> Append(done, <<whole>>), open |-> <<>>] \/ next = [done |-> done, open |-> <<whole>>]
      <4> HIDE DEF joined
      <4> QED BY <1>6, <1>8, <2>5, <3>1
    <3>4. Closed(next) = Append(done, <<whole>>) /\ next \in [done : Seq(G), open : {<<>>} \cup G]
      <4>1. Append(done, <<whole>>) \in Seq(G) /\ done \in Seq(G) /\ <<whole>> # <<>>
        BY <1>2, <2>3
      <4> DEFINE more == Append(done, <<whole>>)
                 single == <<whole>>
      <4> HIDE DEF G, more, single
      <4>2. CASE next = [done |-> more, open |-> <<>>]
        <5>1. Closed(next) = more
          BY <4>2 DEF Closed
        <5> QED BY <4>1, <4>2, <5>1 DEF more
      <4>3. CASE next = [done |-> done, open |-> single]
        <5>1. Closed(next) = Append(done, single)
          BY <4>1, <4>3 DEF Closed, single
        <5> QED BY <2>3, <4>1, <4>3, <5>1 DEF single
      <4> QED BY <3>3, <4>2, <4>3 DEF more, single
    <3> QED BY <2>2, <3>2, <3>4 DEF next
  <2>6. CASE open # <<>>
    <3>1. Closed(acc) = Append(done, open) /\ open \in G
      BY <1>2, <2>6 DEF Closed, open, done
    <3> DEFINE single == <<whole>>
               old == Append(Append(done, open), single)
    <3>2. Closed(acc) \o one = old
      <4>1. Append(done, open) \in Seq(G)
        BY <1>2, <3>1
      <4>2. \A s \in Seq(G) : \A x : s \o <<x>> = Append(s, x)
        OBVIOUS
      <4> QED BY <3>1, <4>1, <4>2
    <3>3. open \in Seq(Pieces(blocks)) /\ joined = open \o single
      <4>1. open \in Seq(Pieces(blocks))
        BY <3>1 DEF Groups
      <4>2. \A s \in Seq(Pieces(blocks)) : \A x : s \o <<x>> = Append(s, x)
        OBVIOUS
      <4> QED BY <4>1, <4>2 DEF open
    <3>4. single \in G /\ single # <<>> /\ single \in Seq(Pieces(blocks))
      BY <2>3, <2>4
    <3> HIDE DEF single, joined
    <3>5. Packs(old, blocks, S \cup {b})
      BY <2>2, <3>2
    <3>6. CASE GroupWords(joined) > Sizes.max_words
      <4>1. next = [done |-> Append(done, open), open |-> single]
        BY <1>6, <1>8, <2>6, <3>6 DEF single
      <4>2. Closed(next) = old /\ next \in [done : Seq(G), open : {<<>>} \cup G]
        <5>1. Append(done, open) \in Seq(G)
          BY <1>2, <3>1
        <5> DEFINE front == Append(done, open)
        <5> HIDE DEF front, G
        <5>2. next = [done |-> front, open |-> single] /\ front \in Seq(G) /\ old = Append(front, single)
          BY <4>1, <5>1 DEF front
        <5>3. Closed(next) = Append(front, single)
          BY <3>4, <5>2 DEF Closed
        <5> QED BY <3>4, <5>2, <5>3
      <4> QED BY <3>5, <4>2 DEF next
    <3>7. CASE ~(GroupWords(joined) > Sizes.max_words)
      <4>1. GroupWords(joined) = GroupWords(open) + GroupWords(single) /\ GroupWords(joined) \in Int
        <5>1. /\ GroupWords(open \o single) = GroupWords(open) + GroupWords(single)
              /\ GroupWords(open) \in Int /\ GroupWords(single) \in Int
          BY <3>3, <3>4, GroupsAdd
        <5> QED BY <3>3, <5>1
      <4>2. GroupWords(open) + GroupWords(single) <= Sizes.max_words
        BY <1>0, <3>7, <4>1
      <4>3. Packs(Append(done, open \o single), blocks, S \cup {b})
        <5> HIDE DEF G
        <5> QED BY <1>2, <3>1, <3>4, <3>5, <4>2, PacksMerge DEF G
      <4>4. Append(done, joined) \in Seq(G) /\ joined \in G
        <5>1. Append(done, joined) \in Seq(G)
          BY <3>3, <4>3 DEF Packs
        <5>2. done \in Seq(G)
          BY <1>2
        <5> HIDE DEF G
        <5>3. Append(done, joined)[Len(done) + 1] = joined /\ Len(done) + 1 \in 1 .. Len(Append(done, joined))
          BY <5>2
        <5> DEFINE more == Append(done, joined)
        <5> HIDE DEF more
        <5>4. more[Len(done) + 1] \in G
          BY <5>1, <5>3 DEF more
        <5> QED BY <5>1, <5>3, <5>4 DEF more
      <4>5. joined # <<>>
        BY <1>5, <4>4
      <4>6. next = [done |-> Append(done, joined), open |-> <<>>] \/ next = [done |-> done, open |-> joined]
        BY <1>6, <1>8, <3>7
      <4>7. Closed(next) = Append(done, joined) /\ next \in [done : Seq(G), open : {<<>>} \cup G]
        <5> DEFINE more == Append(done, joined)
        <5> HIDE DEF G, more
        <5>1. CASE next = [done |-> more, open |-> <<>>]
          <6>1. Closed(next) = more
            BY <5>1 DEF Closed
          <6> QED BY <4>4, <5>1, <6>1 DEF more
        <5>2. CASE next = [done |-> done, open |-> joined]
          <6>1. Closed(next) = Append(done, joined)
            BY <4>5, <5>2 DEF Closed
          <6> QED BY <1>2, <4>4, <5>2, <6>1 DEF G
        <5> QED BY <4>6, <5>1, <5>2 DEF more
      <4> QED BY <3>3, <4>3, <4>7 DEF next
    <3> QED BY <3>6, <3>7
  <2> QED BY <2>5, <2>6
<1> QED BY <1>7, <1>8

\* A small last group is merged or stays.
LEMMA MergeKeeps ==
  ASSUME NEW blocks, NEW S, NEW groups, Packs(groups, blocks, S)
  PROVE  Packs(MergeTrailing(groups), blocks, S)
<1> DEFINE n == Len(groups)
           G == Groups(blocks)
           l == SubSeq(groups, 1, n - 2)
           g == groups[n - 1]
           h == groups[n]
<1>1. groups \in Seq(G) /\ n \in Nat
  BY DEF Packs
<1>2. CASE n > 1 /\ GroupWords(h) < Sizes.min_words /\ GroupWords(g) + GroupWords(h) <= Sizes.max_words
  <2>1. MergeTrailing(groups) = Append(l, g \o h)
    BY <1>2 DEF MergeTrailing
  <2>2. n - 2 \in Nat /\ n - 1 \in 1 .. n /\ n \in 1 .. n
    BY <1>1, <1>2
  <2> HIDE DEF G
  <2>3. g \in G /\ h \in G
    BY <1>1, <2>2
  <2>4. l \in Seq(G) /\ Len(l) = n - 2 /\ \A p \in 1 .. n - 2 : l[p] = groups[p]
    <3> HIDE DEF n
    <3>1. 1 \in Int /\ n - 2 \in Int /\ \A i \in 1 .. n - 2 : groups[i] \in G
      BY <1>1, <2>2 DEF n
    <3>2. /\ l \in Seq(G)
          /\ Len(l) = IF 1 <= n - 2 THEN n - 2 - 1 + 1 ELSE 0
          /\ \A i \in 1 .. n - 2 - 1 + 1 : l[i] = groups[1 + i - 1]
      BY <3>1, SubSeqProperties
    <3>3. \A i \in 1 .. n - 2 : i \in 1 .. n - 2 - 1 + 1 /\ 1 + i - 1 = i
      BY <1>1
    <3> QED BY <2>2, <3>2, <3>3
  <2> HIDE DEF l, g, h
  <2>5. groups = Append(Append(l, g), h)
    <3> DEFINE mid == Append(l, g)
    <3>1. mid \in Seq(G) /\ Len(mid) = (n - 2) + 1 /\ mid[(n - 2) + 1] = g /\ \A p \in 1 .. n - 2 : mid[p] = l[p]
      BY <2>3, <2>4
    <3>2. (n - 2) + 1 = n - 1 /\ (n - 1) + 1 = n
      BY <1>1
    <3> HIDE DEF mid, n
    <3>3. /\ Append(mid, h) \in Seq(G) /\ Len(Append(mid, h)) = n /\ Append(mid, h)[n] = h
          /\ \A p \in 1 .. n - 1 : Append(mid, h)[p] = mid[p]
      BY <2>3, <3>1, <3>2
    <3>4. ASSUME NEW p \in 1 .. n PROVE Append(mid, h)[p] = groups[p]
      <4>1. p \in 1 .. n - 2 \/ p = n - 1 \/ p = n
        BY <1>1
      <4>2. ASSUME p \in 1 .. n - 2 PROVE Append(mid, h)[p] = groups[p]
        <5>1. p \in 1 .. n - 1
          BY <1>1, <4>2
        <5> QED BY <2>4, <3>1, <3>3, <4>2, <5>1
      <4>3. ASSUME p = n - 1 PROVE Append(mid, h)[p] = groups[p]
        BY <2>2, <3>1, <3>2, <3>3, <4>3 DEF g
      <4>4. ASSUME p = n PROVE Append(mid, h)[p] = groups[p]
        BY <3>3, <4>4 DEF h
      <4> QED BY <4>1, <4>2, <4>3, <4>4
    <3> DEFINE more == Append(mid, h)
    <3>5. more \in Seq(G) /\ Len(more) = n /\ \A p \in 1 .. n : more[p] = groups[p]
      BY <3>3, <3>4
    <3> HIDE DEF more
    <3>6. more = groups
      BY <1>1, <3>5 DEF n
    <3> QED BY <3>6 DEF mid, more
  <2> QED BY <1>2, <2>1, <2>3, <2>4, <2>5, PacksMerge DEF G
<1>3. CASE ~(n > 1 /\ GroupWords(h) < Sizes.min_words /\ GroupWords(g) + GroupWords(h) <= Sizes.max_words)
  BY <1>3 DEF MergeTrailing
<1> QED BY <1>2, <1>3

\* The groups of a run hold the words of its blocks, a heading at their head.
LEMMA RunPacks ==
  ASSUME NEW blocks, BlockFacts(blocks), NEW run, run \subseteq Included(blocks),
         \A b \in run : Heading(blocks, b) => \A c \in run : b <= c
  PROVE  Packs(RunGroups(blocks, run), blocks, run)
<1> DEFINE order == Increasing(run)
           n == Cardinality(run)
           G == Groups(blocks)
           T == [done : Seq(G), open : {<<>>} \cup G]
           Upto(k) == { order[j] : j \in 1 .. k }
           Sound(acc, k) == Packs(Closed(acc), blocks, Upto(k))
           next(acc, i) == PackBlock(blocks, acc, order[i])
           Runs(f) == f = [k \in 0 .. n |-> IF k = 0 THEN Nothing ELSE next(f[k - 1], k)]
           after == CHOOSE f : Runs(f)
           step == [x \in T \X (1 .. n) |-> IF Sound(x[1], x[2] - 1) THEN next(x[1], x[2]) ELSE x[1]]
<1>0. IsFiniteSet(run) /\ run \in SUBSET Int /\ run \subseteq DOMAIN blocks
  <2>1. run \subseteq 1 .. Len(blocks) /\ Len(blocks) \in Int /\ DOMAIN blocks = 1 .. Len(blocks)
    BY DEF Included, BlockFacts, IsList
  <2>2. IsFiniteSet(1 .. Len(blocks))
    BY <2>1, FS_Interval
  <2>3. IsFiniteSet(run)
    BY <2>1, <2>2, FS_Subset
  <2> QED BY <2>1, <2>3
<1>1. /\ n \in Nat /\ order \in [1 .. n -> run]
      /\ \A i, j \in 1 .. n : i < j <=> order[i] < order[j]
      /\ \A i \in 1 .. n : Cardinality({ y \in run : y < order[i] }) = i - 1
  BY <1>0, IncreasingLists
<1>2. Len(order) = n
  BY <1>1
<1>3. Upto(n) = run
  BY <1>0, IncreasingAll
<1> HIDE DEF n, order
<1>4. ASSUME NEW acc \in T, NEW i \in 1 .. n, Sound(acc, i - 1) PROVE next(acc, i) \in T /\ Sound(next(acc, i), i)
  <2> DEFINE b == order[i]
             S == Upto(i - 1)
  <2>1. b \in DOMAIN blocks /\ b \in run /\ blocks[b].words # <<>>
    BY <1>0, <1>1 DEF Included
  <2>2. S \in SUBSET Int /\ (\A s \in S : s < b) /\ S \cup {b} = Upto(i)
    <3>1. \A j \in 1 .. i - 1 : j \in 1 .. n /\ j < i
      BY <1>1
    <3>2. \A j \in 1 .. i : j \in 1 .. i - 1 \/ j = i
      BY <1>1
    <3>3. \A j \in 1 .. i - 1 : j \in 1 .. i
      BY <1>1
    <3>4. i \in 1 .. i
      BY <1>1
    <3>5. \A s \in S : s \in run /\ s < b
      BY <1>1, <3>1
    <3>6. S \cup {b} = Upto(i)
      BY <3>2, <3>3, <3>4
    <3> QED BY <1>0, <3>5, <3>6
  <2>3. Heading(blocks, b) => Closed(acc) = <<>>
    <3> SUFFICES ASSUME Heading(blocks, b) PROVE Closed(acc) = <<>>
      OBVIOUS
    <3>1. \A c \in run : b <= c
      BY <2>1
    <3>2. S = {}
      <4> SUFFICES ASSUME NEW j \in 1 .. i - 1 PROVE FALSE
        OBVIOUS
      <4>1. j \in 1 .. n /\ j < i
        BY <1>1
      <4>2. order[j] \in run /\ order[j] < b
        BY <1>1, <4>1
      <4>3. b <= order[j] /\ b \in Int /\ order[j] \in Int
        BY <1>0, <2>1, <3>1, <4>2
      <4> QED BY <4>2, <4>3
    <3>3. Packs(Closed(acc), blocks, {})
      BY <1>4, <3>2
    <3> DEFINE C == Closed(acc)
    <3> HIDE DEF C
    <3>4. C \in Seq(G) /\ Tile(C, blocks, {})
      BY <3>3 DEF Packs, C
    <3>5. C = <<>>
      <4> SUFFICES ASSUME C # <<>> PROVE FALSE
        OBVIOUS
      <4>1. 1 \in DOMAIN C /\ C[1] \in G
        BY <3>4
      <4>2. C[1] \in Seq(Pieces(blocks)) /\ C[1] # <<>>
        BY <4>1 DEF Groups
      <4>3. 1 \in DOMAIN C[1]
        BY <4>2
      <4> QED BY <3>4, <4>1, <4>3 DEF Tile
    <3> QED BY <3>5 DEF C
  <2> HIDE DEF b, S
  <2>4. Packs(Closed(acc), blocks, S)
    BY <1>4 DEF S
  <2>5. PackBlock(blocks, acc, b) \in T /\ Packs(Closed(PackBlock(blocks, acc, b)), blocks, S \cup {b})
    BY <2>1, <2>2, <2>3, <2>4, PackBlockKeeps
  <2>6. next(acc, i) = PackBlock(blocks, acc, b)
    BY DEF b
  <2> HIDE DEF Upto
  <2> QED BY <2>2, <2>5, <2>6
<1> HIDE DEF next
<1>5. Nothing \in T /\ Sound(Nothing, 0)
  <2>1. Upto(0) = {}
    BY <1>1
  <2>2. <<>> \in Seq(G) /\ DOMAIN <<>> = {} /\ Nothing = [done |-> <<>>, open |-> <<>>] /\ Closed(Nothing) = <<>>
    BY DEF Nothing, Closed
  <2>3. Packs(<<>>, blocks, {})
    BY <2>2 DEF Packs, Tile
  <2> HIDE DEF Upto
  <2> QED BY <2>1, <2>2, <2>3
<1> HIDE DEF Sound
<1>6. step \in [T \X (1 .. n) -> T]
  BY <1>4
<1>7. PICK f \in [0 .. n -> T] : Iterates(f, Nothing, step, n)
  <2> HIDE DEF step, T
  <2> QED BY <1>1, <1>5, <1>6, IterationExists
<1> HIDE DEF T
<1>8. ASSUME NEW i \in 1 .. n, Sound(f[i - 1], i - 1)
      PROVE  f[i] = next(f[i - 1], i) /\ Sound(f[i], i)
  <2>1. i - 1 \in 0 .. n
    BY <1>1
  <2>2. f[i] = step[<<f[i - 1], i>>] /\ f[i - 1] \in T
    BY <1>7, <2>1 DEF Iterates
  <2>3. f[i] = next(f[i - 1], i)
    BY <1>8, <2>2
  <2> QED BY <1>4, <1>8, <2>2, <2>3
<1>9. \A i \in 0 .. n : Sound(f[i], i)
  <2> DEFINE S == { i \in 0 .. n : Sound(f[i], i) }
  <2>1. 0 \in S
    BY <1>1, <1>5, <1>7 DEF Iterates
  <2>2. ASSUME NEW i \in 1 .. n, i - 1 \in S PROVE i \in S
    BY <1>8, <2>2
  <2>3. 0 .. n \subseteq S
    <3> HIDE DEF S
    <3> QED BY <1>1, <2>1, <2>2, UpTo
  <2> QED BY <2>3
<1>10. Runs(f)
  <2>1. \A i \in 0 .. n : f[i] = IF i = 0 THEN Nothing ELSE next(f[i - 1], i)
    <3> SUFFICES ASSUME NEW i \in 0 .. n, i # 0 PROVE f[i] = next(f[i - 1], i)
      BY <1>7 DEF Iterates
    <3>1. i \in 1 .. n /\ i - 1 \in 0 .. n
      BY <1>1
    <3> QED BY <1>8, <1>9, <3>1
  <2> HIDE DEF step
  <2> QED BY <1>7, <2>1
<1>11. Runs(after)
  BY <1>10
<1>12. RunGroups(blocks, run) = MergeTrailing(Closed(after[n]))
  BY <1>2 DEF RunGroups, next, order
<1> HIDE DEF after, step
<1>13. \A i \in 0 .. n : after[i] = IF i = 0 THEN Nothing ELSE next(after[i - 1], i)
  BY <1>11
<1>14. \A i \in 0 .. n : after[i] \in T /\ Sound(after[i], i)
  <2> DEFINE S == { i \in 0 .. n : after[i] \in T /\ Sound(after[i], i) }
  <2>1. 0 \in S
    BY <1>1, <1>5, <1>13
  <2>2. ASSUME NEW i \in 1 .. n, i - 1 \in S PROVE i \in S
    <3>1. i \in 0 .. n /\ i # 0
      BY <1>1
    <3>2. after[i] = next(after[i - 1], i)
      BY <1>13, <3>1
    <3> QED BY <1>4, <2>2, <3>1, <3>2
  <2>3. 0 .. n \subseteq S
    <3> HIDE DEF S
    <3> QED BY <1>1, <2>1, <2>2, UpTo
  <2> QED BY <2>3
<1>15. Packs(Closed(after[n]), blocks, run)
  <2>1. Sound(after[n], n)
    BY <1>1, <1>14
  <2> HIDE DEF Upto
  <2> QED BY <1>3, <2>1 DEF Sound
<1> QED BY <1>12, <1>15, MergeKeeps

-----------------------------------------------------------------------------
(* Segmentation                                                             *)

\* A passage has the words of its pieces, no more than a passage may have.
LEMMA PassageText ==
  ASSUME NEW blocks, BlockFacts(blocks), NEW g \in Groups(blocks), NEW headed
  PROVE  /\ Passage(blocks, g, headed).pieces = g
         /\ Passage(blocks, g, headed).text \in Seq(TextWords)
         /\ Len(Passage(blocks, g, headed).text) = GroupWords(g)
<1> DEFINE n == Len(g)
           lists == [i \in DOMAIN g |-> SubSeq(blocks[g[i].block].words, g[i].from, g[i].to)]
           sizes == [i \in DOMAIN g |-> PieceWords(g[i])]
<1>1. g \in Seq(Pieces(blocks)) /\ g # <<>>
  BY DEF Groups
<1>2. n \in Nat /\ n # 0 /\ DOMAIN g = 1 .. n
  BY <1>1
<1>3. ASSUME NEW i \in 1 .. n
      PROVE  lists[i] \in Seq(TextWords) /\ Len(lists[i]) = sizes[i] /\ sizes[i] \in Int
  <2> DEFINE words == blocks[g[i].block].words
             from == g[i].from
             to == g[i].to
  <2>1. g[i] \in Pieces(blocks)
    BY <1>1, <1>2
  <2>2. g[i].block \in DOMAIN blocks /\ from \in Int /\ to \in Int /\ 1 <= from /\ from <= to /\ to <= Len(words)
    BY <2>1 DEF Pieces
  <2>3. words \in Seq(TextWords) /\ Len(words) \in Nat
    BY <2>2 DEF BlockFacts
  <2>4. lists[i] = SubSeq(words, from, to) /\ sizes[i] = PieceWords(g[i]) /\ PieceWords(g[i]) = to - from + 1
    BY <1>2 DEF PieceWords
  <2> HIDE DEF words, from, to, lists, sizes
  <2>5. \A k \in from .. to : words[k] \in TextWords
    BY <2>2, <2>3
  <2>6. SubSeq(words, from, to) \in Seq(TextWords) /\ Len(SubSeq(words, from, to)) = IF from <= to THEN to - from + 1 ELSE 0
    BY <2>2, <2>5, SubSeqProperties
  <2> QED BY <2>2, <2>4, <2>6
<1>4. lists \in [1 .. n -> Seq(TextWords)] /\ sizes \in [1 .. n -> Int]
  <2>1. lists = [i \in 1 .. n |-> lists[i]] /\ sizes = [i \in 1 .. n |-> sizes[i]]
    BY <1>2
  <2> HIDE DEF lists, sizes
  <2> QED BY <1>3, <2>1
<1>5. /\ Passage(blocks, g, headed).pieces = g
      /\ Passage(blocks, g, headed).text = FlattenSeq(lists)
  BY DEF Passage
<1>6. GroupWords(g) = Total(sizes)
  BY DEF GroupWords
<1> HIDE DEF n, lists, sizes
<1>7. PICK f \in [1 .. n -> Seq(TextWords)] : Flattens(f, lists, n) /\ FlattenSeq(lists) = f[n]
  BY <1>2, <1>4, FlattenSteps
<1>8. PICK h \in [0 .. n -> Int] :
        h[0] = 0 /\ (\A i \in 1 .. n : h[i] = h[i - 1] + sizes[i]) /\ Total(sizes) = h[n]
  BY <1>2, <1>4, TotalSteps
<1> DEFINE S == { i \in 0 .. n : i # 0 => Len(f[i]) = h[i] }
<1>9. n \in S
  <2>1. 0 \in S
    BY <1>2
  <2>2. ASSUME NEW i \in 1 .. n, i - 1 \in S PROVE i \in S
    <3>1. h[i] = h[i - 1] + sizes[i] /\ h[i - 1] \in Int /\ sizes[i] \in Int /\ Len(lists[i]) = sizes[i]
      BY <1>2, <1>3, <1>8
    <3>2. CASE i = 1
      <4>1. f[i] = lists[i] /\ h[i - 1] = 0
        BY <1>7, <1>8, <3>2 DEF Flattens
      <4>2. Len(f[i]) = sizes[i] /\ h[i] = sizes[i]
        BY <3>1, <4>1
      <4> QED BY <1>2, <4>2
    <3>3. CASE i # 1
      <4>1. i \in 2 .. n /\ i - 1 \in 1 .. n
        BY <1>2, <3>3
      <4>2. f[i] = f[i - 1] \o lists[i] /\ f[i - 1] \in Seq(TextWords) /\ lists[i] \in Seq(TextWords)
        BY <1>3, <1>7, <4>1 DEF Flattens
      <4>3. Len(f[i]) = Len(f[i - 1]) + Len(lists[i])
        BY <4>2
      <4>4. Len(f[i - 1]) = h[i - 1]
        BY <2>2, <4>1
      <4> QED BY <1>2, <3>1, <4>3, <4>4
    <3> QED BY <3>2, <3>3
  <2>3. 0 .. n \subseteq S
    <3> HIDE DEF S
    <3> QED BY <1>2, <2>1, <2>2, UpTo
  <2> QED BY <1>2, <2>3
<1>10. f[n] \in Seq(TextWords) /\ Len(f[n]) = h[n]
  BY <1>2, <1>9
<1> QED BY <1>5, <1>6, <1>7, <1>8, <1>10

\* The passages of a report and the pieces they are made of.
PassagesOf(blocks) == { Passage(blocks, g, headed) : g \in Groups(blocks), headed \in BOOLEAN }
PiecesOf(passages) == [p \in DOMAIN passages |-> passages[p].pieces]

\* A passage is a group, its text no longer than the maximum.
LEMMA PassageFacts ==
  ASSUME NEW blocks, BlockFacts(blocks), NEW x \in PassagesOf(blocks)
  PROVE  /\ x.pieces \in Groups(blocks)
         /\ x.text \in Seq(TextWords)
         /\ Len(x.text) <= Sizes.max_words
<1>1. PICK g \in Groups(blocks), headed \in BOOLEAN : x = Passage(blocks, g, headed)
  BY DEF PassagesOf
<1>2. GroupWords(g) <= Sizes.max_words
  BY DEF Groups
<1> QED BY <1>1, <1>2, PassageText

\* The pieces of one list of passages after another.
LEMMA PiecesJoin ==
  ASSUME NEW blocks, BlockFacts(blocks), NEW a \in Seq(PassagesOf(blocks)), NEW b \in Seq(PassagesOf(blocks))
  PROVE  /\ PiecesOf(a) \in Seq(Seq(Pieces(blocks))) /\ PiecesOf(b) \in Seq(Seq(Pieces(blocks)))
         /\ PiecesOf(a \o b) = PiecesOf(a) \o PiecesOf(b)
<1> DEFINE P == Seq(Pieces(blocks))
           K == PassagesOf(blocks)
<1>1. \A x \in K : x.pieces \in P
  BY PassageFacts DEF Groups
<1> HIDE DEF P, K
<1>2. a \in Seq(K) /\ b \in Seq(K) /\ a \o b \in Seq(K)
  <2>1. a \in Seq(K) /\ b \in Seq(K)
    BY DEF K
  <2> QED BY <2>1
<1>3. \A s \in Seq(K) : PiecesOf(s) \in Seq(P) /\ Len(PiecesOf(s)) = Len(s) /\ \A p \in 1 .. Len(s) : PiecesOf(s)[p] = s[p].pieces
  <2> SUFFICES ASSUME NEW s \in Seq(K)
               PROVE  PiecesOf(s) \in Seq(P) /\ Len(PiecesOf(s)) = Len(s) /\ \A p \in 1 .. Len(s) : PiecesOf(s)[p] = s[p].pieces
    OBVIOUS
  <2> DEFINE t == PiecesOf(s)
  <2>1. DOMAIN s = 1 .. Len(s) /\ Len(s) \in Nat /\ \A p \in 1 .. Len(s) : s[p] \in K
    OBVIOUS
  <2>2. t \in [1 .. Len(s) -> P] /\ \A p \in 1 .. Len(s) : t[p] = s[p].pieces
    BY <1>1, <2>1 DEF PiecesOf
  <2> HIDE DEF t
  <2>3. t \in Seq(P) /\ Len(t) = Len(s)
    BY <2>1, <2>2
  <2> QED BY <2>2, <2>3 DEF t
<1> DEFINE x == PiecesOf(a \o b)
           y == PiecesOf(a)
           z == PiecesOf(b)
<1>4. /\ x \in Seq(P) /\ Len(x) = Len(a \o b) /\ \A p \in 1 .. Len(a \o b) : x[p] = (a \o b)[p].pieces
      /\ y \in Seq(P) /\ Len(y) = Len(a) /\ \A p \in 1 .. Len(a) : y[p] = a[p].pieces
      /\ z \in Seq(P) /\ Len(z) = Len(b) /\ \A p \in 1 .. Len(b) : z[p] = b[p].pieces
  BY <1>2, <1>3
<1> HIDE DEF x, y, z
<1>5. /\ Len(a) \in Nat /\ Len(b) \in Nat /\ Len(a \o b) = Len(a) + Len(b)
      /\ \A p \in 1 .. Len(a) : (a \o b)[p] = a[p]
      /\ \A p \in 1 .. Len(b) : (a \o b)[Len(a) + p] = b[p]
  BY <1>2
<1>6. /\ y \o z \in Seq(P) /\ Len(y \o z) = Len(a) + Len(b)
      /\ \A p \in 1 .. Len(a) : (y \o z)[p] = y[p]
      /\ \A p \in 1 .. Len(b) : (y \o z)[Len(a) + p] = z[p]
  <2>1. y \in Seq(P) /\ z \in Seq(P) /\ Len(y) = Len(a) /\ Len(z) = Len(b)
    BY <1>4
  <2>2. /\ y \o z \in Seq(P) /\ Len(y \o z) = Len(y) + Len(z)
        /\ \A p \in 1 .. Len(y) : (y \o z)[p] = y[p]
        /\ \A p \in 1 .. Len(z) : (y \o z)[Len(y) + p] = z[p]
    <3>1. \A s, t \in Seq(P) : /\ s \o t \in Seq(P) /\ Len(s \o t) = Len(s) + Len(t)
                               /\ \A p \in 1 .. Len(s) : (s \o t)[p] = s[p]
                               /\ \A p \in 1 .. Len(t) : (s \o t)[Len(s) + p] = t[p]
      OBVIOUS
    <3> QED BY <2>1, <3>1
  <2> QED BY <2>1, <2>2
<1> DEFINE yz == y \o z
<1>7. ASSUME NEW p \in 1 .. Len(a) + Len(b) PROVE x[p] = yz[p]
  <2>1. CASE p \in 1 .. Len(a)
    BY <1>4, <1>5, <1>6, <2>1
  <2>2. CASE p \notin 1 .. Len(a)
    <3>1. p - Len(a) \in 1 .. Len(b) /\ p = Len(a) + (p - Len(a))
      BY <1>5, <2>2
    <3>2. (a \o b)[p] = b[p - Len(a)] /\ yz[p] = z[p - Len(a)]
      BY <1>5, <1>6, <3>1
    <3> QED BY <1>4, <1>5, <3>1, <3>2
  <2> QED BY <2>1, <2>2
<1>8. x = yz
  <2>1. yz \in Seq(P) /\ Len(yz) = Len(a) + Len(b)
    BY <1>6
  <2> HIDE DEF yz
  <2> QED BY <1>4, <1>5, <1>7, <2>1
<1> QED BY <1>4, <1>8 DEF x, y, z, P

\* The runs divide the included blocks, in their order, and a heading starts its run.
LEMMA RunsDivide ==
  ASSUME NEW blocks, BlockFacts(blocks), Included(blocks) # {}
  PROVE  \E n \in Nat :
           /\ n # 0 /\ DOMAIN HeadingRuns(blocks) = 1 .. n
           /\ \A r \in 1 .. n : /\ HeadingRuns(blocks)[r] \subseteq Included(blocks)
                                /\ \A b \in HeadingRuns(blocks)[r] :
                                     Heading(blocks, b) => \A c \in HeadingRuns(blocks)[r] : b <= c
           /\ \A r, q \in 1 .. n : r < q => \A b \in HeadingRuns(blocks)[r], c \in HeadingRuns(blocks)[q] : b < c
           /\ UNION { HeadingRuns(blocks)[r] : r \in 1 .. n } = Included(blocks)
<1> DEFINE I == Included(blocks)
           least == Min(I)
           starts == { b \in I : blocks[b].type = "HEADING_CANDIDATE" \/ b = least }
           first == Increasing(starts)
           n == Cardinality(starts)
           Run(a) == { b \in I : b >= a /\ \A t \in starts : t > a => b < t }
           runs == [r \in DOMAIN first |-> Run(first[r])]
<1>1. I \in SUBSET Int /\ IsFiniteSet(I)
  <2>1. I \subseteq 1 .. Len(blocks) /\ Len(blocks) \in Int
    BY DEF Included, BlockFacts, IsList
  <2>2. IsFiniteSet(1 .. Len(blocks))
    BY <2>1, FS_Interval
  <2>3. IsFiniteSet(I)
    BY <2>1, <2>2, FS_Subset
  <2> QED BY <2>1, <2>3
<1>2. HeadingRuns(blocks) = runs
  BY Zenon DEF HeadingRuns
<1> HIDE DEF I
<1>3. least \in I /\ \A y \in I : least <= y
  BY <1>1, MinExists DEF I
<1> HIDE DEF least
<1>4. starts \in SUBSET I /\ starts \in SUBSET Int /\ IsFiniteSet(starts) /\ least \in starts
  <2>1. starts \subseteq I /\ least \in starts
    BY <1>3
  <2> HIDE DEF starts
  <2>2. IsFiniteSet(starts)
    BY <1>1, <2>1, FS_Subset
  <2> QED BY <1>1, <2>1, <2>2
<1>5. \A b \in I : Heading(blocks, b) => b \in starts
  BY DEF Heading
<1> HIDE DEF starts
<1>6. /\ n \in Nat /\ first \in [1 .. n -> starts]
      /\ \A i, j \in 1 .. n : i < j <=> first[i] < first[j]
  BY <1>4, IncreasingLists
<1>7. { first[i] : i \in 1 .. n } = starts
  BY <1>4, IncreasingAll
<1> HIDE DEF n, first
<1>8. n # 0
  <2>1. PICK i \in 1 .. n : first[i] = least
    BY <1>4, <1>7
  <2> QED BY <1>6, <2>1
<1>9. DOMAIN runs = 1 .. n /\ \A r \in 1 .. n : runs[r] = Run(first[r])
  BY <1>6
<1>10. ASSUME NEW r \in 1 .. n
       PROVE  /\ runs[r] \subseteq I
              /\ \A b \in runs[r] : Heading(blocks, b) => \A c \in runs[r] : b <= c
  <2>1. runs[r] = Run(first[r]) /\ first[r] \in Int
    BY <1>4, <1>6, <1>9
  <2>2. runs[r] \subseteq I
    BY <2>1
  <2>3. ASSUME NEW b \in runs[r], Heading(blocks, b), NEW c \in runs[r] PROVE b <= c
    <3>1. b \in I /\ b \in Int /\ c \in Int /\ b >= first[r] /\ c >= first[r] /\ \A t \in starts : t > first[r] => b < t
      BY <1>1, <2>1
    <3>2. b \in starts
      BY <1>5, <2>3, <3>1
    <3>3. ~(b > first[r])
      BY <3>1, <3>2
    <3> QED BY <2>1, <3>1, <3>3
  <2> QED BY <2>2, <2>3
<1>11. ASSUME NEW r \in 1 .. n, NEW q \in 1 .. n, r < q, NEW b \in runs[r], NEW c \in runs[q] PROVE b < c
  <2>1. first[r] < first[q] /\ first[q] \in starts /\ first[q] \in Int /\ first[r] \in Int
    BY <1>4, <1>6, <1>11
  <2>2. b \in Int /\ c \in Int /\ c >= first[q] /\ \A t \in starts : t > first[r] => b < t
    BY <1>1, <1>9
  <2>3. b < first[q]
    BY <2>1, <2>2
  <2> QED BY <2>1, <2>2, <2>3
<1>12. ASSUME NEW b \in I PROVE \E r \in 1 .. n : b \in runs[r]
  <2> DEFINE before == { t \in starts : t <= b }
  <2>1. before \in SUBSET Int /\ before \subseteq starts /\ least \in before
    BY <1>3, <1>4
  <2> HIDE DEF before
  <2>2. IsFiniteSet(before)
    BY <1>4, <2>1, FS_Subset
  <2>3. Max(before) \in before /\ \A y \in before : y <= Max(before)
    BY <2>1, <2>2, MaxExists
  <2>4. PICK r \in 1 .. n : first[r] = Max(before)
    BY <1>7, <2>1, <2>3
  <2>5. first[r] \in before /\ \A y \in before : y <= first[r]
    BY <2>3, <2>4
  <2>6. b \in Int /\ first[r] \in Int /\ first[r] <= b
    BY <1>1, <2>1, <2>5 DEF before
  <2>7. ASSUME NEW t \in starts, t > first[r] PROVE b < t
    <3>1. t \in Int
      BY <1>4
    <3>2. t \notin before
      BY <2>5, <2>6, <2>7, <3>1
    <3> QED BY <2>6, <3>1, <3>2 DEF before
  <2>8. b \in Run(first[r])
    BY <2>6, <2>7
  <2> QED BY <1>9, <2>8
<1> HIDE DEF runs
<1>13. UNION { runs[r] : r \in 1 .. n } = I
  BY <1>10, <1>12
<1> QED BY <1>2, <1>6, <1>8, <1>9, <1>10, <1>11, <1>13 DEF I

\* The passages of a run have the groups of the run for pieces.
LEMMA RunPassagesAre ==
  ASSUME NEW blocks, BlockFacts(blocks), NEW run, Packs(RunGroups(blocks, run), blocks, run)
  PROVE  /\ RunPassages(blocks, run) \in Seq(PassagesOf(blocks))
         /\ PiecesOf(RunPassages(blocks, run)) = RunGroups(blocks, run)
<1> DEFINE groups == RunGroups(blocks, run)
           heading == blocks[Min(run)].type = "HEADING_CANDIDATE"
           s == [i \in DOMAIN groups |-> Passage(blocks, groups[i], heading /\ i = 1)]
           K == PassagesOf(blocks)
<1>1. groups \in Seq(Groups(blocks))
  BY DEF Packs
<1>2. RunPassages(blocks, run) = s
  BY DEF RunPassages
<1> HIDE DEF groups
<1>3. ASSUME NEW i \in DOMAIN groups PROVE s[i] \in K /\ s[i].pieces = groups[i]
  <2>1. groups[i] \in Groups(blocks)
    BY <1>1
  <2>2. s[i] = Passage(blocks, groups[i], heading /\ i = 1)
    OBVIOUS
  <2>3. (heading /\ i = 1) \in BOOLEAN
    BY Zenon
  <2> DEFINE headed == heading /\ i = 1
  <2> HIDE DEF s, headed, heading
  <2>4. s[i] = Passage(blocks, groups[i], headed) /\ headed \in BOOLEAN
    BY <2>2, <2>3, Zenon DEF headed
  <2>5. Passage(blocks, groups[i], headed) \in K
    <3>1. \A g \in Groups(blocks), x \in BOOLEAN : Passage(blocks, g, x) \in K
      BY DEF PassagesOf
    <3> QED BY <2>1, <2>4, <3>1, Zenon
  <2>6. Passage(blocks, groups[i], headed).pieces = groups[i]
    BY <2>1, PassageText
  <2> QED BY <2>4, <2>5, <2>6
<1>4. DOMAIN s = DOMAIN groups /\ DOMAIN groups = 1 .. Len(groups) /\ Len(groups) \in Nat
  BY <1>1
<1>5. s = [i \in 1 .. Len(groups) |-> s[i]]
  BY <1>4
<1> HIDE DEF s, K
<1>6. s \in Seq(K)
  <2>1. s \in [1 .. Len(groups) -> K]
    BY <1>3, <1>4, <1>5
  <2> QED BY <1>4, <2>1
<1>7. PiecesOf(s) = groups
  <2>1. PiecesOf(s) = [i \in 1 .. Len(groups) |-> groups[i]]
    BY <1>3, <1>4 DEF PiecesOf
  <2>2. groups = [i \in 1 .. Len(groups) |-> groups[i]]
    BY <1>1
  <2> QED BY <2>1, <2>2
<1> QED BY <1>2, <1>6, <1>7 DEF groups, K

\* A report's passages are made of groups that hold the words of its included blocks.
LEMMA Segments ==
  ASSUME NEW blocks, BlockFacts(blocks)
  PROVE  /\ Segment(blocks) \in Seq(PassagesOf(blocks))
         /\ Tile(PiecesOf(Segment(blocks)), blocks, Included(blocks))
<1> DEFINE I == Included(blocks)
           K == PassagesOf(blocks)
           runs == HeadingRuns(blocks)
           lists == [r \in DOMAIN runs |-> RunPassages(blocks, runs[r])]
<1>1. CASE I = {}
  <2>1. Segment(blocks) = <<>>
    BY <1>1 DEF Segment
  <2>2. <<>> \in Seq(K) /\ DOMAIN PiecesOf(<<>>) = {}
    BY DEF PiecesOf
  <2>3. Tile(PiecesOf(<<>>), blocks, {})
    BY <2>2 DEF Tile
  <2> QED BY <1>1, <2>1, <2>2, <2>3
<1>2. CASE I # {}
  <2>1. Segment(blocks) = FlattenSeq(lists)
    BY <1>2 DEF Segment
  <2>2. PICK n \in Nat :
          /\ n # 0 /\ DOMAIN runs = 1 .. n
          /\ \A r \in 1 .. n : /\ runs[r] \subseteq I
                               /\ \A b \in runs[r] : Heading(blocks, b) => \A c \in runs[r] : b <= c
          /\ \A r, q \in 1 .. n : r < q => \A b \in runs[r], c \in runs[q] : b < c
          /\ UNION { runs[r] : r \in 1 .. n } = I
    BY <1>2, RunsDivide
  <2> HIDE DEF runs
  <2>3. ASSUME NEW r \in 1 .. n
        PROVE  /\ lists[r] \in Seq(K) /\ Tile(PiecesOf(lists[r]), blocks, runs[r])
               /\ runs[r] \in SUBSET Int
    <3> DEFINE run == runs[r]
    <3>1. run \subseteq I /\ \A b \in run : Heading(blocks, b) => \A c \in run : b <= c
      BY <2>2
    <3>2. lists[r] = RunPassages(blocks, run)
      BY <2>2
    <3> HIDE DEF run, lists
    <3>3. Packs(RunGroups(blocks, run), blocks, run)
      BY <3>1, RunPacks
    <3>4. RunPassages(blocks, run) \in Seq(K) /\ PiecesOf(RunPassages(blocks, run)) = RunGroups(blocks, run)
      BY <3>3, RunPassagesAre
    <3>5. Tile(RunGroups(blocks, run), blocks, run)
      BY <3>3 DEF Packs
    <3>6. run \in SUBSET Int
      <4>1. DOMAIN blocks \subseteq Int
        BY DEF BlockFacts, IsList
      <4> QED BY <3>1, <4>1 DEF Included
    <3> QED BY <3>2, <3>4, <3>5, <3>6 DEF run
  <2>4. lists \in [1 .. n -> Seq(K)]
    <3>1. lists = [r \in 1 .. n |-> lists[r]]
      BY <2>2
    <3> HIDE DEF lists
    <3> QED BY <2>3, <3>1
  <2> HIDE DEF lists, K
  <2>5. PICK f \in [1 .. n -> Seq(K)] : Flattens(f, lists, n) /\ FlattenSeq(lists) = f[n]
    BY <2>2, <2>4, FlattenSteps
  <2> DEFINE Upto(i) == UNION { runs[r] : r \in 1 .. i }
             S == { i \in 0 .. n : i # 0 => Tile(PiecesOf(f[i]), blocks, Upto(i)) }
  <2>6. n \in S
    <3>1. 0 \in S
      OBVIOUS
    <3>2. ASSUME NEW i \in 1 .. n, i - 1 \in S PROVE i \in S
      <4>1. CASE i = 1
        <5>1. f[i] = lists[i]
          BY <2>5, <4>1 DEF Flattens
        <5>2. Upto(i) = runs[i]
          <6>1. 1 .. i = {1}
            BY <4>1
          <6> QED BY <4>1, <6>1
        <5>3. Tile(PiecesOf(f[i]), blocks, Upto(i))
          BY <2>3, <5>1, <5>2
        <5> QED BY <2>2, <5>3
      <4>2. CASE i # 1
        <5>1. i \in 2 .. n /\ i - 1 \in 1 .. n /\ i - 1 # 0
          BY <2>2, <4>2
        <5>2. f[i] = f[i - 1] \o lists[i] /\ f[i - 1] \in Seq(K) /\ lists[i] \in Seq(K)
          BY <2>3, <2>5, <5>1 DEF Flattens
        <5>3. Tile(PiecesOf(f[i - 1]), blocks, Upto(i - 1))
          BY <3>2, <5>1
        <5>4. Tile(PiecesOf(lists[i]), blocks, runs[i])
          BY <2>3
        <5>5. \A r \in 1 .. i - 1 : r \in 1 .. n /\ r < i
          BY <2>2
        <5>6. /\ Upto(i - 1) \in SUBSET Int /\ runs[i] \in SUBSET Int
              /\ \A s \in Upto(i - 1), t \in runs[i] : s < t
          <6>1. \A r \in 1 .. i - 1 : runs[r] \in SUBSET Int
            BY <2>3, <5>5
          <6>2. ASSUME NEW s \in Upto(i - 1), NEW t \in runs[i] PROVE s < t
            <7>1. PICK r \in 1 .. i - 1 : s \in runs[r]
              OBVIOUS
            <7> QED BY <2>2, <5>5, <7>1
          <6> QED BY <2>3, <6>1, <6>2
        <5>7. Upto(i) = Upto(i - 1) \cup runs[i]
          <6>1. 1 .. i = (1 .. i - 1) \cup {i}
            BY <2>2
          <6> QED BY <6>1
        <5> DEFINE a == f[i - 1]
                   b == lists[i]
        <5>8. PiecesOf(a \o b) = PiecesOf(a) \o PiecesOf(b) /\ PiecesOf(a) \in Seq(Seq(Pieces(blocks)))
                /\ PiecesOf(b) \in Seq(Seq(Pieces(blocks)))
          <6>1. a \in Seq(PassagesOf(blocks)) /\ b \in Seq(PassagesOf(blocks))
            BY <5>2 DEF K
          <6> HIDE DEF a, b
          <6> QED BY <6>1, PiecesJoin
        <5> HIDE DEF Upto
        <5>9. Tile(PiecesOf(a) \o PiecesOf(b), blocks, Upto(i - 1) \cup runs[i])
          BY <5>3, <5>4, <5>6, <5>8, TileJoin
        <5>10. Tile(PiecesOf(f[i]), blocks, Upto(i))
          BY <5>2, <5>7, <5>8, <5>9
        <5> QED BY <2>2, <5>10
      <4> QED BY <4>1, <4>2
    <3>3. 0 .. n \subseteq S
      <4> HIDE DEF S
      <4> QED BY <2>2, <3>1, <3>2, UpTo
    <3>4. n \in 0 .. n
      BY <2>2
    <3> HIDE DEF S
    <3> QED BY <3>3, <3>4
  <2>7. Tile(PiecesOf(f[n]), blocks, I)
    BY <2>2, <2>6
  <2>8. f[n] \in Seq(K)
    BY <2>2
  <2> QED BY <2>1, <2>5, <2>7, <2>8 DEF K
<1> QED BY <1>1, <1>2

-----------------------------------------------------------------------------
(* The job                                                                  *)

\* What each stage has found is what its function makes of the stage before.
PassagesInv ==
  /\ stage \in {"idle", "classified", "segmented", "embedded", "chunked"}
  /\ stage # "idle" => input.blocks \in BlockLists
  /\ stage = "segmented" => found = Segment(input.blocks)
  /\ stage = "embedded" => /\ found.passages = Segment(input.blocks)
                           /\ found.embedding = Embed(found.passages, input.encoder)
  /\ stage = "chunked" => found.text \in Seq(TextWords) /\ found.windows = QaWindows(found.text)

\* The blocks a job is given are such blocks.
LEMMA BlocksAre == ASSUME NEW blocks \in BlockLists PROVE BlockFacts(blocks)
BY BlocksTyped DEF BlockFacts, Heading, TextWords

\* The text of all the passages.
LEMMA TextJoined ==
  ASSUME NEW blocks, BlockFacts(blocks), NEW passages \in Seq(PassagesOf(blocks))
  PROVE  FlattenSeq([p \in DOMAIN passages |-> passages[p].text]) \in Seq(TextWords)
<1> DEFINE n == Len(passages)
           texts == [p \in DOMAIN passages |-> passages[p].text]
           K == PassagesOf(blocks)
<1>1. \A x \in K : x.text \in Seq(TextWords)
  BY PassageFacts
<1> HIDE DEF K
<1>2. n \in Nat /\ DOMAIN passages = 1 .. n /\ \A p \in 1 .. n : passages[p] \in K
  BY DEF K
<1> HIDE DEF n
<1>3. texts \in [1 .. n -> Seq(TextWords)]
  BY <1>1, <1>2
<1> HIDE DEF texts
<1>4. CASE n # 0
  <2>1. PICK f \in [1 .. n -> Seq(TextWords)] : Flattens(f, texts, n) /\ FlattenSeq(texts) = f[n]
    BY <1>2, <1>3, <1>4, FlattenSteps
  <2>2. n \in 1 .. n
    BY <1>2, <1>4
  <2>3. FlattenSeq(texts) \in Seq(TextWords)
    BY <2>1, <2>2
  <2> QED BY <2>3 DEF texts
<1>5. CASE n = 0
  <2>1. texts = <<>>
    BY <1>3, <1>5
  <2>2. FlattenSeq(<<>>) = <<>>
    BY DEF FlattenSeq
  <2>3. FlattenSeq(texts) \in Seq(TextWords)
    <3>1. <<>> \in Seq(TextWords)
      OBVIOUS
    <3> QED BY <2>1, <2>2, <3>1
  <2> QED BY <2>3 DEF texts
<1> QED BY <1>4, <1>5

\* Every step keeps the invariant.
LEMMA PassagesStep == PassagesInv /\ [PassagesNext]_vars => PassagesInv'
<1> SUFFICES ASSUME PassagesInv, [PassagesNext]_vars PROVE PassagesInv'
  OBVIOUS
<1>1. CASE ChooseBlocks
  BY <1>1 DEF ChooseBlocks, Start, PassagesInv
<1>2. CASE RunSegmentation
  BY <1>2 DEF RunSegmentation, Follow, PassagesInv
<1>3. CASE RunEmbedding
  <2>1. /\ stage = "segmented" /\ stage' = "embedded" /\ input' = input
        /\ found' = [passages |-> found, embedding |-> Embed(found, input.encoder)]
    BY <1>3 DEF RunEmbedding, Follow
  <2>2. found'.passages = found /\ found'.embedding = Embed(found, input.encoder)
    BY <2>1
  <2> QED BY <2>1, <2>2 DEF PassagesInv
<1>4. CASE BuildQaChunks
  <2> DEFINE passages == found.passages
             text == FlattenSeq([p \in DOMAIN passages |-> passages[p].text])
  <2>1. /\ stage = "embedded" /\ stage' = "chunked" /\ input' = input
        /\ found' = [text |-> text, windows |-> QaWindows(text)]
    BY <1>4 DEF BuildQaChunks, Follow
  <2>2. BlockFacts(input.blocks) /\ passages \in Seq(PassagesOf(input.blocks))
    BY <2>1, BlocksAre, Segments DEF PassagesInv
  <2> HIDE DEF passages
  <2>3. text \in Seq(TextWords)
    BY <2>2, TextJoined
  <2> HIDE DEF text
  <2>4. found'.text = text /\ found'.windows = QaWindows(text)
    BY <2>1
  <2> QED BY <2>1, <2>3, <2>4 DEF PassagesInv
<1>5. CASE UNCHANGED vars
  BY <1>5 DEF vars, PassagesInv
<1> QED BY <1>1, <1>2, <1>3, <1>4, <1>5 DEF PassagesNext

\* Every stage found what its function makes of what the stage before it found.
THEOREM PassagesInvariance == PassagesSpec => []PassagesInv
<1>1. Idle => PassagesInv
  BY DEF Idle, PassagesInv
<1> QED BY <1>1, PassagesStep, PTL DEF PassagesSpec

\* The passages of a segmentation tile the narrative.
LEMMA SegmentTiles == PassagesInv => PassagesTile
<1> SUFFICES ASSUME PassagesInv, stage = "segmented"
             PROVE  /\ Tile([p \in DOMAIN found |-> found[p].pieces], input.blocks, Included(input.blocks))
                    /\ \A p \in DOMAIN found :
                         /\ Len(found[p].text) <= Sizes.max_words
                         /\ \A i \in DOMAIN found[p].pieces :
                              input.blocks[found[p].pieces[i].block].type = "HEADING_CANDIDATE" => i = 1
  BY DEF PassagesTile
<1> DEFINE blocks == input.blocks
<1>1. blocks \in BlockLists /\ found = Segment(blocks)
  BY DEF PassagesInv
<1> HIDE DEF blocks
<1>2. BlockFacts(blocks)
  BY <1>1, BlocksAre
<1>3. found \in Seq(PassagesOf(blocks)) /\ Tile(PiecesOf(found), blocks, Included(blocks))
  BY <1>1, <1>2, Segments
<1>4. ASSUME NEW p \in DOMAIN found
      PROVE  /\ Len(found[p].text) <= Sizes.max_words
             /\ \A i \in DOMAIN found[p].pieces : blocks[found[p].pieces[i].block].type = "HEADING_CANDIDATE" => i = 1
  <2>1. found[p] \in PassagesOf(blocks)
    BY <1>3
  <2>2. found[p].pieces \in Groups(blocks) /\ Len(found[p].text) <= Sizes.max_words
    BY <1>2, <2>1, PassageFacts
  <2> QED BY <2>2 DEF Groups, Heading
<1> QED BY <1>3, <1>4 DEF blocks, PiecesOf

\* For all reports: the passages hold the words of the included blocks, each once and
\* in order, none is longer than the maximum and a heading only opens one.
THEOREM PassagesTileAlways == PassagesSpec => []PassagesTile
BY PassagesInvariance, SegmentTiles, PTL

\* For all reports and encoders: who has a vector, who has chunks and who is counted
\* as missing, and chunks leave out no word.
THEOREM EmbeddingAccountsAlways == PassagesSpec => []EmbeddingAccounts
<1>1. PassagesInv => EmbeddingAccounts
  <2> SUFFICES ASSUME PassagesInv, stage = "embedded" PROVE EmbeddingAccounts
    BY DEF EmbeddingAccounts
  <2> DEFINE blocks == input.blocks
             passages == found.passages
  <2>1. blocks \in BlockLists /\ passages = Segment(blocks) /\ found.embedding = Embed(passages, input.encoder)
    BY DEF PassagesInv
  <2> HIDE DEF blocks, passages
  <2>2. BlockFacts(blocks)
    BY <2>1, BlocksAre
  <2>3. passages \in Seq(PassagesOf(blocks))
    BY <2>1, <2>2, Segments
  <2>4. IsList(passages) /\ \A p \in DOMAIN passages : passages[p] \in PassagesOf(blocks)
    BY <2>3 DEF IsList
  <2>5. \A p \in DOMAIN passages : passages[p].text \in Seq(TextWords)
    BY <2>2, <2>4, PassageFacts
  <2> QED BY <2>1, <2>4, <2>5, Accounts DEF passages
<1> QED BY <1>1, PassagesInvariance, PTL

\* For all texts: one written in sentences no longer than the overlap is in the
\* chunks as a whole.
THEOREM PunctuatedTextCoveredAlways == PassagesSpec => []PunctuatedTextCovered
<1>1. PassagesInv => PunctuatedTextCovered
  <2> SUFFICES ASSUME PassagesInv, stage = "chunked",
                      \A a, b \in DOMAIN found.text :
                        a <= b /\ (\A k \in a .. b : ~found.text[k].ends) =>
                          TokensIn(found.text, a, b) < Sizes.qa_overlap /\ b < Len(found.text)
               PROVE  InQaChunks = DOMAIN found.text
    BY DEF PunctuatedTextCovered
  <2> DEFINE text == found.text
  <2>1. text \in Seq(TextWords) /\ found.windows = QaWindows(text)
    BY DEF PassagesInv
  <2>2. Punctuated(text)
    BY DEF Punctuated
  <2> HIDE DEF text
  <2>3. UNION { QaWindows(text)[w].from .. QaWindows(text)[w].to : w \in DOMAIN QaWindows(text) } = DOMAIN text
    BY <2>1, <2>2, Quotes
  <2> QED BY <2>1, <2>3 DEF InQaChunks, text
<1> QED BY <1>1, PassagesInvariance, PTL
====
