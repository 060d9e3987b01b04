------------------------- MODULE WebRequestsProofs -------------------------
(***************************************************************************)
(* Proofs about WebRequests, for any number of requests, releases, cached  *)
(* texts, days and whatever limits.                                        *)
(***************************************************************************)
EXTENDS WebRequests, SequenceTheorems, FiniteSetTheorems, NaturalsInduction, WellFoundedInduction,
        IterationLemmas, TLAPS

-----------------------------------------------------------------------------
(* The rows kept of a sequence                                              *)

\* What goes up by at most one at a time from 0 passes every number on its way.
LEMMA Counting ==
  ASSUME NEW n \in Nat, NEW c \in [0 .. n -> Nat], c[0] = 0,
         \A m \in 1 .. n : c[m] = c[m - 1] \/ c[m] = c[m - 1] + 1,
         NEW k \in 1 .. c[n]
  PROVE  \E m \in 1 .. n : c[m] = k /\ c[m - 1] = k - 1
<1> DEFINE T == { m \in 0 .. n : k <= c[m] }
<1>1. n \in T /\ T \subseteq Nat
  OBVIOUS
<1>2. PICK m \in T : \A l \in T : m <= l
  BY <1>1, LeastNatural
<1>3. m \in 1 .. n /\ m - 1 \in 0 .. n /\ c[m - 1] < k
  <2>1. m # 0
    BY <1>2
  <2>2. m - 1 \in 0 .. n /\ m - 1 \notin T
    BY <2>1, <1>2
  <2> QED BY <2>1, <2>2
<1>4. c[m] \in Nat /\ c[m - 1] \in Nat /\ k \in Nat /\ k <= c[m]
  BY <1>2, <1>3
<1>5. c[m] = c[m - 1] \/ c[m] = c[m - 1] + 1
  BY <1>3
<1>6. c[m] = k /\ c[m - 1] = k - 1
  BY <1>3, <1>4, <1>5
<1> QED BY <1>3, <1>6

\* A set of n places has a k-th one.
LEMMA PlaceExists ==
  ASSUME NEW n \in Nat, NEW P \in SUBSET (1 .. n), NEW k \in 1 .. Cardinality(P)
  PROVE  \E i \in P : Cardinality({ j \in P : j <= i }) = k
<1> DEFINE Upto(m) == { j \in P : j <= m }
           c == [m \in 0 .. n |-> Cardinality(Upto(m))]
<1>1. IsFiniteSet(P) /\ Cardinality(P) \in Nat
  <2>1. IsFiniteSet(1 .. n)
    BY FS_Interval
  <2> QED BY <2>1, FS_Subset, FS_CardinalityType
<1>2. ASSUME NEW m \in 0 .. n PROVE IsFiniteSet(Upto(m)) /\ Cardinality(Upto(m)) \in Nat
  <2>1. Upto(m) \subseteq P
    OBVIOUS
  <2> QED BY <2>1, <1>1, FS_Subset, FS_CardinalityType
<1>3. c[0] = 0
  <2>1. \A j \in P : ~ (j <= 0)
    OBVIOUS
  <2>2. Upto(0) = {}
    BY <2>1
  <2> QED BY <2>2, FS_EmptySet
<1>4. c[n] = Cardinality(P)
  <2>1. \A j \in P : j <= n
    OBVIOUS
  <2>2. Upto(n) = P
    BY <2>1
  <2> QED BY <2>2
<1>5. ASSUME NEW m \in 1 .. n
      PROVE  /\ m \notin P => c[m] = c[m - 1]
             /\ m \in P => c[m] = c[m - 1] + 1
  <2>0. m - 1 \in 0 .. n /\ m \in 0 .. n
    OBVIOUS
  <2>1. CASE m \notin P
    <3>0. \A j \in P : j <= m <=> j <= m - 1
      BY <2>1
    <3>1. Upto(m) = Upto(m - 1)
      BY <3>0
    <3> QED BY <3>1, <2>0, <2>1
  <2>2. CASE m \in P
    <3>0. m \in P /\ ~ (m <= m - 1) /\ \A j \in P : j <= m <=> j <= m - 1 \/ j = m
      BY <2>2
    <3>1. Upto(m) = Upto(m - 1) \cup {m} /\ m \notin Upto(m - 1)
      BY <3>0
    <3>2. Cardinality(Upto(m)) = Cardinality(Upto(m - 1)) + 1
      BY <3>1, <2>0, <1>2, FS_AddElement
    <3> QED BY <3>2, <2>0, <2>2
  <2> QED BY <2>1, <2>2
<1>6. c \in [0 .. n -> Nat]
  BY <1>2
<1> HIDE DEF c
<1>7. PICK m \in 1 .. n : c[m] = k /\ c[m - 1] = k - 1
  <2>1. k \in 1 .. c[n]
    BY <1>4
  <2>2. \A i \in 1 .. n : c[i] = c[i - 1] \/ c[i] = c[i - 1] + 1
    BY <1>5
  <2> QED BY <2>1, <2>2, <1>3, <1>6, Counting
<1>8. m \in P
  BY <1>5, <1>6, <1>7
<1>9. c[m] = Cardinality(Upto(m))
  BY DEF c
<1> QED BY <1>7, <1>8, <1>9

\* The places of the rows in S, and the k-th of them.
Places(rows, S) == { i \in DOMAIN rows : rows[i] \in S }
PlaceOf(P, k) == CHOOSE i \in P : Cardinality({ j \in P : j <= i }) = k

\* A sequence of whatever.
IsSeq(s) == \E n \in Nat : s = [i \in 1 .. n |-> s[i]]

LEMMA SeqDomain ==
  ASSUME NEW s, IsSeq(s)
  PROVE  /\ Len(s) \in Nat /\ DOMAIN s = 1 .. Len(s)
         /\ s \in Seq(Range(s))
<1>1. PICK n \in Nat : s = [i \in 1 .. n |-> s[i]]
  BY DEF IsSeq
<1>2. DOMAIN s = 1 .. n /\ s \in [1 .. n -> Range(s)]
  BY <1>1 DEF Range
<1>3. s \in Seq(Range(s))
  BY <1>2
<1> QED BY <1>2, <1>3

LEMMA SeqIsSeq ==
  ASSUME NEW X, NEW s \in Seq(X)
  PROVE  IsSeq(s)
<1>1. Len(s) \in Nat /\ s \in [1 .. Len(s) -> X]
  BY LenProperties
<1>2. s = [i \in 1 .. Len(s) |-> s[i]]
  BY <1>1
<1> QED BY <1>1, <1>2 DEF IsSeq

LEMMA EmptyIsSeq == IsSeq(<<>>)
<1>1. <<>> \in Seq({})
  BY EmptySeq
<1> QED BY <1>1, SeqIsSeq

\* Kept is the rows in S at their places.
LEMMA KeptRows ==
  ASSUME NEW rows, IsSeq(rows), NEW S
  PROVE  /\ IsFiniteSet(Places(rows, S)) /\ Cardinality(Places(rows, S)) \in Nat
         /\ Kept(rows, S) = [k \in 1 .. Cardinality(Places(rows, S)) |-> rows[PlaceOf(Places(rows, S), k)]]
         /\ \A k \in 1 .. Cardinality(Places(rows, S)) :
              /\ PlaceOf(Places(rows, S), k) \in Places(rows, S)
              /\ Cardinality({ j \in Places(rows, S) : j <= PlaceOf(Places(rows, S), k) }) = k
<1> DEFINE P == Places(rows, S)
<1>1. P \in SUBSET (1 .. Len(rows)) /\ IsFiniteSet(P) /\ Cardinality(P) \in Nat
  <2>1. P \subseteq 1 .. Len(rows) /\ Len(rows) \in Nat
    BY SeqDomain DEF Places
  <2>2. IsFiniteSet(1 .. Len(rows))
    BY <2>1, FS_Interval
  <2> QED BY <2>1, <2>2, FS_Subset, FS_CardinalityType
<1>2. Kept(rows, S) = [k \in 1 .. Cardinality(P) |-> rows[PlaceOf(P, k)]]
  BY DEF Kept, PlaceOf, Places
<1> HIDE DEF P
<1>3. ASSUME NEW k \in 1 .. Cardinality(P)
      PROVE  PlaceOf(P, k) \in P /\ Cardinality({ j \in P : j <= PlaceOf(P, k) }) = k
  <2>1. \E i \in P : Cardinality({ j \in P : j <= i }) = k
    <3>1. Len(rows) \in Nat
      BY SeqDomain
    <3>2. P \in SUBSET (1 .. Len(rows)) /\ k \in 1 .. Cardinality(P)
      BY <1>1
    <3> QED BY <3>1, <3>2, PlaceExists, Zenon
  <2> QED BY <2>1, Zenon DEF PlaceOf
<1> QED BY <1>1, <1>2, <1>3 DEF P

\* What is kept are rows in S.
LEMMA KeptSeq ==
  ASSUME NEW rows, IsSeq(rows), NEW S
  PROVE  /\ IsSeq(Kept(rows, S))
         /\ \A k \in DOMAIN Kept(rows, S) : Kept(rows, S)[k] \in S /\ Kept(rows, S)[k] \in Range(rows)
<1>1. \A k \in 1 .. Cardinality(Places(rows, S)) :
        /\ PlaceOf(Places(rows, S), k) \in DOMAIN rows
        /\ rows[PlaceOf(Places(rows, S), k)] \in S
  BY KeptRows DEF Places
<1>2. Cardinality(Places(rows, S)) \in Nat
      /\ Kept(rows, S) = [k \in 1 .. Cardinality(Places(rows, S)) |-> rows[PlaceOf(Places(rows, S), k)]]
  BY KeptRows
<1>3. DOMAIN Kept(rows, S) = 1 .. Cardinality(Places(rows, S))
      /\ \A k \in 1 .. Cardinality(Places(rows, S)) :
           Kept(rows, S)[k] = rows[PlaceOf(Places(rows, S), k)]
  BY <1>2
<1>4. IsSeq(Kept(rows, S))
  BY <1>2, <1>3 DEF IsSeq
<1> QED BY <1>1, <1>3, <1>4 DEF Range

LEMMA FirstSeq ==
  ASSUME NEW rows, IsSeq(rows), NEW n \in Nat \ {0}
  PROVE  /\ IsSeq(First(rows, n))
         /\ \A k \in DOMAIN First(rows, n) : k \in DOMAIN rows /\ First(rows, n)[k] = rows[k]
<1>1. Len(rows) \in Nat /\ DOMAIN rows = 1 .. Len(rows) /\ rows \in Seq(Range(rows))
  BY SeqDomain
<1>2. CASE Len(rows) > n
  <2>1. First(rows, n) = SubSeq(rows, 1, n)
    BY <1>2 DEF First
  <2>2. SubSeq(rows, 1, n) = [i \in 1 .. n |-> rows[i]]
    BY <1>1, <1>2
  <2>3. First(rows, n) = [i \in 1 .. n |-> rows[i]]
    BY <2>1, <2>2, Zenon
  <2>4. DOMAIN First(rows, n) = 1 .. n /\ \A k \in 1 .. n : First(rows, n)[k] = rows[k]
    BY <2>3
  <2>5. IsSeq(First(rows, n))
    BY <2>3, <2>4 DEF IsSeq
  <2> QED BY <2>4, <2>5, <1>1, <1>2
<1>3. CASE ~ (Len(rows) > n)
  BY <1>1, <1>3 DEF First
<1> QED BY <1>2, <1>3, <1>1

LEMMA RangeFinite ==
  ASSUME NEW s, IsSeq(s)
  PROVE  IsFiniteSet(Range(s))
<1>1. PICK n \in Nat : s = [i \in 1 .. n |-> s[i]]
  BY DEF IsSeq
<1>2. DOMAIN s = 1 .. n /\ s \in [1 .. n -> Range(s)]
  BY <1>1 DEF Range
<1>3. IsFiniteSet(1 .. n)
  BY FS_Interval
<1>4. s \in Surjection(1 .. n, Range(s))
  BY <1>2 DEF Surjection, Range
<1> QED BY <1>3, <1>4, FS_Surjection

\* Appending and dropping the head, element by element.
LEMMA AppendSeq ==
  ASSUME NEW s, IsSeq(s), NEW x
  PROVE  /\ IsSeq(Append(s, x)) /\ Len(Append(s, x)) = Len(s) + 1
         /\ DOMAIN Append(s, x) = 1 .. Len(s) + 1
         /\ \A i \in 1 .. Len(s) : Append(s, x)[i] = s[i]
         /\ Append(s, x)[Len(s) + 1] = x
<1> DEFINE X == Range(s) \cup {x}
<1>1. Len(s) \in Nat /\ DOMAIN s = 1 .. Len(s) /\ s \in Seq(X)
  <2>1. Len(s) \in Nat /\ DOMAIN s = 1 .. Len(s) /\ s \in Seq(Range(s))
    BY SeqDomain
  <2>2. \A i \in 1 .. Len(s) : s[i] \in X
    BY <2>1 DEF Range
  <2> QED BY <2>1, <2>2
<1> HIDE DEF X
<1>2. x \in X
  BY DEF X
<1>3. /\ Append(s, x) \in Seq(X) /\ Len(Append(s, x)) = Len(s) + 1
      /\ \A i \in 1 .. Len(s) : Append(s, x)[i] = s[i]
      /\ Append(s, x)[Len(s) + 1] = x
  BY <1>1, <1>2, AppendProperties
<1>4. IsSeq(Append(s, x)) /\ DOMAIN Append(s, x) = 1 .. Len(Append(s, x))
  BY <1>3, SeqIsSeq, LenProperties
<1> QED BY <1>3, <1>4

LEMMA TailSeq ==
  ASSUME NEW s, IsSeq(s), Len(s) > 0
  PROVE  /\ IsSeq(Tail(s)) /\ Len(Tail(s)) = Len(s) - 1
         /\ DOMAIN Tail(s) = 1 .. Len(s) - 1
         /\ \A i \in 1 .. Len(s) - 1 : Tail(s)[i] = s[i + 1]
<1>1. Len(s) \in Nat /\ DOMAIN s = 1 .. Len(s) /\ s \in Seq(Range(s))
  BY SeqDomain
<1>2. s # <<>>
  BY EmptySeq
<1>3. /\ Tail(s) \in Seq(Range(s)) /\ Len(Tail(s)) = Len(s) - 1
      /\ \A i \in 1 .. Len(Tail(s)) : Tail(s)[i] = s[i + 1]
  BY <1>1, <1>2, HeadTailProperties
<1>4. IsSeq(Tail(s)) /\ DOMAIN Tail(s) = 1 .. Len(Tail(s))
  BY <1>3, SeqIsSeq, LenProperties
<1> QED BY <1>3, <1>4

\* No element comes twice.
Unrepeated(s) == \A i, j \in DOMAIN s : s[i] = s[j] => i = j

LEMMA KeptUnrepeated ==
  ASSUME NEW rows, IsSeq(rows), Unrepeated(rows), NEW S
  PROVE  Unrepeated(Kept(rows, S))
<1> DEFINE P == Places(rows, S)
           K == Kept(rows, S)
<1>1. /\ Cardinality(P) \in Nat
      /\ K = [k \in 1 .. Cardinality(P) |-> rows[PlaceOf(P, k)]]
      /\ \A k \in 1 .. Cardinality(P) :
           PlaceOf(P, k) \in P /\ Cardinality({ j \in P : j <= PlaceOf(P, k) }) = k
  BY KeptRows
<1>2. P \subseteq DOMAIN rows
  BY DEF Places
<1> HIDE DEF P, K
<1>3. ASSUME NEW k \in DOMAIN K, NEW l \in DOMAIN K, K[k] = K[l]
      PROVE  k = l
  <2>1. k \in 1 .. Cardinality(P) /\ l \in 1 .. Cardinality(P)
        /\ K[k] = rows[PlaceOf(P, k)] /\ K[l] = rows[PlaceOf(P, l)]
    BY <1>1
  <2>2. PlaceOf(P, k) \in DOMAIN rows /\ PlaceOf(P, l) \in DOMAIN rows
    BY <1>1, <1>2, <2>1
  <2>3. PlaceOf(P, k) = PlaceOf(P, l)
    BY <1>3, <2>1, <2>2 DEF Unrepeated
  <2>4. Cardinality({ j \in P : j <= PlaceOf(P, k) }) = k /\ Cardinality({ j \in P : j <= PlaceOf(P, l) }) = l
    BY <1>1, <2>1
  <2> QED BY <2>3, <2>4
<1> QED BY <1>3 DEF Unrepeated, K

\* Leaving a row out makes it shorter.
LEMMA KeptShorter ==
  ASSUME NEW rows, IsSeq(rows), NEW S, NEW i \in DOMAIN rows, rows[i] \notin S
  PROVE  Len(Kept(rows, S)) < Len(rows)
<1> DEFINE P == Places(rows, S)
<1>1. Len(rows) \in Nat /\ DOMAIN rows = 1 .. Len(rows)
  BY SeqDomain
<1>2. Cardinality(P) \in Nat /\ Kept(rows, S) = [k \in 1 .. Cardinality(P) |-> rows[PlaceOf(P, k)]]
  BY KeptRows
<1>3. Len(Kept(rows, S)) = Cardinality(P)
  BY <1>2
<1>4. IsFiniteSet(1 .. Len(rows)) /\ Cardinality(1 .. Len(rows)) = Len(rows)
  <2>1. 1 \in Int /\ Len(rows) \in Int /\ (1 > Len(rows) => Len(rows) = 0)
    BY <1>1
  <2>2. IsFiniteSet(1 .. Len(rows)) /\ Cardinality(1 .. Len(rows)) = IF 1 > Len(rows) THEN 0 ELSE Len(rows) - 1 + 1
    BY <2>1, FS_Interval, Zenon
  <2> QED BY <2>1, <2>2
<1>5. P \subseteq 1 .. Len(rows) /\ P # 1 .. Len(rows)
  <2>1. P \subseteq 1 .. Len(rows) /\ i \in 1 .. Len(rows) /\ i \notin P
    BY <1>1 DEF Places
  <2> QED BY <2>1
<1> QED BY <1>1, <1>2, <1>3, <1>4, <1>5, FS_Subset

-----------------------------------------------------------------------------
(* The query-embedding cache                                                *)

CacheInv == IsSeq(cache) /\ CacheBounded

LEMMA AppendUnrepeated ==
  ASSUME NEW s, IsSeq(s), Unrepeated(s), NEW x, x \notin Range(s)
  PROVE  Unrepeated(Append(s, x))
<1>1. /\ DOMAIN Append(s, x) = 1 .. Len(s) + 1
      /\ \A i \in 1 .. Len(s) : Append(s, x)[i] = s[i]
      /\ Append(s, x)[Len(s) + 1] = x
  BY AppendSeq
<1>2. Len(s) \in Nat /\ DOMAIN s = 1 .. Len(s)
  BY SeqDomain
<1>3. \A i \in 1 .. Len(s) : s[i] # x
  BY <1>2 DEF Range
<1> QED BY <1>1, <1>2, <1>3 DEF Unrepeated

LEMMA TailUnrepeated ==
  ASSUME NEW s, IsSeq(s), Unrepeated(s), Len(s) > 0
  PROVE  Unrepeated(Tail(s))
<1>1. /\ DOMAIN Tail(s) = 1 .. Len(s) - 1
      /\ \A i \in 1 .. Len(s) - 1 : Tail(s)[i] = s[i + 1]
  BY TailSeq
<1>2. Len(s) \in Nat /\ DOMAIN s = 1 .. Len(s)
  BY SeqDomain
<1> QED BY <1>1, <1>2 DEF Unrepeated

\* Room is made before a text is inserted, whatever was inserted since the miss.
LEMMA InsertKeepsBound ==
  ASSUME NEW text, CacheInv
  PROVE  IsSeq(Cached(text)) /\ Len(Cached(text)) <= CacheMax /\ Unrepeated(Cached(text))
<1> DEFINE room == IF Len(cache) >= CacheMax THEN Tail(cache) ELSE cache
<1>1. IsSeq(cache) /\ Len(cache) \in Nat /\ Len(cache) <= CacheMax /\ Unrepeated(cache)
  BY SeqDomain DEF CacheInv, CacheBounded, Unrepeated
<1>2. CacheMax \in Nat \ {0}
  BY LimitsPositive
<1>3. IsSeq(room) /\ Unrepeated(room) /\ Len(room) \in Nat /\ Len(room) < CacheMax
  <2>1. CASE Len(cache) >= CacheMax
    <3>1. Len(cache) > 0
      BY <2>1, <1>1, <1>2
    <3>2. IsSeq(Tail(cache)) /\ Len(Tail(cache)) = Len(cache) - 1
      BY <3>1, <1>1, TailSeq
    <3>3. Unrepeated(Tail(cache))
      BY <3>1, <1>1, TailUnrepeated
    <3> QED BY <3>1, <3>2, <3>3, <2>1, <1>1, <1>2
  <2>2. CASE ~ (Len(cache) >= CacheMax)
    BY <2>2, <1>1, <1>2
  <2> QED BY <2>1, <2>2
<1> HIDE DEF room
<1>4. Cached(text) = IF text \in Range(room) THEN room ELSE Append(room, text)
  BY DEF Cached, room
<1>5. CASE text \in Range(room)
  BY <1>2, <1>3, <1>4, <1>5
<1>6. CASE text \notin Range(room)
  <2>1. IsSeq(Append(room, text)) /\ Len(Append(room, text)) = Len(room) + 1
    BY <1>3, AppendSeq
  <2>2. Unrepeated(Append(room, text))
    BY <1>3, <1>6, AppendUnrepeated
  <2> QED BY <2>1, <2>2, <1>2, <1>3, <1>4, <1>6
<1> QED BY <1>5, <1>6

\* A hit moves to the end.
LEMMA TouchKeepsBound ==
  ASSUME NEW text \in Range(cache), CacheInv
  PROVE  LET touched == Append(Kept(cache, Range(cache) \ {text}), text)
         IN IsSeq(touched) /\ Len(touched) <= CacheMax /\ Unrepeated(touched)
<1> DEFINE rest == Kept(cache, Range(cache) \ {text})
<1>1. IsSeq(cache) /\ Len(cache) \in Nat /\ Len(cache) <= CacheMax /\ Unrepeated(cache) /\ CacheMax \in Nat
  BY SeqDomain, LimitsPositive DEF CacheInv, CacheBounded, Unrepeated
<1>2. IsSeq(rest) /\ Unrepeated(rest) /\ text \notin Range(rest)
  BY <1>1, KeptSeq, KeptUnrepeated DEF Range
<1>3. Len(rest) < Len(cache)
  <2>1. PICK i \in DOMAIN cache : cache[i] = text
    BY DEF Range
  <2>2. cache[i] \notin Range(cache) \ {text}
    BY <2>1
  <2> QED BY <2>2, <1>1, KeptShorter
<1> HIDE DEF rest
<1>4. IsSeq(Append(rest, text)) /\ Len(Append(rest, text)) = Len(rest) + 1 /\ Len(rest) \in Nat
  BY <1>2, AppendSeq, SeqDomain
<1>5. Unrepeated(Append(rest, text))
  BY <1>2, AppendUnrepeated
<1>6. IsSeq(Append(rest, text)) /\ Len(Append(rest, text)) <= CacheMax /\ Unrepeated(Append(rest, text))
  BY <1>1, <1>3, <1>4, <1>5
<1> QED BY <1>6 DEF rest

\* Only these steps of a request touch the cache.
LEMMA OtherStepsLeaveCache ==
  ASSUME NEW q \in Requests, Arrive(q) \/ (RequestStep(q) /\ ~LookUp(q) /\ ~Embedded(q))
  PROVE  cache' = cache
<1>1. ASSUME NEW r, Goes(q, r) PROVE cache' = cache
  BY <1>1 DEF Goes
<1>2. ASSUME NEW key, NEW r, Counted(q, key, r) PROVE cache' = cache
  BY <1>2 DEF Counted
<1> QED BY <1>1, <1>2, Zenon DEF Arrive, RequestStep, RetryEmbedding, SemanticUnavailable,
  WordsOnly, NoEvidence, RequestFails, SearchPassageWords, SearchPassages, SearchChunks, SearchChunkWords,
  Rerank, ExpandContexts, CitePublication, ResolveMembers, ResolveCitations, ResolveCitationMembers, CheckClient, CheckGlobal,
  QuotaFails, Generate

LEMMA CacheStep == CacheInv /\ [Next]_vars => CacheInv'
<1> SUFFICES ASSUME CacheInv, [Next]_vars PROVE CacheInv'
  OBVIOUS
<1>0. ASSUME IsSeq(cache'), Len(cache') <= CacheMax, Unrepeated(cache') PROVE CacheInv'
  BY <1>0 DEF CacheInv, CacheBounded, Unrepeated
<1>1. ASSUME cache' = cache PROVE CacheInv'
  BY <1>1 DEF CacheInv, CacheBounded
<1>2. ASSUME NEW q \in Requests, LookUp(q) PROVE CacheInv'
  <2>1. CASE req[q].text \in Range(cache)
    <3>1. cache' = Append(Kept(cache, Range(cache) \ {req[q].text}), req[q].text)
      BY <1>2, <2>1 DEF LookUp
    <3> QED BY <3>1, <2>1, <1>0, TouchKeepsBound
  <2>2. CASE req[q].text \notin Range(cache)
    BY <1>1, <1>2, <2>2 DEF LookUp
  <2> QED BY <2>1, <2>2
<1>3. ASSUME NEW q \in Requests, Embedded(q) PROVE CacheInv'
  BY <1>0, <1>3, InsertKeepsBound DEF Embedded
<1>4. ASSUME NEW v \in Versions, Record(v) \/ Promote(v) PROVE CacheInv'
  BY <1>1, <1>4 DEF Record, Promote
<1>5. CASE NextDay
  BY <1>1, <1>5 DEF NextDay
<1>6. CASE UNCHANGED vars
  BY <1>1, <1>6 DEF vars
<1> QED BY <1>1, <1>2, <1>3, <1>4, <1>5, <1>6, OtherStepsLeaveCache DEF Next

\* However requests that missed the same text, or different ones, overlap, each
\* inserting after its own await of the embedding service (embedQuery), the cache
\* stays within its bound and holds a text once.
THEOREM CacheIsBounded == Spec => []CacheBounded
<1>1. Init => CacheInv
  <2> SUFFICES ASSUME Init PROVE CacheInv
    OBVIOUS
  <2>1. cache = <<>>
    BY DEF Init
  <2>2. IsSeq(cache)
    BY <2>1, EmptyIsSeq
  <2>3. DOMAIN cache = {} /\ Len(cache) = 0
    BY <2>1
  <2> QED BY <2>2, <2>3, LimitsPositive DEF CacheInv, CacheBounded
<1>2. CacheInv => CacheBounded
  BY DEF CacheInv
<1> QED BY <1>1, <1>2, CacheStep, PTL DEF Spec

-----------------------------------------------------------------------------
(* What a request has read                                                  *)

LEMMA IdsSeq ==
  ASSUME NEW rows, IsSeq(rows)
  PROVE  IsSeq(Ids(rows))
<1>1. Len(rows) \in Nat /\ DOMAIN rows = 1 .. Len(rows)
  BY SeqDomain
<1>2. Ids(rows) = [i \in 1 .. Len(rows) |-> <<live, rows[i]>>]
  BY <1>1 DEF Ids
<1>3. Ids(rows) = [i \in 1 .. Len(rows) |-> Ids(rows)[i]]
  BY <1>2
<1> QED BY <1>1, <1>3 DEF IsSeq

LEMMA RerankedSeq ==
  ASSUME NEW rows, IsSeq(rows), NEW score
  PROVE  IsSeq(Reranked(rows, score))
<1>1. Cardinality(Range(rows)) \in Nat
  BY RangeFinite, FS_CardinalityType
<1> DEFINE Nth(i) == CHOOSE x \in Range(rows) : Cardinality({ y \in Range(rows) :
                       \/ score[y] > score[x]
                       \/ score[y] = score[x] /\ Place(rows, y) < Place(rows, x) }) = i - 1
<1>2. Reranked(rows, score) = [i \in 1 .. Cardinality(Range(rows)) |-> Nth(i)]
  BY Zenon DEF Reranked, BestFirst
<1> HIDE DEF Nth
<1>3. Reranked(rows, score) = [i \in 1 .. Cardinality(Range(rows)) |-> Reranked(rows, score)[i]]
  BY <1>2
<1> QED BY <1>1, <1>3 DEF IsSeq

LEMMA FusedSeq ==
  ASSUME NEW lexical, NEW semantic, IsSeq(lexical), IsSeq(semantic)
  PROVE  IsSeq(Fused(lexical, semantic))
<1> DEFINE score == [id \in Range(lexical) \cup Range(semantic) |-> FusedScore(lexical, semantic, id)]
           Gap(a, b) == score[a][1] * score[b][2] - score[b][1] * score[a][2]
           Nth(i) == CHOOSE x \in DOMAIN score : Cardinality({ y \in DOMAIN score :
                       Gap(y, x) > 0 \/ (Gap(y, x) = 0 /\ Earlier(y, x)) }) = i - 1
<1>1. Cardinality(DOMAIN score) \in Nat
  <2>1. IsFiniteSet(Range(lexical) \cup Range(semantic))
    BY RangeFinite, FS_Union
  <2>2. DOMAIN score = Range(lexical) \cup Range(semantic)
    OBVIOUS
  <2> QED BY <2>1, <2>2, FS_CardinalityType
<1>2. Fused(lexical, semantic) = [i \in 1 .. Cardinality(DOMAIN score) |-> Nth(i)]
  BY Zenon DEF Fused, BestFirst
<1> HIDE DEF Nth, Gap, score
<1>3. Fused(lexical, semantic) = [i \in 1 .. Cardinality(DOMAIN score) |-> Fused(lexical, semantic)[i]]
  BY <1>2
<1> QED BY <1>1, <1>3 DEF IsSeq

\* The releases recorded are the ones there are, and one of them is live or none.
StoreInv ==
  /\ DOMAIN release \subseteq Versions
  /\ \A v \in DOMAIN release : release[v] = ContentOf[v]
  /\ live = None \/ live \in DOMAIN release

LEMMA ContentSeq ==
  ASSUME StoreInv
  PROVE  /\ IsSeq(Content.meaning) /\ IsSeq(Content.words)
         /\ IsSeq(Content.chunks) /\ IsSeq(Content.chunk_words)
<1>1. CASE live = None
  BY <1>1, EmptyIsSeq DEF Content, NoContent
<1>2. CASE live # None
  <2>1. live \in Versions /\ Content = ContentOf[live]
    BY <1>2 DEF StoreInv, Content
  <2>2. /\ Content.meaning \in Seq(Nat) /\ Content.words \in Seq(Nat)
        /\ Content.chunks \in Seq(Nat) /\ Content.chunk_words \in Seq(Nat)
    BY <2>1, ContentTyped
  <2> QED BY <2>2, SeqIsSeq
<1> QED BY <1>1, <1>2

LEMMA StoreStep == StoreInv /\ [Next]_vars => StoreInv'
<1> SUFFICES ASSUME StoreInv, [Next]_vars PROVE StoreInv'
  OBVIOUS
<1>1. ASSUME UNCHANGED <<release, live>> PROVE StoreInv'
  BY <1>1 DEF StoreInv
<1>2. ASSUME NEW q \in Requests, Arrive(q) \/ RequestStep(q) PROVE UNCHANGED <<release, live>>
  <2>1. ASSUME NEW r, Goes(q, r) PROVE UNCHANGED <<release, live>>
    BY <2>1 DEF Goes, releases
  <2>2. ASSUME NEW key, NEW r, Counted(q, key, r) PROVE UNCHANGED <<release, live>>
    BY <2>2 DEF Counted, releases
  <2>3. ASSUME LookUp(q) \/ Embedded(q) PROVE UNCHANGED <<release, live>>
    BY <2>3 DEF LookUp, Embedded, releases
  <2> QED BY <1>2, <2>1, <2>2, <2>3, Zenon DEF Arrive, RequestStep, RetryEmbedding, SemanticUnavailable,
    WordsOnly, NoEvidence, RequestFails, SearchPassageWords, SearchPassages, SearchChunks, SearchChunkWords,
    Rerank, ExpandContexts, CitePublication, ResolveMembers, ResolveCitations, ResolveCitationMembers, CheckClient, CheckGlobal,
    QuotaFails, Generate
<1>3. ASSUME NEW v \in Versions, Record(v) PROVE StoreInv'
  <2>1. /\ DOMAIN release' = DOMAIN release \cup {v} /\ live' = live
        /\ \A w \in DOMAIN release : release'[w] = release[w]
    BY <1>3 DEF Record, Register!Add
  <2>2. release'[v] = ContentOf[v]
    BY <1>3 DEF Record
  <2> QED BY <2>1, <2>2 DEF StoreInv
<1>4. ASSUME NEW v \in Versions, Promote(v) PROVE StoreInv'
  BY <1>4 DEF Promote, Register!GoLive, StoreInv
<1>5. CASE NextDay
  BY <1>1, <1>5 DEF NextDay, releases
<1>6. CASE UNCHANGED vars
  BY <1>1, <1>6 DEF vars, releases
<1> QED BY <1>1, <1>2, <1>3, <1>4, <1>5, <1>6 DEF Next

-----------------------------------------------------------------------------
(* Where a request is                                                       *)

Fields == {"at", "page", "text", "client", "scoped", "attempt", "lexical", "semantic",
           "found", "named", "calls", "charged"}

Retrieving == {"lexical", "lookup", "embedding", "candidates", "rerank", "contexts",
               "publication", "members", "citations", "citation_members"}

\* All that a statement found came of one release, the one its ids are of.
FoundAlike(found) == \A x, y \in DOMAIN found : found[x] = x[1] /\ found[x] = found[y]

ShownAlike(shown) ==
  \A i, j \in DOMAIN shown : shown[i].cited = shown[i].id[1] /\ shown[i].cited = shown[j].cited

\* Both counters let it through, or it was not to be metered.
Metered(r) ==
  \/ \E c, g \in Nat : r.charged = <<c, g>>
  \/ r.charged = <<>> /\ (r.client = None \/ FailOpen)

\* A request that still looks for rows or evidence: nothing was charged or asked,
\* and before its first ranking there are no rows by meaning.
Searching(r) ==
  /\ DOMAIN r = Fields /\ r.at \in Retrieving /\ r.client \in Clients \cup {None}
  /\ IsSeq(r.lexical) /\ IsSeq(r.semantic) /\ FoundAlike(r.found)
  /\ r.charged = <<>> /\ r.calls = 0
  /\ r.at # "embedding" => r.attempt = 0
  /\ r.at \in {"lookup", "embedding"} \/ (r.at = "lexical" /\ r.page # "ask") => r.semantic = <<>>
  /\ r.at \in {"members", "citations", "citation_members"} => r.page = "ask"
  /\ r.at = "citation_members" => \A i \in DOMAIN r.semantic : r.semantic[i] \in DOMAIN r.found

\* A question with its evidence, all of it cited.
HasEvidence(r) ==
  /\ DOMAIN r = Fields /\ r.client \in Clients \cup {None} /\ r.page = "ask"
  /\ FoundAlike(r.found)
  /\ \A i \in DOMAIN r.semantic : r.semantic[i] \in DOMAIN r.found /\ r.semantic[i] \in DOMAIN r.named

Metering(r) ==
  /\ r.at \in {"client", "global"}
  /\ r.calls = 0 /\ r.attempt = 0
  /\ r.at = "client" => r.charged = <<>>
  /\ r.at = "global" => \E c \in Nat : r.charged = <<c>>

\* Every call of the provider counts as an attempt, and was for evidence.
Generating(r) ==
  /\ r.at = "generate"
  /\ r.attempt \in 0 .. MaxRetries /\ r.calls = r.attempt
  /\ r.calls > 0 => Shown(r.semantic, r.found, r.named) # <<>>
  /\ Metered(r)

Finished(r) ==
  /\ r.at = "done"
  /\ ShownAlike(r.shown)
  /\ r.calls \in 0 .. 1 + MaxRetries
  /\ r.charged = <<>> \/ \E c, g \in Nat : r.charged = <<c, g>>
  /\ r.calls > 0 => r.shown # <<>> /\ Metered(r)

RequestOK(r) ==
  \/ r = Absent
  \/ Searching(r)
  \/ HasEvidence(r) /\ (Metering(r) \/ Generating(r))
  \/ Finished(r)

RequestInv == DOMAIN req = Requests /\ \A q \in Requests : RequestOK(req[q])

\* What is listed was all found.
LEMMA ListedAlike ==
  ASSUME NEW rows, NEW found, NEW named, FoundAlike(found), \A i \in DOMAIN rows : rows[i] \in DOMAIN found
  PROVE  ShownAlike(Shown(rows, found, named))
<1> DEFINE shown == Shown(rows, found, named)
<1>1. DOMAIN shown = DOMAIN rows
  BY DEF Shown
<1>2. \A i \in DOMAIN rows : shown[i].id = rows[i] /\ shown[i].cited = found[rows[i]]
  BY DEF Shown
<1> HIDE DEF shown
<1>3. ShownAlike(shown)
  BY <1>1, <1>2 DEF ShownAlike, FoundAlike
<1> QED BY <1>3 DEF shown

\* Rows read of the live release were found under its ids.
LEMMA ReadAlike ==
  ASSUME NEW S, \A id \in S : ReadFrom(id) # None
  PROVE  FoundAlike([id \in S |-> ReadFrom(id)])
BY DEF FoundAlike, ReadFrom

\* An error, or no answer, shows nothing.
LEMMA NothingShown ==
  ASSUME NEW r, r.charged = <<>>, r.calls = 0, NEW outcome
  PROVE  Finished(Answered(r, outcome, <<>>)) /\ Answered(r, outcome, <<>>).charged = <<>>
BY LimitsPositive DEF Finished, Answered, ShownAlike

\* The search goes on in some way, or ends; nothing is charged.
SearchGoesOn(q) ==
  \E r : /\ req' = [req EXCEPT ![q] = r]
         /\ RequestOK(r) /\ r.charged = <<>>
         /\ UNCHANGED quota

LEMMA ArriveStep ==
  ASSUME NEW q \in Requests, Arrive(q)
  PROVE  SearchGoesOn(q)
<1>1. PICK page \in Pages, text \in Texts, client \in Clients \cup {None}, scoped \in BOOLEAN : Goes(q, Arrived(page, text, client, scoped))
  BY DEF Arrive
<1> DEFINE r == Arrived(page, text, client, scoped)
<1>2. Searching(r) /\ r.charged = <<>>
  BY EmptyIsSeq DEF Searching, Arrived, Fields, Retrieving, FoundAlike
<1> HIDE DEF r
<1> QED BY <1>1, <1>2 DEF SearchGoesOn, Goes, RequestOK, r

LEMMA SearchingAt ==
  ASSUME NEW r, RequestOK(r), r.at \in Retrieving
  PROVE  Searching(r)
<1>1. r # Absent
  BY DEF Absent, Retrieving
<1> QED BY <1>1 DEF RequestOK, Metering, Generating, Finished, Retrieving

\* The embedding of the question.
LEMMA EmbeddingStep ==
  ASSUME NEW q \in Requests, RequestOK(req[q]), DOMAIN req = Requests,
         \/ LookUp(q) \/ Embedded(q) \/ RetryEmbedding(q) \/ SemanticUnavailable(q)
         \/ WordsOnly(q) \/ NoEvidence(q) \/ RequestFails(q)
  PROVE  SearchGoesOn(q)
<1> DEFINE r == req[q]
<1>0. Searching(r)
  BY SearchingAt DEF Retrieving, LookUp, Embedded, RetryEmbedding, SemanticUnavailable, WordsOnly, NoEvidence,
    RequestFails
<1>1. ASSUME NEW s, Goes(q, s), RequestOK(s), s.charged = <<>> PROVE SearchGoesOn(q)
  BY <1>1 DEF SearchGoesOn, Goes
<1>2. ASSUME NEW outcome, Goes(q, Answered(r, outcome, <<>>)) PROVE SearchGoesOn(q)
  BY <1>0, <1>1, <1>2, NothingShown DEF RequestOK, Searching
<1>3. CASE LookUp(q)
  <2>1. PICK place \in {"candidates", "embedding"} : req' = [req EXCEPT ![q].at = place]
    BY <1>3 DEF LookUp
  <2> DEFINE s == [r EXCEPT !.at = place]
  <2>2. req' = [req EXCEPT ![q] = s]
    BY <2>1
  <2>3. r.at = "lookup" /\ UNCHANGED quota
    BY <1>3 DEF LookUp
  <2>4. Searching(s) /\ s.charged = <<>>
    BY <1>0, <2>3 DEF Searching, Fields, Retrieving
  <2> HIDE DEF s
  <2> QED BY <2>2, <2>3, <2>4 DEF SearchGoesOn, RequestOK
<1>4. CASE Embedded(q)
  <2> DEFINE s == [r EXCEPT !.at = "candidates", !.attempt = 0]
  <2>1. r.at = "embedding" /\ req' = [req EXCEPT ![q] = s] /\ UNCHANGED quota
    BY <1>4 DEF Embedded
  <2>2. Searching(s) /\ s.charged = <<>>
    BY <1>0, <2>1 DEF Searching, Fields, Retrieving
  <2> HIDE DEF s
  <2> QED BY <2>1, <2>2 DEF SearchGoesOn, RequestOK
<1>5. CASE RetryEmbedding(q)
  <2> DEFINE s == [r EXCEPT !.attempt = @ + 1]
  <2>1. r.at = "embedding" /\ Goes(q, s)
    BY <1>5 DEF RetryEmbedding
  <2>2. Searching(s) /\ s.charged = <<>>
    BY <1>0, <2>1 DEF Searching, Fields, Retrieving
  <2> HIDE DEF s
  <2> QED BY <1>1, <2>1, <2>2 DEF RequestOK
<1>6. CASE SemanticUnavailable(q)
  BY <1>2, <1>6 DEF SemanticUnavailable
<1>7. CASE WordsOnly(q)
  <2> DEFINE s == [r EXCEPT !.at = "contexts", !.attempt = 0]
  <2>1. r.at = "embedding" /\ (Goes(q, Answered(r, "unavailable", <<>>)) \/ Goes(q, s))
    BY <1>7 DEF WordsOnly
  <2>2. Searching(s) /\ s.charged = <<>>
    BY <1>0, <2>1 DEF Searching, Fields, Retrieving
  <2> HIDE DEF s
  <2> QED BY <1>1, <1>2, <2>1, <2>2 DEF RequestOK
<1>8. CASE NoEvidence(q)
  <2> DEFINE s == [r EXCEPT !.at = "client", !.attempt = 0]
  <2>1. r.at = "embedding" /\ r.page = "ask" /\ Goes(q, s)
    BY <1>8 DEF NoEvidence
  <2>2. HasEvidence(s) /\ Metering(s) /\ s.charged = <<>>
    BY <1>0, <2>1 DEF Searching, HasEvidence, Metering, Fields
  <2> HIDE DEF s
  <2> QED BY <1>1, <2>1, <2>2 DEF RequestOK
<1>9. CASE RequestFails(q)
  BY <1>2, <1>9 DEF RequestFails
<1> QED BY <1>3, <1>4, <1>5, <1>6, <1>7, <1>8, <1>9

\* The rows found by words and by meaning, and their ranking.
LEMMA RankingStep ==
  ASSUME StoreInv, NEW q \in Requests, RequestOK(req[q]), DOMAIN req = Requests,
         \/ SearchPassageWords(q) \/ SearchPassages(q) \/ SearchChunks(q) \/ SearchChunkWords(q)
         \/ Rerank(q)
  PROVE  SearchGoesOn(q)
<1> DEFINE r == req[q]
<1>0. Searching(r)
  BY SearchingAt DEF Retrieving, SearchPassageWords, SearchPassages, SearchChunks, SearchChunkWords, Rerank
<1>1. ASSUME NEW s, Goes(q, s), RequestOK(s), s.charged = <<>> PROVE SearchGoesOn(q)
  BY <1>1 DEF SearchGoesOn, Goes
<1>2. ASSUME NEW rows, IsSeq(rows) PROVE IsSeq(Ids(First(rows, CandidateLimit)))
  BY <1>2, FirstSeq, IdsSeq, LimitsPositive
\* A ranking with nothing in it is no evidence, one with something goes on.
<1>3. ASSUME NEW ranked, IsSeq(ranked), NEW s, s = [r EXCEPT !.semantic = ranked, !.at = AfterRanking(ranked)],
             r.attempt = 0, r.page = "ask"
      PROVE  RequestOK(s) /\ s.charged = <<>>
  <2>1. CASE ranked = <<>>
    <3>1. HasEvidence(s) /\ Metering(s) /\ s.charged = <<>>
      BY <1>0, <1>3, <2>1 DEF Searching, HasEvidence, Metering, Fields, AfterRanking
    <3> QED BY <3>1 DEF RequestOK
  <2>2. CASE ranked # <<>>
    <3>1. Searching(s) /\ s.charged = <<>>
      BY <1>0, <1>3, <2>2 DEF Searching, Fields, Retrieving, AfterRanking
    <3> QED BY <3>1 DEF RequestOK
  <2> QED BY <2>1, <2>2
<1>4. CASE SearchPassageWords(q)
  <2> DEFINE rows == Ids(First(Content.words, CandidateLimit))
             s == [r EXCEPT !.at = "lookup", !.lexical = rows]
  <2>1. r.at = "lexical" /\ r.page = "hybrid" /\ Goes(q, s)
    BY <1>4 DEF SearchPassageWords
  <2>2. IsSeq(rows)
    BY <1>2, ContentSeq
  <2> HIDE DEF rows
  <2>3. Searching(s) /\ s.charged = <<>>
    BY <1>0, <2>1, <2>2 DEF Searching, Fields, Retrieving
  <2> HIDE DEF s
  <2> QED BY <1>1, <2>1, <2>3 DEF RequestOK
<1>5. CASE SearchPassages(q)
  <2> DEFINE near == Ids(First(Content.meaning, CandidateLimit))
             s == [r EXCEPT !.at = "rerank", !.semantic = near]
  <2>1. r.at = "candidates" /\ (Goes(q, Answered(r, "empty", <<>>)) \/ Goes(q, s))
    BY <1>5 DEF SearchPassages
  <2>2. IsSeq(near)
    BY <1>2, ContentSeq
  <2> HIDE DEF near
  <2>3. Searching(s) /\ s.charged = <<>>
    BY <1>0, <2>1, <2>2 DEF Searching, Fields, Retrieving
  <2>4. Finished(Answered(r, "empty", <<>>)) /\ Answered(r, "empty", <<>>).charged = <<>>
    BY <1>0, NothingShown DEF Searching
  <2> HIDE DEF s
  <2> QED BY <1>1, <2>1, <2>3, <2>4 DEF RequestOK
<1>6. CASE SearchChunks(q)
  <2> DEFINE nearest == Ids(First(Content.chunks, CandidateLimit))
             close == { id \in Range(nearest) : r.scoped \/ Content.chunk[id[2]].similarity >= MinimumSimilarity }
             near == Kept(nearest, close)
             place == IF LexicalFusion THEN "lexical" ELSE AfterRanking(near)
             s == [r EXCEPT !.semantic = near, !.at = place]
  <2>1. r.at = "candidates" /\ r.page = "ask" /\ Goes(q, s)
    BY <1>6, Zenon DEF SearchChunks
  <2>2. IsSeq(nearest)
    BY <1>2, ContentSeq
  <2> HIDE DEF nearest, close
  <2>3. IsSeq(near) /\ r.attempt = 0
    BY <1>0, <2>1, <2>2, KeptSeq DEF Searching
  <2> HIDE DEF near
  <2>4. CASE place = "lexical"
    <3>1. Searching(s) /\ s.charged = <<>>
      BY <1>0, <2>1, <2>3, <2>4 DEF Searching, Fields, Retrieving
    <3> HIDE DEF s
    <3> QED BY <1>1, <2>1, <3>1 DEF RequestOK
  <2>5. CASE place = AfterRanking(near)
    <3>1. s = [r EXCEPT !.semantic = near, !.at = AfterRanking(near)]
      BY <2>5
    <3> HIDE DEF s, place
    <3>2. RequestOK(s) /\ s.charged = <<>>
      BY <1>3, <2>1, <2>3, <3>1
    <3> QED BY <1>1, <2>1, <3>2
  <2> QED BY <2>4, <2>5
<1>7. CASE SearchChunkWords(q)
  <2> DEFINE words == Ids(First(Content.chunk_words, CandidateLimit))
             ranked == Fused(words, r.semantic)
             s == [r EXCEPT !.semantic = ranked, !.at = AfterRanking(ranked)]
  <2>1. r.at = "lexical" /\ r.page = "ask" /\ Goes(q, s)
    BY <1>7, Zenon DEF SearchChunkWords
  <2>2. IsSeq(words)
    BY <1>2, ContentSeq
  <2> HIDE DEF words
  <2>3. IsSeq(ranked) /\ r.attempt = 0
    BY <1>0, <2>1, <2>2, FusedSeq DEF Searching
  <2> HIDE DEF ranked
  <2>4. RequestOK(s) /\ s.charged = <<>>
    BY <1>3, <2>1, <2>3
  <2> HIDE DEF s
  <2> QED BY <1>1, <2>1, <2>4
<1>8. CASE Rerank(q)
  <2> DEFINE reranked == Reranked(r.semantic, [id \in Range(r.semantic) |-> AdjustedScore(id)])
             ranked == IF r.page = "hybrid" THEN Fused(r.lexical, reranked) ELSE reranked
             s == [r EXCEPT !.at = "contexts", !.semantic = ranked]
  <2>1. r.at = "rerank" /\ Goes(q, s)
    BY <1>8, Zenon DEF Rerank
  <2>2. IsSeq(reranked)
    BY <1>0, RerankedSeq DEF Searching
  <2> HIDE DEF reranked
  <2>3. IsSeq(ranked)
    BY <1>0, <2>2, FusedSeq DEF Searching
  <2> HIDE DEF ranked
  <2>4. Searching(s) /\ s.charged = <<>>
    BY <1>0, <2>1, <2>3 DEF Searching, Fields, Retrieving
  <2> HIDE DEF s
  <2> QED BY <1>1, <2>1, <2>4 DEF RequestOK
<1> QED BY <1>4, <1>5, <1>6, <1>7, <1>8

\* The contexts or citations of the rows, read of whichever release is live by then.
LEMMA CitingStep ==
  ASSUME NEW q \in Requests, RequestOK(req[q]), DOMAIN req = Requests,
         \/ ExpandContexts(q) \/ CitePublication(q) \/ ResolveMembers(q) \/ ResolveCitations(q)
         \/ ResolveCitationMembers(q)
  PROVE  SearchGoesOn(q)
<1> DEFINE r == req[q]
<1>0. Searching(r)
  BY SearchingAt DEF Retrieving, ExpandContexts, CitePublication, ResolveMembers, ResolveCitations,
    ResolveCitationMembers
<1>1. ASSUME NEW s, Goes(q, s), RequestOK(s), s.charged = <<>> PROVE SearchGoesOn(q)
  BY <1>1 DEF SearchGoesOn, Goes
<1>2. CASE ExpandContexts(q)
  <2> DEFINE rows == IF r.semantic = <<>> THEN r.lexical ELSE r.semantic
             shown == { id \in Range(rows) : ReadFrom(id) # None /\ id[2] \in Content.shown }
             found == [id \in shown |-> ReadFrom(id)]
             s == [r EXCEPT !.at = "publication", !.semantic = rows, !.found = found]
  <2>1. r.at = "contexts" /\ Goes(q, s)
    BY <1>2, Zenon DEF ExpandContexts
  <2>2. FoundAlike(found)
    BY ReadAlike
  <2>3. IsSeq(rows)
    BY <1>0 DEF Searching
  <2> HIDE DEF rows, found
  <2>4. Searching(s) /\ s.charged = <<>>
    BY <1>0, <2>1, <2>2, <2>3 DEF Searching, Fields, Retrieving
  <2> HIDE DEF s
  <2> QED BY <1>1, <2>1, <2>4 DEF RequestOK
<1>3. CASE CitePublication(q)
  <2> DEFINE kept == Kept(r.semantic, DOMAIN r.found)
             results == First(kept, ResultLimit)
             named == [id \in DOMAIN r.found |-> live]
             s == Answered(r, "results", Shown(results, r.found, named))
  <2>1. Goes(q, s)
    BY <1>3, Zenon DEF CitePublication
  <2>2. IsSeq(kept) /\ \A k \in DOMAIN kept : kept[k] \in DOMAIN r.found
    BY <1>0, KeptSeq DEF Searching
  <2> HIDE DEF kept
  <2>3. \A k \in DOMAIN results : results[k] \in DOMAIN r.found
    <3>1. ResultLimit \in Nat \ {0}
      BY LimitsPositive
    <3>2. \A k \in DOMAIN results : k \in DOMAIN kept /\ results[k] = kept[k]
      BY <2>2, <3>1, FirstSeq
    <3> QED BY <2>2, <3>2
  <2> HIDE DEF results, named
  <2>4. ShownAlike(Shown(results, r.found, named))
    BY <1>0, <2>3, ListedAlike DEF Searching
  <2>5. Finished(s) /\ s.charged = <<>>
    BY <1>0, <2>4, LimitsPositive DEF Searching, Finished, Answered
  <2> HIDE DEF s
  <2> QED BY <1>1, <2>1, <2>5 DEF RequestOK
<1>4. CASE ResolveMembers(q)
  <2> DEFINE members == [id \in Range(r.semantic) |->
                           IF ReadFrom(id) # None THEN release[id[1]].chunk[id[2]].members ELSE {}]
             rows == Distinct(r.semantic, members)
             s == [r EXCEPT !.at = "citations", !.semantic = rows]
  <2>1. r.at = "members" /\ Goes(q, s)
    BY <1>4, Zenon DEF ResolveMembers
  <2> HIDE DEF members
  <2>2. IsSeq(rows)
    BY <1>0, KeptSeq DEF Searching, Distinct
  <2> HIDE DEF rows
  <2>3. Searching(s) /\ s.charged = <<>>
    BY <1>0, <2>1, <2>2 DEF Searching, Fields, Retrieving
  <2> HIDE DEF s
  <2> QED BY <1>1, <2>1, <2>3 DEF RequestOK
<1>5. CASE ResolveCitations(q)
  <2> DEFINE cited == { id \in Range(r.semantic) : ReadFrom(id) # None }
             rows == Kept(r.semantic, cited)
             found == [id \in cited |-> ReadFrom(id)]
             s == [r EXCEPT !.at = "citation_members", !.semantic = rows, !.found = found]
  <2>1. r.at = "citations" /\ Goes(q, s)
    BY <1>5, Zenon DEF ResolveCitations
  <2>2. FoundAlike(found) /\ DOMAIN found = cited
    BY ReadAlike
  <2>3. IsSeq(rows) /\ \A k \in DOMAIN rows : rows[k] \in cited
    BY <1>0, KeptSeq DEF Searching
  <2> HIDE DEF rows, found, cited
  <2>4. Searching(s) /\ s.charged = <<>>
    BY <1>0, <2>1, <2>2, <2>3 DEF Searching, Fields, Retrieving
  <2> HIDE DEF s
  <2> QED BY <1>1, <2>1, <2>4 DEF RequestOK
<1>6. CASE ResolveCitationMembers(q)
  <2> DEFINE named == [id \in DOMAIN r.found |-> ReadFrom(id)]
             s == [r EXCEPT !.at = "client", !.named = named]
  <2>1. r.at = "citation_members" /\ Goes(q, s)
    BY <1>6, Zenon DEF ResolveCitationMembers
  <2>2. DOMAIN named = DOMAIN r.found
    OBVIOUS
  <2> HIDE DEF named
  <2>3. HasEvidence(s) /\ Metering(s) /\ s.charged = <<>>
    BY <1>0, <2>1, <2>2 DEF Searching, HasEvidence, Metering, Fields
  <2> HIDE DEF s
  <2> QED BY <1>1, <2>1, <2>3 DEF RequestOK
<1> QED BY <1>2, <1>3, <1>4, <1>5, <1>6

\* The refusal of a question shows its evidence; nothing was asked.
LEMMA RefusedFinished ==
  ASSUME NEW r, HasEvidence(r), r.charged = <<>>, r.calls = 0
  PROVE  Finished(Refused(r)) /\ Refused(r).charged = <<>> /\ Refused(r).client = r.client
<1>1. ShownAlike(Shown(r.semantic, r.found, r.named))
  BY ListedAlike DEF HasEvidence
<1> QED BY <1>1, LimitsPositive DEF Refused, Answered, Finished

\* The calls to the provider.
LEMMA GenerateStep ==
  ASSUME NEW q \in Requests, RequestOK(req[q]), DOMAIN req = Requests, Generate(q)
  PROVE  \E r : Goes(q, r) /\ RequestOK(r) /\ r.charged = req[q].charged /\ r.client = req[q].client
<1> DEFINE r == req[q]
           called == [r EXCEPT !.calls = @ + 1, !.attempt = @ + 1]
           evidence == Shown(r.semantic, r.found, r.named)
<1>1. r.at = "generate" /\ HasEvidence(r) /\ Generating(r)
  BY DEF Generate, RequestOK, Absent, Searching, Retrieving, Metering, Finished
<1>2. ShownAlike(evidence) /\ MaxRetries \in Nat /\ ShownAlike(<<>>)
  BY <1>1, ListedAlike, LimitsPositive DEF HasEvidence, ShownAlike
<1>3. /\ DOMAIN called = Fields /\ called.at = "generate" /\ called.charged = r.charged /\ called.client = r.client
      /\ called.semantic = r.semantic /\ called.found = r.found /\ called.named = r.named /\ called.page = r.page
      /\ called.calls = r.calls + 1 /\ called.attempt = r.attempt + 1
  BY <1>1 DEF HasEvidence, Fields
<1>4. Metered(called)
  BY <1>1, <1>3 DEF Generating, Metered
<1>5. CASE evidence = <<>> /\ Goes(q, Answered(r, "insufficient", <<>>))
  <2>1. Finished(Answered(r, "insufficient", <<>>))
    BY <1>1, <1>2, <1>5 DEF Finished, Answered, Generating, Metered
  <2> QED BY <1>5, <2>1 DEF RequestOK, Answered
<1>6. ASSUME evidence # <<>>, NEW outcome, Goes(q, Answered(called, outcome, evidence))
      PROVE  \E s : Goes(q, s) /\ RequestOK(s) /\ s.charged = req[q].charged /\ s.client = req[q].client
  <2> DEFINE s == Answered(called, outcome, evidence)
  <2> HIDE DEF called, evidence
  <2>1. s.at = "done" /\ s.charged = r.charged /\ s.client = r.client /\ s.calls = r.calls + 1 /\ s.shown = evidence
    BY <1>3 DEF Answered
  <2>2. s.calls \in 0 .. 1 + MaxRetries
    BY <1>1, <1>2, <2>1 DEF Generating
  <2>3. Metered(s)
    BY <1>1, <2>1 DEF Generating, Metered
  <2>4. s.charged = <<>> \/ \E c, g \in Nat : s.charged = <<c, g>>
    BY <2>3 DEF Metered
  <2> HIDE DEF s
  <2>5. Finished(s)
    BY <1>2, <1>6, <2>1, <2>2, <2>3, <2>4 DEF Finished
  <2> QED BY <1>6, <2>1, <2>5 DEF RequestOK, s
<1>7. CASE evidence # <<>> /\ r.attempt < MaxRetries /\ Goes(q, called)
  <2> HIDE DEF called
  <2>1. Generating(called) /\ HasEvidence(called)
    BY <1>1, <1>2, <1>3, <1>4, <1>7 DEF Generating, HasEvidence
  <2> QED BY <1>3, <1>7, <2>1 DEF RequestOK
<1> QED BY <1>5, <1>6, <1>7 DEF Generate

-----------------------------------------------------------------------------
(* The quota                                                                *)

\* Counters are kept for the clients that have a cookie, and for all of them.
Keys == (Clients \ {None}) \cup {"global"}

LimitOf(key) == IF key = "global" THEN GlobalLimit ELSE PerClientLimit

\* The request was let through by the counter of a key on a day.
ChargedOn(r, key, d) ==
  /\ r # Absent
  /\ IF key = "global" THEN \E c \in Nat : r.charged = <<c, d>>
     ELSE r.client = key /\ (r.charged = <<d>> \/ \E g \in Nat : r.charged = <<d, g>>)

ChargedTo(key, d) == { q \in Requests : ChargedOn(req[q], key, d) }

\* Today's counters have counted every request let through today, and on no day
\* more were let through than the limits allow.
MeterInv ==
  /\ day \in Nat
  /\ \A x \in DOMAIN counters : counters[x] \in Nat
  /\ \A key \in Keys :
       /\ Cardinality(ChargedTo(key, day)) <= Count(key)
       /\ \A d \in Nat : Cardinality(ChargedTo(key, d)) <= LimitOf(key)
       /\ \A d \in Nat : d > day => ChargedTo(key, d) = {}

LEMMA ChargedFinite ==
  ASSUME NEW key, NEW d
  PROVE  IsFiniteSet(ChargedTo(key, d)) /\ Cardinality(ChargedTo(key, d)) \in Nat
<1>1. ChargedTo(key, d) \subseteq Requests
  BY DEF ChargedTo
<1> QED BY <1>1, RequestsFinite, FS_Subset, FS_CardinalityType

LEMMA CountTyped ==
  ASSUME MeterInv, NEW key
  PROVE  Count(key) \in Nat
BY DEF MeterInv, Count

\* One counter goes up by one; those of today are not pruned.
LEMMA CountedOnce ==
  ASSUME MeterInv, NEW k, counters' = Incremented(k), day' = day
  PROVE  /\ \A x \in DOMAIN counters' : counters'[x] \in Nat
         /\ Count(k)' = Count(k) + 1
         /\ \A key : key # k => Count(key)' = Count(key)
<1> DEFINE recent == { x \in DOMAIN counters : x[2] >= day - RetentionDays }
<1>1. day \in Nat /\ RetentionDays \in Nat /\ Count(k) \in Nat
  BY CountTyped, LimitsPositive DEF MeterInv
<1>2. counters' = [x \in recent \cup {<<k, day>>} |-> IF x = <<k, day>> THEN Count(k) + 1 ELSE counters[x]]
  BY DEF Incremented
<1>3. \A x \in DOMAIN counters' : counters'[x] \in Nat
  BY <1>1, <1>2 DEF MeterInv
<1>4. Count(k)' = Count(k) + 1
  <2>1. <<k, day>> \in DOMAIN counters' /\ counters'[<<k, day>>] = Count(k) + 1
    BY <1>2
  <2> QED BY <2>1 DEF Count
<1>5. ASSUME NEW key, key # k PROVE Count(key)' = Count(key)
  <2>1. <<key, day>> # <<k, day>> /\ <<key, day>>[2] = day /\ day >= day - RetentionDays
    BY <1>1, <1>5
  <2>2. <<key, day>> \in DOMAIN counters' <=> <<key, day>> \in DOMAIN counters
    BY <1>2, <2>1
  <2>3. <<key, day>> \in DOMAIN counters => counters'[<<key, day>>] = counters[<<key, day>>]
    BY <1>2, <2>1
  <2> QED BY <2>2, <2>3 DEF Count
<1> QED BY <1>3, <1>4, <1>5

\* When one request goes on, the others stay charged as they were.
LEMMA ChargedAfter ==
  ASSUME DOMAIN req = Requests, NEW q \in Requests, NEW r, req' = [req EXCEPT ![q] = r], NEW key, NEW d
  PROVE  /\ ChargedOn(r, key, d) => ChargedTo(key, d)' \subseteq ChargedTo(key, d) \cup {q}
         /\ ~ ChargedOn(r, key, d) \/ ChargedOn(req[q], key, d) => ChargedTo(key, d)' \subseteq ChargedTo(key, d)
<1>1. \A p \in Requests : req'[p] = IF p = q THEN r ELSE req[p]
  OBVIOUS
<1>2. ChargedTo(key, d)' = { p \in Requests : ChargedOn(req'[p], key, d) }
  BY DEF ChargedTo, ChargedOn, Absent
<1> QED BY <1>1, <1>2 DEF ChargedTo

\* Fewer charges under counters that went up, if they changed, keep to the limits.
LEMMA FewerCharged ==
  ASSUME NEW S, NEW T, IsFiniteSet(T), S \subseteq T
  PROVE  IsFiniteSet(S) /\ Cardinality(S) \in Nat /\ Cardinality(T) \in Nat /\ Cardinality(S) <= Cardinality(T)
BY FS_Subset, FS_CardinalityType

\* A step after which today's counters are as they were, or higher, and nobody
\* else was let through.
LEMMA MeterKept ==
  ASSUME MeterInv, day' = day,
         \A x \in DOMAIN counters' : counters'[x] \in Nat,
         \A key \in Keys : Count(key)' \in Nat /\ Count(key) <= Count(key)',
         \A key \in Keys, d \in Nat : ChargedTo(key, d)' \subseteq ChargedTo(key, d)
  PROVE  MeterInv'
<1>1. ASSUME NEW key \in Keys, NEW d \in Nat
      PROVE  /\ Cardinality(ChargedTo(key, d)') \in Nat /\ Cardinality(ChargedTo(key, d)) \in Nat
             /\ Cardinality(ChargedTo(key, d)') <= Cardinality(ChargedTo(key, d))
  BY ChargedFinite, FewerCharged
<1>2. day \in Nat
  BY DEF MeterInv
<1>3. ASSUME NEW key \in Keys PROVE Cardinality(ChargedTo(key, day)') <= Count(key)'
  <2>1. Cardinality(ChargedTo(key, day)) <= Count(key) /\ Count(key) \in Nat
    BY CountTyped DEF MeterInv
  <2> QED BY <1>1, <1>2, <2>1
<1>4. ASSUME NEW key \in Keys, NEW d \in Nat
      PROVE  Cardinality(ChargedTo(key, d)') <= LimitOf(key) /\ (d > day => ChargedTo(key, d)' = {})
  <2>1. Cardinality(ChargedTo(key, d)) <= LimitOf(key) /\ (d > day => ChargedTo(key, d) = {})
    BY DEF MeterInv
  <2>2. LimitOf(key) \in Nat
    BY LimitsPositive DEF LimitOf
  <2>3. d > day => ChargedTo(key, d)' = {}
    BY <2>1
  <2> QED BY <1>1, <2>1, <2>2, <2>3
<1>5. \A key \in Keys : Cardinality(ChargedTo(key, day))' <= Count(key)'
  BY <1>3
<1>6. \A key \in Keys : \A d \in Nat :
        Cardinality(ChargedTo(key, d))' <= LimitOf(key) /\ (d > day' => ChargedTo(key, d)' = {})
  BY <1>4
<1> QED BY <1>2, <1>5, <1>6 DEF MeterInv, LimitOf

\* A step that lets one more request through, by a counter that still allowed it.
LEMMA MeterLet ==
  ASSUME MeterInv, NEW k \in Keys, Within(k, LimitOf(k)), counters' = Incremented(k), day' = day,
         NEW q \in Requests,
         ChargedTo(k, day)' \subseteq ChargedTo(k, day) \cup {q},
         \A key \in Keys, d \in Nat : key # k \/ d # day => ChargedTo(key, d)' \subseteq ChargedTo(key, d)
  PROVE  MeterInv'
<1>1. ASSUME NEW key \in Keys, NEW d \in Nat, key # k \/ d # day
      PROVE  /\ Cardinality(ChargedTo(key, d)') \in Nat /\ Cardinality(ChargedTo(key, d)) \in Nat
             /\ Cardinality(ChargedTo(key, d)') <= Cardinality(ChargedTo(key, d))
  BY <1>1, ChargedFinite, FewerCharged
<1>2. /\ Cardinality(ChargedTo(k, day)') \in Nat /\ Cardinality(ChargedTo(k, day)) \in Nat
      /\ Cardinality(ChargedTo(k, day)') <= Cardinality(ChargedTo(k, day)) + 1
  <2>1. /\ IsFiniteSet(ChargedTo(k, day)) /\ Cardinality(ChargedTo(k, day)) \in Nat
    BY ChargedFinite
  <2>2. /\ IsFiniteSet(ChargedTo(k, day) \cup {q})
        /\ Cardinality(ChargedTo(k, day) \cup {q}) <= Cardinality(ChargedTo(k, day)) + 1
    <3>1. /\ IsFiniteSet(ChargedTo(k, day) \cup {q})
          /\ Cardinality(ChargedTo(k, day) \cup {q}) =
               IF q \in ChargedTo(k, day) THEN Cardinality(ChargedTo(k, day)) ELSE Cardinality(ChargedTo(k, day)) + 1
      BY <2>1, FS_AddElement, Zenon
    <3> QED BY <2>1, <3>1
  <2>3. /\ Cardinality(ChargedTo(k, day)') \in Nat /\ Cardinality(ChargedTo(k, day) \cup {q}) \in Nat
        /\ Cardinality(ChargedTo(k, day)') <= Cardinality(ChargedTo(k, day) \cup {q})
    BY <2>2, FewerCharged
  <2> QED BY <2>1, <2>2, <2>3
<1>3. /\ day \in Nat /\ \A key \in Keys : Count(key) \in Nat /\ LimitOf(key) \in Nat
      /\ \A key \in Keys : Cardinality(ChargedTo(key, day)) <= Count(key)
      /\ \A key \in Keys : \A d \in Nat : Cardinality(ChargedTo(key, d)) <= LimitOf(key)
      /\ \A key \in Keys : \A d \in Nat : d > day => ChargedTo(key, d) = {}
  BY CountTyped, LimitsPositive DEF MeterInv, LimitOf
<1>4. /\ \A x \in DOMAIN counters' : counters'[x] \in Nat
      /\ Count(k)' = Count(k) + 1
      /\ \A key : key # k => Count(key)' = Count(key)
  BY CountedOnce
<1>5. Count(k) + 1 <= LimitOf(k)
  BY DEF Within
<1>6. ASSUME NEW key \in Keys PROVE Cardinality(ChargedTo(key, day)') <= Count(key)'
  <2>1. CASE key = k
    BY <1>2, <1>3, <1>4, <2>1
  <2>2. CASE key # k
    <3>1. Cardinality(ChargedTo(key, day)') <= Cardinality(ChargedTo(key, day))
          /\ Cardinality(ChargedTo(key, day)') \in Nat /\ Cardinality(ChargedTo(key, day)) \in Nat
      BY <1>1, <1>3, <2>2
    <3>2. Count(key)' = Count(key) /\ Cardinality(ChargedTo(key, day)) <= Count(key) /\ Count(key) \in Nat
      BY <1>3, <1>4, <2>2
    <3> QED BY <3>1, <3>2
  <2> QED BY <2>1, <2>2
<1>7. ASSUME NEW key \in Keys, NEW d \in Nat
      PROVE  Cardinality(ChargedTo(key, d)') <= LimitOf(key) /\ (d > day => ChargedTo(key, d)' = {})
  <2>1. CASE key = k /\ d = day
    BY <1>2, <1>3, <1>5, <2>1
  <2>2. CASE key # k \/ d # day
    <3>1. Cardinality(ChargedTo(key, d)') <= Cardinality(ChargedTo(key, d))
          /\ Cardinality(ChargedTo(key, d)') \in Nat /\ Cardinality(ChargedTo(key, d)) \in Nat
      BY <1>1, <2>2
    <3>2. ChargedTo(key, d)' \subseteq ChargedTo(key, d)
      BY <2>2
    <3>3. Cardinality(ChargedTo(key, d)) <= LimitOf(key) /\ (d > day => ChargedTo(key, d) = {})
      BY DEF MeterInv
    <3>4. LimitOf(key) \in Nat
      BY <1>3
    <3>5. d > day => ChargedTo(key, d)' = {}
      BY <3>2, <3>3
    <3> QED BY <3>1, <3>3, <3>4, <3>5
  <2> QED BY <2>1, <2>2
<1>8. \A key \in Keys : Cardinality(ChargedTo(key, day))' <= Count(key)'
  BY <1>6
<1>9. \A key \in Keys : \A d \in Nat :
        Cardinality(ChargedTo(key, d))' <= LimitOf(key) /\ (d > day' => ChargedTo(key, d)' = {})
  BY <1>7
<1> QED BY <1>3, <1>4, <1>8, <1>9 DEF MeterInv, LimitOf

\* What the quota does to a request: it goes on charged with nothing, or with what
\* a counter that still allowed it was raised for.
LetGo(q, r) ==
  /\ req' = [req EXCEPT ![q] = r] /\ RequestOK(r) /\ day' = day
  /\ \/ /\ r.charged = <<>>
        /\ counters' = counters \/ \E k \in Keys : counters' = Incremented(k)
     \/ \E k \in Keys :
          /\ Within(k, LimitOf(k)) /\ counters' = Incremented(k)
          /\ \A key \in Keys, d \in Nat : ChargedOn(r, key, d) => ChargedOn(req[q], key, d) \/ (key = k /\ d = day)

LEMMA QuotaStep ==
  ASSUME NEW q \in Requests, RequestOK(req[q]), DOMAIN req = Requests, MeterInv,
         CheckClient(q) \/ CheckGlobal(q) \/ QuotaFails(q)
  PROVE  \E r : LetGo(q, r)
<1> DEFINE r == req[q]
<1>1. HasEvidence(r) /\ Metering(r)
  BY DEF CheckClient, CheckGlobal, QuotaFails, RequestOK, Absent, Searching, Retrieving, Generating, Finished
<1>2. day \in Nat /\ MaxRetries \in Nat
  BY LimitsPositive DEF MeterInv
<1>3. CASE CheckClient(q) /\ r.client = None
  <2> DEFINE s == [r EXCEPT !.at = "generate"]
  <2>1. r.at = "client" /\ Goes(q, s)
    BY <1>3 DEF CheckClient
  <2>2. HasEvidence(s) /\ Generating(s) /\ s.charged = <<>>
    BY <1>1, <1>2, <1>3, <2>1 DEF HasEvidence, Metering, Generating, Metered, Fields
  <2> HIDE DEF s
  <2> QED BY <2>1, <2>2 DEF Goes, quota, LetGo, RequestOK
<1>4. ASSUME NEW key \in Keys, NEW u, HasEvidence(u), u.charged = <<>>, u.calls = 0, u.client = r.client,
             Counted(q, key, Refused(u)) \/ Goes(q, Refused(u))
      PROVE  \E s : LetGo(q, s)
  <2>1. Finished(Refused(u)) /\ Refused(u).charged = <<>>
    BY <1>4, RefusedFinished
  <2> QED BY <1>4, <2>1 DEF Counted, Goes, quota, LetGo, RequestOK
<1>5. CASE CheckClient(q) /\ r.client # None
  <2> DEFINE s == [r EXCEPT !.at = "global", !.charged = <<day>>]
  <2>1. r.at = "client" /\ r.client \in Keys /\ r.client # "global"
    BY <1>1, <1>5, NamesDistinct DEF CheckClient, HasEvidence, Keys
  <2>2. r.charged = <<>> /\ r.calls = 0
    BY <1>1, <2>1 DEF Metering
  <2>3. CASE Within(r.client, PerClientLimit)
    <3>1. Counted(q, r.client, s)
      BY <1>5, <2>3 DEF CheckClient
    <3>2. DOMAIN s = Fields /\ s.at = "global" /\ s.charged = <<day>> /\ s.calls = 0 /\ s.attempt = 0
          /\ s.semantic = r.semantic /\ s.found = r.found /\ s.client = r.client
          /\ s.named = r.named /\ s.page = r.page
      BY <1>1, <2>2 DEF HasEvidence, Metering, Fields
    <3> HIDE DEF s
    <3>3. HasEvidence(s) /\ Metering(s)
      BY <1>1, <1>2, <3>2 DEF HasEvidence, Metering
    <3>4. ASSUME NEW key \in Keys, NEW d \in Nat, ChargedOn(s, key, d)
          PROVE  key = r.client /\ d = day
      <4>1. key # "global"
        BY <3>2, <3>4 DEF ChargedOn
      <4> QED BY <3>2, <3>4, <4>1 DEF ChargedOn
    <3>5. Within(r.client, LimitOf(r.client))
      BY <2>1, <2>3 DEF LimitOf
    <3> QED BY <2>1, <3>1, <3>3, <3>4, <3>5 DEF Counted, LetGo, RequestOK
  <2>4. CASE ~ Within(r.client, PerClientLimit)
    <3>1. Counted(q, r.client, Refused(r))
      BY <1>5, <2>4 DEF CheckClient
    <3> QED BY <1>1, <1>4, <2>1, <2>2, <3>1
  <2> QED BY <2>3, <2>4
<1>6. CASE CheckGlobal(q)
  <2> DEFINE s == [r EXCEPT !.at = "generate", !.charged = Append(@, day)]
             u == [r EXCEPT !.charged = <<>>]
  <2>1. r.at = "global" /\ "global" \in Keys
    BY <1>6 DEF CheckGlobal, Keys
  <2>2. PICK c \in Nat : r.charged = <<c>>
    BY <1>1, <2>1 DEF Metering
  <2>3. r.calls = 0 /\ r.attempt = 0
    BY <1>1, <2>1 DEF Metering
  <2>4. CASE Within("global", GlobalLimit)
    <3>1. Counted(q, "global", s)
      BY <1>6, <2>4 DEF CheckGlobal
    <3>2. DOMAIN s = Fields /\ s.at = "generate" /\ s.charged = Append(r.charged, day) /\ s.calls = 0 /\ s.attempt = 0
          /\ s.semantic = r.semantic /\ s.found = r.found /\ s.client = r.client
          /\ s.named = r.named /\ s.page = r.page
      BY <1>1, <2>3 DEF HasEvidence, Fields
    <3>3. s.charged = <<c, day>>
      <4>1. Append(<<c>>, day) = <<c, day>>
        <5>1. <<c>> \in Seq(Nat) /\ Len(<<c>>) = 1
          OBVIOUS
        <5>2. /\ Append(<<c>>, day) \in Seq(Nat) /\ Len(Append(<<c>>, day)) = 2
              /\ Append(<<c>>, day)[1] = c /\ Append(<<c>>, day)[2] = day
          BY <1>2, <5>1, AppendProperties
        <5>3. DOMAIN Append(<<c>>, day) = 1 .. 2 /\ Append(<<c>>, day) = [i \in 1 .. 2 |-> Append(<<c>>, day)[i]]
          BY <5>2, LenProperties
        <5>4. <<c, day>> = [i \in 1 .. 2 |-> <<c, day>>[i]]
          OBVIOUS
        <5>5. \A i \in 1 .. 2 : i = 1 \/ i = 2
          OBVIOUS
        <5>6. \A i \in 1 .. 2 : Append(<<c>>, day)[i] = <<c, day>>[i]
          BY <5>2, <5>5
        <5>7. [i \in 1 .. 2 |-> Append(<<c>>, day)[i]] = [i \in 1 .. 2 |-> <<c, day>>[i]]
          BY <5>6, Zenon
        <5> QED BY <5>3, <5>4, <5>7, Zenon
      <4> QED BY <2>2, <3>2, <4>1
    <3> HIDE DEF s
    <3>4. HasEvidence(s) /\ Generating(s)
      BY <1>1, <1>2, <3>2, <3>3 DEF HasEvidence, Generating, Metered
    <3>5. ASSUME NEW key \in Keys, NEW d \in Nat, ChargedOn(s, key, d)
          PROVE  ChargedOn(r, key, d) \/ (key = "global" /\ d = day)
      <4>1. CASE key = "global"
        BY <3>3, <3>5, <4>1 DEF ChargedOn
      <4>2. CASE key # "global"
        <5>1. s.client = key /\ d = c
          BY <3>3, <3>5, <4>2 DEF ChargedOn
        <5>2. r # Absent
          BY <2>1 DEF Absent
        <5> QED BY <2>2, <3>2, <4>2, <5>1, <5>2 DEF ChargedOn
      <4> QED BY <4>1, <4>2
    <3>6. Within("global", LimitOf("global"))
      BY <2>4 DEF LimitOf
    <3> QED BY <2>1, <3>1, <3>4, <3>5, <3>6 DEF Counted, LetGo, RequestOK
  <2>5. CASE ~ Within("global", GlobalLimit)
    <3>1. Counted(q, "global", Refused(u))
      BY <1>6, <2>5 DEF CheckGlobal
    <3>2. HasEvidence(u) /\ u.charged = <<>> /\ u.calls = 0 /\ u.client = r.client
      BY <1>1, <2>3 DEF HasEvidence, Fields
    <3> HIDE DEF u
    <3> QED BY <1>4, <2>1, <3>1, <3>2
  <2> QED BY <2>4, <2>5
<1>7. CASE QuotaFails(q)
  <2> DEFINE s == [r EXCEPT !.at = "generate", !.charged = <<>>]
             u == [r EXCEPT !.charged = <<>>]
             key == IF r.at = "client" THEN r.client ELSE "global"
  <2>1. r.at \in {"client", "global"} /\ r.client # None /\ key \in Keys /\ r.calls = 0 /\ r.attempt = 0
    BY <1>1, <1>7 DEF QuotaFails, HasEvidence, Keys, Metering
  <2>2. CASE FailOpen
    <3>1. Goes(q, s) \/ Counted(q, key, s)
      BY <1>7, <2>2 DEF QuotaFails
    <3>2. HasEvidence(s) /\ Generating(s) /\ s.charged = <<>>
      BY <1>1, <1>2, <2>1, <2>2 DEF HasEvidence, Generating, Metered, Fields
    <3> HIDE DEF s, key
    <3> QED BY <2>1, <3>1, <3>2 DEF Counted, Goes, quota, LetGo, RequestOK
  <2>3. CASE ~ FailOpen
    <3>1. Goes(q, Refused(u)) \/ Counted(q, key, Refused(u))
      BY <1>7, <2>3 DEF QuotaFails
    <3>2. HasEvidence(u) /\ u.charged = <<>> /\ u.calls = 0 /\ u.client = r.client
      BY <1>1, <2>1 DEF HasEvidence, Fields
    <3> HIDE DEF u, key
    <3> QED BY <1>4, <2>1, <3>1, <3>2
  <2> QED BY <2>2, <2>3
<1> QED BY <1>3, <1>5, <1>6, <1>7

-----------------------------------------------------------------------------
(* The invariant is inductive                                               *)

\* What a page lists is of one release, and what is let through was counted,
\* because of what each waiting request has read and was charged so far.
IInv == StoreInv /\ RequestInv /\ MeterInv

LEMMA RequestGoesOn ==
  ASSUME RequestInv, NEW q \in Requests, NEW r, RequestOK(r), req' = [req EXCEPT ![q] = r]
  PROVE  RequestInv'
<1>1. DOMAIN req' = Requests /\ \A p \in Requests : req'[p] = IF p = q THEN r ELSE req[p]
  BY DEF RequestInv
<1>2. \A p \in Requests : RequestOK(req'[p])
  BY <1>1 DEF RequestInv
<1> QED BY <1>1, <1>2 DEF RequestInv

LEMMA InitIInv == Init => IInv
<1> SUFFICES ASSUME Init PROVE IInv
  OBVIOUS
<1>1. StoreInv
  BY DEF Init, Register!Init, StoreInv
<1>2. DOMAIN req = Requests /\ \A q \in Requests : req[q] = Absent
  BY DEF Init
<1>3. RequestInv
  BY <1>2 DEF RequestInv, RequestOK
<1>4. MeterInv
  <2>1. \A key, d : ChargedTo(key, d) = {}
    BY <1>2 DEF ChargedTo, ChargedOn
  <2>2. \A key \in Keys : Count(key) \in Nat /\ LimitOf(key) \in Nat
    BY LimitsPositive DEF Init, Count, LimitOf
  <2>3. day \in Nat /\ DOMAIN counters = {}
    BY DEF Init
  <2>4. Cardinality({}) = 0
    BY FS_EmptySet
  <2>5. ASSUME NEW key \in Keys PROVE Cardinality(ChargedTo(key, day)) <= Count(key)
    BY <2>1, <2>2, <2>4
  <2>6. ASSUME NEW key \in Keys, NEW d \in Nat
        PROVE  Cardinality(ChargedTo(key, d)) <= LimitOf(key) /\ ChargedTo(key, d) = {}
    BY <2>1, <2>2, <2>4
  <2> QED BY <2>3, <2>5, <2>6 DEF MeterInv
<1> QED BY <1>1, <1>3, <1>4 DEF IInv

\* Nobody is charged for what was not, and counters and days stand still.
LEMMA MeterSame ==
  ASSUME MeterInv, UNCHANGED quota,
         \A key \in Keys, d \in Nat : ChargedTo(key, d)' \subseteq ChargedTo(key, d)
  PROVE  MeterInv'
<1>1. day' = day /\ counters' = counters
  BY DEF quota
<1>2. \A x \in DOMAIN counters' : counters'[x] \in Nat
  BY <1>1 DEF MeterInv
<1>3. \A key \in Keys : Count(key)' \in Nat /\ Count(key) <= Count(key)'
  <2>1. \A key \in Keys : Count(key)' = Count(key)
    BY <1>1 DEF Count
  <2> QED BY <2>1, CountTyped
<1> QED BY <1>1, <1>2, <1>3, MeterKept

LEMMA UnchargedOn ==
  ASSUME NEW r, r.charged = <<>>, NEW key, NEW d
  PROVE  ~ ChargedOn(r, key, d)
<1>1. \A c, g : <<>> # <<c>> /\ <<>> # <<c, g>>
  OBVIOUS
<1> QED BY <1>1 DEF ChargedOn

LEMMA SearchStep ==
  ASSUME IInv, NEW q \in Requests, SearchGoesOn(q)
  PROVE  RequestInv' /\ MeterInv'
<1>1. PICK r : req' = [req EXCEPT ![q] = r] /\ RequestOK(r) /\ r.charged = <<>> /\ UNCHANGED quota
  BY DEF SearchGoesOn
<1>2. DOMAIN req = Requests
  BY DEF IInv, RequestInv
<1>3. ASSUME NEW key, NEW d PROVE ChargedTo(key, d)' \subseteq ChargedTo(key, d)
  <2>1. ~ ChargedOn(r, key, d)
    BY <1>1, UnchargedOn
  <2> QED BY <1>1, <1>2, <2>1, ChargedAfter
<1> QED BY <1>1, <1>3, RequestGoesOn, MeterSame DEF IInv

LEMMA LetGoStep ==
  ASSUME IInv, NEW q \in Requests, NEW r, LetGo(q, r)
  PROVE  RequestInv' /\ MeterInv'
<1>0. req' = [req EXCEPT ![q] = r] /\ RequestOK(r) /\ day' = day /\ MeterInv /\ RequestInv /\ DOMAIN req = Requests
  BY DEF LetGo, IInv, RequestInv
<1>1. RequestInv'
  BY <1>0, RequestGoesOn
<1>2. CASE r.charged = <<>> /\ (counters' = counters \/ \E k \in Keys : counters' = Incremented(k))
  <2>1. \A key, d : ChargedTo(key, d)' \subseteq ChargedTo(key, d)
    <3>1. ASSUME NEW key, NEW d PROVE ChargedTo(key, d)' \subseteq ChargedTo(key, d)
      <4>1. ~ ChargedOn(r, key, d)
        BY <1>2, UnchargedOn
      <4> QED BY <1>0, <4>1, ChargedAfter
    <3> QED BY <3>1
  <2>2. CASE counters' = counters
    <3>1. UNCHANGED quota
      BY <1>0, <2>2 DEF quota
    <3> QED BY <1>0, <1>1, <2>1, <3>1, MeterSame
  <2>3. ASSUME NEW k \in Keys, counters' = Incremented(k) PROVE MeterInv'
    <3>1. /\ \A x \in DOMAIN counters' : counters'[x] \in Nat
          /\ Count(k)' = Count(k) + 1
          /\ \A key : key # k => Count(key)' = Count(key)
      BY <1>0, <2>3, CountedOnce
    <3>2. \A key \in Keys : Count(key)' \in Nat /\ Count(key) <= Count(key)'
      <4>1. ASSUME NEW key \in Keys PROVE Count(key)' \in Nat /\ Count(key) <= Count(key)'
        <5>1. Count(key) \in Nat
          BY <1>0, CountTyped
        <5>2. Count(key)' = Count(key) + 1 \/ Count(key)' = Count(key)
          BY <3>1
        <5> QED BY <5>1, <5>2
      <4> QED BY <4>1
    <3>3. \A key \in Keys, d \in Nat : ChargedTo(key, d)' \subseteq ChargedTo(key, d)
      BY <2>1
    <3>4. \A x \in DOMAIN counters' : counters'[x] \in Nat
      BY <3>1
    <3>5. MeterInv /\ day' = day
      BY <1>0
    <3> QED BY <3>2, <3>3, <3>4, <3>5, MeterKept
  <2> QED BY <1>1, <1>2, <2>2, <2>3
<1>3. ASSUME NEW k \in Keys, Within(k, LimitOf(k)), counters' = Incremented(k),
             \A key \in Keys, d \in Nat : ChargedOn(r, key, d) => ChargedOn(req[q], key, d) \/ (key = k /\ d = day)
      PROVE  MeterInv'
  <2>1. ChargedTo(k, day)' \subseteq ChargedTo(k, day) \cup {q}
    <3>1. ~ ChargedOn(r, k, day) => ChargedTo(k, day)' \subseteq ChargedTo(k, day)
      BY <1>0, ChargedAfter
    <3>2. ChargedOn(r, k, day) => ChargedTo(k, day)' \subseteq ChargedTo(k, day) \cup {q}
      BY <1>0, ChargedAfter
    <3> QED BY <3>1, <3>2
  <2>2. \A key \in Keys, d \in Nat : key # k \/ d # day => ChargedTo(key, d)' \subseteq ChargedTo(key, d)
    BY <1>0, <1>3, ChargedAfter
  <2> QED BY <1>0, <1>3, <2>1, <2>2, MeterLet
<1> QED BY <1>1, <1>2, <1>3 DEF LetGo

LEMMA IInvStep == IInv /\ [Next]_vars => IInv'
<1> SUFFICES ASSUME IInv, [Next]_vars PROVE IInv'
  OBVIOUS
<1>0. StoreInv' /\ DOMAIN req = Requests /\ \A q \in Requests : RequestOK(req[q])
  BY StoreStep DEF IInv, RequestInv
<1> SUFFICES RequestInv' /\ MeterInv'
  BY <1>0 DEF IInv
<1>1. ASSUME NEW q \in Requests, Arrive(q) PROVE RequestInv' /\ MeterInv'
  BY <1>1, ArriveStep, SearchStep
<1>2. ASSUME NEW q \in Requests, RequestStep(q) PROVE RequestInv' /\ MeterInv'
  <2>1. CASE \/ LookUp(q) \/ Embedded(q) \/ RetryEmbedding(q) \/ SemanticUnavailable(q)
             \/ WordsOnly(q) \/ NoEvidence(q) \/ RequestFails(q)
    BY <1>0, <2>1, EmbeddingStep, SearchStep
  <2>2. CASE \/ SearchPassageWords(q) \/ SearchPassages(q) \/ SearchChunks(q) \/ SearchChunkWords(q) \/ Rerank(q)
    BY <1>0, <2>2, RankingStep, SearchStep DEF IInv
  <2>3. CASE \/ ExpandContexts(q) \/ CitePublication(q) \/ ResolveMembers(q) \/ ResolveCitations(q)
             \/ ResolveCitationMembers(q)
    BY <1>0, <2>3, CitingStep, SearchStep
  <2>4. CASE CheckClient(q) \/ CheckGlobal(q) \/ QuotaFails(q)
    BY <1>0, <2>4, QuotaStep, LetGoStep DEF IInv
  <2>5. CASE Generate(q)
    <3>1. PICK r : Goes(q, r) /\ RequestOK(r) /\ r.charged = req[q].charged /\ r.client = req[q].client
      BY <1>0, <2>5, GenerateStep
    <3>2. req[q] # Absent
      BY <2>5 DEF Generate, Absent
    <3>3. \A key, d : ChargedOn(r, key, d) => ChargedOn(req[q], key, d)
      BY <3>1, <3>2 DEF ChargedOn
    <3>4. \A key, d : ChargedTo(key, d)' \subseteq ChargedTo(key, d)
      BY <1>0, <3>1, <3>3, ChargedAfter DEF Goes
    <3> QED BY <3>1, <3>4, RequestGoesOn, MeterSame DEF IInv, Goes
  <2> QED BY <1>2, <2>1, <2>2, <2>3, <2>4, <2>5 DEF RequestStep
<1>3. ASSUME req' = req PROVE RequestInv' /\ \A key, d : ChargedTo(key, d)' = ChargedTo(key, d)
  <2>1. RequestInv'
    BY <1>0, <1>3 DEF RequestInv
  <2>2. \A key, d : ChargedTo(key, d)' = ChargedTo(key, d)
    BY <1>3 DEF ChargedTo, ChargedOn, Absent
  <2> QED BY <2>1, <2>2
<1>4. ASSUME NEW v \in Versions, Record(v) \/ Promote(v) PROVE RequestInv' /\ MeterInv'
  <2>1. req' = req /\ UNCHANGED quota
    BY <1>4 DEF Record, Promote
  <2> QED BY <1>3, <2>1, MeterSame DEF IInv
<1>5. CASE NextDay
  <2>1. req' = req /\ day' = day + 1 /\ counters' = counters
    BY <1>5 DEF NextDay
  <2>2. /\ day \in Nat /\ \A x \in DOMAIN counters : counters[x] \in Nat
        /\ \A key \in Keys : \A d \in Nat : Cardinality(ChargedTo(key, d)) <= LimitOf(key)
        /\ \A key \in Keys : \A d \in Nat : d > day => ChargedTo(key, d) = {}
    BY DEF IInv, MeterInv
  <2>3. \A key \in Keys : Cardinality(ChargedTo(key, day + 1)) = 0
    <3>1. ASSUME NEW key \in Keys PROVE ChargedTo(key, day + 1) = {}
      BY <2>2
    <3> QED BY <3>1, FS_EmptySet
  <2>4. \A key \in Keys : Count(key)' \in Nat
    BY <2>1, <2>2 DEF Count
  <2>5. \A key \in Keys : Cardinality(ChargedTo(key, day))' <= Count(key)'
    BY <1>3, <2>1, <2>3, <2>4 DEF ChargedTo
  <2>6. \A key \in Keys : \A d \in Nat : Cardinality(ChargedTo(key, d))' <= LimitOf(key) /\ (d > day' => ChargedTo(key, d)' = {})
    <3>1. ASSUME NEW key \in Keys, NEW d \in Nat
          PROVE  Cardinality(ChargedTo(key, d)) <= LimitOf(key) /\ (d > day + 1 => ChargedTo(key, d) = {})
      BY <2>2
    <3>2. \A key, d : ChargedTo(key, d)' = ChargedTo(key, d)
      BY <1>3, <2>1
    <3> QED BY <2>1, <3>1, <3>2
  <2> QED BY <1>3, <2>1, <2>2, <2>5, <2>6 DEF MeterInv, LimitOf
<1>6. CASE UNCHANGED vars
  <2>1. req' = req /\ UNCHANGED quota
    BY <1>6 DEF vars
  <2> QED BY <1>3, <2>1, MeterSame DEF IInv
<1> QED BY <1>1, <1>2, <1>4, <1>5, <1>6 DEF Next

THEOREM Invariance == Spec => []IInv
BY InitIInv, IInvStep, PTL DEF Spec

-----------------------------------------------------------------------------
(* What the citations name                                                  *)

\* The rows found so far are of releases that were live, and what citations name
\* differs from their rows' release only if that was superseded.
NamedAlike(named) ==
  \A x, y \in DOMAIN named : named[x] = named[y] /\ (named[x] = x[1] \/ Superseded(x[1]))

Grounded(r) == (\A x \in DOMAIN r.found : x[1] \in spent) /\ NamedAlike(r.named)

NamedRight(page, shown) ==
  \A i, j \in DOMAIN shown :
    /\ shown[i].named = shown[j].named
    /\ shown[i].named = shown[i].id[1] \/ Superseded(shown[i].id[1])
    /\ page # "ask" => shown[i].named \in spent

NamesOK(r) ==
  /\ DOMAIN r = Fields => Grounded(r)
  /\ r.at = "done" => NamedRight(r.page, r.shown)

NamedInv ==
  /\ live \in spent \/ (live = None /\ spent = {})
  /\ \A q \in Requests : NamesOK(req[q])

\* An error, or no answer, names nothing.
LEMMA NothingNamed ==
  ASSUME NEW r, NEW outcome
  PROVE  NamesOK(Answered(r, outcome, <<>>))
<1> DEFINE s == Answered(r, outcome, <<>>)
<1>1. "outcome" \in DOMAIN s /\ s.shown = <<>>
  BY DEF Answered
<1>2. "outcome" \notin Fields
  BY DEF Fields
<1> HIDE DEF s
<1>3. NamesOK(s)
  BY <1>1, <1>2 DEF NamesOK, NamedRight
<1> QED BY <1>3 DEF s

\* Nor does one that shows rows the citations of which name the right releases.
LEMMA AnswerNamed ==
  ASSUME NEW r, NEW outcome, NEW shown, NamedRight(r.page, shown)
  PROVE  NamesOK(Answered(r, outcome, shown))
<1> DEFINE s == Answered(r, outcome, shown)
<1>1. "outcome" \in DOMAIN s /\ s.shown = shown /\ s.page = r.page
  BY DEF Answered
<1>2. "outcome" \notin Fields
  BY DEF Fields
<1> HIDE DEF s
<1>3. NamesOK(s)
  BY <1>1, <1>2 DEF NamesOK
<1> QED BY <1>3 DEF s

\* A question's evidence is cited as it was found.
LEMMA EvidenceNamed ==
  ASSUME NEW r, HasEvidence(r), NamesOK(r)
  PROVE  r.page = "ask" /\ NamedRight(r.page, Shown(r.semantic, r.found, r.named))
<1> DEFINE shown == Shown(r.semantic, r.found, r.named)
<1>1. NamedAlike(r.named) /\ r.page = "ask" /\ \A i \in DOMAIN r.semantic : r.semantic[i] \in DOMAIN r.named
  BY DEF NamesOK, HasEvidence, Grounded
<1>2. DOMAIN shown = DOMAIN r.semantic
  BY DEF Shown
<1>3. \A i \in DOMAIN r.semantic : shown[i].id = r.semantic[i] /\ shown[i].named = r.named[r.semantic[i]]
  BY DEF Shown
<1> HIDE DEF shown
<1>4. NamedRight(r.page, shown)
  BY <1>1, <1>2, <1>3 DEF NamedAlike, NamedRight
<1> QED BY <1>1, <1>4 DEF shown

\* What a request is once a statement found the rows in S.
Found(r, at, rows, S) == [r EXCEPT !.at = at, !.semantic = rows, !.found = [id \in S |-> ReadFrom(id)]]

\* A request goes on with what it found, or shows nothing.
LEMMA NamesGoOn ==
  ASSUME IInv, NamedInv, NEW q \in Requests, Arrive(q) \/ RequestStep(q)
  PROVE  /\ UNCHANGED <<live, spent>>
         /\ \E r : NamesOK(r) /\ req' = [req EXCEPT ![q] = r]
<1> DEFINE r == req[q]
           Right(s) == NamesOK(s) /\ req' = [req EXCEPT ![q] = s]
<1>0. RequestOK(r) /\ NamesOK(r)
  BY DEF IInv, RequestInv, NamedInv
<1>1. ASSUME NEW s, Goes(q, s), NamesOK(s) PROVE UNCHANGED <<live, spent>> /\ \E t : Right(t)
  BY <1>1 DEF Goes, releases
<1>2. ASSUME NEW key, NEW s, Counted(q, key, s), NamesOK(s) PROVE UNCHANGED <<live, spent>> /\ \E t : Right(t)
  BY <1>2 DEF Counted, releases
<1>3. ASSUME r.at \in Retrieving PROVE Searching(r) /\ Grounded(r)
  BY <1>0, <1>3, SearchingAt DEF NamesOK, Searching
<1>4. ASSUME NEW s, DOMAIN s = Fields, s.at # "done", s.found = r.found, s.named = r.named, DOMAIN r = Fields
      PROVE  NamesOK(s)
  BY <1>0, <1>4 DEF NamesOK, Grounded
<1>5. ASSUME NEW outcome, Goes(q, Answered(r, outcome, <<>>)) PROVE UNCHANGED <<live, spent>> /\ \E t : Right(t)
  BY <1>1, <1>5, NothingNamed
<1>7. CASE Arrive(q)
  <2>1. PICK page \in Pages, text \in Texts, client \in Clients \cup {None}, scoped \in BOOLEAN :
          Goes(q, Arrived(page, text, client, scoped))
    BY <1>7 DEF Arrive
  <2> DEFINE s == Arrived(page, text, client, scoped)
  <2>2. s.at # "done" /\ s.found = <<>> /\ s.named = <<>>
    BY DEF Arrived
  <2> HIDE DEF s
  <2>3. NamesOK(s)
    BY <2>2 DEF NamesOK, Grounded, NamedAlike
  <2> QED BY <1>1, <2>1, <2>3 DEF s
<1>8. CASE LookUp(q) \/ Embedded(q)
  <2>1. r.at \in Retrieving /\ UNCHANGED <<live, spent>>
    BY <1>8 DEF LookUp, Embedded, Retrieving, releases
  <2>2. PICK s : /\ req' = [req EXCEPT ![q] = s] /\ s.at # "done"
                 /\ s = [r EXCEPT !.at = s.at] \/ s = [r EXCEPT !.at = s.at, !.attempt = 0]
    <3>1. ASSUME NEW at, req' = [req EXCEPT ![q].at = at], at \in {"candidates", "embedding"}, r.at \in Retrieving
          PROVE  \E s : req' = [req EXCEPT ![q] = s] /\ s.at # "done" /\ s = [r EXCEPT !.at = s.at]
      <4>1. [r EXCEPT !.at = at].at = at
        BY <1>3, <3>1 DEF Searching, Fields
      <4> QED BY <3>1, <4>1
    <3>2. CASE LookUp(q)
      <4>1. PICK at \in {"candidates", "embedding"} : req' = [req EXCEPT ![q].at = at]
        BY <3>2 DEF LookUp
      <4> QED BY <2>1, <3>1, <4>1
    <3>3. CASE Embedded(q)
      <4>1. [r EXCEPT !.at = "candidates", !.attempt = 0].at = "candidates"
        BY <1>3, <2>1 DEF Searching, Fields
      <4>2. req' = [req EXCEPT ![q] = [r EXCEPT !.at = "candidates", !.attempt = 0]]
        BY <3>3 DEF Embedded
      <4> QED BY <4>1, <4>2
    <3> QED BY <1>8, <3>2, <3>3
  <2>3. DOMAIN r = Fields
    BY <1>3, <2>1 DEF Searching
  <2>4. DOMAIN s = Fields /\ s.found = r.found /\ s.named = r.named
    BY <2>2, <2>3 DEF Fields
  <2> QED BY <1>4, <2>1, <2>2, <2>3, <2>4
<1>9. CASE RetryEmbedding(q) \/ SemanticUnavailable(q) \/ WordsOnly(q) \/ NoEvidence(q) \/ RequestFails(q)
  <2>1. DOMAIN r = Fields
    BY <1>3, <1>9 DEF Retrieving, Searching, RetryEmbedding, SemanticUnavailable, WordsOnly, NoEvidence, RequestFails
  <2>2. \/ \E outcome : Goes(q, Answered(r, outcome, <<>>))
        \/ \E at, attempt : at # "done" /\ Goes(q, [r EXCEPT !.at = at, !.attempt = attempt])
    <3>1. CASE RetryEmbedding(q)
      <4>1. [r EXCEPT !.attempt = @ + 1] = [r EXCEPT !.at = "embedding", !.attempt = r.attempt + 1]
        BY <2>1, <3>1 DEF RetryEmbedding, Fields
      <4>2. Goes(q, [r EXCEPT !.attempt = @ + 1])
        BY <3>1 DEF RetryEmbedding
      <4> QED BY <4>1, <4>2
    <3>2. CASE WordsOnly(q)
      BY <3>2 DEF WordsOnly
    <3>3. CASE NoEvidence(q)
      BY <3>3 DEF NoEvidence
    <3> QED BY <1>9, <3>1, <3>2, <3>3 DEF SemanticUnavailable, RequestFails
  <2>3. ASSUME NEW at, NEW attempt, at # "done", Goes(q, [r EXCEPT !.at = at, !.attempt = attempt])
        PROVE  UNCHANGED <<live, spent>> /\ \E t : Right(t)
    <3> DEFINE s == [r EXCEPT !.at = at, !.attempt = attempt]
    <3>1. DOMAIN s = Fields /\ s.at # "done" /\ s.found = r.found /\ s.named = r.named /\ Goes(q, s)
      BY <2>1, <2>3 DEF Fields
    <3> HIDE DEF s
    <3> QED BY <1>1, <1>4, <2>1, <3>1
  <2> QED BY <1>5, <2>2, <2>3
<1>10. CASE \/ SearchPassageWords(q) \/ SearchPassages(q) \/ SearchChunks(q) \/ SearchChunkWords(q) \/ Rerank(q)
            \/ ResolveMembers(q)
  <2>1. r.at \in Retrieving
    BY <1>10 DEF Retrieving, SearchPassageWords, SearchPassages, SearchChunks, SearchChunkWords, Rerank, ResolveMembers
  <2>2. DOMAIN r = Fields
    BY <1>3, <2>1 DEF Searching
  <2>3. \/ Goes(q, Answered(r, "empty", <<>>))
        \/ \E lexical : Goes(q, [r EXCEPT !.at = "lookup", !.lexical = lexical])
        \/ \E at, semantic : at # "done" /\ Goes(q, [r EXCEPT !.at = at, !.semantic = semantic])
    <3>1. \A ranked : AfterRanking(ranked) # "done"
      BY DEF AfterRanking
    <3>2. CASE SearchChunks(q)
      <4>1. PICK near : Goes(q, [r EXCEPT !.semantic = near,
                                          !.at = IF LexicalFusion THEN "lexical" ELSE AfterRanking(near)])
        BY <3>2, Zenon DEF SearchChunks
      <4> DEFINE at == IF LexicalFusion THEN "lexical" ELSE AfterRanking(near)
      <4>2. at # "done"
        BY <3>1
      <4>3. [r EXCEPT !.semantic = near, !.at = at] = [r EXCEPT !.at = at, !.semantic = near]
        OBVIOUS
      <4> HIDE DEF at
      <4> QED BY <4>1, <4>2, <4>3 DEF at
    <3>3. CASE SearchChunkWords(q)
      <4>1. PICK ranked : Goes(q, [r EXCEPT !.semantic = ranked, !.at = AfterRanking(ranked)])
        BY <3>3, Zenon DEF SearchChunkWords
      <4>2. [r EXCEPT !.semantic = ranked, !.at = AfterRanking(ranked)]
              = [r EXCEPT !.at = AfterRanking(ranked), !.semantic = ranked]
        OBVIOUS
      <4> QED BY <3>1, <4>1, <4>2
    <3>4. CASE SearchPassageWords(q)
      BY <3>4, Zenon DEF SearchPassageWords
    <3>5. CASE SearchPassages(q)
      <4>1. PICK near : Goes(q, IF near = <<>> /\ r.page = "semantic" THEN Answered(r, "empty", <<>>)
                                ELSE [r EXCEPT !.at = "rerank", !.semantic = near])
        BY <3>5, Zenon DEF SearchPassages
      <4> QED BY <4>1
    <3>6. CASE Rerank(q)
      <4>1. PICK ranked : Goes(q, [r EXCEPT !.at = "contexts", !.semantic = ranked])
        BY <3>6, Zenon DEF Rerank
      <4> QED BY <4>1
    <3>7. CASE ResolveMembers(q)
      <4>1. PICK rows : Goes(q, [r EXCEPT !.at = "citations", !.semantic = rows])
        BY <3>7, Zenon DEF ResolveMembers
      <4> QED BY <4>1
    <3> QED BY <1>10, <3>2, <3>3, <3>4, <3>5, <3>6, <3>7
  <2>4. ASSUME NEW lexical, Goes(q, [r EXCEPT !.at = "lookup", !.lexical = lexical])
        PROVE  UNCHANGED <<live, spent>> /\ \E t : Right(t)
    <3> DEFINE s == [r EXCEPT !.at = "lookup", !.lexical = lexical]
    <3>1. DOMAIN s = Fields /\ s.at # "done" /\ s.found = r.found /\ s.named = r.named /\ Goes(q, s)
      BY <2>2, <2>4 DEF Fields
    <3> HIDE DEF s
    <3> QED BY <1>1, <1>4, <2>2, <3>1
  <2>5. ASSUME NEW at, NEW semantic, at # "done", Goes(q, [r EXCEPT !.at = at, !.semantic = semantic])
        PROVE  UNCHANGED <<live, spent>> /\ \E t : Right(t)
    <3> DEFINE s == [r EXCEPT !.at = at, !.semantic = semantic]
    <3>1. DOMAIN s = Fields /\ s.at # "done" /\ s.found = r.found /\ s.named = r.named /\ Goes(q, s)
      BY <2>2, <2>5 DEF Fields
    <3> HIDE DEF s
    <3> QED BY <1>1, <1>4, <2>2, <3>1
  <2> QED BY <1>5, <2>3, <2>4, <2>5
<1>11. CASE ExpandContexts(q) \/ ResolveCitations(q)
  <2>1. Searching(r) /\ Grounded(r)
    BY <1>3, <1>11 DEF Retrieving, ExpandContexts, ResolveCitations
  <2>2. PICK at, rows, S :
          /\ at \in {"publication", "citation_members"}
          /\ \A id \in S : ReadFrom(id) # None
          /\ Goes(q, Found(r, at, rows, S))
    <3>1. CASE ExpandContexts(q)
      <4> DEFINE rows == IF r.semantic = <<>> THEN r.lexical ELSE r.semantic
                 S == { id \in Range(rows) : ReadFrom(id) # None /\ id[2] \in Content.shown }
      <4>1. Goes(q, Found(r, "publication", rows, S))
        BY <3>1, Zenon DEF ExpandContexts, Found
      <4>2. \A id \in S : ReadFrom(id) # None
        OBVIOUS
      <4> HIDE DEF rows, S
      <4> QED BY <4>1, <4>2
    <3>2. CASE ResolveCitations(q)
      <4> DEFINE S == { id \in Range(r.semantic) : ReadFrom(id) # None }
                 rows == Kept(r.semantic, S)
      <4>1. Goes(q, Found(r, "citation_members", rows, S))
        BY <3>2, Zenon DEF ResolveCitations, Found
      <4>2. \A id \in S : ReadFrom(id) # None
        OBVIOUS
      <4> HIDE DEF rows, S
      <4> QED BY <4>1, <4>2
    <3> QED BY <1>11, <3>1, <3>2
  <2> DEFINE found == [id \in S |-> ReadFrom(id)]
             s == [r EXCEPT !.at = at, !.semantic = rows, !.found = found]
  <2>3. \A id \in DOMAIN found : id[1] \in spent
    BY <2>2 DEF ReadFrom, NamedInv
  <2> HIDE DEF found
  <2>4. s.at = at /\ s.at # "done" /\ s.found = found /\ s.named = r.named
    BY <2>1, <2>2 DEF Searching, Fields
  <2> HIDE DEF s
  <2>5. NamesOK(s)
    BY <2>1, <2>3, <2>4 DEF NamesOK, Grounded
  <2> QED BY <1>1, <2>2, <2>5 DEF s, found, Found
<1>12. CASE CitePublication(q)
  <2> DEFINE kept == Kept(r.semantic, DOMAIN r.found)
             results == First(kept, ResultLimit)
             named == [id \in DOMAIN r.found |-> live]
             shown == Shown(results, r.found, named)
  <2>1. Searching(r) /\ Grounded(r)
    BY <1>3, <1>12 DEF Retrieving, CitePublication
  <2>2. Goes(q, Answered(r, "results", shown))
    BY <1>12, Zenon DEF CitePublication
  <2>3. IsSeq(kept) /\ \A k \in DOMAIN kept : kept[k] \in DOMAIN r.found
    BY <2>1, KeptSeq DEF Searching
  <2> HIDE DEF kept
  <2>4. \A k \in DOMAIN results : results[k] \in DOMAIN r.found
    <3>1. ResultLimit \in Nat \ {0}
      BY LimitsPositive
    <3>2. \A k \in DOMAIN results : k \in DOMAIN kept /\ results[k] = kept[k]
      BY <2>3, <3>1, FirstSeq
    <3> QED BY <2>3, <3>2
  <2>5. /\ DOMAIN shown = DOMAIN results
        /\ \A k \in DOMAIN results : shown[k].id = results[k] /\ shown[k].named = named[results[k]]
    BY DEF Shown
  <2>6. \A k \in DOMAIN shown : shown[k].named = live /\ shown[k].id[1] \in spent
    BY <2>1, <2>4, <2>5 DEF Grounded
  <2> HIDE DEF shown
  <2>7. NamedRight(r.page, shown)
    BY <2>6 DEF NamedRight, Superseded, NamedInv
  <2> QED BY <1>1, <2>2, <2>7, AnswerNamed
<1>13. CASE ResolveCitationMembers(q)
  <2> DEFINE named == [id \in DOMAIN r.found |-> ReadFrom(id)]
             s == [r EXCEPT !.at = "client", !.named = named]
  <2>1. Searching(r) /\ Grounded(r)
    BY <1>3, <1>13 DEF Retrieving, ResolveCitationMembers
  <2>2. Goes(q, s)
    BY <1>13, Zenon DEF ResolveCitationMembers
  <2>3. DOMAIN named = DOMAIN r.found /\ \A x \in DOMAIN r.found : named[x] = ReadFrom(x)
    OBVIOUS
  <2>4. \A x, y \in DOMAIN r.found : x[1] = y[1]
    BY <2>1 DEF Searching, FoundAlike
  <2> HIDE DEF named
  <2>5. NamedAlike(named)
    <3>1. \A x \in DOMAIN named : named[x] = x[1] \/ Superseded(x[1])
      BY <2>1, <2>3 DEF ReadFrom, Superseded, Grounded
    <3>2. \A x, y \in DOMAIN named : named[x] = named[y]
      BY <2>3, <2>4 DEF ReadFrom
    <3> QED BY <3>1, <3>2 DEF NamedAlike
  <2>6. s.at # "done" /\ s.found = r.found /\ s.named = named
    BY <2>1 DEF Searching, Fields
  <2> HIDE DEF s
  <2>7. NamesOK(s)
    BY <2>1, <2>5, <2>6 DEF NamesOK, Grounded
  <2> QED BY <1>1, <2>2, <2>7
<1>14. ASSUME r.at \in {"client", "global", "generate"}
       PROVE  /\ HasEvidence(r) /\ DOMAIN r = Fields
              /\ NamedRight("ask", Shown(r.semantic, r.found, r.named)) /\ r.page = "ask"
  <2>1. HasEvidence(r)
    BY <1>0, <1>14 DEF RequestOK, Absent, Searching, Retrieving, Finished
  <2> QED BY <1>0, <2>1, EvidenceNamed DEF HasEvidence
<1>15. CASE CheckClient(q) \/ CheckGlobal(q) \/ QuotaFails(q)
  <2>1. HasEvidence(r) /\ DOMAIN r = Fields /\ r.page = "ask" /\ NamedRight("ask", Shown(r.semantic, r.found, r.named))
    BY <1>14, <1>15 DEF CheckClient, CheckGlobal, QuotaFails
  <2>2. NamesOK(Refused(r)) /\ NamesOK(Refused([r EXCEPT !.charged = <<>>]))
    <3> DEFINE u == [r EXCEPT !.charged = <<>>]
    <3>1. u.semantic = r.semantic /\ u.found = r.found /\ u.named = r.named /\ u.page = r.page
      BY <2>1 DEF Fields
    <3> HIDE DEF u
    <3>2. NamesOK(Refused(u)) /\ NamesOK(Refused(r))
      BY <2>1, <3>1, AnswerNamed DEF Refused
    <3> QED BY <3>2 DEF u
  <2>3. \A at \in {"global", "generate"} : \A charged :
          NamesOK([r EXCEPT !.at = at]) /\ NamesOK([r EXCEPT !.at = at, !.charged = charged])
    <3>1. ASSUME NEW at \in {"global", "generate"}, NEW charged, NEW s,
                 s = [r EXCEPT !.at = at] \/ s = [r EXCEPT !.at = at, !.charged = charged]
          PROVE  NamesOK(s)
      <4>1. DOMAIN s = Fields /\ s.at # "done" /\ s.found = r.found /\ s.named = r.named
        BY <2>1, <3>1 DEF Fields
      <4> QED BY <1>4, <2>1, <4>1
    <3> QED BY <3>1
  <2>4. \E s : NamesOK(s) /\ (Goes(q, s) \/ \E key : Counted(q, key, s))
    <3>1. CASE CheckClient(q)
      <4>1. CASE r.client = None
        BY <2>3, <3>1, <4>1 DEF CheckClient
      <4>2. CASE r.client # None
        <5>1. NamesOK([r EXCEPT !.at = "global", !.charged = <<day>>])
          BY <2>3
        <5> QED BY <2>2, <3>1, <4>2, <5>1 DEF CheckClient
      <4> QED BY <4>1, <4>2
    <3>2. CASE CheckGlobal(q)
      <4>1. NamesOK([r EXCEPT !.at = "generate", !.charged = Append(@, day)])
        BY <2>3
      <4> QED BY <2>2, <3>2, <4>1 DEF CheckGlobal
    <3>3. CASE QuotaFails(q)
      <4>1. NamesOK([r EXCEPT !.at = "generate", !.charged = <<>>])
        BY <2>3
      <4> QED BY <2>2, <3>3, <4>1 DEF QuotaFails
    <3> QED BY <1>15, <3>1, <3>2, <3>3
  <2> QED BY <1>1, <1>2, <2>4
<1>16. CASE Generate(q)
  <2> DEFINE called == [r EXCEPT !.calls = @ + 1, !.attempt = @ + 1]
             evidence == Shown(r.semantic, r.found, r.named)
  <2>1. HasEvidence(r) /\ DOMAIN r = Fields /\ r.page = "ask" /\ NamedRight("ask", evidence) /\ r.at = "generate"
    BY <1>14, <1>16 DEF Generate
  <2>2. DOMAIN called = Fields /\ called.at # "done" /\ called.found = r.found /\ called.named = r.named /\ called.page = "ask"
    BY <2>1 DEF Fields
  <2>3. \/ Goes(q, Answered(r, "insufficient", <<>>)) \/ Goes(q, called)
        \/ \E outcome : Goes(q, Answered(called, outcome, evidence))
    BY <1>16 DEF Generate
  <2> HIDE DEF called, evidence
  <2>4. NamesOK(called) /\ \A outcome : NamesOK(Answered(called, outcome, evidence))
    BY <1>4, <2>1, <2>2, AnswerNamed
  <2> QED BY <1>1, <1>5, <2>3, <2>4
<1> QED BY <1>7, <1>8, <1>9, <1>10, <1>11, <1>12, <1>13, <1>15, <1>16 DEF RequestStep

\* What was named stays right: no release is live again once it was superseded.
LEMMA NamesStayRight ==
  ASSUME NEW r, NamesOK(r), spent \subseteq spent', live' \in {live} \cup (Versions \ spent)
  PROVE  NamesOK(r)'
<1>1. \A v : Superseded(v) => Superseded(v)'
  BY DEF Superseded
<1>2. ASSUME DOMAIN r = Fields PROVE Grounded(r)'
  BY <1>1, <1>2 DEF NamesOK, Grounded, NamedAlike
<1>3. ASSUME r.at = "done" PROVE NamedRight(r.page, r.shown)'
  BY <1>1, <1>3 DEF NamesOK, NamedRight
<1> QED BY <1>2, <1>3 DEF NamesOK

LEMMA NamedStep == IInv /\ NamedInv /\ [Next]_vars => NamedInv'
<1> SUFFICES ASSUME IInv, NamedInv, [Next]_vars PROVE NamedInv'
  OBVIOUS
<1>1. ASSUME NEW q \in Requests, Arrive(q) \/ RequestStep(q) PROVE NamedInv'
  <2>1. UNCHANGED <<live, spent>> /\ \E r : NamesOK(r) /\ req' = [req EXCEPT ![q] = r]
    BY <1>1, NamesGoOn
  <2>2. PICK r : NamesOK(r) /\ req' = [req EXCEPT ![q] = r]
    BY <2>1
  <2>3. ASSUME NEW p \in Requests PROVE NamesOK(req[p])'
    <3>1. NamesOK(req'[p])
      BY <2>2 DEF IInv, RequestInv, NamedInv
    <3> QED BY <2>1, <3>1 DEF NamesOK, Grounded, NamedAlike, NamedRight, Superseded
  <2> QED BY <2>1, <2>3 DEF NamedInv
<1>2. ASSUME req' = req, spent \subseteq spent', live' \in {live} \cup (Versions \ spent),
             live' \in spent' \/ (live' = None /\ spent' = {})
      PROVE  NamedInv'
  <2>1. ASSUME NEW p \in Requests PROVE NamesOK(req[p])'
    <3> DEFINE r == req[p]
    <3>1. NamesOK(r)
      BY DEF NamedInv
    <3>2. r' = r
      BY <1>2
    <3> QED BY <1>2, <3>1, <3>2, NamesStayRight DEF NamesOK, Grounded, NamedAlike, NamedRight, Superseded
  <2> QED BY <1>2, <2>1 DEF NamedInv
<1>3. ASSUME NEW v \in Versions, Record(v) PROVE NamedInv'
  BY <1>2, <1>3 DEF Record, Register!Add, NamedInv
<1>4. ASSUME NEW v \in Versions, Promote(v) PROVE NamedInv'
  BY <1>2, <1>4 DEF Promote, Register!GoLive
<1>5. CASE NextDay \/ UNCHANGED vars
  BY <1>2, <1>5 DEF NextDay, vars, releases, NamedInv
<1> QED BY <1>1, <1>3, <1>4, <1>5 DEF Next

\* Whatever is promoted between the statements of a search or of a question
\* (retrieval-service.ts, qa evidence), what a page lists is of one release and
\* carries the context or citation of that same release; the publication id and
\* the member passages the citations name differ from it only if it was superseded.
THEOREM PagesAreOfOneRelease == Spec => []OneReleasePerPage
<1>1. IInv /\ NamedInv => OneReleasePerPage
  <2> SUFFICES ASSUME IInv, NamedInv, NEW q \in Done, NEW i \in DOMAIN req[q].shown, NEW j \in DOMAIN req[q].shown
               PROVE  /\ req[q].shown[i].cited = req[q].shown[i].id[1]
                      /\ req[q].shown[i].cited = req[q].shown[j].cited
                      /\ req[q].shown[i].named = req[q].shown[i].cited \/ Superseded(req[q].shown[i].cited)
                      /\ req[q].shown[i].named = req[q].shown[j].named
                      /\ req[q].page # "ask" => req[q].shown[i].named \in spent
    BY DEF OneReleasePerPage
  <2>1. q \in Requests /\ req[q].at = "done" /\ RequestOK(req[q]) /\ NamesOK(req[q])
    BY DEF Done, IInv, RequestInv, NamedInv
  <2>2. ShownAlike(req[q].shown)
    BY <2>1 DEF RequestOK, Absent, Searching, Retrieving, Metering, Generating, Finished
  <2>3. NamedRight(req[q].page, req[q].shown)
    BY <2>1 DEF NamesOK
  <2> QED BY <2>2, <2>3 DEF ShownAlike, NamedRight
<1>2. Init => NamedInv
  <2> SUFFICES ASSUME Init PROVE NamedInv
    OBVIOUS
  <2>1. \A q \in Requests : req[q] = Absent
    BY DEF Init
  <2>2. NamesOK(Absent)
    BY DEF NamesOK, Absent, Fields
  <2> QED BY <2>1, <2>2 DEF Init, Register!Init, NamedInv
<1> QED BY <1>1, <1>2, Invariance, NamedStep, PTL DEF Spec

\* However questions overlap, are refused half way, fail or run into the next day
\* (checkAndIncrementQuota, generateQaAnswer), no more are let through than the
\* limits allow, and the provider is called for evidence only, a bounded number of
\* times, and unmetered only for a browser without a cookie or in the open mode.
THEOREM LimitsAreKept == Spec => []AnswersWithinLimits
<1> DEFINE charged(i, d) == { q \in Requests : /\ req[q].at \in {"generate", "done"}
                                               /\ Len(req[q].charged) = 2 /\ req[q].charged[i] = d }
           client(c, d) == { q \in charged(1, d) : req[q].client = c }
<1>1. ASSUME IInv PROVE AnswersWithinLimits
  <2>0. \A q \in Requests : RequestOK(req[q])
    BY <1>1 DEF IInv, RequestInv
  <2>1. ASSUME NEW q \in Requests, req[q].at \in {"generate", "done"}, Len(req[q].charged) = 2
        PROVE  req[q] # Absent /\ \E c, g \in Nat : req[q].charged = <<c, g>>
    <3>1. Generating(req[q]) \/ Finished(req[q])
      BY <2>0, <2>1 DEF RequestOK, Absent, Searching, Retrieving, Metering
    <3>2. req[q].charged = <<>> \/ \E c, g \in Nat : req[q].charged = <<c, g>>
      BY <3>1 DEF Generating, Metered, Finished
    <3>3. req[q].charged # <<>>
      BY <2>1
    <3>4. req[q] # Absent
      BY <2>1 DEF Absent
    <3> QED BY <3>2, <3>3, <3>4
  <2>2. ASSUME NEW key \in Keys, NEW d \in Nat
        PROVE  /\ IsFiniteSet(ChargedTo(key, d)) /\ Cardinality(ChargedTo(key, d)) \in Nat
               /\ Cardinality(ChargedTo(key, d)) <= LimitOf(key) /\ LimitOf(key) \in Nat
    <3>1. Cardinality(ChargedTo(key, d)) <= LimitOf(key)
      BY <1>1 DEF IInv, MeterInv
    <3> QED BY <3>1, ChargedFinite, LimitsPositive DEF LimitOf
  <2>3. ASSUME NEW d \in 1 .. LastDay PROVE Cardinality(charged(2, d)) <= GlobalLimit
    <3>1. "global" \in Keys /\ d \in Nat /\ LimitOf("global") = GlobalLimit
      BY LimitsPositive DEF Keys, LimitOf
    <3>2. ASSUME NEW q \in charged(2, d) PROVE q \in ChargedTo("global", d)
      <4>1. q \in Requests /\ req[q].charged[2] = d
        OBVIOUS
      <4>2. req[q] # Absent /\ \E c, g \in Nat : req[q].charged = <<c, g>>
        BY <2>1
      <4>3. PICK c \in Nat : req[q].charged = <<c, d>>
        BY <4>1, <4>2
      <4> QED BY <4>1, <4>2, <4>3 DEF ChargedTo, ChargedOn
    <3> HIDE DEF charged
    <3>3. charged(2, d) \subseteq ChargedTo("global", d)
      BY <3>2
    <3>4. /\ Cardinality(charged(2, d)) \in Nat /\ Cardinality(ChargedTo("global", d)) \in Nat
          /\ Cardinality(charged(2, d)) <= Cardinality(ChargedTo("global", d))
      BY <2>2, <3>1, <3>3, FewerCharged
    <3> QED BY <2>2, <3>1, <3>4
  <2>4. ASSUME NEW d \in 1 .. LastDay, NEW c \in Clients \ {None} PROVE Cardinality(client(c, d)) <= PerClientLimit
    <3>1. c \in Keys /\ c # "global" /\ d \in Nat /\ LimitOf(c) = PerClientLimit
      BY LimitsPositive, NamesDistinct DEF Keys, LimitOf
    <3>2. ASSUME NEW q \in client(c, d) PROVE q \in ChargedTo(c, d)
      <4>1. q \in Requests /\ req[q].charged[1] = d /\ req[q].client = c
        OBVIOUS
      <4>2. req[q] # Absent /\ \E a, g \in Nat : req[q].charged = <<a, g>>
        BY <2>1
      <4>3. PICK g \in Nat : req[q].charged = <<d, g>>
        BY <4>1, <4>2
      <4> QED BY <3>1, <4>1, <4>2, <4>3 DEF ChargedTo, ChargedOn
    <3> HIDE DEF client
    <3>3. client(c, d) \subseteq ChargedTo(c, d)
      BY <3>2
    <3>4. /\ Cardinality(client(c, d)) \in Nat /\ Cardinality(ChargedTo(c, d)) \in Nat
          /\ Cardinality(client(c, d)) <= Cardinality(ChargedTo(c, d))
      BY <2>2, <3>1, <3>3, FewerCharged
    <3> QED BY <2>2, <3>1, <3>4
  <2>5. ASSUME NEW q \in Done, req[q].calls > 0
        PROVE  /\ req[q].shown # <<>> /\ req[q].calls <= 1 + MaxRetries
               /\ Len(req[q].charged) = 2 \/ req[q].client = None \/ FailOpen
    <3>1. Finished(req[q])
      BY <2>0 DEF Done, RequestOK, Absent, Searching, Retrieving, Metering, Generating
    <3>2. MaxRetries \in Nat /\ Metered(req[q])
      BY <2>5, <3>1, LimitsPositive DEF Finished
    <3>3. \A c, g \in Nat : Len(<<c, g>>) = 2
      OBVIOUS
    <3>4. Len(req[q].charged) = 2 \/ req[q].client = None \/ FailOpen
      BY <3>2, <3>3 DEF Metered
    <3> QED BY <2>5, <3>1, <3>2, <3>4 DEF Finished
  <2> QED BY <2>3, <2>4, <2>5 DEF AnswersWithinLimits
<1> QED BY <1>1, Invariance, PTL
=============================================================================
