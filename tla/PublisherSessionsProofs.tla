---------------------- MODULE PublisherSessionsProofs ----------------------
(***************************************************************************)
(* Proofs about PublisherSessions, for any number of concurrent commands,  *)
(* publications and passages.                                              *)
(***************************************************************************)
EXTENDS PublisherSessions, SequenceTheorems, FunctionTheorems, FiniteSetTheorems, WellFoundedInduction, TLAPS

-----------------------------------------------------------------------------
(* The invariant                                                            *)

Statuses == {"ABSENT", "FAILED"} \cup Successful

Labels ==
  {"idle", "read_text", "read_embedding", "read_artifact", "validate", "commit",
   "state", "activate", "orphan_texts"}

Statement ==
  [table : {"application_state"}, mode : {"INSERT", "UPDATE"}, key : {"active"}]
    \cup [table : {"publications"}, mode : {"INSERT", "UPDATE", "DELETE", "SHARE"}, key : Versions]
    \cup [table : {"text", "embedding", "artifact"}, mode : {"INSERT", "DELETE", "SHARE"},
          key : Passages]

DatabaseTyped ==
  /\ status \in [Versions -> Statuses]
  /\ pointer \in Versions \cup {None}
  /\ uses \in [Versions -> SUBSET Passages]
  /\ text \in SUBSET Passages /\ embedding \in SUBSET Passages /\ artifact \in SUBSET Passages

SessionsTyped ==
  /\ cmd \in [Sessions -> AllCommands \cup {"none"}]
  /\ pc \in [Sessions -> Labels]
  /\ target \in [Sessions -> Versions \cup {None}]
  /\ prior \in [Sessions -> Versions \cup {None}]
  /\ wants \in [Sessions -> SUBSET Passages]
  /\ verdict \in [Sessions -> {"FAILED", "READY"}]
  /\ queue \in [Sessions -> Seq(Statement)]
  /\ held \in [Sessions -> SUBSET Statement]
  /\ overlap \in [Sessions -> BOOLEAN]
  /\ raced \in BOOLEAN
  /\ collected \in SUBSET Versions

\* Publications that are there are finitely many, and `after` orders them.
Stored == { v \in Versions : Present(v) }

Ordered(S, precedes) ==
  /\ \A v \in S : <<v, v>> \notin precedes
  /\ \A v, w \in S : v # w => <<v, w>> \in precedes \/ <<w, v>> \in precedes
  /\ \A u, v, w \in S : <<u, v>> \in precedes /\ <<v, w>> \in precedes => <<u, w>> \in precedes

BuildsOrdered ==
  /\ IsFiniteSet(Stored)
  /\ after \subseteq Stored \X Stored
  /\ Ordered(Stored, after)

\* The writes of a session, made or still to be sent.
Planned(s) == held[s] \cup Range(queue[s])

BuildPlan(s) ==
  /\ pc[s] \in {"read_text", "read_embedding", "read_artifact", "validate", "commit"}
  /\ target[s] \in Versions
  /\ Op("INSERT", "publications", target[s]) \in Planned(s)
  /\ \A o \in Planned(s) :
       \/ o = Op("INSERT", "publications", target[s])
       \/ o.table \in {"text", "embedding", "artifact"} /\ o.mode = "INSERT"
       \/ o.table = "artifact" /\ o.mode = "SHARE"
  /\ pc[s] \in {"validate", "commit"} =>
       \A p \in wants[s] : \/ Op("INSERT", "artifact", p) \in Planned(s)
                           \/ Op("SHARE", "artifact", p) \in Planned(s)

PromotePlan(s) ==
  /\ pc[s] \in {"state", "activate", "commit"}
  /\ target[s] \in Versions
  /\ \A o \in Planned(s) :
       \/ o = Op("INSERT", "application_state", "active")
       \/ pc[s] = "commit" /\ o.table = "publications" /\ o.mode = "UPDATE"
       \/ /\ pc[s] = "commit"
          /\ o \in {Op("UPDATE", "application_state", "active"), Op("SHARE", "publications", target[s])}
  /\ pc[s] = "commit" =>
       /\ Op("UPDATE", "publications", target[s]) \in Planned(s)
       /\ IF prior[s] = target[s]
          THEN Planned(s) \subseteq {Op("INSERT", "application_state", "active"),
                                     Op("UPDATE", "publications", target[s])}
          ELSE {Op("UPDATE", "application_state", "active"),
                Op("SHARE", "publications", target[s])} \subseteq Planned(s)

CollectPlan(s) ==
  /\ cmd[s] = "cleanup" =>
       pc[s] = "commit" /\ \A o \in Planned(s) : o.mode = "DELETE" /\ o.table = "publications"
  /\ cmd[s] = "gc-corpus" =>
       /\ pc[s] \in {"orphan_texts", "commit"}
       /\ \A o \in Planned(s) : o.mode = "DELETE" /\ o.table \in {"text", "embedding"}
  /\ cmd[s] = "gc-artifacts" =>
       pc[s] = "commit" /\ \A o \in Planned(s) : o.mode = "DELETE" /\ o.table = "artifact"

\* What a command sends, and has sent when it commits.
PlanOf(s) ==
  /\ pc[s] = "idle" <=> cmd[s] = "none"
  /\ pc[s] = "idle" => held[s] = {} /\ queue[s] = <<>>
  /\ cmd[s] = "build" => BuildPlan(s)
  /\ cmd[s] = "promote" => PromotePlan(s)
  /\ CollectPlan(s)

\* A promotion that nobody overlapped knows the pointer, and supersedes it.
Aware(s) ==
  cmd[s] = "promote" /\ ~overlap[s] /\ pc[s] \in {"activate", "commit"} =>
    /\ prior[s] = pointer
    /\ pc[s] = "commit" /\ prior[s] \notin {None, target[s]} =>
         Op("UPDATE", "publications", prior[s]) \in Planned(s)

\* A build that was not overlapped finds or writes what it wants.
Covers(s) ==
  cmd[s] = "build" /\ ~overlap[s] =>
    \A p \in wants[s] :
      /\ pc[s] # "read_text" => p \in text \/ Op("INSERT", "text", p) \in Planned(s)
      /\ pc[s] \notin {"read_text", "read_embedding"} =>
           p \in embedding \/ Op("INSERT", "embedding", p) \in Planned(s)

\* What a collection is about to delete is used by no publication but those
\* whose build it overlapped.
Spares(s) ==
  cmd[s] = "gc-corpus" =>
    \A p \in Passages :
      \/ Op("DELETE", "text", p) \in Planned(s)
      \/ Op("DELETE", "embedding", p) \in Planned(s)
      \/ p \in wants[s]
      => \A v \in Versions : p \in uses[v] => v \in collected

SessionsConsistent == \A s \in Sessions : PlanOf(s) /\ Aware(s) /\ Covers(s) /\ Spares(s)

\* What let a write succeed holds until its session ends, because the lock
\* keeps others from undoing it: no two sessions hold conflicting locks.
WritesStand == \A s \in Sessions : \A o \in held[s] : ~Fails(o)

LocksExclude ==
  \A s, t \in Sessions : s # t => \A o \in held[s], h \in held[t] : ~Conflict(o, h)

\* Only a publication whose build was overlapped misses any of its corpus,
\* whatever became of its validation.
CorpusKept == \A v \in Versions \ collected : uses[v] \subseteq text \cap embedding

DatabaseConsistent ==
  /\ BuildsOrdered /\ PointerIsServed /\ SerialPromotionsKeepOne /\ ArtifactsResolve /\ CorpusKept

IInv ==
  /\ DatabaseTyped /\ SessionsTyped
  /\ SessionsConsistent /\ WritesStand /\ LocksExclude
  /\ DatabaseConsistent

-----------------------------------------------------------------------------
(* Listed statements                                                        *)

\* A finite ordered set can be listed: the place of an element is the number of
\* those that do not come after it.
LEMMA ListedElements ==
  ASSUME NEW S, IsFiniteSet(S), NEW precedes, Ordered(S, precedes)
  PROVE  Listed(S, precedes) \in Seq(S) /\ Range(Listed(S, precedes)) = S
<1> DEFINE n == Cardinality(S)
           Upto(x) == { y \in S : y = x \/ <<y, x>> \in precedes }
           place == [x \in S |-> Cardinality(Upto(x))]
           IsListing(s) == s \in SetToSeqs(S) /\ \A i, j \in DOMAIN s : i < j => <<s[i], s[j]>> \in precedes
<1>1. n \in Nat /\ IsFiniteSet(1 .. n) /\ Cardinality(1 .. n) = n
  <2>1. n \in Nat
    BY FS_CardinalityType
  <2> QED BY <2>1, FS_Interval
<1>2. ASSUME NEW x \in S PROVE IsFiniteSet(Upto(x)) /\ place[x] \in 1 .. n
  <2>1. Upto(x) \in SUBSET S /\ x \in Upto(x)
    OBVIOUS
  <2>2. IsFiniteSet(Upto(x)) /\ Cardinality(Upto(x)) <= n
    BY <2>1, FS_Subset
  <2>3. Cardinality(Upto(x)) \in Nat /\ Cardinality(Upto(x)) # 0
    BY <2>1, <2>2, FS_CardinalityType, FS_EmptySet
  <2> QED BY <1>1, <2>2, <2>3
<1>3. ASSUME NEW x \in S, NEW y \in S, <<x, y>> \in precedes PROVE place[x] < place[y]
  <2>1. Upto(x) \in SUBSET Upto(y) /\ y \in Upto(y) /\ y \notin Upto(x)
    BY <1>3 DEF Ordered
  <2>2. Cardinality(Upto(x)) <= Cardinality(Upto(y)) /\ Cardinality(Upto(x)) # Cardinality(Upto(y))
    BY <2>1, <1>2, FS_Subset
  <2> QED BY <2>2, <1>2
<1>4. place \in [S -> 1 .. n]
  BY <1>2
<1> HIDE DEF place
<1>5. ASSUME NEW x \in S, NEW y \in S, place[x] = place[y] PROVE x = y
  <2>1. ~ (place[x] < place[y]) /\ ~ (place[y] < place[x])
    BY <1>1, <1>4, <1>5
  <2> QED BY <1>3, <2>1 DEF Ordered
<1>6. place \in Injection(S, 1 .. n)
  BY <1>4, <1>5 DEF Injection, IsInjective
<1>7. place \in Surjection(S, 1 .. n)
  BY <1>1, <1>6, FS_Injection
<1>8. \A i \in 1 .. n : \E x \in S : place[x] = i
  BY <1>7 DEF Surjection
<1> DEFINE listing == [i \in 1 .. n |-> CHOOSE x \in S : place[x] = i]
<1>9. \A i \in 1 .. n : listing[i] \in S /\ place[listing[i]] = i
  BY <1>8
<1>10. IsListing(listing)
  <2>1. listing \in [1 .. n -> S] /\ DOMAIN listing = 1 .. n
    BY <1>9
  <2> HIDE DEF listing
  <2>2. \A i, j \in 1 .. n : i # j => listing[i] # listing[j]
    BY <1>9
  <2>3. ASSUME NEW i \in 1 .. n, NEW j \in 1 .. n, i < j PROVE <<listing[i], listing[j]>> \in precedes
    <3>1. ~ (place[listing[j]] < place[listing[i]]) /\ listing[i] # listing[j]
      BY <1>1, <1>9, <2>3
    <3>2. <<listing[j], listing[i]>> \notin precedes
      BY <1>3, <1>9, <3>1
    <3> QED BY <1>9, <3>1, <3>2 DEF Ordered
  <2> QED BY <2>1, <2>2, <2>3 DEF SetToSeqs
<1>11. IsListing(Listed(S, precedes))
  BY <1>10 DEF Listed
<1>12. /\ Listed(S, precedes) \in [1 .. n -> S]
       /\ \A i, j \in 1 .. n : i # j => Listed(S, precedes)[i] # Listed(S, precedes)[j]
  BY <1>11 DEF SetToSeqs
<1>13. Listed(S, precedes) \in Injection(1 .. n, S)
  BY <1>12 DEF Injection, IsInjective
<1>14. Listed(S, precedes) \in Surjection(1 .. n, S)
  BY <1>1, <1>13, FS_Injection
<1> QED BY <1>1, <1>12, <1>14 DEF Surjection, Range

LEMMA ByIdElements ==
  ASSUME NEW S \in SUBSET (Versions \cup Passages), IsFiniteSet(S)
  PROVE  ById(S) \in Seq(S) /\ Range(ById(S)) = S
<1>1. Ordered(S, { x \in S \X S : x[1] < x[2] })
  BY RowsAreNumbers DEF Ordered
<1> QED BY <1>1, ListedElements DEF ById

LEMMA ByHashElements ==
  ASSUME NEW S \in SUBSET Passages
  PROVE  ByHash(S) \in Seq(S) /\ Range(ByHash(S)) = S
<1>1. Ordered(S, { x \in S \X S : Rank[x[1]] < Rank[x[2]] })
  BY RankOrders DEF Ordered
<1>2. IsFiniteSet(S)
  BY PassagesFinite, FS_Subset
<1> QED BY <1>1, <1>2, ListedElements DEF ByHash

\* A statement is told by its mode, its table and its key.
LEMMA OpInjective ==
  ASSUME NEW m, NEW n, NEW t, NEW u, NEW k, NEW l, Op(m, t, k) = Op(n, u, l)
  PROVE  m = n /\ t = u /\ k = l
BY DEF Op

LEMMA StatementsElements ==
  ASSUME NEW mode, NEW table, NEW K, NEW keys \in Seq(K),
         \A k \in K : Op(mode, table, k) \in Statement
  PROVE  /\ Statements(mode, table, keys) \in Seq(Statement)
         /\ Range(Statements(mode, table, keys)) = { Op(mode, table, k) : k \in Range(keys) }
<1>1. Len(keys) \in Nat /\ keys \in [1 .. Len(keys) -> K] /\ DOMAIN keys = 1 .. Len(keys)
  BY LenProperties
<1>2. Statements(mode, table, keys) \in [1 .. Len(keys) -> Statement]
  BY <1>1 DEF Statements
<1> QED BY <1>1, <1>2 DEF Statements, Range

LEMMA RangeOfConcatenation ==
  ASSUME NEW X, NEW a \in Seq(X), NEW b \in Seq(X)
  PROVE  a \o b \in Seq(X) /\ Range(a \o b) = Range(a) \cup Range(b)
<1>1. /\ a \o b \in Seq(X) /\ Len(a \o b) = Len(a) + Len(b)
      /\ Len(a) \in Nat /\ Len(b) \in Nat
      /\ DOMAIN a = 1 .. Len(a) /\ DOMAIN b = 1 .. Len(b) /\ DOMAIN (a \o b) = 1 .. Len(a \o b)
      /\ \A i \in 1 .. Len(a) + Len(b) : (a \o b)[i] = IF i <= Len(a) THEN a[i] ELSE b[i - Len(a)]
  BY ConcatProperties, LenProperties
<1>2. Range(a \o b) \subseteq Range(a) \cup Range(b)
  BY <1>1 DEF Range
<1>3. Range(a) \subseteq Range(a \o b)
  BY <1>1 DEF Range
<1>4. ASSUME NEW i \in 1 .. Len(b) PROVE b[i] \in Range(a \o b)
  <2>1. i + Len(a) \in DOMAIN (a \o b) /\ (a \o b)[i + Len(a)] = b[i]
    BY <1>1
  <2> QED BY <2>1 DEF Range
<1>5. Range(b) \subseteq Range(a \o b)
  BY <1>1, <1>4 DEF Range
<1> QED BY <1>1, <1>2, <1>3, <1>5

LEMMA RangeOfTail ==
  ASSUME NEW X, NEW a \in Seq(X), a # <<>>
  PROVE  Tail(a) \in Seq(X) /\ Head(a) \in X /\ Range(a) = {Head(a)} \cup Range(Tail(a))
<1>1. /\ Head(a) \in X /\ Tail(a) \in Seq(X) /\ Len(Tail(a)) = Len(a) - 1
      /\ Len(a) \in Nat /\ Len(a) > 0 /\ Head(a) = a[1]
      /\ \A i \in 1 .. Len(Tail(a)) : Tail(a)[i] = a[i + 1]
      /\ DOMAIN a = 1 .. Len(a) /\ DOMAIN Tail(a) = 1 .. Len(Tail(a))
  BY HeadTailProperties, LenProperties, EmptySeq
<1>2. {Head(a)} \cup Range(Tail(a)) \subseteq Range(a)
  BY <1>1 DEF Range
<1>3. ASSUME NEW i \in 1 .. Len(a) PROVE a[i] \in {Head(a)} \cup Range(Tail(a))
  <2>1. CASE i = 1
    BY <2>1, <1>1
  <2>2. CASE i # 1
    <3>1. i - 1 \in DOMAIN Tail(a) /\ Tail(a)[i - 1] = a[i]
      BY <2>2, <1>1
    <3> QED BY <3>1 DEF Range
  <2> QED BY <2>1, <2>2
<1> QED BY <1>1, <1>2, <1>3 DEF Range

-----------------------------------------------------------------------------
(* What a step that does not commit does to its session                     *)

Untouched(t) ==
  /\ cmd'[t] = cmd[t] /\ pc'[t] = pc[t] /\ target'[t] = target[t] /\ prior'[t] = prior[t]
  /\ wants'[t] = wants[t] /\ verdict'[t] = verdict[t]
  /\ queue'[t] = queue[t] /\ held'[t] = held[t] /\ overlap'[t] = overlap[t]

\* Nothing but session s has changed.
Local(s) ==
  /\ UNCHANGED <<database, raced, collected>>
  /\ \A t \in Sessions \ {s} : Untouched(t)

LEMMA RollbackEffect ==
  ASSUME SessionsTyped, NEW s \in Sessions, Rollback(s)
  PROVE  /\ Local(s) /\ SessionsTyped'
         /\ cmd'[s] = "none" /\ pc'[s] = "idle" /\ held'[s] = {} /\ queue'[s] = <<>>
<1>1. SessionsTyped'
  BY EmptySeq DEF SessionsTyped, Rollback, End, Released, Labels, AllCommands
<1>2. Local(s)
  BY DEF SessionsTyped, Rollback, End, Released, Local, Untouched
<1> QED BY <1>1, <1>2 DEF SessionsTyped, Rollback, End, Released

LEMMA WriteEffect ==
  ASSUME SessionsTyped, NEW s \in Sessions, Write(s)
  PROVE  /\ Local(s) /\ SessionsTyped'
         /\ cmd'[s] = cmd[s] /\ pc'[s] = pc[s] /\ target'[s] = target[s] /\ prior'[s] = prior[s]
         /\ wants'[s] = wants[s] /\ overlap'[s] = overlap[s]
         /\ queue[s] # <<>> /\ Planned(s)' = Planned(s)
         /\ held'[s] = held[s] \cup {Head(queue[s])} /\ Head(queue[s]) \in Statement
<1>1. queue[s] \in Seq(Statement) /\ queue[s] # <<>>
  BY DEF SessionsTyped, Write, Flushing
<1>2. /\ Tail(queue[s]) \in Seq(Statement) /\ Head(queue[s]) \in Statement
      /\ Range(queue[s]) = {Head(queue[s])} \cup Range(Tail(queue[s]))
  BY <1>1, RangeOfTail
<1>3. held'[s] = held[s] \cup {Head(queue[s])} /\ queue'[s] = Tail(queue[s])
  BY DEF SessionsTyped, Write
<1>4. Planned(s)' = Planned(s)
  BY <1>2, <1>3 DEF Planned
<1>5. SessionsTyped'
  BY <1>2 DEF SessionsTyped, Write, history
<1>6. Local(s)
  BY DEF SessionsTyped, Write, Local, Untouched, history
<1> QED BY <1>1, <1>2, <1>3, <1>4, <1>5, <1>6 DEF Write, history

LEMMA StartEffect ==
  ASSUME SessionsTyped, NEW s \in Sessions, PlanOf(s),
         NEW command, NEW label \in Labels, NEW v \in Versions \cup {None},
         NEW passages \in SUBSET Passages, NEW ops \in Seq(Statement),
         Start(s, command, label, v, passages, ops)
  PROVE  /\ Local(s) /\ SessionsTyped'
         /\ cmd'[s] = command /\ pc'[s] = label /\ target'[s] = v /\ wants'[s] = passages
         /\ prior'[s] = prior[s] /\ held'[s] = {} /\ Planned(s)' = Range(ops)
<1>1. command \in AllCommands
  BY CommandsKnown DEF Start
<1>2. held[s] = {}
  BY DEF Start, PlanOf
<1>3. SessionsTyped'
  BY <1>1 DEF SessionsTyped, Start, history
<1>4. Local(s)
  BY DEF SessionsTyped, Start, Local, Untouched, history
<1>5. held'[s] = {} /\ queue'[s] = ops
  BY <1>2 DEF SessionsTyped, Start
<1>6. Planned(s)' = Range(ops)
  BY <1>5 DEF Planned
<1> QED BY <1>3, <1>4, <1>5, <1>6 DEF SessionsTyped, Start

LEMMA SelectEffect ==
  ASSUME SessionsTyped, NEW s \in Sessions,
         NEW label, NEW next \in Labels, NEW ops \in Seq(Statement),
         Select(s, label, next, ops),
         prior' \in [Sessions -> Versions \cup {None}],
         verdict' \in [Sessions -> {"FAILED", "READY"}],
         \A t \in Sessions \ {s} : prior'[t] = prior[t] /\ verdict'[t] = verdict[t]
  PROVE  /\ Local(s) /\ SessionsTyped'
         /\ pc[s] = label /\ pc'[s] = next
         /\ cmd'[s] = cmd[s] /\ target'[s] = target[s] /\ wants'[s] = wants[s]
         /\ overlap'[s] = overlap[s] /\ held'[s] = held[s]
         /\ Planned(s)' = Planned(s) \cup Range(ops)
<1>1. queue[s] \in Seq(Statement)
  BY DEF SessionsTyped
<1>2. queue[s] \o ops \in Seq(Statement) /\ Range(queue[s] \o ops) = Range(queue[s]) \cup Range(ops)
  BY <1>1, RangeOfConcatenation
<1>3. held'[s] = held[s] /\ queue'[s] = queue[s] \o ops
  BY DEF SessionsTyped, Select
<1>4. Planned(s)' = Planned(s) \cup Range(ops)
  BY <1>2, <1>3 DEF Planned
<1>5. SessionsTyped'
  BY <1>2 DEF SessionsTyped, Select, history
<1>6. Local(s)
  BY DEF SessionsTyped, Select, Local, Untouched, history
<1> QED BY <1>3, <1>4, <1>5, <1>6 DEF SessionsTyped, Select, At, history

\* A step of one session leaves the others consistent, and the database as it was.
LEMMA LocalStep ==
  ASSUME IInv, NEW s \in Sessions, Local(s),
         SessionsTyped', (PlanOf(s) /\ Aware(s) /\ Covers(s) /\ Spares(s))',
         (WritesStand /\ LocksExclude)'
  PROVE  IInv'
<1>1. DatabaseTyped' /\ DatabaseConsistent'
  <2>1. UNCHANGED <<status, after, pointer, uses, text, embedding, artifact, raced, collected>>
    BY DEF Local, database
  <2>2. DatabaseTyped'
    BY <2>1 DEF IInv, DatabaseTyped
  <2>3. (BuildsOrdered /\ PointerIsServed)'
    BY <2>1 DEF IInv, DatabaseConsistent, BuildsOrdered, Stored, Present, Ordered, PointerIsServed
  <2>4. (SerialPromotionsKeepOne /\ ArtifactsResolve /\ CorpusKept)'
    BY <2>1 DEF IInv, DatabaseConsistent, SerialPromotionsKeepOne, ArtifactsResolve, CorpusKept
  <2> QED BY <2>2, <2>3, <2>4 DEF DatabaseConsistent
<1>2. ASSUME NEW t \in Sessions \ {s}
      PROVE  (PlanOf(t) /\ Aware(t) /\ Covers(t) /\ Spares(t))'
  <2>1. Untouched(t) /\ UNCHANGED <<pointer, uses, text, embedding, collected>>
    BY DEF Local, database
  <2>2. PlanOf(t) /\ Aware(t) /\ Covers(t) /\ Spares(t)
    BY DEF IInv, SessionsConsistent
  <2>3. Planned(t)' = Planned(t)
    BY <2>1 DEF Planned, Untouched
  <2>4. PlanOf(t)'
    BY <2>1, <2>2, <2>3 DEF PlanOf, BuildPlan, PromotePlan, CollectPlan, Untouched
  <2>5. Aware(t)' /\ Covers(t)'
    BY <2>1, <2>2, <2>3 DEF Aware, Covers, Untouched
  <2>6. Spares(t)'
    BY <2>1, <2>2, <2>3 DEF Spares, Untouched
  <2> QED BY <2>4, <2>5, <2>6
<1> QED BY <1>1, <1>2 DEF IInv, SessionsConsistent

LEMMA NoNewLock ==
  ASSUME IInv, NEW s \in Sessions, Local(s), held'[s] \in SUBSET held[s]
  PROVE  (WritesStand /\ LocksExclude)'
<1>1. \A t \in Sessions : held'[t] \subseteq held[t]
  BY DEF Local, Untouched
<1>2. WritesStand'
  BY <1>1 DEF IInv, WritesStand, Fails, Exists, Referenced, Present, Local, database
<1>3. LocksExclude'
  BY <1>1 DEF IInv, LocksExclude
<1> QED BY <1>2, <1>3

-----------------------------------------------------------------------------
(* The steps that do not commit                                             *)

LEMMA RollbackIInv ==
  ASSUME IInv, NEW s \in Sessions, Rollback(s)
  PROVE  IInv'
<1>1. /\ Local(s) /\ SessionsTyped'
      /\ cmd'[s] = "none" /\ pc'[s] = "idle" /\ held'[s] = {} /\ queue'[s] = <<>>
  BY RollbackEffect DEF IInv
<1>2. (PlanOf(s) /\ Aware(s) /\ Covers(s) /\ Spares(s))'
  BY <1>1 DEF PlanOf, Aware, Covers, Spares, CollectPlan
<1>3. (WritesStand /\ LocksExclude)'
  BY <1>1, NoNewLock
<1> QED BY <1>1, <1>2, <1>3, LocalStep

LEMMA ConflictSymmetric ==
  ASSUME NEW o, NEW h, Conflict(o, h)
  PROVE  Conflict(h, o)
BY DEF Conflict, Compatible

LEMMA WriteIInv ==
  ASSUME IInv, NEW s \in Sessions, Write(s)
  PROVE  IInv'
<1> DEFINE new == Head(queue[s])
<1>1. /\ Local(s) /\ SessionsTyped'
      /\ cmd'[s] = cmd[s] /\ pc'[s] = pc[s] /\ target'[s] = target[s] /\ prior'[s] = prior[s]
      /\ wants'[s] = wants[s] /\ overlap'[s] = overlap[s]
      /\ queue[s] # <<>> /\ Planned(s)' = Planned(s)
      /\ held'[s] = held[s] \cup {new}
  BY WriteEffect DEF IInv
<1>2. PlanOf(s) /\ Aware(s) /\ Covers(s) /\ Spares(s)
  BY DEF IInv, SessionsConsistent
<1>3. PlanOf(s)'
  BY <1>1, <1>2 DEF PlanOf, BuildPlan, PromotePlan, CollectPlan
<1>4. (Aware(s) /\ Covers(s) /\ Spares(s))'
  BY <1>1, <1>2 DEF Aware, Covers, Spares, Local, database
<1>5. WritesStand'
  <2>1. ~Fails(new)
    BY DEF Write
  <2>2. \A t \in Sessions : \A o \in held'[t] : ~Fails(o)
    BY <1>1, <2>1 DEF IInv, WritesStand, Local, Untouched
  <2> QED BY <1>1, <2>2 DEF WritesStand, Fails, Exists, Referenced, Present, Local, database
<1>6. LocksExclude'
  <2>1. \A t \in Sessions \ {s} : \A h \in held[t] : ~Conflict(new, h)
    BY DEF Write, Blocked, WaitsFor
  <2>2. \A t \in Sessions \ {s} : held'[t] = held[t]
    BY <1>1 DEF Local, Untouched
  <2>3. ASSUME NEW t \in Sessions \ {s}, NEW o \in held'[s], NEW h \in held'[t]
        PROVE  ~Conflict(o, h) /\ ~Conflict(h, o)
    BY <1>1, <2>1, <2>2, ConflictSymmetric DEF IInv, LocksExclude
  <2>4. ASSUME NEW t \in Sessions, NEW u \in Sessions, t # u, NEW o \in held'[t], NEW h \in held'[u]
        PROVE  ~Conflict(o, h)
    <3>1. CASE t = s \/ u = s
      BY <2>3, <2>4, <3>1
    <3>2. CASE t # s /\ u # s
      BY <2>2, <2>4, <3>2 DEF IInv, LocksExclude
    <3> QED BY <3>1, <3>2
  <2> QED BY <2>4 DEF LocksExclude
<1> QED BY <1>1, <1>3, <1>4, <1>5, <1>6, LocalStep

\* A command that starts, having planned nothing before.
LEMMA StartIInv ==
  ASSUME IInv, NEW s \in Sessions,
         NEW command, NEW label \in Labels, NEW v \in Versions \cup {None},
         NEW passages \in SUBSET Passages, NEW ops \in Seq(Statement),
         Start(s, command, label, v, passages, ops),
         (PlanOf(s) /\ Aware(s) /\ Covers(s) /\ Spares(s))'
  PROVE  IInv'
<1>1. PlanOf(s) /\ SessionsTyped
  BY DEF IInv, SessionsConsistent
<1>2. Local(s) /\ SessionsTyped' /\ held'[s] = {}
  BY <1>1, StartEffect
<1>3. (WritesStand /\ LocksExclude)'
  BY <1>2, NoNewLock
<1> QED BY <1>2, <1>3, LocalStep

LEMMA BuildStartIInv ==
  ASSUME IInv, NEW s \in Sessions, BuildStart(s)
  PROVE  IInv'
<1>1. PICK v \in Versions, passages \in SUBSET Passages :
        Start(s, "build", "read_text", v, passages, <<Op("INSERT", "publications", v)>>)
  BY DEF BuildStart
<1> DEFINE ops == <<Op("INSERT", "publications", v)>>
<1>2. ops \in Seq(Statement) /\ Range(ops) = {Op("INSERT", "publications", v)}
  BY DEF Op, Statement, Range
<1>3. PlanOf(s) /\ SessionsTyped /\ "read_text" \in Labels
  BY DEF IInv, SessionsConsistent, Labels
<1>0. Start(s, "build", "read_text", v, passages, ops)
  BY <1>1
<1> HIDE DEF ops
<1>4. /\ cmd'[s] = "build" /\ pc'[s] = "read_text" /\ target'[s] = v
      /\ Planned(s)' = {Op("INSERT", "publications", v)}
  BY <1>0, <1>2, <1>3, StartEffect
<1>5. PlanOf(s)'
  BY <1>4 DEF PlanOf, BuildPlan, CollectPlan
<1>6. (Aware(s) /\ Covers(s) /\ Spares(s))'
  BY <1>4 DEF Aware, Covers, Spares
<1> QED BY <1>0, <1>2, <1>3, <1>5, <1>6, StartIInv

LEMMA PromoteStartIInv ==
  ASSUME IInv, NEW s \in Sessions, PromoteStart(s)
  PROVE  IInv'
<1>1. PICK v \in Versions : Start(s, "promote", "state", v, {}, <<>>)
  BY DEF PromoteStart
<1>2. <<>> \in Seq(Statement) /\ Range(<<>>) = {}
  BY DEF Range
<1>3. PlanOf(s) /\ SessionsTyped /\ "state" \in Labels
  BY DEF IInv, SessionsConsistent, Labels
<1>4. cmd'[s] = "promote" /\ pc'[s] = "state" /\ target'[s] = v /\ Planned(s)' = {}
  BY <1>1, <1>2, <1>3, StartEffect
<1>5. PlanOf(s)'
  BY <1>4 DEF PlanOf, PromotePlan, CollectPlan
<1>6. (Aware(s) /\ Covers(s) /\ Spares(s))'
  BY <1>4 DEF Aware, Covers, Spares
<1> QED BY <1>1, <1>2, <1>3, <1>5, <1>6, StartIInv

LEMMA CleanupStartIInv ==
  ASSUME IInv, NEW s \in Sessions, CleanupStart(s)
  PROVE  IInv'
<1>1. PICK keep \in Keeps :
        Start(s, "cleanup", "commit", None, {},
              Statements("DELETE", "publications", Listed(Doomed(keep), after)))
  BY DEF CleanupStart
<1> DEFINE ops == Statements("DELETE", "publications", Listed(Doomed(keep), after))
<1>2. Doomed(keep) \in SUBSET Stored
  BY DEF Doomed, Stored
<1>3. IsFiniteSet(Doomed(keep)) /\ Ordered(Doomed(keep), after)
  <2>1. IsFiniteSet(Stored) /\ Ordered(Stored, after)
    BY DEF IInv, DatabaseConsistent, BuildsOrdered
  <2> QED BY <1>2, <2>1, FS_Subset DEF Ordered
<1>4. Listed(Doomed(keep), after) \in Seq(Doomed(keep)) /\ Range(Listed(Doomed(keep), after)) = Doomed(keep)
  BY <1>3, ListedElements
<1>5. \A v \in Doomed(keep) : Op("DELETE", "publications", v) \in Statement
  BY <1>2 DEF Op, Statement, Stored
<1>6. ops \in Seq(Statement) /\ Range(ops) = { Op("DELETE", "publications", v) : v \in Doomed(keep) }
  BY <1>4, <1>5, StatementsElements
<1>7. PlanOf(s) /\ SessionsTyped /\ "commit" \in Labels
  BY DEF IInv, SessionsConsistent, Labels
<1> HIDE DEF ops
<1>8. Start(s, "cleanup", "commit", None, {}, ops)
  BY <1>1 DEF ops
<1>9. /\ cmd'[s] = "cleanup" /\ pc'[s] = "commit"
      /\ Planned(s)' = { Op("DELETE", "publications", v) : v \in Doomed(keep) }
  BY <1>6, <1>7, <1>8, StartEffect
<1>10. PlanOf(s)'
  BY <1>9 DEF PlanOf, CollectPlan, Op
<1>11. (Aware(s) /\ Covers(s) /\ Spares(s))'
  BY <1>9 DEF Aware, Covers, Spares
<1> QED BY <1>6, <1>7, <1>8, <1>10, <1>11, StartIInv

LEMMA DeletesElements ==
  ASSUME NEW table \in {"text", "embedding", "artifact"}, NEW S \in SUBSET Passages
  PROVE  /\ Deletes(table, S) \in Seq(Statement)
         /\ Range(Deletes(table, S)) = { Op("DELETE", table, p) : p \in S }
<1>1. ByHash(S) \in Seq(S) /\ Range(ByHash(S)) = S
  BY ByHashElements
<1>2. \A p \in S : Op("DELETE", table, p) \in Statement
  BY DEF Op, Statement
<1> QED BY <1>1, <1>2, StatementsElements DEF Deletes

LEMMA GcCorpusStartIInv ==
  ASSUME IInv, NEW s \in Sessions, GcCorpusStart(s)
  PROVE  IInv'
<1>1. Start(s, "gc-corpus", "orphan_texts", None, Orphans(embedding), <<>>)
  BY DEF GcCorpusStart
<1>2. Orphans(embedding) \in SUBSET Passages /\ \A p \in Orphans(embedding) : \A v \in Versions : p \notin uses[v]
  BY DEF IInv, DatabaseTyped, Orphans
<1>3. <<>> \in Seq(Statement) /\ Range(<<>>) = {}
  BY DEF Range
<1>4. PlanOf(s) /\ SessionsTyped /\ "orphan_texts" \in Labels
  BY DEF IInv, SessionsConsistent, Labels
<1>5. /\ Local(s) /\ cmd'[s] = "gc-corpus" /\ pc'[s] = "orphan_texts" /\ wants'[s] = Orphans(embedding)
      /\ Planned(s)' = {}
  BY <1>1, <1>2, <1>3, <1>4, StartEffect
<1>6. PlanOf(s)'
  BY <1>5 DEF PlanOf, CollectPlan
<1>7. (Aware(s) /\ Covers(s))'
  BY <1>5 DEF Aware, Covers
<1>8. Spares(s)'
  BY <1>2, <1>5 DEF Spares, Local, database
<1> QED BY <1>1, <1>2, <1>3, <1>4, <1>6, <1>7, <1>8, StartIInv

LEMMA GcArtifactsStartIInv ==
  ASSUME IInv, NEW s \in Sessions, GcArtifactsStart(s)
  PROVE  IInv'
<1> DEFINE ops == Deletes("artifact", Orphans(artifact))
<1>1. ops \in Seq(Statement) /\ Range(ops) = { Op("DELETE", "artifact", p) : p \in Orphans(artifact) }
  BY DeletesElements DEF IInv, DatabaseTyped, Orphans
<1>2. Start(s, "gc-artifacts", "commit", None, {}, ops)
  BY DEF GcArtifactsStart
<1> HIDE DEF ops
<1>3. PlanOf(s) /\ SessionsTyped /\ "commit" \in Labels
  BY DEF IInv, SessionsConsistent, Labels
<1>4. /\ cmd'[s] = "gc-artifacts" /\ pc'[s] = "commit"
      /\ Planned(s)' = { Op("DELETE", "artifact", p) : p \in Orphans(artifact) }
  BY <1>1, <1>2, <1>3, StartEffect
<1>5. PlanOf(s)'
  BY <1>4 DEF PlanOf, CollectPlan, Op
<1>6. (Aware(s) /\ Covers(s) /\ Spares(s))'
  BY <1>4 DEF Aware, Covers, Spares
<1> QED BY <1>1, <1>2, <1>3, <1>5, <1>6, StartIInv

\* A statement that reads: what it adds to the plan is all that the session's
\* consistency depends on.
LEMMA SelectIInv ==
  ASSUME IInv, NEW s \in Sessions,
         NEW label, NEW next \in Labels, NEW ops \in Seq(Statement),
         Select(s, label, next, ops),
         prior' \in [Sessions -> Versions \cup {None}],
         verdict' \in [Sessions -> {"FAILED", "READY"}],
         \A t \in Sessions \ {s} : prior'[t] = prior[t] /\ verdict'[t] = verdict[t],
         (PlanOf(s) /\ Aware(s) /\ Covers(s) /\ Spares(s))'
  PROVE  IInv'
<1>1. SessionsTyped
  BY DEF IInv
<1>2. Local(s) /\ SessionsTyped' /\ held'[s] = held[s]
  BY <1>1, SelectEffect
<1>3. (WritesStand /\ LocksExclude)'
  BY <1>2, NoNewLock
<1> QED BY <1>2, <1>3, LocalStep

LEMMA InsertsElements ==
  ASSUME NEW mode \in {"INSERT", "SHARE"}, NEW table \in {"text", "embedding", "artifact"},
         NEW S \in SUBSET Passages
  PROVE  /\ Statements(mode, table, ById(S)) \in Seq(Statement)
         /\ Range(Statements(mode, table, ById(S))) = { Op(mode, table, p) : p \in S }
<1>1. ById(S) \in Seq(S) /\ Range(ById(S)) = S
  BY PassagesFinite, FS_Subset, ByIdElements
<1>2. \A p \in S : Op(mode, table, p) \in Statement
  BY DEF Op, Statement
<1> QED BY <1>1, <1>2, StatementsElements

\* What a build's SELECT adds, when it keeps prior and verdict.
LEMMA BuildPlanOf ==
  ASSUME SessionsTyped, NEW s \in Sessions, PlanOf(s)
  PROVE  pc[s] \in {"read_text", "read_embedding", "read_artifact", "validate"} => cmd[s] = "build" /\ BuildPlan(s)
<1>1. cmd[s] \in AllCommands \cup {"none"}
  BY DEF SessionsTyped
<1> QED BY <1>1 DEF PlanOf, PromotePlan, CollectPlan, AllCommands

LEMMA BuildReadTextIInv ==
  ASSUME IInv, NEW s \in Sessions, BuildReadText(s)
  PROVE  IInv'
<1> DEFINE ops == Inserts("text", wants[s] \ text)
<1>1. Select(s, "read_text", "read_embedding", ops) /\ UNCHANGED <<prior, verdict>>
  BY DEF BuildReadText
<1>2. ops \in Seq(Statement) /\ Range(ops) = { Op("INSERT", "text", p) : p \in wants[s] \ text }
  BY InsertsElements DEF IInv, SessionsTyped, Inserts
<1> HIDE DEF ops
<1>3. SessionsTyped /\ PlanOf(s) /\ "read_embedding" \in Labels
  BY DEF IInv, SessionsConsistent, Labels
<1>4. /\ prior' \in [Sessions -> Versions \cup {None}] /\ verdict' \in [Sessions -> {"FAILED", "READY"}]
      /\ \A t \in Sessions : prior'[t] = prior[t] /\ verdict'[t] = verdict[t]
  BY <1>1, <1>3 DEF SessionsTyped
<1>5. /\ Local(s) /\ pc[s] = "read_text" /\ pc'[s] = "read_embedding"
      /\ cmd'[s] = cmd[s] /\ target'[s] = target[s] /\ wants'[s] = wants[s]
      /\ overlap'[s] = overlap[s]
      /\ Planned(s)' = Planned(s) \cup { Op("INSERT", "text", p) : p \in wants[s] \ text }
  BY <1>1, <1>2, <1>3, <1>4, SelectEffect
<1>6. cmd[s] = "build" /\ BuildPlan(s)
  BY <1>3, <1>5, BuildPlanOf
<1>7. PlanOf(s)'
  BY <1>5, <1>6 DEF PlanOf, BuildPlan, CollectPlan, Op
<1>8. (Aware(s) /\ Covers(s) /\ Spares(s))'
  BY <1>5, <1>6 DEF Aware, Covers, Spares, Local, database
<1> QED BY <1>1, <1>2, <1>3, <1>4, <1>7, <1>8, SelectIInv

LEMMA BuildReadEmbeddingIInv ==
  ASSUME IInv, NEW s \in Sessions, BuildReadEmbedding(s)
  PROVE  IInv'
<1> DEFINE ops == Inserts("embedding", wants[s] \ embedding)
<1>1. Select(s, "read_embedding", "read_artifact", ops) /\ UNCHANGED <<prior, verdict>>
  BY DEF BuildReadEmbedding
<1>2. ops \in Seq(Statement) /\ Range(ops) = { Op("INSERT", "embedding", p) : p \in wants[s] \ embedding }
  BY InsertsElements DEF IInv, SessionsTyped, Inserts
<1> HIDE DEF ops
<1>3. SessionsTyped /\ PlanOf(s) /\ Covers(s) /\ "read_artifact" \in Labels
  BY DEF IInv, SessionsConsistent, Labels
<1>4. /\ prior' \in [Sessions -> Versions \cup {None}] /\ verdict' \in [Sessions -> {"FAILED", "READY"}]
      /\ \A t \in Sessions : prior'[t] = prior[t] /\ verdict'[t] = verdict[t]
  BY <1>1, <1>3 DEF SessionsTyped
<1>5. /\ Local(s) /\ pc[s] = "read_embedding" /\ pc'[s] = "read_artifact"
      /\ cmd'[s] = cmd[s] /\ target'[s] = target[s] /\ wants'[s] = wants[s]
      /\ overlap'[s] = overlap[s]
      /\ Planned(s)' = Planned(s) \cup { Op("INSERT", "embedding", p) : p \in wants[s] \ embedding }
  BY <1>1, <1>2, <1>3, <1>4, SelectEffect
<1>6. cmd[s] = "build" /\ BuildPlan(s)
  BY <1>3, <1>5, BuildPlanOf
<1>7. PlanOf(s)'
  BY <1>5, <1>6 DEF PlanOf, BuildPlan, CollectPlan, Op
<1>8. Covers(s)'
  BY <1>3, <1>5, <1>6 DEF Covers, Local, database
<1>9. (Aware(s) /\ Spares(s))'
  BY <1>5, <1>6 DEF Aware, Spares
<1> QED BY <1>1, <1>2, <1>3, <1>4, <1>7, <1>8, <1>9, SelectIInv

LEMMA BuildReadArtifactIInv ==
  ASSUME IInv, NEW s \in Sessions, BuildReadArtifact(s)
  PROVE  IInv'
<1> DEFINE inserts == Inserts("artifact", wants[s] \ artifact)
           checks == Statements("SHARE", "artifact", ById(wants[s] \cap artifact))
           ops == inserts \o checks
<1>1. Select(s, "read_artifact", "validate", ops) /\ UNCHANGED <<prior, verdict>>
  BY DEF BuildReadArtifact
<1>2. wants[s] \in SUBSET Passages
  BY DEF IInv, SessionsTyped
<1>3. inserts \in Seq(Statement) /\ Range(inserts) = { Op("INSERT", "artifact", p) : p \in wants[s] \ artifact }
  BY <1>2, InsertsElements DEF Inserts
<1>4. checks \in Seq(Statement) /\ Range(checks) = { Op("SHARE", "artifact", p) : p \in wants[s] \cap artifact }
  BY <1>2, InsertsElements
<1> HIDE DEF inserts, checks
<1>5. ops \in Seq(Statement) /\ Range(ops) = Range(inserts) \cup Range(checks)
  BY <1>3, <1>4, RangeOfConcatenation
<1> HIDE DEF ops
<1>6. SessionsTyped /\ PlanOf(s) /\ Covers(s) /\ "validate" \in Labels
  BY DEF IInv, SessionsConsistent, Labels
<1>7. /\ prior' \in [Sessions -> Versions \cup {None}] /\ verdict' \in [Sessions -> {"FAILED", "READY"}]
      /\ \A t \in Sessions : prior'[t] = prior[t] /\ verdict'[t] = verdict[t]
  BY <1>1, <1>6 DEF SessionsTyped
<1>8. /\ Local(s) /\ pc[s] = "read_artifact" /\ pc'[s] = "validate"
      /\ cmd'[s] = cmd[s] /\ target'[s] = target[s] /\ wants'[s] = wants[s]
      /\ overlap'[s] = overlap[s]
      /\ Planned(s)' = Planned(s) \cup Range(ops)
  BY <1>1, <1>5, <1>6, <1>7, SelectEffect
<1>9. cmd[s] = "build" /\ BuildPlan(s)
  BY <1>6, <1>8, BuildPlanOf
<1>10. PlanOf(s)'
  <2>1. \A o \in Range(ops) : o.table = "artifact" /\ o.mode \in {"INSERT", "SHARE"}
    BY <1>3, <1>4, <1>5 DEF Op
  <2>2. \A p \in wants[s] : Op("INSERT", "artifact", p) \in Range(ops) \/ Op("SHARE", "artifact", p) \in Range(ops)
    BY <1>3, <1>4, <1>5
  <2>3. BuildPlan(s)'
    BY <1>8, <1>9, <2>1, <2>2 DEF BuildPlan
  <2> QED BY <1>8, <1>9, <2>3 DEF PlanOf, CollectPlan
<1>11. Covers(s)'
  BY <1>6, <1>8, <1>9 DEF Covers, Local, database
<1>12. (Aware(s) /\ Spares(s))'
  BY <1>8, <1>9 DEF Aware, Spares
<1> QED BY <1>1, <1>5, <1>6, <1>7, <1>10, <1>11, <1>12, SelectIInv

LEMMA BuildValidateIInv ==
  ASSUME IInv, NEW s \in Sessions, BuildValidate(s)
  PROVE  IInv'
<1> DEFINE ops == <<>>
<1>1. Select(s, "validate", "commit", ops) /\ UNCHANGED prior
      /\ \E result \in {"FAILED", "READY"} : verdict' = [verdict EXCEPT ![s] = result]
  BY DEF BuildValidate
<1>2. ops \in Seq(Statement) /\ Range(ops) = {}
  BY DEF Range
<1> HIDE DEF ops
<1>3. SessionsTyped /\ PlanOf(s) /\ Covers(s) /\ "commit" \in Labels
  BY DEF IInv, SessionsConsistent, Labels
<1>4. /\ prior' \in [Sessions -> Versions \cup {None}] /\ verdict' \in [Sessions -> {"FAILED", "READY"}]
      /\ \A t \in Sessions \ {s} : prior'[t] = prior[t] /\ verdict'[t] = verdict[t]
  BY <1>1, <1>3 DEF SessionsTyped
<1>5. /\ Local(s) /\ pc[s] = "validate" /\ pc'[s] = "commit"
      /\ cmd'[s] = cmd[s] /\ target'[s] = target[s] /\ wants'[s] = wants[s]
      /\ overlap'[s] = overlap[s] /\ Planned(s)' = Planned(s) \cup Range(ops)
  BY <1>1, <1>2, <1>3, <1>4, SelectEffect
<1>6. cmd[s] = "build" /\ BuildPlan(s)
  BY <1>3, <1>5, BuildPlanOf
<1>7. PlanOf(s)'
  BY <1>2, <1>5, <1>6 DEF PlanOf, BuildPlan, CollectPlan
<1>8. Covers(s)'
  BY <1>2, <1>3, <1>5, <1>6 DEF Covers, Local, database
<1>9. (Aware(s) /\ Spares(s))'
  BY <1>5, <1>6 DEF Aware, Spares
<1> QED BY <1>1, <1>2, <1>3, <1>4, <1>7, <1>8, <1>9, SelectIInv

LEMMA PromotePlanOf ==
  ASSUME SessionsTyped, NEW s \in Sessions, PlanOf(s)
  PROVE  pc[s] \in {"state", "activate"} => cmd[s] = "promote" /\ PromotePlan(s)
<1>1. cmd[s] \in AllCommands \cup {"none"}
  BY DEF SessionsTyped
<1> QED BY <1>1 DEF PlanOf, BuildPlan, CollectPlan, AllCommands

LEMMA PromoteReadStateIInv ==
  ASSUME IInv, NEW s \in Sessions, PromoteReadState(s)
  PROVE  IInv'
<1> DEFINE ops == IF pointer = None THEN <<Op("INSERT", "application_state", "active")>> ELSE <<>>
<1>1. Select(s, "state", "activate", ops) /\ prior' = [prior EXCEPT ![s] = pointer] /\ UNCHANGED verdict
  BY DEF PromoteReadState
<1>2. ops \in Seq(Statement) /\ Range(ops) \subseteq {Op("INSERT", "application_state", "active")}
  <2> DEFINE insert == <<Op("INSERT", "application_state", "active")>>
             none == <<>>
  <2>1. insert \in Seq(Statement) /\ Range(insert) = {Op("INSERT", "application_state", "active")}
    BY DEF Range, Op, Statement
  <2>2. none \in Seq(Statement) /\ Range(none) = {}
    BY DEF Range
  <2>3. ops = insert \/ ops = none
    OBVIOUS
  <2> HIDE DEF insert, none, ops
  <2> QED BY <2>1, <2>2, <2>3
<1> HIDE DEF ops
<1>3. SessionsTyped /\ DatabaseTyped /\ PlanOf(s) /\ "activate" \in Labels
  BY DEF IInv, SessionsConsistent, Labels
<1>4. /\ prior' \in [Sessions -> Versions \cup {None}] /\ verdict' \in [Sessions -> {"FAILED", "READY"}]
      /\ prior'[s] = pointer
      /\ \A t \in Sessions \ {s} : prior'[t] = prior[t] /\ verdict'[t] = verdict[t]
  BY <1>1, <1>3 DEF SessionsTyped, DatabaseTyped
<1>5. /\ Local(s) /\ pc[s] = "state" /\ pc'[s] = "activate"
      /\ cmd'[s] = cmd[s] /\ target'[s] = target[s]
      /\ Planned(s)' = Planned(s) \cup Range(ops)
  BY <1>1, <1>2, <1>3, <1>4, SelectEffect
<1>6. cmd[s] = "promote" /\ PromotePlan(s)
  BY <1>3, <1>5, PromotePlanOf
<1>7. PlanOf(s)'
  BY <1>2, <1>5, <1>6 DEF PlanOf, PromotePlan, CollectPlan
<1>8. (Aware(s) /\ Covers(s) /\ Spares(s))'
  BY <1>4, <1>5, <1>6 DEF Aware, Covers, Spares, Local, database
<1> QED BY <1>1, <1>2, <1>3, <1>4, <1>7, <1>8, SelectIInv

LEMMA UpdatesElements ==
  ASSUME NEW S \in SUBSET Versions, IsFiniteSet(S)
  PROVE  /\ Statements("UPDATE", "publications", ById(S)) \in Seq(Statement)
         /\ Range(Statements("UPDATE", "publications", ById(S))) = { Op("UPDATE", "publications", v) : v \in S }
<1>1. ById(S) \in Seq(S) /\ Range(ById(S)) = S
  BY ByIdElements
<1>2. \A v \in S : Op("UPDATE", "publications", v) \in Statement
  BY DEF Op, Statement
<1> QED BY <1>1, <1>2, StatementsElements

LEMMA PromoteActivateIInv ==
  ASSUME IInv, NEW s \in Sessions, PromoteActivate(s)
  PROVE  IInv'
<1> DEFINE known == prior[s] = target[s]
           moves == <<Op("UPDATE", "application_state", "active"), Op("SHARE", "publications", target[s])>>
           none == <<>>
           first == IF known THEN none ELSE moves
           changed == {target[s]} \cup Superseded(s)
           updates == Statements("UPDATE", "publications", ById(changed))
           ops == first \o updates
<1>1. Select(s, "activate", "commit", ops) /\ UNCHANGED <<prior, verdict>>
  BY DEF PromoteActivate
<1>2. SessionsTyped /\ PlanOf(s) /\ Aware(s) /\ PointerIsServed /\ "commit" \in Labels
  BY DEF IInv, SessionsConsistent, DatabaseConsistent, Labels
<1>3. pc[s] = "activate"
  BY <1>1 DEF Select, At
<1>4. cmd[s] = "promote" /\ PromotePlan(s) /\ target[s] \in Versions
  BY <1>2, <1>3, PromotePlanOf DEF PromotePlan
<1>5. Superseded(s) \subseteq {prior[s]} /\ Superseded(s) \subseteq Versions \ {target[s]}
  BY DEF Superseded
<1>6. changed \in SUBSET Versions /\ IsFiniteSet(changed)
  <2>1. IsFiniteSet({prior[s]}) /\ IsFiniteSet({target[s]})
    BY FS_Singleton
  <2>2. IsFiniteSet(Superseded(s))
    BY <1>5, <2>1, FS_Subset
  <2> QED BY <1>4, <1>5, <2>1, <2>2, FS_Union
<1>7. updates \in Seq(Statement) /\ Range(updates) = { Op("UPDATE", "publications", v) : v \in changed }
  BY <1>6, UpdatesElements
<1>8. /\ moves \in Seq(Statement)
      /\ Range(moves) = {Op("UPDATE", "application_state", "active"), Op("SHARE", "publications", target[s])}
  BY <1>4 DEF Range, Op, Statement
<1>9. none \in Seq(Statement) /\ Range(none) = {}
  BY DEF Range
<1> HIDE DEF moves, none, updates
<1>10. /\ first \in Seq(Statement)
       /\ Range(first) = IF known THEN {} ELSE {Op("UPDATE", "application_state", "active"),
                                                Op("SHARE", "publications", target[s])}
  BY <1>8, <1>9
<1> HIDE DEF first
<1>11. ops \in Seq(Statement) /\ Range(ops) = Range(first) \cup Range(updates)
  BY <1>7, <1>10, RangeOfConcatenation
<1> HIDE DEF ops
<1>12. /\ prior' \in [Sessions -> Versions \cup {None}] /\ verdict' \in [Sessions -> {"FAILED", "READY"}]
       /\ \A t \in Sessions : prior'[t] = prior[t] /\ verdict'[t] = verdict[t]
  BY <1>1, <1>2 DEF SessionsTyped
<1>13. /\ Local(s) /\ pc'[s] = "commit" /\ cmd'[s] = cmd[s] /\ target'[s] = target[s]
       /\ overlap'[s] = overlap[s] /\ Planned(s)' = Planned(s) \cup Range(ops)
  BY <1>1, <1>2, <1>11, <1>12, SelectEffect
<1>14. Planned(s)' = Planned(s) \cup Range(first) \cup { Op("UPDATE", "publications", v) : v \in changed }
  BY <1>7, <1>11, <1>13
<1>15. \A o \in Planned(s) : o = Op("INSERT", "application_state", "active")
  BY <1>3, <1>4 DEF PromotePlan
<1>16. \A o \in Planned(s)' :
         \/ o = Op("INSERT", "application_state", "active")
         \/ o.table = "publications" /\ o.mode = "UPDATE"
         \/ o \in {Op("UPDATE", "application_state", "active"), Op("SHARE", "publications", target[s])}
  BY <1>10, <1>14, <1>15 DEF Op
<1>17. Op("UPDATE", "publications", target[s]) \in Planned(s)'
  BY <1>14
<1>18. CASE known
  <2>1. changed = {target[s]}
    BY <1>5, <1>18
  <2>2. Planned(s)' \subseteq {Op("INSERT", "application_state", "active"),
                               Op("UPDATE", "publications", target[s])}
    BY <1>10, <1>14, <1>15, <1>18, <2>1
  <2>3. PlanOf(s)'
    BY <1>4, <1>12, <1>13, <1>16, <1>17, <1>18, <2>2 DEF PlanOf, PromotePlan, CollectPlan
  <2>4. (Aware(s) /\ Covers(s) /\ Spares(s))'
    BY <1>2, <1>3, <1>4, <1>12, <1>13, <1>18 DEF Aware, Covers, Spares, Local, database
  <2> QED BY <1>1, <1>2, <1>11, <1>12, <2>3, <2>4, SelectIInv
<1>19. CASE ~known
  <2>1. {Op("UPDATE", "application_state", "active"), Op("SHARE", "publications", target[s])} \subseteq Planned(s)'
    BY <1>10, <1>14, <1>19
  <2>2. PlanOf(s)'
    BY <1>4, <1>12, <1>13, <1>16, <1>17, <1>19, <2>1 DEF PlanOf, PromotePlan, CollectPlan
  <2>3. ~overlap[s] /\ prior[s] # None => prior[s] \in Superseded(s)
    BY <1>2, <1>3, <1>4, <1>19 DEF Aware, PointerIsServed, Superseded, SessionsTyped
  <2>4. ~overlap[s] /\ prior[s] # None => Op("UPDATE", "publications", prior[s]) \in Planned(s)'
    BY <1>14, <2>3
  <2>5. Aware(s)'
    BY <1>2, <1>3, <1>4, <1>12, <1>13, <2>4 DEF Aware, Local, database
  <2>6. (Covers(s) /\ Spares(s))'
    BY <1>4, <1>13 DEF Covers, Spares
  <2> QED BY <1>1, <1>2, <1>11, <1>12, <2>2, <2>5, <2>6, SelectIInv
<1> QED BY <1>18, <1>19

LEMMA GcCorpusReadTextsIInv ==
  ASSUME IInv, NEW s \in Sessions, GcCorpusReadTexts(s)
  PROVE  IInv'
<1> DEFINE texts == Deletes("text", Orphans(text))
           embeddings == Deletes("embedding", wants[s])
           ops == texts \o embeddings
<1>1. Select(s, "orphan_texts", "commit", ops) /\ UNCHANGED <<prior, verdict>>
  BY DEF GcCorpusReadTexts
<1>2. SessionsTyped /\ DatabaseTyped /\ PlanOf(s) /\ Spares(s) /\ "commit" \in Labels
  BY DEF IInv, SessionsConsistent, Labels
<1>3. texts \in Seq(Statement) /\ Range(texts) = { Op("DELETE", "text", p) : p \in Orphans(text) }
  BY <1>2, DeletesElements DEF DatabaseTyped, Orphans
<1>4. embeddings \in Seq(Statement) /\ Range(embeddings) = { Op("DELETE", "embedding", p) : p \in wants[s] }
  BY <1>2, DeletesElements DEF SessionsTyped
<1> HIDE DEF texts, embeddings
<1>5. ops \in Seq(Statement) /\ Range(ops) = Range(texts) \cup Range(embeddings)
  BY <1>3, <1>4, RangeOfConcatenation
<1> HIDE DEF ops
<1>6. /\ prior' \in [Sessions -> Versions \cup {None}] /\ verdict' \in [Sessions -> {"FAILED", "READY"}]
      /\ \A t \in Sessions : prior'[t] = prior[t] /\ verdict'[t] = verdict[t]
  BY <1>1, <1>2 DEF SessionsTyped
<1>7. /\ Local(s) /\ pc[s] = "orphan_texts" /\ pc'[s] = "commit" /\ cmd'[s] = cmd[s]
      /\ wants'[s] = wants[s] /\ Planned(s)' = Planned(s) \cup Range(ops)
  BY <1>1, <1>2, <1>5, <1>6, SelectEffect
<1>8. cmd[s] = "gc-corpus"
  <2>1. cmd[s] \in AllCommands \cup {"none"}
    BY <1>2 DEF SessionsTyped
  <2> QED BY <1>2, <1>7, <2>1 DEF PlanOf, BuildPlan, PromotePlan, CollectPlan, AllCommands
<1>9. \A o \in Range(ops) : o.mode = "DELETE" /\ o.table \in {"text", "embedding"}
  BY <1>3, <1>4, <1>5 DEF Op
<1>10. PlanOf(s)'
  BY <1>2, <1>7, <1>8, <1>9 DEF PlanOf, CollectPlan
<1>11. Spares(s)'
  <2>1. ASSUME NEW p \in Passages, Op("DELETE", "text", p) \in Range(ops)
        PROVE  \A v \in Versions : p \notin uses[v]
    <3>1. \A q \in wants[s] : Op("DELETE", "embedding", q) # Op("DELETE", "text", p)
      BY OpInjective
    <3>2. PICK q \in Orphans(text) : Op("DELETE", "text", p) = Op("DELETE", "text", q)
      BY <1>3, <1>4, <1>5, <2>1, <3>1
    <3>3. p \in Orphans(text)
      BY <3>2, OpInjective
    <3> QED BY <3>3 DEF Orphans
  <2>2. ASSUME NEW p \in Passages, Op("DELETE", "embedding", p) \in Range(ops)
        PROVE  p \in wants[s]
    <3>1. \A q \in Orphans(text) : Op("DELETE", "embedding", p) # Op("DELETE", "text", q)
      BY OpInjective
    <3>2. PICK q \in wants[s] : Op("DELETE", "embedding", p) = Op("DELETE", "embedding", q)
      BY <1>3, <1>4, <1>5, <2>2, <3>1
    <3> QED BY <3>2, OpInjective
  <2> QED BY <1>2, <1>7, <1>8, <2>1, <2>2 DEF Spares, Local, database
<1>12. (Aware(s) /\ Covers(s))'
  BY <1>7, <1>8 DEF Aware, Covers
<1> QED BY <1>1, <1>2, <1>5, <1>6, <1>10, <1>11, <1>12, SelectIInv

-----------------------------------------------------------------------------
(* Commit                                                                   *)

LEMMA WritesAreHeld ==
  ASSUME SessionsTyped, NEW s \in Sessions, NEW mode, NEW table, NEW key
  PROVE  key \in Writes(s, mode, table) <=> Op(mode, table, key) \in held[s]
<1>1. \A o \in held[s] : o = Op(o.mode, o.table, o.key)
  BY DEF SessionsTyped, Statement, Op
<1>2. Op(mode, table, key).mode = mode /\ Op(mode, table, key).table = table /\ Op(mode, table, key).key = key
  BY DEF Op
<1> QED BY <1>1, <1>2 DEF Writes

\* What a commit does to the sessions, whatever it commits.
LEMMA CommitEffect ==
  ASSUME IInv, NEW s \in Sessions, Commit(s), collected' \in SUBSET Versions
  PROVE  /\ SessionsTyped'
         /\ pc[s] = "commit" /\ Planned(s) = held[s] /\ cmd[s] \in AllCommands
         /\ cmd'[s] = "none" /\ pc'[s] = "idle" /\ held'[s] = {} /\ queue'[s] = <<>>
         /\ \A t \in Sessions \ {s} :
              /\ cmd'[t] = cmd[t] /\ pc'[t] = pc[t] /\ target'[t] = target[t] /\ prior'[t] = prior[t]
              /\ wants'[t] = wants[t] /\ held'[t] = held[t] /\ Planned(t)' = Planned(t)
              /\ overlap'[t] <=> \/ overlap[t]
                                 \/ cmd[s] = "promote" /\ cmd[t] = "promote"
                                 \/ cmd[s] = "gc-corpus" /\ cmd[t] = "build"
         /\ raced' <=> raced \/ (cmd[s] = "promote" /\ overlap[s])
<1>1. SessionsTyped /\ PlanOf(s)
  BY DEF IInv, SessionsConsistent
<1>2. pc[s] = "commit" /\ queue[s] = <<>>
  BY DEF Commit, At, Flushing
<1>3. Planned(s) = held[s]
  BY <1>2 DEF Planned, Range
<1>4. cmd[s] \in AllCommands
  BY <1>1, <1>2 DEF PlanOf, SessionsTyped
<1>5. End(s)
  BY DEF Commit
<1>6. overlap' = [t \in Sessions |->
                    /\ t # s
                    /\ \/ overlap[t]
                       \/ cmd[s] = "promote" /\ cmd[t] = "promote"
                       \/ cmd[s] = "gc-corpus" /\ cmd[t] = "build"]
  BY DEF Commit
<1>7. raced' = (raced \/ (cmd[s] = "promote" /\ overlap[s]))
  BY DEF Commit
<1>8. SessionsTyped'
  <2>1. overlap' \in [Sessions -> BOOLEAN] /\ raced' \in BOOLEAN
    BY <1>1, <1>6, <1>7 DEF SessionsTyped
  <2> QED BY <1>1, <1>5, <2>1, EmptySeq DEF SessionsTyped, End, Released, Labels, AllCommands
<1>9. cmd'[s] = "none" /\ pc'[s] = "idle" /\ held'[s] = {} /\ queue'[s] = <<>>
  BY <1>1, <1>5 DEF SessionsTyped, End, Released
<1>10. ASSUME NEW t \in Sessions \ {s}
       PROVE  /\ cmd'[t] = cmd[t] /\ pc'[t] = pc[t] /\ target'[t] = target[t] /\ prior'[t] = prior[t]
              /\ wants'[t] = wants[t] /\ held'[t] = held[t] /\ Planned(t)' = Planned(t)
  BY <1>1, <1>5 DEF SessionsTyped, End, Released, Planned
<1> QED BY <1>2, <1>3, <1>4, <1>6, <1>7, <1>8, <1>9, <1>10

\* The rows a commit makes and removes are those it has a lock on.
LEMMA CommitRows ==
  ASSUME IInv, NEW s \in Sessions, Commit(s), NEW o \in Statement
  PROVE  /\ Exists(o)' /\ ~Exists(o) => \/ Op("INSERT", o.table, o.key) \in held[s]
                                        \/ Op("UPDATE", o.table, o.key) \in held[s]
         /\ Exists(o) /\ ~Exists(o)' => Op("DELETE", o.table, o.key) \in held[s]
<1> DEFINE built == Writes(s, "INSERT", "publications")
           deleted == Writes(s, "DELETE", "publications")
           updated == Writes(s, "UPDATE", "publications")
<1>1. SessionsTyped /\ DatabaseTyped /\ WritesStand /\ verdict[s] \in {"FAILED", "READY"}
  BY DEF IInv, SessionsTyped
<1>2. CASE o.table = "publications"
  <2>1. o.key \in Versions
    BY <1>2 DEF Statement
  <2>2. status'[o.key] = CASE o.key \in deleted -> "ABSENT"
                           [] o.key \in built -> verdict[s]
                           [] o.key \in updated -> IF o.key = target[s] THEN "ACTIVE" ELSE "SUPERSEDED"
                           [] OTHER -> status[o.key]
    BY <2>1 DEF Commit
  <2>3. (Exists(o) <=> status[o.key] # "ABSENT") /\ (Exists(o)' <=> status'[o.key] # "ABSENT")
    BY <1>2 DEF Exists, Present
  <2>4. /\ o.key \in deleted <=> Op("DELETE", o.table, o.key) \in held[s]
        /\ o.key \in built <=> Op("INSERT", o.table, o.key) \in held[s]
        /\ o.key \in updated <=> Op("UPDATE", o.table, o.key) \in held[s]
    BY <1>1, <1>2, WritesAreHeld
  <2> HIDE DEF built, deleted, updated
  <2>5. CASE o.key \in deleted
    BY <2>2, <2>3, <2>4, <2>5
  <2>6. CASE o.key \notin deleted /\ o.key \in built
    BY <1>1, <2>2, <2>3, <2>4, <2>6
  <2>7. CASE o.key \notin deleted /\ o.key \notin built /\ o.key \in updated
    BY <2>2, <2>3, <2>4, <2>7
  <2>8. CASE o.key \notin deleted /\ o.key \notin built /\ o.key \notin updated
    BY <2>2, <2>3, <2>8
  <2> QED BY <2>5, <2>6, <2>7, <2>8
<1>3. CASE o.table = "application_state"
  <2>1. o.key = "active"
    BY <1>3 DEF Statement
  <2>2. Exists(o) <=> pointer # None
    BY <1>3 DEF Exists
  <2>3. Exists(o)' <=> pointer' # None
    BY <1>3 DEF Exists
  <2>4. pointer' = IF Writes(s, "UPDATE", "application_state") # {} THEN target[s] ELSE pointer
    BY DEF Commit
  <2>5. \A k \in Writes(s, "UPDATE", "application_state") : k = "active"
    <3>1. \A x \in held[s] : x.table = "application_state" => x.key = "active"
      <4>1. held[s] \in SUBSET Statement
        BY <1>1 DEF SessionsTyped
      <4>2. \A x \in Statement : x.table = "application_state" => x.key = "active"
        BY DEF Statement
      <4> QED BY <4>1, <4>2
    <3> QED BY <3>1 DEF Writes
  <2>6. ASSUME Writes(s, "UPDATE", "application_state") # {}
        PROVE  Op("UPDATE", o.table, o.key) \in held[s] /\ target[s] # None
    <3>1. PICK k : k \in Writes(s, "UPDATE", "application_state")
      BY <2>6
    <3>2. Op("UPDATE", "application_state", "active") \in held[s]
      BY <1>1, <2>5, <3>1, WritesAreHeld
    <3>3. PlanOf(s) /\ cmd[s] \in AllCommands
      BY DEF IInv, SessionsConsistent, PlanOf, Commit, At, SessionsTyped
    <3>4. Op("UPDATE", "application_state", "active") \in Planned(s)
      BY <3>2 DEF Planned
    <3>5. cmd[s] = "promote"
      BY <3>3, <3>4 DEF PlanOf, BuildPlan, CollectPlan, AllCommands, Op
    <3>6. target[s] \in Versions
      BY <3>3, <3>5 DEF PlanOf, PromotePlan
    <3> QED BY <1>3, <2>1, <3>2, <3>6, RowsAreNumbers
  <2> QED BY <2>2, <2>3, <2>4, <2>6
<1>4. CASE o.table = "text"
  BY <1>1, <1>4, WritesAreHeld DEF Exists, Commit
<1>5. CASE o.table = "embedding"
  BY <1>1, <1>5, WritesAreHeld DEF Exists, Commit
<1>6. CASE o.table = "artifact"
  BY <1>1, <1>6, WritesAreHeld DEF Exists, Commit
<1> QED BY <1>2, <1>3, <1>4, <1>5, <1>6 DEF Statement

\* What the others have written stands: what it rests on is locked.
LEMMA CommitWritesStand ==
  ASSUME IInv, NEW s \in Sessions, Commit(s), SessionsTyped', held'[s] = {},
         \A t \in Sessions \ {s} : held'[t] = held[t],
         \A o \in Statement : Referenced(o)' /\ ~Referenced(o) =>
           \/ Op("INSERT", o.table, o.key) \in held[s]
           \/ Op("SHARE", o.table, o.key) \in held[s]
  PROVE  (WritesStand /\ LocksExclude)'
<1>1. SessionsTyped /\ WritesStand /\ LocksExclude
  BY DEF IInv
<1>2. ASSUME NEW t \in Sessions \ {s}, NEW o \in held[t]
      PROVE  ~Fails(o)'
  <2>1. o \in Statement /\ ~Fails(o)
    BY <1>1 DEF SessionsTyped, WritesStand
  <2>2. \A h \in held[s] : ~Conflict(o, h)
    BY <1>1 DEF LocksExclude
  <2>3. ASSUME NEW m, Op(m, o.table, o.key) \in held[s]
        PROVE  Compatible(o.mode, m)
    BY <2>2, <2>3 DEF Conflict, Op
  <2>4. /\ Exists(o)' /\ ~Exists(o) => Compatible(o.mode, "INSERT") \/ Compatible(o.mode, "UPDATE")
        /\ Exists(o) /\ ~Exists(o)' => Compatible(o.mode, "DELETE")
    BY <2>1, <2>3, CommitRows
  <2>5. Referenced(o)' /\ ~Referenced(o) => Compatible(o.mode, "INSERT") \/ Compatible(o.mode, "SHARE")
    BY <2>1, <2>3
  <2>6. CASE o.mode = "INSERT"
    BY <2>1, <2>4, <2>6 DEF Fails, Compatible
  <2>7. CASE o.mode = "DELETE"
    BY <2>1, <2>5, <2>7 DEF Fails, Compatible
  <2>8. CASE o.mode = "SHARE"
    BY <2>1, <2>4, <2>8 DEF Fails, Compatible
  <2>9. CASE o.mode = "UPDATE"
    BY <2>1, <2>4, <2>9 DEF Fails, Compatible
  <2> QED BY <2>1, <2>6, <2>7, <2>8, <2>9 DEF Statement
<1>3. WritesStand'
  BY <1>2 DEF WritesStand
<1>4. LocksExclude'
  BY <1>1 DEF LocksExclude
<1> QED BY <1>3, <1>4

\* It is enough to show the others aware, covered and sparing.
LEMMA CommitIInv ==
  ASSUME IInv, NEW s \in Sessions, Commit(s), collected' \in SUBSET Versions,
         DatabaseTyped', DatabaseConsistent',
         \A t \in Sessions \ {s} : (Aware(t) /\ Covers(t) /\ Spares(t))',
         \A o \in Statement : Referenced(o)' /\ ~Referenced(o) =>
           \/ Op("INSERT", o.table, o.key) \in held[s]
           \/ Op("SHARE", o.table, o.key) \in held[s]
  PROVE  IInv'
<1>1. /\ SessionsTyped' /\ cmd'[s] = "none" /\ pc'[s] = "idle" /\ held'[s] = {} /\ queue'[s] = <<>>
      /\ \A t \in Sessions \ {s} :
           /\ cmd'[t] = cmd[t] /\ pc'[t] = pc[t] /\ target'[t] = target[t] /\ prior'[t] = prior[t]
           /\ wants'[t] = wants[t] /\ held'[t] = held[t] /\ Planned(t)' = Planned(t)
  BY CommitEffect
<1>2. (WritesStand /\ LocksExclude)'
  BY <1>1, CommitWritesStand
<1>3. (PlanOf(s) /\ Aware(s) /\ Covers(s) /\ Spares(s))'
  BY <1>1 DEF PlanOf, Aware, Covers, Spares, CollectPlan
<1>4. ASSUME NEW t \in Sessions \ {s} PROVE PlanOf(t)'
  <2>1. PlanOf(t)
    BY DEF IInv, SessionsConsistent
  <2>2. queue'[t] = queue[t]
    BY DEF Commit, End, IInv, SessionsTyped
  <2> QED BY <1>1, <2>1, <2>2 DEF PlanOf, BuildPlan, PromotePlan, CollectPlan
<1> QED BY <1>1, <1>2, <1>3, <1>4 DEF IInv, SessionsConsistent

LEMMA BuildCommitIInv ==
  ASSUME IInv, NEW s \in Sessions, Commit(s), cmd[s] = "build"
  PROVE  IInv'
<1> DEFINE b == target[s]
           overlapped == overlap[s] \/ \E t \in Sessions : cmd[t] = "gc-corpus"
<1>1. SessionsTyped /\ DatabaseTyped /\ WritesStand /\ PlanOf(s) /\ Covers(s)
  BY DEF IInv, SessionsConsistent
<1>2. pc[s] = "commit" /\ Planned(s) = held[s]
  BY DEF Commit, At, Flushing, Planned, Range
<1>3. BuildPlan(s) /\ b \in Versions
  BY <1>1 DEF PlanOf, BuildPlan
<1>4. Op("INSERT", "publications", b) \in held[s] /\ status[b] = "ABSENT"
  <2>1. Op("INSERT", "publications", b) \in held[s]
    BY <1>2, <1>3 DEF BuildPlan
  <2>2. ~Fails(Op("INSERT", "publications", b))
    BY <1>1, <2>1 DEF WritesStand
  <2> QED BY <2>1, <2>2 DEF Fails, Exists, Present, Op
<1>5. \A o \in held[s] :
        \/ o = Op("INSERT", "publications", b)
        \/ o.table \in {"text", "embedding", "artifact"} /\ o.mode = "INSERT"
        \/ o.table = "artifact" /\ o.mode = "SHARE"
  BY <1>2, <1>3 DEF BuildPlan
<1>6. /\ Writes(s, "INSERT", "publications") = {b}
      /\ Writes(s, "DELETE", "publications") = {} /\ Writes(s, "UPDATE", "publications") = {}
      /\ Writes(s, "UPDATE", "application_state") = {}
      /\ Writes(s, "DELETE", "text") = {} /\ Writes(s, "DELETE", "embedding") = {}
      /\ Writes(s, "DELETE", "artifact") = {}
  <2>1. \A k : k \in Writes(s, "INSERT", "publications") <=> k = b
    <3>1. \A k : Op("INSERT", "publications", k) \in held[s] => k = b
      BY <1>5 DEF Op
    <3> QED BY <1>1, <1>4, <3>1, WritesAreHeld
  <2>2. \A t, k : k \notin Writes(s, "DELETE", t) /\ k \notin Writes(s, "UPDATE", t)
    <3>1. \A t, k : Op("DELETE", t, k) \notin held[s] /\ Op("UPDATE", t, k) \notin held[s]
      BY <1>5 DEF Op
    <3> QED BY <1>1, <3>1, WritesAreHeld
  <2> QED BY <2>1, <2>2
<1>7. /\ status' = [v \in Versions |-> IF v = b THEN verdict[s] ELSE status[v]]
      /\ after' = after \cup { x \in {b} \X Versions : Present(x[2]) }
      /\ uses' = [v \in Versions |-> IF v = b THEN wants[s] ELSE uses[v]]
      /\ pointer' = pointer
      /\ text' = text \cup Writes(s, "INSERT", "text")
      /\ embedding' = embedding \cup Writes(s, "INSERT", "embedding")
      /\ artifact' = artifact \cup Writes(s, "INSERT", "artifact")
      /\ collected' = collected \cup { v \in {b} : overlapped }
  BY <1>6 DEF Commit
<1>8. \A k \in Writes(s, "INSERT", "text") \cup Writes(s, "INSERT", "embedding")
                 \cup Writes(s, "INSERT", "artifact") : k \in Passages
  <2>1. \A o \in Statement : o.table \in {"text", "embedding", "artifact"} => o.key \in Passages
    BY DEF Statement
  <2> QED BY <1>1, <2>1 DEF Writes, SessionsTyped
<1>9. collected' \in SUBSET Versions
  BY <1>1, <1>3, <1>7 DEF SessionsTyped
<1>10. /\ wants[s] \in SUBSET Passages /\ verdict[s] \in {"FAILED", "READY"}
       /\ status'[b] = verdict[s] /\ uses'[b] = wants[s]
       /\ \A v \in Versions \ {b} : status'[v] = status[v] /\ uses'[v] = uses[v]
  BY <1>1, <1>3, <1>7 DEF SessionsTyped
<1>11. DatabaseTyped'
  <2>1. status' \in [Versions -> Statuses]
    BY <1>1, <1>7, <1>10 DEF DatabaseTyped, Statuses, Successful
  <2>2. uses' \in [Versions -> SUBSET Passages]
    BY <1>1, <1>7, <1>10 DEF DatabaseTyped
  <2> QED BY <1>1, <1>7, <1>8, <2>1, <2>2 DEF DatabaseTyped
<1>12. BuildsOrdered'
  <2>1. Stored' = Stored \cup {b} /\ b \notin Stored
    BY <1>3, <1>4, <1>10 DEF Stored, Present
  <2>2. IsFiniteSet(Stored) /\ after \subseteq Stored \X Stored /\ Ordered(Stored, after)
    BY DEF IInv, DatabaseConsistent, BuildsOrdered
  <2>3. IsFiniteSet(Stored \cup {b})
    BY <2>2, FS_AddElement
  <2>4. after' = after \cup ({b} \X Stored)
    BY <1>7 DEF Stored
  <2> HIDE DEF b
  <2>5. Ordered(Stored \cup {b}, after \cup ({b} \X Stored))
    BY <2>1, <2>2 DEF Ordered
  <2> QED BY <2>1, <2>2, <2>3, <2>4, <2>5 DEF BuildsOrdered
<1>13. PointerIsServed' /\ SerialPromotionsKeepOne'
  <2>1. PointerIsServed /\ SerialPromotionsKeepOne /\ pointer \in Versions \cup {None}
    BY DEF IInv, DatabaseConsistent, DatabaseTyped
  <2>2. raced' = raced
    BY DEF IInv, SessionsTyped, Commit
  <2> QED BY <1>4, <1>7, <1>10, <2>1, <2>2 DEF PointerIsServed, SerialPromotionsKeepOne
<1>14. \A p \in wants[s] : Op("INSERT", "artifact", p) \in held[s] \/ Op("SHARE", "artifact", p) \in held[s]
  BY <1>2, <1>3 DEF BuildPlan
<1>15. ArtifactsResolve'
  <2>1. ArtifactsResolve
    BY DEF IInv, DatabaseConsistent
  <2>2. ASSUME NEW p \in wants[s] PROVE p \in artifact'
    <3>1. CASE Op("INSERT", "artifact", p) \in held[s]
      BY <1>1, <1>7, <3>1, WritesAreHeld
    <3>2. CASE Op("SHARE", "artifact", p) \in held[s]
      <4>1. ~Fails(Op("SHARE", "artifact", p))
        BY <1>1, <3>2 DEF WritesStand
      <4>2. p \in artifact
        BY <4>1 DEF Fails, Exists, Op
      <4> QED BY <1>7, <4>2
    <3> QED BY <1>14, <3>1, <3>2
  <2> QED BY <1>7, <1>10, <2>1, <2>2 DEF ArtifactsResolve
<1>16. CorpusKept'
  <2>1. CorpusKept
    BY DEF IInv, DatabaseConsistent
  <2>2. ASSUME b \notin collected', NEW p \in wants[s] PROVE p \in text' /\ p \in embedding'
    <3>1. ~overlap[s]
      BY <1>7, <2>2
    <3>2. /\ p \in text \/ Op("INSERT", "text", p) \in held[s]
          /\ p \in embedding \/ Op("INSERT", "embedding", p) \in held[s]
      BY <1>1, <1>2, <3>1 DEF Covers
    <3> QED BY <1>1, <1>7, <3>2, WritesAreHeld
  <2> QED BY <1>7, <1>10, <2>1, <2>2 DEF CorpusKept
<1>17. \A t \in Sessions \ {s} :
         /\ cmd'[t] = cmd[t] /\ pc'[t] = pc[t] /\ target'[t] = target[t] /\ prior'[t] = prior[t]
         /\ wants'[t] = wants[t] /\ Planned(t)' = Planned(t) /\ (overlap'[t] <=> overlap[t])
  BY <1>9, CommitEffect
<1>18. ASSUME NEW t \in Sessions \ {s} PROVE (Aware(t) /\ Covers(t) /\ Spares(t))'
  <2>1. Aware(t) /\ Covers(t) /\ Spares(t)
    BY DEF IInv, SessionsConsistent
  <2>2. Aware(t)'
    BY <1>7, <1>17, <2>1 DEF Aware
  <2>3. Covers(t)'
    BY <1>7, <1>17, <2>1 DEF Covers
  <2>4. Spares(t)'
    <3>1. cmd[t] = "gc-corpus" => b \in collected'
      BY <1>7
    <3> QED BY <1>7, <1>10, <1>17, <2>1, <3>1 DEF Spares
  <2> QED BY <2>2, <2>3, <2>4
<1>19. ASSUME NEW o \in Statement, Referenced(o)', ~Referenced(o)
       PROVE  Op("INSERT", o.table, o.key) \in held[s] \/ Op("SHARE", o.table, o.key) \in held[s]
  <2>1. o.table = "artifact" /\ o.key \in wants[s]
    BY <1>7, <1>10, <1>19 DEF Referenced
  <2> QED BY <1>14, <2>1
<1> QED BY <1>9, <1>11, <1>12, <1>13, <1>15, <1>16, <1>18, <1>19, CommitIInv DEF DatabaseConsistent

LEMMA PromoteCommitIInv ==
  ASSUME IInv, NEW s \in Sessions, Commit(s), cmd[s] = "promote"
  PROVE  IInv'
<1> DEFINE g == target[s]
           updated == Writes(s, "UPDATE", "publications")
           Swings == Op("UPDATE", "application_state", "active") \in held[s]
<1>1. SessionsTyped /\ DatabaseTyped /\ WritesStand /\ PlanOf(s) /\ Aware(s) /\ DatabaseConsistent
  BY DEF IInv, SessionsConsistent
<1>2. pc[s] = "commit" /\ Planned(s) = held[s]
  BY DEF Commit, At, Flushing, Planned, Range
<1>3. PromotePlan(s) /\ g \in Versions
  BY <1>1 DEF PlanOf, PromotePlan
<1>4. \A o \in held[s] :
        \/ o = Op("INSERT", "application_state", "active")
        \/ o.table = "publications" /\ o.mode = "UPDATE"
        \/ o \in {Op("UPDATE", "application_state", "active"), Op("SHARE", "publications", g)}
  BY <1>2, <1>3 DEF PromotePlan
<1>5. g \in updated
  BY <1>1, <1>2, <1>3, WritesAreHeld DEF PromotePlan
<1>6. /\ Writes(s, "INSERT", "publications") = {} /\ Writes(s, "DELETE", "publications") = {}
      /\ Writes(s, "INSERT", "text") = {} /\ Writes(s, "DELETE", "text") = {}
      /\ Writes(s, "INSERT", "embedding") = {} /\ Writes(s, "DELETE", "embedding") = {}
      /\ Writes(s, "INSERT", "artifact") = {} /\ Writes(s, "DELETE", "artifact") = {}
  <2>1. \A k : Op("INSERT", "publications", k) \notin held[s] /\ Op("DELETE", "publications", k) \notin held[s]
    BY <1>4 DEF Op
  <2>2. \A t \in {"text", "embedding", "artifact"}, m \in {"INSERT", "DELETE"} :
          \A k : Op(m, t, k) \notin held[s]
    BY <1>4 DEF Op
  <2> QED BY <1>1, <2>1, <2>2, WritesAreHeld
<1>7. Writes(s, "UPDATE", "application_state") # {} <=> Swings
  <2>1. \A k : Op("UPDATE", "application_state", k) \in held[s] => k = "active"
    BY <1>4 DEF Op
  <2> QED BY <1>1, <2>1, WritesAreHeld
<1> HIDE DEF updated, Swings
<1>8. status' = [v \in Versions |-> IF v \in updated THEN IF v = g THEN "ACTIVE" ELSE "SUPERSEDED"
                                    ELSE status[v]]
  BY <1>6 DEF Commit, updated
<1>9. /\ after' = { x \in after : x[1] \notin {} /\ x[2] \notin {} } \cup { x \in {} \X Versions : Present(x[2]) }
      /\ uses' = [v \in Versions |-> uses[v]]
      /\ text' = text /\ embedding' = embedding /\ artifact' = artifact
      /\ collected' = collected
      /\ pointer' = IF Swings THEN g ELSE pointer
  BY <1>6, <1>7 DEF Commit
<1>10. after' = after /\ uses' = uses
  BY <1>1, <1>9 DEF DatabaseTyped
<1>11. collected' \in SUBSET Versions
  BY <1>1, <1>9 DEF SessionsTyped
<1>12. /\ status'[g] = "ACTIVE"
       /\ \A v \in updated \ {g} : v \in Versions => status'[v] = "SUPERSEDED"
       /\ \A v \in Versions \ updated : status'[v] = status[v]
  BY <1>3, <1>5, <1>8
<1>13. \A v \in updated : status[v] # "ABSENT"
  <2>1. ASSUME NEW v \in updated PROVE ~Fails(Op("UPDATE", "publications", v))
    BY <1>1, WritesAreHeld DEF updated, WritesStand
  <2> QED BY <2>1 DEF Fails, Exists, Present, Op
<1>14. /\ /\ pc'[s] = "idle"
       /\ raced' <=> raced \/ overlap[s]
       /\ \A t \in Sessions \ {s} :
            /\ cmd'[t] = cmd[t] /\ pc'[t] = pc[t] /\ target'[t] = target[t] /\ prior'[t] = prior[t]
            /\ wants'[t] = wants[t] /\ Planned(t)' = Planned(t)
            /\ overlap'[t] <=> overlap[t] \/ cmd[t] = "promote"
  BY <1>11, CommitEffect
<1>15. DatabaseTyped'
  <2>1. status' \in [Versions -> Statuses]
    BY <1>1, <1>8 DEF DatabaseTyped, Statuses, Successful
  <2>2. pointer' \in Versions \cup {None}
    BY <1>1, <1>3, <1>9 DEF DatabaseTyped
  <2> QED BY <1>1, <1>9, <1>10, <2>1, <2>2 DEF DatabaseTyped
<1>16. BuildsOrdered'
  <2>1. Stored' = Stored
    <3>1. \A v \in Versions : status'[v] # "ABSENT" <=> status[v] # "ABSENT"
      BY <1>12, <1>13
    <3> QED BY <3>1 DEF Stored, Present
  <2> QED BY <1>1, <1>10, <2>1 DEF DatabaseConsistent, BuildsOrdered, Ordered
<1>17. Swings => Op("SHARE", "publications", g) \in held[s]
  BY <1>2, <1>3 DEF PromotePlan, Op, Swings
<1>18. ~Swings => prior[s] = g /\ updated = {g}
  <2>1. ASSUME ~Swings PROVE prior[s] = g
    BY <1>2, <1>3, <2>1 DEF PromotePlan, Swings
  <2>2. ASSUME ~Swings, NEW k, Op("UPDATE", "publications", k) \in held[s] PROVE k = g
    BY <1>2, <1>3, <2>1, <2>2 DEF PromotePlan, Op
  <2>3. ASSUME ~Swings PROVE updated = {g}
    BY <1>1, <1>5, <2>2, <2>3, WritesAreHeld DEF updated
  <2> QED BY <2>1, <2>3
<1>19. PointerIsServed'
  <2>1. CASE Swings
    BY <1>9, <1>12, <2>1 DEF PointerIsServed
  <2>2. CASE ~Swings
    BY <1>1, <1>9, <1>12, <1>18, <2>2 DEF DatabaseConsistent, DatabaseTyped, PointerIsServed
  <2> QED BY <2>1, <2>2
<1>20. SerialPromotionsKeepOne'
  <2>1. SUFFICES ASSUME ~raced', NEW v \in Versions, status'[v] = "ACTIVE" PROVE pointer' = v
    BY DEF SerialPromotionsKeepOne
  <2>2. ~raced /\ ~overlap[s]
    BY <1>14, <2>1
  <2>3. prior[s] = pointer
    BY <1>1, <1>2, <2>2 DEF Aware
  <2>4. pointer' = g
    BY <1>9, <1>18, <2>3
  <2>5. ASSUME v # g PROVE FALSE
    <3>1. v \notin updated /\ status[v] = "ACTIVE"
      BY <1>12, <2>1, <2>5
    <3>2. prior[s] = v /\ prior[s] \notin {None, g}
      BY <1>1, <2>2, <2>3, <2>5, <3>1, RowsAreNumbers DEF DatabaseConsistent, SerialPromotionsKeepOne
    <3>3. Op("UPDATE", "publications", v) \in held[s]
      BY <1>1, <1>2, <2>2, <3>2 DEF Aware
    <3> QED BY <1>1, <3>1, <3>3, WritesAreHeld DEF updated
  <2> QED BY <2>4, <2>5
<1>21. ArtifactsResolve' /\ CorpusKept'
  BY <1>1, <1>9, <1>10 DEF DatabaseConsistent, ArtifactsResolve, CorpusKept
<1>22. ASSUME NEW t \in Sessions \ {s} PROVE (Aware(t) /\ Covers(t) /\ Spares(t))'
  <2>1. Aware(t) /\ Covers(t) /\ Spares(t)
    BY DEF IInv, SessionsConsistent
  <2>2. Aware(t)'
    BY <1>14 DEF Aware
  <2>3. Covers(t)'
    BY <1>9, <1>14, <2>1 DEF Covers
  <2>4. Spares(t)'
    BY <1>9, <1>10, <1>14, <2>1 DEF Spares
  <2> QED BY <2>2, <2>3, <2>4
<1>23. ASSUME NEW o \in Statement, Referenced(o)', ~Referenced(o)
       PROVE  Op("INSERT", o.table, o.key) \in held[s] \/ Op("SHARE", o.table, o.key) \in held[s]
  <2>1. o.table = "publications" /\ pointer' = o.key /\ pointer # o.key
    BY <1>10, <1>23 DEF Referenced
  <2> QED BY <1>9, <1>17, <2>1
<1> QED BY <1>11, <1>15, <1>16, <1>19, <1>20, <1>21, <1>22, <1>23, CommitIInv DEF DatabaseConsistent

\* What a collection commits leaves the pointer and its history as they were.
LEMMA CollectionEffect ==
  ASSUME IInv, NEW s \in Sessions, Commit(s), cmd[s] \in {"cleanup", "gc-corpus", "gc-artifacts"}
  PROVE  /\ \A o \in held[s] : o \in Statement /\ o.mode = "DELETE" /\ ~Referenced(o)
         /\ status' = [v \in Versions |-> IF v \in Writes(s, "DELETE", "publications") THEN "ABSENT"
                                          ELSE status[v]]
         /\ after' = { x \in after : /\ x[1] \notin Writes(s, "DELETE", "publications")
                                     /\ x[2] \notin Writes(s, "DELETE", "publications") }
         /\ uses' = [v \in Versions |-> IF v \in Writes(s, "DELETE", "publications") THEN {} ELSE uses[v]]
         /\ pointer' = pointer
         /\ text' = text \ Writes(s, "DELETE", "text")
         /\ embedding' = embedding \ Writes(s, "DELETE", "embedding")
         /\ artifact' = artifact \ Writes(s, "DELETE", "artifact")
         /\ collected' = collected \ Writes(s, "DELETE", "publications")
         /\ (raced' <=> raced) /\ collected' \in SUBSET Versions
<1>1. SessionsTyped /\ WritesStand /\ PlanOf(s)
  BY DEF IInv, SessionsConsistent
<1>2. Planned(s) = held[s]
  BY DEF Commit, At, Flushing, Planned, Range
<1>3. \A o \in held[s] : o \in Statement /\ o.mode = "DELETE"
  BY <1>1, <1>2 DEF PlanOf, CollectPlan, SessionsTyped
<1>4. \A o \in held[s] : ~Referenced(o)
  BY <1>1, <1>3 DEF WritesStand, Fails
<1>5. \A t : Writes(s, "INSERT", t) = {} /\ Writes(s, "UPDATE", t) = {}
  BY <1>3 DEF Writes
<1>6. collected' = (collected \ Writes(s, "DELETE", "publications"))
                     \cup { v \in {} : overlap[s] \/ \E t \in Sessions : cmd[t] = "gc-corpus" }
  BY <1>5 DEF Commit
<1>7. after' = { x \in after : /\ x[1] \notin Writes(s, "DELETE", "publications")
                               /\ x[2] \notin Writes(s, "DELETE", "publications") }
               \cup { x \in {} \X Versions : Present(x[2]) }
  BY <1>5 DEF Commit
<1>8. (raced' <=> raced)
  BY DEF Commit
<1>9. /\ status' = [v \in Versions |-> IF v \in Writes(s, "DELETE", "publications") THEN "ABSENT"
                                       ELSE status[v]]
      /\ uses' = [v \in Versions |-> IF v \in Writes(s, "DELETE", "publications") THEN {} ELSE uses[v]]
  BY <1>5 DEF Commit
<1>10. /\ pointer' = pointer
       /\ text' = text \ Writes(s, "DELETE", "text")
       /\ embedding' = embedding \ Writes(s, "DELETE", "embedding")
       /\ artifact' = artifact \ Writes(s, "DELETE", "artifact")
  BY <1>5 DEF Commit
<1>11. collected' \in SUBSET Versions
  BY <1>1, <1>6 DEF SessionsTyped
<1> QED BY <1>3, <1>4, <1>6, <1>7, <1>8, <1>9, <1>10, <1>11

LEMMA CollectionCommitIInv ==
  ASSUME IInv, NEW s \in Sessions, Commit(s), cmd[s] \in {"cleanup", "gc-corpus", "gc-artifacts"}
  PROVE  IInv'
<1> DEFINE deleted == Writes(s, "DELETE", "publications")
<1>1. SessionsTyped /\ DatabaseTyped /\ DatabaseConsistent /\ PlanOf(s) /\ Spares(s)
  BY DEF IInv, SessionsConsistent
<1>2. Planned(s) = held[s]
  BY DEF Commit, At, Flushing, Planned, Range
<1>3. /\ \A o \in held[s] : o \in Statement /\ o.mode = "DELETE" /\ ~Referenced(o)
      /\ status' = [v \in Versions |-> IF v \in deleted THEN "ABSENT" ELSE status[v]]
      /\ after' = { x \in after : x[1] \notin deleted /\ x[2] \notin deleted }
      /\ uses' = [v \in Versions |-> IF v \in deleted THEN {} ELSE uses[v]]
      /\ pointer' = pointer
      /\ text' = text \ Writes(s, "DELETE", "text")
      /\ embedding' = embedding \ Writes(s, "DELETE", "embedding")
      /\ artifact' = artifact \ Writes(s, "DELETE", "artifact")
      /\ collected' = collected \ deleted
      /\ (raced' <=> raced) /\ collected' \in SUBSET Versions
  BY CollectionEffect
<1>4. ASSUME NEW t \in Sessions \ {s}
      PROVE  /\ cmd'[t] = cmd[t] /\ pc'[t] = pc[t] /\ target'[t] = target[t] /\ prior'[t] = prior[t]
             /\ wants'[t] = wants[t] /\ Planned(t)' = Planned(t)
             /\ overlap'[t] <=> overlap[t] \/ (cmd[s] = "gc-corpus" /\ cmd[t] = "build")
  BY <1>3, CommitEffect
<1>5. pointer \notin deleted
  <2>1. Op("DELETE", "publications", pointer) \notin held[s]
    BY <1>3 DEF Referenced, Op
  <2> QED BY <1>1, <2>1, WritesAreHeld
<1>6. cmd[s] # "gc-corpus" => Writes(s, "DELETE", "text") = {} /\ Writes(s, "DELETE", "embedding") = {}
  BY <1>1, <1>2 DEF PlanOf, CollectPlan, Writes
<1>7. \A p \in Writes(s, "DELETE", "artifact") : \A v \in Versions : p \notin uses[v]
  <2>1. ASSUME NEW p, Op("DELETE", "artifact", p) \in held[s] PROVE \A v \in Versions : p \notin uses[v]
    BY <1>3, <2>1 DEF Referenced, Op
  <2> QED BY <1>1, <2>1, WritesAreHeld
<1>8. ASSUME NEW p, p \in Writes(s, "DELETE", "text") \cup Writes(s, "DELETE", "embedding"),
             NEW v \in Versions, p \in uses[v]
      PROVE  v \in collected
  <2>1. cmd[s] = "gc-corpus"
    BY <1>1, <1>6, <1>8
  <2>2. Op("DELETE", "text", p) \in held[s] \/ Op("DELETE", "embedding", p) \in held[s]
    BY <1>1, <1>8, WritesAreHeld
  <2>3. p \in Passages
    BY <1>1, <1>8 DEF DatabaseTyped
  <2> QED BY <1>1, <1>2, <1>8, <2>1, <2>2, <2>3 DEF Spares
<1> HIDE DEF deleted
<1>9. DatabaseTyped'
  BY <1>1, <1>3 DEF DatabaseTyped, Statuses
<1>10. BuildsOrdered'
  <2>1. Stored' = Stored \ deleted
    BY <1>3 DEF Stored, Present
  <2>2. IsFiniteSet(Stored) /\ after \subseteq Stored \X Stored /\ Ordered(Stored, after)
    BY <1>1 DEF DatabaseConsistent, BuildsOrdered
  <2>3. IsFiniteSet(Stored') /\ after' \subseteq Stored' \X Stored'
    BY <1>3, <2>1, <2>2, FS_Subset
  <2>4. Ordered(Stored, after)'
    BY <1>3, <2>1, <2>2 DEF Ordered
  <2> QED BY <2>3, <2>4 DEF BuildsOrdered
<1>11. PointerIsServed' /\ SerialPromotionsKeepOne'
  BY <1>1, <1>3, <1>5 DEF DatabaseConsistent, DatabaseTyped, PointerIsServed, SerialPromotionsKeepOne
<1>12. ArtifactsResolve'
  <2>1. ASSUME NEW v \in Versions, NEW p \in uses'[v] PROVE p \in artifact'
    <3>1. p \in uses[v]
      BY <1>3, <2>1
    <3>2. p \in artifact
      BY <1>1, <3>1 DEF DatabaseConsistent, ArtifactsResolve
    <3> QED BY <1>3, <1>7, <3>1, <3>2
  <2> QED BY <2>1 DEF ArtifactsResolve
<1>13. CorpusKept'
  <2>1. ASSUME NEW v \in Versions \ collected', NEW p \in uses'[v] PROVE p \in text' /\ p \in embedding'
    <3>1. p \in uses[v] /\ v \notin deleted /\ v \notin collected
      BY <1>3, <2>1
    <3>2. p \in text /\ p \in embedding
      BY <1>1, <3>1 DEF DatabaseConsistent, CorpusKept
    <3> QED BY <1>3, <1>8, <3>1, <3>2
  <2> QED BY <2>1 DEF CorpusKept
<1>14. ASSUME NEW t \in Sessions \ {s} PROVE (Aware(t) /\ Covers(t) /\ Spares(t))'
  <2>1. Aware(t) /\ Covers(t) /\ Spares(t)
    BY DEF IInv, SessionsConsistent
  <2>2. Aware(t)'
    BY <1>3, <1>4, <2>1 DEF Aware
  <2>3. Covers(t)'
    <3>1. CASE cmd[s] = "gc-corpus"
      BY <1>4, <3>1 DEF Covers
    <3>2. CASE cmd[s] # "gc-corpus"
      BY <1>3, <1>4, <1>6, <2>1, <3>2 DEF Covers
    <3> QED BY <3>1, <3>2
  <2>4. Spares(t)'
    <3>1. \A v \in Versions : \A p \in uses'[v] : p \in uses[v] /\ v \notin deleted
      BY <1>3
    <3> QED BY <1>3, <1>4, <2>1, <3>1 DEF Spares
  <2> QED BY <2>2, <2>3, <2>4
<1>15. \A o \in Statement : Referenced(o)' => Referenced(o)
  <2>1. \A v \in Versions : uses'[v] \subseteq uses[v]
    BY <1>3
  <2> QED BY <1>3, <2>1 DEF Referenced
<1> QED BY <1>3, <1>9, <1>10, <1>11, <1>12, <1>13, <1>14, <1>15, CommitIInv DEF DatabaseConsistent

-----------------------------------------------------------------------------
(* The theorems                                                             *)

LEMMA InitIInv ==
  ASSUME Init
  PROVE  IInv
<1>1. <<>> \in Seq(Statement) /\ Range(<<>>) = {}
  BY DEF Range
<1>2. DatabaseTyped
  BY DEF Init, DatabaseTyped, Statuses
<1>3. SessionsTyped
  BY <1>1 DEF Init, SessionsTyped, Labels
<1>4. ASSUME NEW s \in Sessions PROVE PlanOf(s) /\ Aware(s) /\ Covers(s) /\ Spares(s)
  BY DEF Init, PlanOf, Aware, Covers, Spares, CollectPlan
<1>5. WritesStand /\ LocksExclude
  BY DEF Init, WritesStand, LocksExclude
<1>6. BuildsOrdered
  <2>1. Stored = {} /\ IsFiniteSet(Stored)
    BY FS_EmptySet DEF Init, Stored, Present
  <2> QED BY <2>1 DEF Init, BuildsOrdered, Ordered
<1>7. PointerIsServed /\ SerialPromotionsKeepOne /\ ArtifactsResolve /\ CorpusKept
  BY DEF Init, PointerIsServed, SerialPromotionsKeepOne, ArtifactsResolve, CorpusKept
<1> QED BY <1>2, <1>3, <1>4, <1>5, <1>6, <1>7 DEF IInv, SessionsConsistent, DatabaseConsistent

LEMMA StepIInv ==
  ASSUME IInv, NEW s \in Sessions, Starts(s) \/ Continues(s)
  PROVE  IInv'
<1>1. ASSUME Starts(s) PROVE IInv'
  BY <1>1, BuildStartIInv, PromoteStartIInv, CleanupStartIInv, GcCorpusStartIInv, GcArtifactsStartIInv
     DEF Starts
<1>2. ASSUME Commit(s) PROVE IInv'
  <2>1. cmd[s] \in AllCommands
    BY <1>2 DEF IInv, SessionsConsistent, PlanOf, SessionsTyped, Commit, At
  <2> QED BY <1>2, <2>1, BuildCommitIInv, PromoteCommitIInv, CollectionCommitIInv DEF AllCommands
<1>3. ASSUME WriteFails(s) \/ Victim(s) PROVE IInv'
  BY <1>3, RollbackIInv DEF WriteFails, Victim
<1>4. ASSUME Continues(s) PROVE IInv'
  BY <1>2, <1>3, <1>4, BuildReadTextIInv, BuildReadEmbeddingIInv, BuildReadArtifactIInv, BuildValidateIInv,
     PromoteReadStateIInv, PromoteActivateIInv, GcCorpusReadTextsIInv, WriteIInv
     DEF Continues
<1> QED BY <1>1, <1>4

LEMMA StutterIInv ==
  ASSUME IInv, UNCHANGED vars
  PROVE  IInv'
<1>1. DatabaseTyped' /\ SessionsTyped'
  BY DEF IInv, DatabaseTyped, SessionsTyped, vars, database, local, history
<1>2. \A s \in Sessions : Planned(s)' = Planned(s)
  BY DEF vars, local, Planned
<1>3. SessionsConsistent'
  <2>1. ASSUME NEW s \in Sessions PROVE (PlanOf(s) /\ Aware(s))'
    BY <1>2 DEF IInv, SessionsConsistent, PlanOf, Aware, BuildPlan, PromotePlan, CollectPlan,
                vars, database, local, history
  <2>2. ASSUME NEW s \in Sessions PROVE (Covers(s) /\ Spares(s))'
    BY <1>2 DEF IInv, SessionsConsistent, Covers, Spares, vars, database, local, history
  <2> QED BY <2>1, <2>2 DEF SessionsConsistent
<1>4. WritesStand' /\ LocksExclude'
  BY DEF IInv, WritesStand, LocksExclude, Fails, Exists, Referenced, Present, vars, database, local
<1>5. DatabaseConsistent'
  BY DEF IInv, DatabaseConsistent, BuildsOrdered, Stored, Present, Ordered, PointerIsServed,
         SerialPromotionsKeepOne, ArtifactsResolve, CorpusKept, vars, database, history
<1> QED BY <1>1, <1>3, <1>4, <1>5 DEF IInv

\* The inductive invariant holds in every reachable state: among others, no two
\* transactions hold conflicting row locks, and what a transaction has written
\* cannot become a violation before it ends (the locks that PostgreSQL takes
\* for the sessions app_session_scope opens).
THEOREM Invariant == Spec => []IInv
<1>1. Init => IInv
  BY InitIInv
<1>2. IInv /\ [Next]_vars => IInv'
  BY StepIInv, StutterIInv DEF Next
<1> QED BY <1>1, <1>2, PTL DEF Spec

\* Once application_state names a publication, it names one that is ACTIVE, at
\* every instant and whatever commands run at once: promote_publication flips
\* the pointer and the statuses in one commit, and the foreign key stops the
\* deletion of what it names.
THEOREM PointerServedAlways == Spec => []PointerIsServed
<1>1. IInv => PointerIsServed
  BY DEF IInv, DatabaseConsistent
<1> QED BY <1>1, Invariant, PTL

\* Unless promotions overlapped, the publication application_state names is the
\* only ACTIVE one.
THEOREM SerialPromotionsKeepOneAlways == Spec => []SerialPromotionsKeepOne
<1>1. IInv => SerialPromotionsKeepOne
  BY DEF IInv, DatabaseConsistent
<1> QED BY <1>1, Invariant, PTL

\* Whatever gc-artifacts deletes while builds are under way, every artifact a
\* committed publication names is stored.
THEOREM ArtifactsResolveAlways == Spec => []ArtifactsResolve
<1>1. IInv => ArtifactsResolve
  BY DEF IInv, DatabaseConsistent
<1> QED BY <1>1, Invariant, PTL

\* A successful publication lacks a text or an embedding only if a corpus
\* collection overlapped its build: without a foreign key, gc-corpus can miss
\* nothing but rows that were not committed when it looked.
THEOREM OnlyOverlapLosesCorpusAlways == Spec => []OnlyOverlapLosesCorpus
<1>1. IInv => OnlyOverlapLosesCorpus
  BY DEF IInv, DatabaseConsistent, CorpusKept, OnlyOverlapLosesCorpus
<1> QED BY <1>1, Invariant, PTL
=============================================================================
