------------------------- MODULE PublicationProofs -------------------------
(***************************************************************************)
(* Proofs about Publication, for every set of versions, every research     *)
(* database and every sequence of commands.                                *)
(***************************************************************************)
EXTENDS Publication, FiniteSetTheorems, WellFoundedInduction, TLAPS

\* The category and chunk-member rows a publication names belong to artifacts
\* it also names, so that the collector cannot cascade to them.
ChildrenOwned ==
  \A v \in Versions : \A y \in thin[v].children : y.of \in thin[v].artifacts

\* The inductive invariant: what the thin rows name is there (ContentAsBuilt,
\* RetainedResolves) because the collectors see who names what, which needs
\* the names themselves to be right (TypeOK, ChildrenOwned).
IInv == TypeOK /\ OneServed /\ ContentAsBuilt /\ RetainedResolves /\ ChildrenOwned

-----------------------------------------------------------------------------
(* What a build computes                                                   *)

\* A build never computes two rows for one artifact id: the version, the
\* table and the source key tell them apart.
LEMMA ArtifactRowsKeyed ==
  ASSUME NEW d, NEW qa,
         NEW x \in ArtifactRows(d, qa), NEW y \in ArtifactRows(d, qa),
         x.id = y.id
  PROVE  x = y
<1> DEFINE C == { [id |-> ComparisonId(d, a), content |-> d.align[a]] : a \in Compared(d) }
           L == { [id |-> LinkedId(d, z[1], z[2]),
                   content |-> [status |-> d.align[z[1]].status,
                                detail |-> d.align[z[1]].detail,
                                passage |-> SidePassage(d, z[1], z[2]),
                                kind |-> d.kind[SidePassage(d, z[1], z[2])]]] : z \in Linked(d) }
           O == { [id |-> ReportOnlyId(d, p), content |-> [passage |-> p, kind |-> d.kind[p]]]
                  : p \in ReportOnly(d) }
           S == { [id |-> SignalId(d, z[1], z[2], z[3]),
                   content |-> [hit |-> d.hits[z], passage |-> SidePassage(d, z[1], z[2]),
                               movement |-> Movement(d, z[1], z[2])]]
                  : z \in Signalled(d) }
           Q == { [id |-> ChunkId(d, r), content |-> ChunkMembers(d, r)]
                  : r \in Chunked(d, qa) }
<1>1. x \in C \cup L \cup O \cup S \cup Q /\ y \in C \cup L \cup O \cup S \cup Q
  BY DEF ArtifactRows
<1>2. /\ \A z \in C : z.id.table = "passage_comparisons"
      /\ \A z \in L : z.id.table = "retrieval_contexts" /\ z.id.context_type = "COMPARISON_LINKED"
      /\ \A z \in O : z.id.table = "retrieval_contexts" /\ z.id.context_type = "REPORT_ONLY"
      /\ \A z \in S : z.id.table = "passage_language_signals"
      /\ \A z \in Q : z.id.table = "qa_chunks"
  <2>1. \A z \in C : z.id.table = "passage_comparisons"
    BY DEF ComparisonId, Id
  <2>2. \A z \in L : z.id.table = "retrieval_contexts" /\ z.id.context_type = "COMPARISON_LINKED"
    BY DEF LinkedId, Id
  <2>3. \A z \in O : z.id.table = "retrieval_contexts" /\ z.id.context_type = "REPORT_ONLY"
    BY DEF ReportOnlyId, Id
  <2>4. \A z \in S : z.id.table = "passage_language_signals"
    BY DEF SignalId, Id
  <2>5. \A z \in Q : z.id.table = "qa_chunks"
    BY DEF ChunkId, Id
  <2> HIDE DEF C, L, O, S, Q
  <2> QED BY <2>1, <2>2, <2>3, <2>4, <2>5
<1>3. CASE x \in C /\ y \in C
  BY <1>3 DEF ComparisonId, Id
<1>4. CASE x \in L /\ y \in L
  BY <1>4 DEF LinkedId, Id
<1>5. CASE x \in O /\ y \in O
  BY <1>5 DEF ReportOnlyId, Id
<1>6. CASE x \in S /\ y \in S
  <2>1. PICK z \in Signalled(d), w \in Signalled(d) :
          /\ x = [id |-> SignalId(d, z[1], z[2], z[3]),
                  content |-> [hit |-> d.hits[z], passage |-> SidePassage(d, z[1], z[2]),
                               movement |-> Movement(d, z[1], z[2])]]
          /\ y = [id |-> SignalId(d, w[1], w[2], w[3]),
                  content |-> [hit |-> d.hits[w], passage |-> SidePassage(d, w[1], w[2]),
                               movement |-> Movement(d, w[1], w[2])]]
    BY <1>6
  <2>2. z[1] = w[1] /\ z[2] = w[2] /\ z[3] = w[3]
    BY <2>1 DEF SignalId, Id
  <2>3. z = w
    BY <2>2 DEF Signalled
  <2> QED BY <2>1, <2>3
<1>7. CASE x \in Q /\ y \in Q
  BY <1>7 DEF ChunkId, Id
<1> QED BY <1>1, <1>2, <1>3, <1>4, <1>5, <1>6, <1>7

\* Every context of a build names an embedding the build stores, and every
\* child row an artifact it computes.
LEMMA ContextsEmbedded ==
  ASSUME NEW d, NEW c \in ContextRows(d)
  PROVE  c.embedding \in EmbeddingRows(d)
BY DEF ContextRows, EmbeddingRows, Linked, ReportOnly, PublishedSides

LEMMA ChildRowsOwned ==
  ASSUME NEW d, NEW qa, NEW y \in ChildRows(d, qa)
  PROVE  \E r \in ArtifactRows(d, qa) : r.id = y.of
<1>1. CASE y \in { [of |-> LinkedId(d, x[1], x[2]), value |-> x[3]]
                   : x \in { z \in Counted(d) : <<z[1], z[2]>> \in Linked(d) } }
  <2>1. PICK x \in Counted(d) : <<x[1], x[2]>> \in Linked(d) /\ y.of = LinkedId(d, x[1], x[2])
    BY <1>1
  <2> DEFINE r == [id |-> LinkedId(d, x[1], x[2]),
                   content |-> [status |-> d.align[x[1]].status,
                                detail |-> d.align[x[1]].detail,
                                passage |-> SidePassage(d, x[1], x[2]),
                                kind |-> d.kind[SidePassage(d, x[1], x[2])]]]
             pair == <<x[1], x[2]>>
  <2>2. pair \in Linked(d) /\ pair[1] = x[1] /\ pair[2] = x[2]
    BY <2>1
  <2>3. r \in ArtifactRows(d, qa)
    BY <2>2 DEF ArtifactRows
  <2> QED BY <2>1, <2>3
<1>2. CASE y \in { [of |-> ChunkId(d, ReportOf[p]), value |-> p]
                   : p \in { p \in d.passages : ReportOf[p] \in Chunked(d, qa) } }
  <2>1. PICK p \in d.passages : ReportOf[p] \in Chunked(d, qa) /\ y.of = ChunkId(d, ReportOf[p])
    BY <1>2
  <2> DEFINE r == [id |-> ChunkId(d, ReportOf[p]), content |-> ChunkMembers(d, ReportOf[p])]
  <2>2. r \in ArtifactRows(d, qa)
    BY <2>1 DEF ArtifactRows
  <2> QED BY <2>1, <2>2
<1> QED BY <1>1, <1>2 DEF ChildRows

\* A verdict is a truth value.
LEMMA VerdictsBoolean ==
  ASSUME NEW rows, NEW stored, NEW sound, NEW passed \in Verdicts(rows, stored, sound)
  PROVE  passed \in BOOLEAN
BY Zenon DEF Verdicts

\* The embeddings a build stores are of its own passages.
LEMMA EmbeddingRowsTyped ==
  ASSUME NEW d \in Snapshots
  PROVE  EmbeddingRows(d) \subseteq Passages \X Models /\ d.passages \subseteq Passages
BY SnapshotsTyped DEF EmbeddingRows, SnapshotType

-----------------------------------------------------------------------------
(* The invariant is inductive                                              *)

LEMMA InitIInv == Init => IInv
BY NoneIsNew DEF Init, IInv, TypeOK, OneServed, ContentAsBuilt, RetainedResolves,
  ChildrenOwned, Present, NoRows, Statuses

\* Of the corpus and the artifact tables a build sees only additions, and of
\* the artifacts only under new ids; its own rows end up stored as computed.
LEMMA BuildIInv ==
  ASSUME IInv, NEW v \in Versions, NEW d \in Snapshots, NEW qa \in BOOLEAN, Build(v, d, qa)
  PROVE  IInv'
<1> DEFINE rows == ArtifactRows(d, qa)
           added == { r \in rows : \A x \in artifact : x.id # r.id }
<1> USE DEF IInv
<1>1. /\ status[v] = "ABSENT" /\ HashesAgree(rows)
      /\ thin' = [thin EXCEPT ![v] = ThinRows(d, qa)]
      /\ computed' = [computed EXCEPT ![v] = rows]
      /\ text' = text \cup d.passages
      /\ embedding' = embedding \cup EmbeddingRows(d)
      /\ artifact' = artifact \cup added
      /\ child' = child \cup ChildRows(d, qa)
      /\ active' = active /\ raised' = None
      /\ after' = after \cup { <<v, w>> : w \in { w \in Versions : Present(w) } }
  BY DEF Build
<1>2. PICK passed \in BOOLEAN :
        /\ status' = [status EXCEPT ![v] = IF passed THEN "READY" ELSE "FAILED"]
        /\ summary' = [summary EXCEPT ![v] = [sound |-> d.sound, passed |-> passed]]
  <2>1. PICK passed \in Verdicts(ThinRows(d, qa), embedding \cup EmbeddingRows(d), d.sound) :
          /\ status' = [status EXCEPT ![v] = IF passed THEN "READY" ELSE "FAILED"]
          /\ summary' = [summary EXCEPT ![v] = [sound |-> d.sound, passed |-> passed]]
    BY DEF Build
  <2>2. passed \in BOOLEAN
    BY VerdictsBoolean
  <2> QED BY <2>1, <2>2
<1>3. /\ thin'[v] = ThinRows(d, qa) /\ computed'[v] = rows
      /\ \A w \in Versions \ {v} : thin'[w] = thin[w] /\ computed'[w] = computed[w]
  BY <1>1 DEF TypeOK
<1>4. TypeOK'
  <2>1. status' \in [Versions -> Statuses \cup {"ABSENT"}]
    BY <1>2 DEF TypeOK, Statuses
  <2>2. \A w \in Versions : Present(w) \/ w = v => Present(w)'
    BY <1>2 DEF TypeOK, Present
  <2>3. (after \subseteq { x \in Versions \X Versions : Present(x[1]) /\ Present(x[2]) })'
    BY <1>1, <2>2 DEF TypeOK
  <2>4. summary' \in [Versions -> [sound : BOOLEAN, passed : BOOLEAN]]
    BY <1>2, SnapshotsTyped DEF TypeOK, SnapshotType
  <2>5. thin'[v].passages \subseteq Passages /\ thin'[v].artifacts = { r.id : r \in computed'[v] }
    BY <1>3, EmbeddingRowsTyped DEF ThinRows
  <2>6. \A w \in Versions : ~Present(w)' => w # v /\ ~Present(w)
    BY <2>2
  <2> QED
    BY <1>1, <1>3, <2>1, <2>3, <2>4, <2>5, <2>6, EmbeddingRowsTyped DEF TypeOK
<1>5. OneServed'
  BY <1>1, <1>2 DEF TypeOK, OneServed
<1>6. ContentAsBuilt'
  <2> SUFFICES ASSUME NEW w \in Versions, NEW r \in computed'[w]
               PROVE  { x \in artifact' : x.id = r.id } = {r}
    BY DEF ContentAsBuilt
  <2>1. CASE w = v
    <3>1. r \in rows
      BY <2>1, <1>3
    <3>2. \A x \in artifact : x.id = r.id => x = r
      BY <1>1, <3>1 DEF HashesAgree
    <3>3. \A x \in added : x.id = r.id => x = r
      BY <3>1, ArtifactRowsKeyed
    <3>4. r \in artifact'
      BY <1>1, <3>1, <3>2
    <3> QED BY <1>1, <3>2, <3>3, <3>4
  <2>2. CASE w # v
    <3>1. { x \in artifact : x.id = r.id } = {r}
      BY <2>2, <1>3 DEF ContentAsBuilt
    <3> QED BY <3>1, <1>1
  <2> QED BY <2>1, <2>2
<1>7. RetainedResolves'
  <2> SUFFICES ASSUME NEW w \in Versions
               PROVE  /\ thin'[w].passages \subseteq text'
                      /\ \A c \in thin'[w].contexts : c.embedding \in embedding'
                      /\ thin'[w].children \subseteq child'
    BY DEF RetainedResolves
  <2>1. CASE w = v
    BY <2>1, <1>1, <1>3, ContextsEmbedded DEF ThinRows
  <2>2. CASE w # v
    BY <2>2, <1>1, <1>3 DEF RetainedResolves
  <2> QED BY <2>1, <2>2
<1>8. ChildrenOwned'
  <2>1. \A y \in ChildRows(d, qa) : y.of \in { r.id : r \in rows }
    BY ChildRowsOwned
  <2> QED BY <1>3, <2>1 DEF ChildrenOwned, ThinRows
<1> QED BY <1>4, <1>5, <1>6, <1>7, <1>8

LEMMA RaisesIInv ==
  ASSUME IInv, NEW v \in Versions, NEW error \in {"IntegrityError", "RuntimeError"},
         Raises(v, error)
  PROVE  IInv'
BY DEF IInv, Raises, catalog, shared, TypeOK, OneServed, ContentAsBuilt, RetainedResolves,
  ChildrenOwned, Present

LEMMA ValidateIInv ==
  ASSUME IInv, NEW v \in Versions, Validate(v)
  PROVE  IInv'
<1> USE DEF IInv
<1>1. UNCHANGED <<status, after, active, thin, shared, computed>> /\ raised' = None
  BY DEF Validate
<1>2. PICK passed \in BOOLEAN : summary' = [summary EXCEPT ![v].passed = passed]
  <2>1. PICK passed \in Verdicts(thin[v], embedding, summary[v].sound) :
          summary' = [summary EXCEPT ![v].passed = passed]
    BY DEF Validate
  <2>2. passed \in BOOLEAN
    BY VerdictsBoolean
  <2> QED BY <2>1, <2>2
<1>3. TypeOK'
  BY <1>1, <1>2 DEF TypeOK, Present, shared
<1>4. OneServed' /\ ContentAsBuilt' /\ RetainedResolves' /\ ChildrenOwned'
  BY <1>1 DEF OneServed, ContentAsBuilt, RetainedResolves, ChildrenOwned, shared
<1> QED BY <1>3, <1>4

\* The prior served publication is the one the pointer names, so a promotion
\* leaves exactly one.
LEMMA PromoteIInv ==
  ASSUME IInv, NEW v \in Versions, Promote(v)
  PROVE  IInv'
<1> USE DEF IInv
<1>1. /\ status[v] = "READY"
      /\ status' = [w \in Versions |->
                      CASE w = v -> "ACTIVE"
                        [] w # v /\ w = active /\ status[w] = "ACTIVE" -> "SUPERSEDED"
                        [] OTHER -> status[w]]
      /\ active' = v /\ raised' = None
      /\ UNCHANGED <<after, summary, thin, shared, computed>>
  BY DEF Promote, Promotable
<1>2. \A w \in Versions : Present(w)' <=> Present(w)
  BY <1>1 DEF TypeOK, Present
<1>3. status' \in [Versions -> Statuses \cup {"ABSENT"}]
  BY <1>1 DEF TypeOK, Statuses
<1>4. (after \subseteq { x \in Versions \X Versions : Present(x[1]) /\ Present(x[2]) })'
  BY <1>1, <1>2 DEF TypeOK
<1>5. TypeOK'
  BY <1>1, <1>2, <1>3, <1>4 DEF TypeOK, shared
<1>6. OneServed'
  BY <1>1 DEF TypeOK, OneServed
<1>7. ContentAsBuilt' /\ RetainedResolves' /\ ChildrenOwned'
  BY <1>1 DEF ContentAsBuilt, RetainedResolves, ChildrenOwned, shared
<1> QED BY <1>5, <1>6, <1>7

LEMMA CleanupIInv ==
  ASSUME IInv, NEW keep \in Keeps, Cleanup(keep)
  PROVE  IInv'
<1> DEFINE gone == Doomed(keep)
<1> USE DEF IInv
<1>1. /\ status' = [v \in Versions |-> IF v \in gone THEN "ABSENT" ELSE status[v]]
      /\ summary' = [v \in Versions |->
                       IF v \in gone THEN [sound |-> FALSE, passed |-> FALSE] ELSE summary[v]]
      /\ after' = { x \in after : x[1] \notin gone /\ x[2] \notin gone }
      /\ thin' = [v \in Versions |-> IF v \in gone THEN NoRows ELSE thin[v]]
      /\ computed' = [v \in Versions |-> IF v \in gone THEN {} ELSE computed[v]]
      /\ raised' = None
      /\ UNCHANGED <<active, shared>>
  BY DEF Cleanup, Cascade
<1>2. gone \subseteq Versions /\ \A v \in gone : status[v] # "ACTIVE"
  BY DEF Doomed
<1> HIDE DEF gone
<1>3. \A v \in Versions : Present(v)' <=> Present(v) /\ v \notin gone
  BY <1>1 DEF Present
<1>4. TypeOK'
  <2>1. status' \in [Versions -> Statuses \cup {"ABSENT"}]
    BY <1>1 DEF TypeOK
  <2>2. (after \subseteq { x \in Versions \X Versions : Present(x[1]) /\ Present(x[2]) })'
    BY <1>1, <1>3 DEF TypeOK
  <2>3. summary' \in [Versions -> [sound : BOOLEAN, passed : BOOLEAN]]
    BY <1>1 DEF TypeOK
  <2>4. \A v \in Versions :
          /\ thin'[v].passages \subseteq Passages
          /\ thin'[v].artifacts = { r.id : r \in computed'[v] }
          /\ ~Present(v)' => thin'[v] = NoRows /\ computed'[v] = {}
    BY <1>1, <1>3 DEF TypeOK, NoRows
  <2> QED BY <1>1, <2>1, <2>2, <2>3, <2>4 DEF TypeOK, shared
<1>5. OneServed'
  BY <1>1, <1>2 DEF OneServed
<1>6. ContentAsBuilt' /\ RetainedResolves' /\ ChildrenOwned'
  BY <1>1 DEF ContentAsBuilt, RetainedResolves, ChildrenOwned, NoRows, shared
<1> QED BY <1>4, <1>5, <1>6

\* The corpus collector only removes what no publication's rows name.
LEMMA GcCorpusIInv ==
  ASSUME IInv, GcCorpus
  PROVE  IInv'
<1> USE DEF IInv
<1>1. /\ embedding' = { e \in embedding : UsedEmbedding(e) }
      /\ text' = { p \in text : UsedPassage(p) }
      /\ raised' = None
      /\ UNCHANGED <<catalog, thin, artifact, child, computed>>
  BY DEF GcCorpus
<1>2. TypeOK' /\ OneServed'
  BY <1>1 DEF TypeOK, OneServed, Present, catalog
<1>3. ContentAsBuilt' /\ ChildrenOwned'
  BY <1>1 DEF ContentAsBuilt, ChildrenOwned
<1>4. RetainedResolves'
  BY <1>1 DEF RetainedResolves, UsedEmbedding, UsedPassage
<1> QED BY <1>2, <1>3, <1>4

\* The artifact collector spares every row a publication's build computed, for
\* the publication names it, and the children that belong to such a row.
LEMMA GcArtifactsIInv ==
  ASSUME IInv, GcArtifacts
  PROVE  IInv'
<1> USE DEF IInv
<1>1. /\ artifact' = { x \in artifact : UsedArtifact(x.id) }
      /\ child' = { x \in child : UsedArtifact(x.of) }
      /\ raised' = None
      /\ UNCHANGED <<catalog, thin, text, embedding, computed>>
  BY DEF GcArtifacts
<1>2. TypeOK' /\ OneServed'
  BY <1>1 DEF TypeOK, OneServed, Present, catalog
<1>3. ContentAsBuilt'
  <2> SUFFICES ASSUME NEW v \in Versions, NEW r \in computed[v]
               PROVE  { x \in artifact' : x.id = r.id } = {r}
    BY <1>1 DEF ContentAsBuilt
  <2>1. { x \in artifact : x.id = r.id } = {r}
    BY DEF ContentAsBuilt
  <2>2. UsedArtifact(r.id)
    BY DEF UsedArtifact, TypeOK
  <2> QED BY <1>1, <2>1, <2>2
<1>4. RetainedResolves'
  <2> SUFFICES ASSUME NEW v \in Versions, NEW y \in thin[v].children
               PROVE  y \in child'
    BY <1>1 DEF RetainedResolves
  <2>1. y \in child
    BY DEF RetainedResolves
  <2>2. UsedArtifact(y.of)
    BY DEF UsedArtifact, ChildrenOwned
  <2> QED BY <1>1, <2>1, <2>2
<1>5. ChildrenOwned'
  BY <1>1 DEF ChildrenOwned
<1> QED BY <1>2, <1>3, <1>4, <1>5

LEMMA NextIInv == IInv /\ [Next]_vars => IInv'
<1> SUFFICES ASSUME IInv, [Next]_vars PROVE IInv'
  OBVIOUS
<1>1. CASE \E v \in Versions, d \in Snapshots, qa \in BOOLEAN : Build(v, d, qa)
  BY <1>1, BuildIInv
<1>2. CASE \E v \in Versions : BuildDuplicate(v)
  BY <1>2, RaisesIInv DEF BuildDuplicate
<1>3. CASE \E v \in Versions, d \in Snapshots, qa \in BOOLEAN : BuildMismatch(v, d, qa)
  BY <1>3, RaisesIInv DEF BuildMismatch
<1>4. CASE \E v \in Versions : Validate(v)
  BY <1>4, ValidateIInv
<1>5. CASE \E v \in Versions : Promote(v)
  BY <1>5, PromoteIInv
<1>6. CASE \E keep \in Keeps : Cleanup(keep)
  BY <1>6, CleanupIInv
<1>7. CASE GcCorpus
  BY <1>7, GcCorpusIInv
<1>8. CASE GcArtifacts
  BY <1>8, GcArtifactsIInv
<1>9. CASE UNCHANGED vars
  BY <1>9 DEF vars, catalog, shared, IInv, TypeOK, OneServed, ContentAsBuilt,
    RetainedResolves, ChildrenOwned, Present
<1> QED BY <1>1, <1>2, <1>3, <1>4, <1>5, <1>6, <1>7, <1>8, <1>9 DEF Next

\* The invariant holds throughout.
THEOREM Invariant == Spec => []IInv
BY InitIInv, NextIInv, PTL DEF Spec

\* Types, and which rows an absent publication has, for any dataset.
THEOREM TypeCorrect == Spec => []TypeOK
BY Invariant, PTL DEF IInv

\* The pointer and the ACTIVE status agree after any sequence of commands.
THEOREM OneIsServed == Spec => []OneServed
BY Invariant, PTL DEF IInv

\* However builds share artifacts, every publication keeps its own content.
THEOREM ContentStaysAsBuilt == Spec => []ContentAsBuilt
BY Invariant, PTL DEF IInv

\* Cleanup and collection leave no retained publication a dangling name.
THEOREM RetainedAlwaysResolves == Spec => []RetainedResolves
BY Invariant, PTL DEF IInv

-----------------------------------------------------------------------------
(* Publication implements ReleaseRegister                                  *)

\* What a retained publication resolves to is fixed by its own rows alone.
LEMMA ResolvedAsBuilt ==
  ASSUME IInv, NEW v \in Versions
  PROVE  Resolved(v) = [texts |-> thin[v].passages,
                        artifacts |-> computed[v],
                        embeddings |-> { c.embedding : c \in thin[v].contexts },
                        children |-> thin[v].children]
<1> USE DEF IInv
<1>1. thin[v].passages \cap text = thin[v].passages
  BY DEF RetainedResolves
<1>2. { x \in artifact : x.id \in thin[v].artifacts } = computed[v]
  <2>1. \A r \in computed[v] : r \in artifact /\ r.id \in thin[v].artifacts
    BY DEF ContentAsBuilt, TypeOK
  <2>2. \A x \in artifact : x.id \in thin[v].artifacts => x \in computed[v]
    <3> SUFFICES ASSUME NEW x \in artifact, x.id \in thin[v].artifacts
                 PROVE  x \in computed[v]
      OBVIOUS
    <3>1. PICK r \in computed[v] : r.id = x.id
      BY DEF TypeOK
    <3> QED BY <3>1 DEF ContentAsBuilt
  <2> QED BY <2>1, <2>2
<1>3. { c.embedding : c \in thin[v].contexts } \cap embedding
        = { c.embedding : c \in thin[v].contexts }
  BY DEF RetainedResolves
<1>4. thin[v].children \cap child = thin[v].children
  BY DEF RetainedResolves
<1> QED BY <1>1, <1>2, <1>3, <1>4 DEF Resolved

LEMMA ResolvedUnchanged ==
  ASSUME IInv, IInv', NEW v \in Versions, thin'[v] = thin[v], computed'[v] = computed[v]
  PROVE  Resolved(v)' = Resolved(v)
<1>1. Resolved(v) = [texts |-> thin[v].passages,
                     artifacts |-> computed[v],
                     embeddings |-> { c.embedding : c \in thin[v].contexts },
                     children |-> thin[v].children]
  BY ResolvedAsBuilt
<1>2. (Resolved(v) = [texts |-> thin[v].passages,
                      artifacts |-> computed[v],
                      embeddings |-> { c.embedding : c \in thin[v].contexts },
                      children |-> thin[v].children])'
  BY ResolvedAsBuilt, PTL
<1> QED BY <1>1, <1>2

Release == [v \in { v \in Versions : Present(v) } |-> Resolved(v)]
Spent == { v \in Versions : status[v] \in {"ACTIVE", "SUPERSEDED"} }
Rejected == { v \in Versions : status[v] = "FAILED" }

LEMMA InitRegister == Init => Register!Init
BY DEF Init, Register!Init, Present

LEMMA BuildAdds ==
  ASSUME IInv, IInv', NEW v \in Versions, NEW d \in Snapshots, NEW qa \in BOOLEAN,
         Build(v, d, qa)
  PROVE  Register!Add(v)
<1>1. /\ status[v] = "ABSENT" /\ active' = active
      /\ \A w \in Versions \ {v} : thin'[w] = thin[w] /\ computed'[w] = computed[w]
  BY DEF Build, IInv, TypeOK
<1>2. PICK result \in {"READY", "FAILED"} : status' = [status EXCEPT ![v] = result]
  BY DEF Build
<1>3. \A w \in Versions : Present(w)' <=> Present(w) \/ w = v
  BY <1>1, <1>2 DEF IInv, TypeOK, Present
<1>4. \A w \in Versions : Present(w) => Release'[w] = Release[w]
  BY <1>1, <1>3, ResolvedUnchanged DEF Release, Present
<1>5. Spent' = Spent /\ Rejected' \in {Rejected, Rejected \cup {v}}
  BY <1>1, <1>2 DEF IInv, TypeOK, Spent, Rejected
<1>6. DOMAIN Release' = DOMAIN Release \cup {v} /\ v \notin DOMAIN Release
  BY <1>1, <1>3 DEF Release, Present
<1> QED BY <1>1, <1>4, <1>5, <1>6 DEF Register!Add, Release, Spent, Rejected

\* A step that leaves statuses, pointer and the publications' own rows alone is
\* no step of the register, whatever it does to the shared tables.
LEMMA SharedStepStutters ==
  ASSUME IInv, IInv', UNCHANGED <<status, active, thin, computed>>
  PROVE  UNCHANGED Register!vars
<1>1. \A v \in Versions : Resolved(v)' = Resolved(v)
  BY ResolvedUnchanged
<1>2. Release' = Release /\ Spent' = Spent /\ Rejected' = Rejected
  BY <1>1 DEF Release, Spent, Rejected, Present
<1> QED BY <1>2 DEF Register!vars, Release, Spent, Rejected

LEMMA PromoteGoesLive ==
  ASSUME IInv, IInv', NEW v \in Versions, Promote(v)
  PROVE  Register!GoLive(v)
<1>1. /\ status[v] = "READY" /\ active' = v
      /\ status' = [w \in Versions |->
                      CASE w = v -> "ACTIVE"
                        [] w # v /\ w = active /\ status[w] = "ACTIVE" -> "SUPERSEDED"
                        [] OTHER -> status[w]]
      /\ UNCHANGED <<thin, computed>>
  BY DEF Promote, Promotable
<1>2. \A w \in Versions : (Present(w)' <=> Present(w)) /\ Resolved(w)' = Resolved(w)
  BY <1>1, ResolvedUnchanged DEF IInv, TypeOK, Present
<1>3. Release' = Release
  BY <1>2 DEF Release
<1>4. Spent' = Spent \cup {v} /\ Rejected' = Rejected
  BY <1>1 DEF Spent, Rejected, IInv, TypeOK
<1>5. v \in DOMAIN Release /\ v \notin Spent \cup Rejected
  BY <1>1 DEF Release, Spent, Rejected, Present
<1> QED BY <1>1, <1>3, <1>4, <1>5 DEF Register!GoLive, Release, Spent, Rejected

LEMMA CleanupRetires ==
  ASSUME IInv, IInv', NEW keep \in Keeps, Cleanup(keep)
  PROVE  \E gone \in SUBSET Versions : Register!Retire(gone)
<1> DEFINE gone == Doomed(keep)
<1>1. /\ status' = [v \in Versions |-> IF v \in gone THEN "ABSENT" ELSE status[v]]
      /\ active' = active
      /\ \A v \in Versions \ gone : thin'[v] = thin[v] /\ computed'[v] = computed[v]
  BY DEF Cleanup, Cascade
<1>2. gone \subseteq Versions /\ \A v \in gone : status[v] # "ACTIVE"
  BY DEF Doomed
<1> HIDE DEF gone
<1>3. active \notin gone
  BY <1>2 DEF IInv, OneServed
<1>4. \A v \in Versions : Present(v)' <=> Present(v) /\ v \notin gone
  BY <1>1 DEF Present
<1>5. Release' = [v \in DOMAIN Release \ gone |-> Release[v]]
  BY <1>1, <1>4, ResolvedUnchanged DEF Release
<1>6. Spent' = Spent \ gone /\ Rejected' = Rejected \ gone
  BY <1>1 DEF Spent, Rejected
<1>7. gone \in SUBSET Versions
  BY <1>2
<1> QED
  BY <1>1, <1>3, <1>5, <1>6, <1>7 DEF Register!Retire, Release, Spent, Rejected

LEMMA NextRegister == IInv /\ IInv' /\ [Next]_vars => [Register!Next]_(Register!vars)
<1> SUFFICES ASSUME IInv, IInv', [Next]_vars
             PROVE  Register!Next \/ UNCHANGED Register!vars
  OBVIOUS
<1>1. CASE \E v \in Versions, d \in Snapshots, qa \in BOOLEAN : Build(v, d, qa)
  BY <1>1, BuildAdds DEF Register!Next
<1>2. CASE \E v \in Versions : Promote(v)
  BY <1>2, PromoteGoesLive DEF Register!Next
<1>3. CASE \E keep \in Keeps : Cleanup(keep)
  BY <1>3, CleanupRetires DEF Register!Next
<1>4. CASE UNCHANGED <<status, active, thin, computed>>
  BY <1>4, SharedStepStutters
<1>5. CASE \/ \E v \in Versions : BuildDuplicate(v)
           \/ \E v \in Versions, d \in Snapshots, qa \in BOOLEAN : BuildMismatch(v, d, qa)
           \/ \E v \in Versions : Validate(v)
           \/ GcCorpus
           \/ GcArtifacts
           \/ UNCHANGED vars
  BY <1>4, <1>5 DEF BuildDuplicate, BuildMismatch, Raises, Validate, GcCorpus, GcArtifacts,
    vars, catalog
<1> QED BY <1>1, <1>2, <1>3, <1>5 DEF Next

\* The commands, with everything the publications share, implement a register
\* of immutable releases of which one is live.
THEOREM RegisterImplemented == Spec => ImplementsRegister
<1>1. Spec => []IInv
  BY Invariant
<1>2. Spec => Register!Init
  BY InitRegister DEF Spec
<1>3. Spec => [][Register!Next]_(Register!vars)
  BY <1>1, NextRegister, PTL DEF Spec
<1> QED BY <1>2, <1>3 DEF ImplementsRegister, Register!Spec

-----------------------------------------------------------------------------
(* What cleanup retains                                                     *)

Retained == { v \in Versions : Present(v) }

\* `after` is a strict order of finitely many publications: a build comes
\* after all that are there.
Ordered ==
  /\ IsFiniteSet(Retained)
  /\ \A v \in Versions : <<v, v>> \notin after
  /\ \A u, v, w \in Versions : <<u, v>> \in after /\ <<v, w>> \in after => <<u, w>> \in after

LEMMA InitOrdered == Init => Ordered
<1> SUFFICES ASSUME Init PROVE Ordered
  OBVIOUS
<1>1. Retained = {}
  BY DEF Init, Retained, Present
<1> QED BY <1>1, FS_EmptySet DEF Init, Ordered

LEMMA BuildOrdered ==
  ASSUME IInv, Ordered, NEW v \in Versions, NEW d \in Snapshots, NEW qa \in BOOLEAN, Build(v, d, qa)
  PROVE  Ordered'
<1>1. /\ status[v] = "ABSENT"
      /\ after' = after \cup { <<v, w>> : w \in Retained }
      /\ \A w \in Versions : w # v => status'[w] = status[w]
  BY DEF Build, IInv, TypeOK, Retained
<1>2. v \notin Retained /\ Retained' \subseteq Retained \cup {v}
  BY <1>1 DEF Retained, Present
<1>3. IsFiniteSet(Retained')
  <2>1. IsFiniteSet(Retained \cup {v})
    BY FS_AddElement DEF Ordered
  <2> QED BY <2>1, <1>2, FS_Subset
<1>4. \A x \in after : x[1] \in Retained /\ x[2] \in Retained
  BY DEF IInv, TypeOK, Retained
<1>5. \A w \in Versions : <<w, w>> \notin after'
  <2>1. \A w \in Versions : <<w, w>> \in after' => <<w, w>> \in after \/ (w = v /\ w \in Retained)
    <3> HIDE DEF Retained
    <3> QED BY <1>1
  <2> QED BY <2>1, <1>2 DEF Ordered
<1>6. ASSUME NEW a \in Versions, NEW b \in Versions, NEW c \in Versions,
             <<a, b>> \in after', <<b, c>> \in after'
      PROVE  <<a, c>> \in after'
  <2>1. b # v
    BY <1>1, <1>2, <1>4, <1>6
  <2>2. <<b, c>> \in after /\ c \in Retained
    BY <2>1, <1>1, <1>4, <1>6
  <2>3. <<a, b>> \in after \/ a = v
    BY <1>1, <1>6
  <2> QED BY <2>2, <2>3, <1>1 DEF Ordered
<1> QED BY <1>3, <1>5, <1>6 DEF Ordered

LEMMA CleanupOrdered ==
  ASSUME Ordered, NEW keep \in Keeps, Cleanup(keep)
  PROVE  Ordered'
<1>1. Retained' \subseteq Retained
  BY DEF Cleanup, Retained, Present
<1>2. IsFiniteSet(Retained')
  BY <1>1, FS_Subset DEF Ordered
<1>3. after' = { x \in after : x[1] \notin Doomed(keep) /\ x[2] \notin Doomed(keep) }
  BY DEF Cleanup
<1> HIDE DEF Retained
<1> QED BY <1>2, <1>3 DEF Ordered

\* No other command adds or removes a publication.
LEMMA OthersOrdered ==
  ASSUME Ordered, after' = after, Retained' = Retained
  PROVE  Ordered'
BY DEF Ordered

LEMMA PromoteRetains ==
  ASSUME IInv, NEW v \in Versions, Promote(v)
  PROVE  Retained' = Retained
BY DEF IInv, TypeOK, Promote, Promotable, Retained, Present

LEMMA NextOrdered == IInv /\ Ordered /\ [Next]_vars => Ordered'
<1> SUFFICES ASSUME IInv, Ordered, [Next]_vars PROVE Ordered'
  OBVIOUS
<1>1. CASE \E v \in Versions, d \in Snapshots, qa \in BOOLEAN : Build(v, d, qa)
  BY <1>1, BuildOrdered
<1>2. CASE \E v \in Versions : Promote(v)
  BY <1>2, PromoteRetains, OthersOrdered DEF Promote
<1>3. CASE \E keep \in Keeps : Cleanup(keep)
  BY <1>3, CleanupOrdered
<1>4. CASE UNCHANGED <<status, after>>
  BY <1>4, OthersOrdered DEF Retained, Present
<1>5. CASE \/ \E v \in Versions : BuildDuplicate(v)
           \/ \E v \in Versions, d \in Snapshots, qa \in BOOLEAN : BuildMismatch(v, d, qa)
           \/ \E v \in Versions : Validate(v)
           \/ GcCorpus
           \/ GcArtifacts
           \/ UNCHANGED vars
  BY <1>4, <1>5 DEF BuildDuplicate, BuildMismatch, Raises, Validate, GcCorpus, GcArtifacts,
    vars, catalog
<1> QED BY <1>1, <1>2, <1>3, <1>5 DEF Next

NewerIn(S, R, u) == { w \in S : <<w, u>> \in R }

Newest(keep, S, R) == { u \in S : Cardinality(NewerIn(S, R, u)) < keep }

\* Whatever is not among the newest `keep` of a strictly ordered set has
\* `keep` newer ones that are.
LEMMA NewestStay ==
  ASSUME NEW S, IsFiniteSet(S), NEW R, NEW keep \in Nat,
         \A u \in S : <<u, u>> \notin R,
         \A u, v, w \in S : <<u, v>> \in R /\ <<v, w>> \in R => <<u, w>> \in R,
         NEW v \in S, v \notin Newest(keep, S, R)
  PROVE  Cardinality(NewerIn(Newest(keep, S, R), R, v)) >= keep
<1> DEFINE Top == Newest(keep, S, R)
           Rest == { w \in S \ Top : w = v \/ <<w, v>> \in R }
           T == { NewerIn(S, R, u) : u \in Rest }
<1>1. \A u : NewerIn(S, R, u) \subseteq S
  BY DEF NewerIn
<1>2. T \subseteq FiniteSubsetsOf(S) /\ T # {}
  <2>1. v \in Rest
    OBVIOUS
  <2> HIDE DEF Rest
  <2>2. T \subseteq SUBSET S /\ T # {}
    BY <2>1, <1>1
  <2> QED BY <2>2, FS_FiniteSubsetsOfFinite
<1>3. PICK N \in T : \A M \in T : ~ (<<M, N>> \in StrictSubsetOrdering(S))
  <2>1. IsWellFoundedOn(StrictSubsetOrdering(S), FiniteSubsetsOf(S))
    BY FS_StrictSubsetOrderingWellFounded
  <2> HIDE DEF T
  <2> QED BY <2>1, <1>2, WFMin
<1>4. PICK m \in S \ Top : (m = v \/ <<m, v>> \in R) /\ N = NewerIn(S, R, m)
  BY <1>3
<1>5. ASSUME NEW w \in NewerIn(S, R, m)
      PROVE  w \in NewerIn(Top, R, v)
  <2>1. w \in S /\ <<w, m>> \in R /\ <<w, v>> \in R
    BY <1>4, <1>5 DEF NewerIn
  <2>2. NewerIn(S, R, w) \subseteq NewerIn(S, R, m) /\ w \notin NewerIn(S, R, w)
    BY <2>1, <1>4 DEF NewerIn
  <2>3. <<NewerIn(S, R, w), N>> \in StrictSubsetOrdering(S)
    BY <2>2, <1>1, <1>4, <1>5 DEF StrictSubsetOrdering
  <2>4. NewerIn(S, R, w) \notin T
    BY <2>3, <1>3
  <2>5. w \in Top
    BY <2>1, <2>4
  <2> QED BY <2>1, <2>5 DEF NewerIn
<1>6. NewerIn(S, R, m) \subseteq NewerIn(Top, R, v) /\ NewerIn(Top, R, v) \subseteq S
  BY <1>5 DEF NewerIn, Newest
<1>7. /\ Cardinality(NewerIn(S, R, m)) \in Nat /\ Cardinality(NewerIn(Top, R, v)) \in Nat
      /\ Cardinality(NewerIn(S, R, m)) <= Cardinality(NewerIn(Top, R, v))
  BY <1>1, <1>6, FS_Subset, FS_CardinalityType
<1>8. ~ (Cardinality(NewerIn(S, R, m)) < keep)
  BY <1>4 DEF Newest
<1> QED BY <1>7, <1>8

\* A successful publication that cleanup deletes had `keep` newer ones, which stay.
LEMMA CleanupRetention ==
  ASSUME IInv, Ordered, NEW keep \in Keeps, Cleanup(keep), NEW v \in Versions,
         status[v] \in Successful, status'[v] = "ABSENT"
  PROVE  /\ active # v
         /\ Cardinality({ w \in Versions : status'[w] \in Successful /\ <<w, v>> \in after }) >= keep
<1> DEFINE S == { w \in Versions : status[w] \in Successful }
           Top == Newest(keep, S, after)
           Stay == { w \in Versions : status'[w] \in Successful /\ <<w, v>> \in after }
<1>1. Latest(keep) = Top
  <2>1. \A u : { w \in Versions : status[w] \in Successful /\ <<w, u>> \in after } = NewerIn(S, after, u)
    BY DEF NewerIn
  <2> QED BY <2>1 DEF Latest, Newest
<1>2. v \in Doomed(keep) /\ \A w \in Versions : w \notin Doomed(keep) => status'[w] = status[w]
  BY DEF Cleanup, Successful
<1>3. active # v
  BY <1>2 DEF Doomed, IInv, OneServed
<1>4. v \in S /\ v \notin Top /\ \A w \in Top : status'[w] \in Successful
  BY <1>1, <1>2 DEF Doomed, Newest
<1>5. IsFiniteSet(S)
  <2>1. S \subseteq Retained
    BY DEF Retained, Present, Successful
  <2> QED BY <2>1, FS_Subset DEF Ordered
<1>6. keep \in Nat
  BY KeepsAreNaturals
<1>7. Cardinality(NewerIn(Top, after, v)) >= keep
  <2>1. /\ \A u \in S : <<u, u>> \notin after
        /\ \A a, b, c \in S : <<a, b>> \in after /\ <<b, c>> \in after => <<a, c>> \in after
    BY DEF Ordered
  <2> HIDE DEF S
  <2> QED BY <2>1, <1>4, <1>5, <1>6, NewestStay
<1>8. NewerIn(Top, after, v) \subseteq Stay /\ Stay \subseteq S
  <2>1. NewerIn(Top, after, v) \subseteq Stay
    BY <1>4 DEF NewerIn, Newest
  <2>2. Stay \subseteq S
    BY DEF Cleanup, Successful
  <2> QED BY <2>1, <2>2
<1> HIDE DEF Top, Stay, S
<1>9. /\ Cardinality(NewerIn(Top, after, v)) <= Cardinality(Stay)
      /\ Cardinality(NewerIn(Top, after, v)) \in Nat /\ Cardinality(Stay) \in Nat
  BY <1>5, <1>8, FS_Subset, FS_CardinalityType
<1>10. Cardinality(Stay) >= keep
  BY <1>6, <1>7, <1>9
<1> QED BY <1>3, <1>10 DEF Stay

\* No other command takes a successful publication away.
LEMMA OnlyCleanupDeletes ==
  ASSUME IInv, Next, NEW v \in Versions, status[v] \in Successful, status'[v] = "ABSENT"
  PROVE  \E keep \in Keeps : Cleanup(keep)
<1>1. ASSUME NEW w \in Versions, NEW d \in Snapshots, NEW qa \in BOOLEAN, Build(w, d, qa)
      PROVE  FALSE
  BY <1>1 DEF Build, IInv, TypeOK, Successful
<1>2. ASSUME NEW w \in Versions, Promote(w)
      PROVE  FALSE
  BY <1>2 DEF Promote, Promotable, IInv, TypeOK, Successful
<1>3. CASE \/ \E w \in Versions : BuildDuplicate(w)
           \/ \E w \in Versions, d \in Snapshots, qa \in BOOLEAN : BuildMismatch(w, d, qa)
           \/ \E w \in Versions : Validate(w)
           \/ GcCorpus
           \/ GcArtifacts
  BY <1>3 DEF BuildDuplicate, BuildMismatch, Raises, Validate, GcCorpus, GcArtifacts,
    catalog, Successful
<1> QED BY <1>1, <1>2, <1>3 DEF Next

LEMMA StepRetains ==
  ASSUME IInv, Ordered, [Next]_vars, NEW v \in Versions,
         status[v] \in Successful, status'[v] = "ABSENT"
  PROVE  /\ active # v
         /\ \E keep \in Keeps :
              /\ Cleanup(keep)
              /\ Cardinality({ w \in Versions : /\ status'[w] \in Successful
                                             /\ <<w, v>> \in after }) >= keep
<1>1. ~ UNCHANGED vars
  BY DEF vars, catalog, Successful
<1>2. PICK keep \in Keeps : Cleanup(keep)
  BY <1>1, OnlyCleanupDeletes
<1> QED BY <1>2, CleanupRetention

\* A successful publication goes only by a cleanup that leaves as many newer
\* successful ones as its --keep asks for, and never while it is served.
THEOREM RetentionIsHonoured == Spec => RetentionHonoured
<1>1. Spec => []IInv
  BY Invariant
<1>2. Init /\ [][Next]_vars /\ []IInv => []Ordered
  BY InitOrdered, NextOrdered, PTL
<1>3. IInv /\ Ordered /\ [Next]_vars =>
        [ \A v \in Versions :
            status[v] \in Successful /\ status'[v] = "ABSENT" =>
              /\ active # v
              /\ \E keep \in Keeps :
                   /\ Cleanup(keep)
                   /\ Cardinality({ w \in Versions : /\ status'[w] \in Successful
                                                  /\ <<w, v>> \in after }) >= keep ]_vars
  BY StepRetains
<1> QED BY <1>1, <1>2, <1>3, PTL DEF Spec, RetentionHonoured

-----------------------------------------------------------------------------
(* A validation repeated later                                             *)

\* What keeps a publication valid: its contexts are of its own passages, what a
\* successful build found covered has stayed covered, and if a later
\* validation failed all the same another model's embedding is stored.
StillValid(v) ==
  /\ IsFiniteSet(thin[v].passages)
  /\ \A c \in thin[v].contexts : c.embedding[1] \in thin[v].passages
  /\ status[v] \in Successful =>
       /\ summary[v].sound /\ Covered(thin[v], embedding)
       /\ summary[v].passed \/ OtherModelStored(v)

AllStillValid == \A v \in Versions : StillValid(v)

\* Embeddings that are added, or removed from other passages, uncover nothing.
LEMMA CoveredStays ==
  ASSUME NEW rows, IsFiniteSet(rows.passages), NEW stored, NEW later,
         Covered(rows, stored),
         \A p \in rows.passages, m \in Models : <<p, m>> \in stored => <<p, m>> \in later
  PROVE  Covered(rows, later)
<1> DEFINE Missing(s) == { p \in rows.passages : \A m \in Models : <<p, m>> \notin s }
<1>1. Missing(later) \subseteq Missing(stored) /\ Missing(stored) \subseteq rows.passages
  OBVIOUS
<1>2. IsFiniteSet(Missing(stored)) /\ IsFiniteSet(Missing(later))
  BY <1>1, FS_Subset
<1>3. Cardinality(Missing(later)) <= Cardinality(Missing(stored))
  BY <1>1, <1>2, FS_Subset
<1>4. /\ Cardinality(Missing(later)) \in Nat /\ Cardinality(Missing(stored)) \in Nat
      /\ Cardinality(rows.passages) \in Nat
  BY <1>2, FS_CardinalityType
<1>5. 100 * Cardinality(Missing(stored)) <= 5 * Cardinality(rows.passages)
  BY DEF Covered
<1> HIDE DEF Missing
<1>6. 100 * Cardinality(Missing(later)) <= 5 * Cardinality(rows.passages)
  BY <1>3, <1>4, <1>5
<1> QED BY <1>6 DEF Covered, Missing

\* When the vector picked for a passage is not the one a context cites, another
\* model's is stored.
LEMMA MismatchExcused ==
  ASSUME NEW v, embedding \subseteq Passages \X Models,
         \A c \in thin[v].contexts :
           c.embedding \in embedding /\ c.embedding[1] \in thin[v].passages,
         NEW pick \in Picks(thin[v], embedding), ~ContextsMatch(thin[v], pick)
  PROVE  OtherModelStored(v)
<1>1. PICK c \in thin[v].contexts : c.embedding # <<c.embedding[1], pick[c.embedding[1]]>>
  BY DEF ContextsMatch
<1>2. PICK p \in Passages, m \in Models : c.embedding = <<p, m>>
  OBVIOUS
<1>3. p \in thin[v].passages /\ <<p, m>> \in embedding
  BY <1>2
<1>4. <<p, pick[p]>> \in embedding
  BY <1>3 DEF Picks
<1>5. pick[p] \in Models /\ pick[p] # m
  BY <1>1, <1>2, <1>4
<1> QED BY <1>2, <1>4, <1>5 DEF OtherModelStored

\* That embedding stays while no embedding of v's passages is removed.
LEMMA OtherModelStays ==
  ASSUME NEW v, NEW w, thin'[w] = thin[v], OtherModelStored(v),
         \A c \in thin[v].contexts : c.embedding[1] \in thin[v].passages,
         \A p \in thin[v].passages, m \in Models :
           <<p, m>> \in embedding => <<p, m>> \in embedding'
  PROVE  OtherModelStored(w)'
BY DEF OtherModelStored

\* The contexts of a build are of passages it publishes.
LEMMA ContextsOwned ==
  ASSUME NEW d, NEW c \in ContextRows(d)
  PROVE  c.embedding[1] \in d.passages
BY DEF ContextRows, Linked, ReportOnly, PublishedSides

LEMMA InitValid == Init => AllStillValid
<1> SUFFICES ASSUME Init, NEW v \in Versions PROVE StillValid(v)
  BY DEF AllStillValid
<1>1. thin[v].passages = {} /\ thin[v].contexts = {} /\ status[v] = "ABSENT"
  BY DEF Init, NoRows
<1>2. IsFiniteSet(thin[v].passages)
  BY <1>1, FS_EmptySet
<1> QED BY <1>1, <1>2 DEF StillValid, Successful

\* Whatever passes validation is of a covered dataset.
LEMMA VerdictCovered ==
  ASSUME NEW rows, NEW stored, NEW sound \in BOOLEAN, TRUE \in Verdicts(rows, stored, sound)
  PROVE  sound /\ Covered(rows, stored)
<1>1. PICK pick \in Picks(rows, stored) :
        TRUE = (sound /\ Covered(rows, stored) /\ ContextsMatch(rows, pick))
  BY Zenon DEF Verdicts
<1> QED BY Zenon, <1>1

LEMMA BuildValid ==
  ASSUME IInv, AllStillValid,
         NEW v \in Versions, NEW d \in Snapshots, NEW qa \in BOOLEAN, Build(v, d, qa)
  PROVE  AllStillValid'
<1> DEFINE stored == embedding \cup EmbeddingRows(d)
<1>1. /\ status[v] = "ABSENT"
      /\ thin' = [thin EXCEPT ![v] = ThinRows(d, qa)]
      /\ embedding' = stored
  BY DEF Build
<1>2. PICK passed \in Verdicts(ThinRows(d, qa), stored, d.sound) :
        /\ status' = [status EXCEPT ![v] = IF passed THEN "READY" ELSE "FAILED"]
        /\ summary' = [summary EXCEPT ![v] = [sound |-> d.sound, passed |-> passed]]
  BY DEF Build
<1>3. passed \in BOOLEAN
  BY VerdictsBoolean
<1> SUFFICES ASSUME NEW w \in Versions PROVE StillValid(w)'
  BY DEF AllStillValid
<1>4. CASE w = v
  <2>1. thin'[w] = ThinRows(d, qa)
    BY <1>1, <1>4 DEF IInv, TypeOK
  <2>2. thin'[w].passages = d.passages /\ thin'[w].contexts = ContextRows(d)
    BY <2>1 DEF ThinRows
  <2>3. IsFiniteSet(thin'[w].passages)
    BY <2>2, DatasetsFinite
  <2>4. \A c \in thin'[w].contexts : c.embedding[1] \in thin'[w].passages
    BY <2>2, ContextsOwned
  <2>5. ASSUME status'[w] \in Successful
        PROVE  /\ summary'[w].sound /\ Covered(thin'[w], embedding')
               /\ summary'[w].passed
    <3>1. status'[w] = IF passed THEN "READY" ELSE "FAILED"
      BY <1>2, <1>4 DEF IInv, TypeOK
    <3>2. passed = TRUE
      BY <2>5, <3>1, <1>3 DEF Successful
    <3>3. summary'[w] = [sound |-> d.sound, passed |-> passed]
      BY <1>2, <1>4 DEF IInv, TypeOK
    <3>4. d.sound \in BOOLEAN
      BY SnapshotsTyped DEF SnapshotType
    <3>5. d.sound /\ Covered(ThinRows(d, qa), stored)
      BY <1>2, <3>2, <3>4, VerdictCovered
    <3>6. Covered(thin'[w], embedding')
      BY <3>5, <2>1, <1>1
    <3> QED BY <3>2, <3>3, <3>5, <3>6
  <2> QED BY <2>3, <2>4, <2>5 DEF StillValid
<1>5. CASE w # v
  <2>1. thin'[w] = thin[w] /\ status'[w] = status[w] /\ summary'[w] = summary[w]
    BY <1>1, <1>2, <1>5 DEF IInv, TypeOK
  <2>2. StillValid(w)
    BY DEF AllStillValid
  <2>3. ASSUME Covered(thin[w], embedding) PROVE Covered(thin[w], embedding')
    BY <2>2, <2>3, <1>1, CoveredStays DEF StillValid
  <2>4. Covered(thin[w], embedding) => Covered(thin'[w], embedding')
    BY <2>1, <2>3
  <2>5. OtherModelStored(w) => OtherModelStored(w)'
    BY <1>1, <2>1, <2>2, OtherModelStays DEF StillValid
  <2> QED BY <2>1, <2>2, <2>4, <2>5 DEF StillValid
<1> QED BY <1>4, <1>5

\* Repeated on what is still covered, the checks pass again unless another
\* model's vector is picked.
LEMMA ValidateValid ==
  ASSUME IInv, AllStillValid, NEW v \in Versions, Validate(v)
  PROVE  AllStillValid'
<1>1. UNCHANGED <<status, thin, embedding>>
  BY DEF Validate, shared
<1>2. PICK passed \in Verdicts(thin[v], embedding, summary[v].sound) :
        summary' = [summary EXCEPT ![v].passed = passed]
  BY DEF Validate
<1>3. StillValid(v) /\ summary \in [Versions -> [sound : BOOLEAN, passed : BOOLEAN]]
  BY DEF AllStillValid, IInv, TypeOK
<1>4. PICK pick \in Picks(thin[v], embedding) :
        passed = (/\ summary[v].sound
                  /\ Covered(thin[v], embedding)
                  /\ ContextsMatch(thin[v], pick))
  BY Zenon, <1>2 DEF Verdicts
<1>5. ~ContextsMatch(thin[v], pick) => OtherModelStored(v)
  <2>1. embedding \subseteq Passages \X Models
    BY DEF IInv, TypeOK
  <2>2. \A c \in thin[v].contexts :
          c.embedding \in embedding /\ c.embedding[1] \in thin[v].passages
    BY <1>3 DEF StillValid, IInv, RetainedResolves
  <2> QED BY <2>1, <2>2, MismatchExcused
<1>6. status[v] \in Successful => passed = TRUE \/ OtherModelStored(v)
  <2>1. ASSUME status[v] \in Successful, ContextsMatch(thin[v], pick)
        PROVE  /\ summary[v].sound
               /\ Covered(thin[v], embedding)
               /\ ContextsMatch(thin[v], pick)
    BY <2>1, <1>3 DEF StillValid
  <2> QED BY Zenon, <1>4, <1>5, <2>1
<1> SUFFICES ASSUME NEW w \in Versions PROVE StillValid(w)'
  BY DEF AllStillValid
<1>7. summary'[w].sound = summary[w].sound
  BY <1>2, <1>3
<1>8. w # v => summary'[w].passed = summary[w].passed
  BY <1>2, <1>3
<1>9. w = v => summary'[w].passed = passed
  BY <1>2, <1>3
<1>10. StillValid(w)
  BY DEF AllStillValid
<1>11. status[w] \in Successful => summary'[w].passed \/ OtherModelStored(w)
  BY <1>6, <1>8, <1>9, <1>10 DEF StillValid
<1>12. OtherModelStored(w)' <=> OtherModelStored(w)
  BY <1>1 DEF OtherModelStored
<1> QED BY <1>1, <1>7, <1>10, <1>11, <1>12 DEF StillValid

\* The collector keeps the embeddings of the passages it keeps.
LEMMA GcCorpusValid ==
  ASSUME IInv, AllStillValid, GcCorpus
  PROVE  AllStillValid'
<1>1. /\ UNCHANGED <<status, summary, thin>>
      /\ embedding' = { e \in embedding : UsedEmbedding(e) }
  BY DEF GcCorpus, catalog
<1> SUFFICES ASSUME NEW w \in Versions PROVE StillValid(w)'
  BY DEF AllStillValid
<1>2. StillValid(w)
  BY DEF AllStillValid
<1>3. \A p \in thin[w].passages, m \in Models :
        <<p, m>> \in embedding => <<p, m>> \in embedding'
  BY <1>1 DEF UsedEmbedding, UsedPassage
<1>4. Covered(thin[w], embedding) => Covered(thin[w], embedding')
  BY <1>2, <1>3, CoveredStays DEF StillValid
<1>5. OtherModelStored(w) => OtherModelStored(w)'
  BY <1>1, <1>2, <1>3, OtherModelStays DEF StillValid
<1> QED BY <1>1, <1>2, <1>4, <1>5 DEF StillValid

LEMMA NextValid == IInv /\ AllStillValid /\ [Next]_vars => AllStillValid'
<1> SUFFICES ASSUME IInv, AllStillValid, [Next]_vars PROVE AllStillValid'
  OBVIOUS
<1>1. CASE \E v \in Versions, d \in Snapshots, qa \in BOOLEAN : Build(v, d, qa)
  BY <1>1, BuildValid
<1>2. CASE UNCHANGED <<status, summary, thin, embedding>>
  BY <1>2 DEF AllStillValid, StillValid, OtherModelStored
<1>3. CASE \E v \in Versions : Validate(v)
  BY <1>3, ValidateValid
<1>4. CASE \E v \in Versions : Promote(v)
  <2>1. PICK v \in Versions : Promote(v)
    BY <1>4
  <2>2. UNCHANGED <<summary, thin, embedding>>
    BY <2>1 DEF Promote, shared
  <2>3. \A w \in Versions : status'[w] \in Successful => status[w] \in Successful
    BY <2>1 DEF Promote, Promotable, Successful
  <2> QED BY <2>2, <2>3 DEF AllStillValid, StillValid, OtherModelStored
<1>5. CASE \E keep \in Keeps : Cleanup(keep)
  <2>1. PICK keep \in Keeps : Cleanup(keep)
    BY <1>5
  <2>2. embedding' = embedding
    BY <2>1 DEF Cleanup, shared
  <2> SUFFICES ASSUME NEW w \in Versions PROVE StillValid(w)'
    BY DEF AllStillValid
  <2>3. CASE w \in Doomed(keep)
    <3>1. thin'[w] = NoRows /\ status'[w] = "ABSENT"
      BY <2>1, <2>3 DEF Cleanup, Cascade
    <3> QED BY <3>1, FS_EmptySet DEF StillValid, NoRows, Successful
  <2>4. CASE w \notin Doomed(keep)
    <3>1. thin'[w] = thin[w] /\ status'[w] = status[w] /\ summary'[w] = summary[w]
      BY <2>1, <2>4 DEF Cleanup, Cascade
    <3> QED BY <3>1, <2>2 DEF AllStillValid, StillValid, OtherModelStored
  <2> QED BY <2>3, <2>4
<1>6. CASE GcCorpus
  BY <1>6, GcCorpusValid
<1> QED
  BY <1>1, <1>2, <1>3, <1>4, <1>5, <1>6
  DEF Next, vars, catalog, shared, BuildDuplicate, BuildMismatch, Raises, GcArtifacts

\* The validate command takes back the verdict of a build only where another
\* model's embedding of a cited passage is stored: whatever was built, cleaned
\* up, collected and validated before, a READY, ACTIVE or SUPERSEDED publication
\* with a failed summary has such a passage.
THEOREM InvalidatedByOtherModel == Spec => []OnlyOtherModelsInvalidate
<1>1. IInv /\ AllStillValid => OnlyOtherModelsInvalidate
  BY DEF IInv, TypeOK, AllStillValid, StillValid, OnlyOtherModelsInvalidate,
         Present, Successful, Statuses
<1>2. IInv /\ AllStillValid /\ [Next]_vars => AllStillValid'
  BY NextValid
<1> QED BY <1>1, <1>2, InitValid, Invariant, PTL DEF Spec
=============================================================================
