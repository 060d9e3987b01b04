------------------------- MODULE ResearchRunsProofs -------------------------
(***************************************************************************)
(* Proofs about ResearchRuns, for any reports, configurations, files,      *)
(* starts and bounds.                                                      *)
(***************************************************************************)
EXTENDS ResearchRuns, IterationLemmas, FiniteSetTheorems

-----------------------------------------------------------------------------
(* The invariant of a set of run rows                                       *)

StageNames == Range(Stages)

\* The runs of a subject are numbered from 1 on, and no number comes twice.
Numbered(rs) ==
  /\ \A stage, s :
       /\ IsFiniteSet(RunsOf(rs, stage, s))
       /\ \A run \in RunsOf(rs, stage, s) : run.n \in 1 .. Cardinality(RunsOf(rs, stage, s))
  /\ \A x, y \in rs : Key(x) = Key(y) => x = y

\* An embedding of a segmentation of an extraction of the report.
Embeds(rs, r, s, m) ==
  /\ s \in Successful(rs) /\ s.stage = "segmentation"
  /\ m \in Successful(rs) /\ m.stage = "embedding" /\ m.subject = Key(s)
  /\ \E e \in Successful(rs) : e.stage = "extraction" /\ e.subject = r /\ s.subject = Key(e)

\* The sources a run names fit together and are successful.
Rests(rs, run) ==
  /\ run.stage \in StageNames
  /\ run.stage = "extraction" => run.subject \in Reports /\ run.inputs = <<>>
  /\ run.stage = "segmentation" =>
       \E e \in Successful(rs) :
         e.stage = "extraction" /\ run.subject = Key(e) /\ run.inputs = <<Key(e)>>
  /\ run.stage = "embedding" =>
       \E s \in Successful(rs) :
         s.stage = "segmentation" /\ run.subject = Key(s) /\ run.inputs = <<Key(s)>>
  /\ run.stage = "alignment" =>
       /\ run.subject = Pair
       /\ \E s1, m1, s2, m2 \in Successful(rs) :
            /\ Embeds(rs, Earlier, s1, m1) /\ Embeds(rs, Later, s2, m2) /\ ModelOf(m1) = ModelOf(m2)
            /\ run.inputs = <<Key(s1), Key(s2), Key(m1), Key(m2)>>
  /\ run.stage = "similarity" =>
       /\ run.subject = Pair
       /\ \E e1, e2 \in Successful(rs) : run.inputs = <<Key(e1), Key(e2)>>
  /\ run.stage = "features" =>
       /\ run.subject = Pair
       /\ \E s, a \in Successful(rs) :
            s.stage = "similarity" /\ a.stage = "alignment" /\ run.inputs = <<Key(s), Key(a)>>
  /\ run.stage = "language" =>
       /\ run.subject = Pair
       /\ \E f \in Successful(rs) :
            /\ f.stage = "features" /\ run.inputs = <<Key(f), f.inputs[2]>>

Sound(rs) == Numbered(rs) /\ \A run \in Successful(rs) : Rests(rs, run)

-----------------------------------------------------------------------------
(* Current runs                                                             *)

LEMMA StagesAre ==
  /\ Len(Stages) = 7
  /\ StageNames = {"extraction", "segmentation", "embedding", "alignment", "similarity",
                   "features", "language"}
  /\ \A i \in 1 .. 7 : Stages[i] \in StageNames
<1>1. Len(Stages) = 7 /\ DOMAIN Stages = 1 .. 7
  BY DEF Stages
<1>2. \A i \in 1 .. 7 : i = 1 \/ i = 2 \/ i = 3 \/ i = 4 \/ i = 5 \/ i = 6 \/ i = 7
  OBVIOUS
<1>3. /\ Stages[1] = "extraction" /\ Stages[2] = "segmentation" /\ Stages[3] = "embedding"
      /\ Stages[4] = "alignment" /\ Stages[5] = "similarity" /\ Stages[6] = "features"
      /\ Stages[7] = "language"
  BY DEF Stages
<1>4. StageNames = { Stages[i] : i \in 1 .. 7 }
  BY <1>1 DEF StageNames, Range
<1>5. /\ \A x \in StageNames : x \in {"extraction", "segmentation", "embedding", "alignment",
                                      "similarity", "features", "language"}
      /\ \A i \in 1 .. 7 : Stages[i] \in StageNames
  BY <1>2, <1>3, <1>4
<1>6. {"extraction", "segmentation", "embedding", "alignment", "similarity", "features",
       "language"} \subseteq StageNames
  BY <1>3, <1>5
<1> QED BY <1>1, <1>5, <1>6

LEMMA RunAtItsKey ==
  ASSUME NEW rs, Numbered(rs), NEW run \in rs
  PROVE  /\ RunAt(rs, Key(run)) = run
         /\ run \in Successful(rs) => RunAt(Successful(rs), Key(run)) = run
BY DEF RunAt, Numbered, Successful

LEMMA CurrentRuns ==
  ASSUME NEW rs, NEW stage, NEW s
  PROVE  \A run \in Current(rs, stage, s) :
           run \in rs /\ run \in Successful(rs) /\ run.stage = stage /\ run.subject = s
BY DEF Current, RunsOf, Successful

LEMMA OneCurrent ==
  ASSUME NEW rs, Numbered(rs), NEW stage, NEW s,
         NEW x \in Current(rs, stage, s), NEW y \in Current(rs, stage, s)
  PROVE  x = y
<1>1. x.n <= y.n /\ y.n <= x.n
  BY DEF Current
<1>2. x \in RunsOf(rs, stage, s) /\ y \in RunsOf(rs, stage, s)
  BY CurrentRuns DEF RunsOf
<1>3. x.n \in Nat /\ y.n \in Nat
  <2>1. Cardinality(RunsOf(rs, stage, s)) \in Nat
    BY FS_CardinalityType DEF Numbered
  <2> QED BY <1>2, <2>1 DEF Numbered
<1>4. Key(x) = Key(y)
  BY <1>1, <1>2, <1>3 DEF Key, RunsOf
<1> QED BY <1>2, <1>4 DEF Numbered, RunsOf

LEMMA KeyFields ==
  ASSUME NEW x, NEW y, Key(x) = Key(y)
  PROVE  x.stage = y.stage /\ x.subject = y.subject /\ x.n = y.n
BY DEF Key

\* A report has at most one current segmentation, and that one embedding.
LEMMA OneSegmentation ==
  ASSUME NEW rs, Numbered(rs), NEW r,
         NEW x \in CurrentSegmentation(rs, r), NEW y \in CurrentSegmentation(rs, r)
  PROVE  x = y
<1>1. PICK k \in CurrentKeys(rs, "extraction", r) : x \in Current(rs, "segmentation", k)
  BY DEF CurrentSegmentation
<1>2. PICK l \in CurrentKeys(rs, "extraction", r) : y \in Current(rs, "segmentation", l)
  BY DEF CurrentSegmentation
<1>3. k = l
  BY OneCurrent DEF CurrentKeys
<1> QED BY <1>1, <1>2, <1>3, OneCurrent

-----------------------------------------------------------------------------
(* Adding rows                                                              *)

\* The rows a command, or the commands of a stage, may add.
Adds(rs, new) ==
  /\ \A x \in new : x.n = Cardinality(RunsOf(rs, x.stage, x.subject)) + 1
  /\ \A x, y \in new : x.stage = y.stage /\ x.subject = y.subject => x = y
  /\ \A x \in new : x.status = "COMPLETED" => Rests(rs, x)

LEMMA SuccessfulAfter ==
  ASSUME NEW rs, NEW new
  PROVE  Successful(rs \cup new) = Successful(rs) \cup Successful(new)
BY DEF Successful

LEMMA RestsStays ==
  ASSUME NEW rs, NEW more, Successful(rs) \subseteq Successful(more), NEW run, Rests(rs, run)
  PROVE  Rests(more, run)
<1>1. \A r, s, m : Embeds(rs, r, s, m) => Embeds(more, r, s, m)
  BY DEF Embeds
<1> QED BY <1>1 DEF Rests

LEMMA NumberedStays ==
  ASSUME NEW rs, NEW new, Numbered(rs), Adds(rs, new)
  PROVE  Numbered(rs \cup new)
<1> DEFINE after == rs \cup new
<1>1. ASSUME NEW t, NEW s
      PROVE  /\ IsFiniteSet(RunsOf(after, t, s))
             /\ \A run \in RunsOf(after, t, s) : run.n \in 1 .. Cardinality(RunsOf(after, t, s))
  <2> DEFINE old == RunsOf(rs, t, s)
             added == RunsOf(new, t, s)
  <2>1. IsFiniteSet(old) /\ Cardinality(old) \in Nat /\ \A run \in old : run.n \in 1 .. Cardinality(old)
    BY FS_CardinalityType DEF Numbered
  <2>2. RunsOf(after, t, s) = old \cup added
    BY DEF RunsOf
  <2>3. CASE added = {}
    BY <2>1, <2>2, <2>3
  <2>4. CASE added # {}
    <3>1. PICK x : x \in added
      BY <2>4
    <3>2. added = {x}
      BY <3>1 DEF Adds, RunsOf
    <3>3. x.n = Cardinality(old) + 1
      BY <3>1 DEF Adds, RunsOf
    <3>4. x \notin old
      BY <2>1, <3>3
    <3>5. RunsOf(after, t, s) = old \cup {x}
      BY <2>2, <3>2
    <3> HIDE DEF old, added, after
    <3>6. IsFiniteSet(old \cup {x}) /\ Cardinality(old \cup {x}) = Cardinality(old) + 1
      BY <2>1, <3>4, FS_AddElement
    <3>7. \A run \in old \cup {x} : run.n \in 1 .. Cardinality(old) + 1
      BY <2>1, <3>3
    <3> QED BY <3>5, <3>6, <3>7
  <2> QED BY <2>3, <2>4
<1>2. ASSUME NEW x \in new, NEW y \in rs PROVE Key(x) # Key(y)
  <2>1. x.n = Cardinality(RunsOf(rs, x.stage, x.subject)) + 1
    BY DEF Adds
  <2>2. /\ Cardinality(RunsOf(rs, x.stage, x.subject)) \in Nat
        /\ \A run \in RunsOf(rs, x.stage, x.subject) :
             run.n \in 1 .. Cardinality(RunsOf(rs, x.stage, x.subject))
    BY FS_CardinalityType DEF Numbered
  <2>3. x.n # y.n \/ y \notin RunsOf(rs, x.stage, x.subject)
    BY <2>1, <2>2
  <2> QED BY <2>3 DEF Key, RunsOf
<1>3. ASSUME NEW x \in new, NEW y \in new, Key(x) = Key(y) PROVE x = y
  BY <1>3, KeyFields DEF Adds
<1>4. \A x, y \in after : Key(x) = Key(y) => x = y
  BY <1>2, <1>3 DEF Numbered
<1> HIDE DEF after
<1> QED BY <1>1, <1>4 DEF Numbered, after

LEMMA SoundStays ==
  ASSUME NEW rs, NEW new, Sound(rs), Adds(rs, new)
  PROVE  Sound(rs \cup new)
<1>1. Numbered(rs \cup new)
  BY NumberedStays DEF Sound
<1>2. Successful(rs) \subseteq Successful(rs \cup new)
  BY SuccessfulAfter
<1>3. ASSUME NEW run \in Successful(rs \cup new) PROVE Rests(rs, run)
  BY SuccessfulAfter DEF Sound, Adds, Successful
<1> QED BY <1>1, <1>2, <1>3, RestsStays DEF Sound

-----------------------------------------------------------------------------
(* Sources                                                                  *)

\* The current segmentation of a report and its current embedding.
CurrentEmbedding(rs, r, s, m) ==
  s \in CurrentSegmentation(rs, r) /\ m \in Current(rs, "embedding", Key(s))

LEMMA CurrentEmbeddingEmbeds ==
  ASSUME NEW rs, NEW r, NEW s, NEW m, CurrentEmbedding(rs, r, s, m)
  PROVE  Embeds(rs, r, s, m) /\ s \in rs /\ m \in rs
<1>1. PICK e \in Current(rs, "extraction", r) : s \in Current(rs, "segmentation", Key(e))
  BY DEF CurrentEmbedding, CurrentSegmentation, CurrentKeys
<1>2. e \in Successful(rs) /\ e.stage = "extraction" /\ e.subject = r
  BY CurrentRuns
<1>3. s \in rs /\ s \in Successful(rs) /\ s.stage = "segmentation" /\ s.subject = Key(e)
  BY <1>1, CurrentRuns
<1>4. m \in rs /\ m \in Successful(rs) /\ m.stage = "embedding" /\ m.subject = Key(s)
  BY CurrentRuns DEF CurrentEmbedding
<1> QED BY <1>2, <1>3, <1>4 DEF Embeds

LEMMA AlignmentPins ==
  ASSUME NEW rs, Numbered(rs), NEW p, NEW pair
  PROVE  p \in AlignmentSources(rs, pair) <=>
           \E s1, m1, s2, m2 : /\ CurrentEmbedding(rs, Earlier, s1, m1)
                               /\ CurrentEmbedding(rs, Later, s2, m2)
                               /\ ModelOf(m1) = ModelOf(m2)
                               /\ p = <<Key(s1), Key(s2), Key(m1), Key(m2)>>
<1> DEFINE Embedded(r) ==
             UNION { { <<Key(s), k>> : k \in CurrentKeys(rs, "embedding", Key(s)) } :
                       s \in CurrentSegmentation(rs, r) }
           Model(side) == ModelOf(RunAt(rs, side[2]))
<1>1. \A r, y : y \in Embedded(r) <=> \E s, m : CurrentEmbedding(rs, r, s, m) /\ y = <<Key(s), Key(m)>>
  BY DEF CurrentEmbedding, CurrentKeys
<1>2. \A r, s, m : CurrentEmbedding(rs, r, s, m) => Model(<<Key(s), Key(m)>>) = ModelOf(m)
  <2>1. ASSUME NEW r, NEW s, NEW m, CurrentEmbedding(rs, r, s, m)
        PROVE  RunAt(rs, Key(m)) = m
    BY <2>1, CurrentEmbeddingEmbeds, RunAtItsKey
  <2> QED BY <2>1
<1>3. AlignmentSources(rs, pair) =
        { <<x[1][1], x[2][1], x[1][2], x[2][2]>> :
            x \in { z \in Embedded(Earlier) \X Embedded(Later) : Model(z[1]) = Model(z[2]) } }
  BY DEF AlignmentSources
<1> HIDE DEF Embedded, Model
<1>4. ASSUME p \in AlignmentSources(rs, pair)
      PROVE  \E s1, m1, s2, m2 : /\ CurrentEmbedding(rs, Earlier, s1, m1)
                                 /\ CurrentEmbedding(rs, Later, s2, m2)
                                 /\ ModelOf(m1) = ModelOf(m2)
                                 /\ p = <<Key(s1), Key(s2), Key(m1), Key(m2)>>
  <2>1. PICK x \in Embedded(Earlier) \X Embedded(Later) :
          Model(x[1]) = Model(x[2]) /\ p = <<x[1][1], x[2][1], x[1][2], x[2][2]>>
    BY <1>3, <1>4
  <2>2. PICK s1, m1 : CurrentEmbedding(rs, Earlier, s1, m1) /\ x[1] = <<Key(s1), Key(m1)>>
    BY <1>1
  <2>3. PICK s2, m2 : CurrentEmbedding(rs, Later, s2, m2) /\ x[2] = <<Key(s2), Key(m2)>>
    BY <1>1
  <2>4. ModelOf(m1) = ModelOf(m2)
    BY <1>2, <2>1, <2>2, <2>3
  <2> QED BY <2>1, <2>2, <2>3, <2>4
<1>5. ASSUME NEW s1, NEW m1, NEW s2, NEW m2,
             CurrentEmbedding(rs, Earlier, s1, m1), CurrentEmbedding(rs, Later, s2, m2),
             ModelOf(m1) = ModelOf(m2)
      PROVE  <<Key(s1), Key(s2), Key(m1), Key(m2)>> \in AlignmentSources(rs, pair)
  <2> DEFINE y1 == <<Key(s1), Key(m1)>>
             y2 == <<Key(s2), Key(m2)>>
             x == <<y1, y2>>
  <2>1. y1 \in Embedded(Earlier) /\ y2 \in Embedded(Later) /\ Model(y1) = Model(y2)
    BY <1>1, <1>2, <1>5
  <2>2. x \in { z \in Embedded(Earlier) \X Embedded(Later) : Model(z[1]) = Model(z[2]) }
    BY <2>1
  <2>3. <<x[1][1], x[2][1], x[1][2], x[2][2]>> = <<Key(s1), Key(s2), Key(m1), Key(m2)>>
    OBVIOUS
  <2> HIDE DEF x
  <2> QED BY <1>3, <2>2, <2>3
<1> QED BY <1>4, <1>5

\* A run is pinned to the one tuple of runs current when it was started.
LEMMA OneSource ==
  ASSUME NEW rs, Numbered(rs), NEW ds, NEW stage \in StageNames, NEW s,
         NEW p \in Sources(rs, ds, stage, s), NEW q \in Sources(rs, ds, stage, s)
  PROVE  p = q
<1>1. \A t, r : \A x, y \in Current(rs, t, r) : x = y
  BY OneCurrent
<1>2. CASE stage = "extraction"
  BY <1>2 DEF Sources, ExtractionSources
<1>3. CASE stage = "segmentation"
  BY <1>3 DEF Sources, SegmentationSources
<1>4. CASE stage = "embedding"
  BY <1>4 DEF Sources, EmbeddingSources
<1>5. CASE stage = "alignment"
  <2>1. p \in AlignmentSources(rs, s) /\ q \in AlignmentSources(rs, s)
    BY <1>5 DEF Sources
  <2>2. \A r, a, b, c, d : CurrentEmbedding(rs, r, a, b) /\ CurrentEmbedding(rs, r, c, d) => a = c /\ b = d
    BY <1>1, OneSegmentation DEF CurrentEmbedding
  <2> QED BY <2>1, <2>2, AlignmentPins
<1>6. CASE stage = "similarity"
  BY <1>1, <1>6 DEF Sources, SimilaritySources, UsableExtractions
<1>7. CASE stage = "features"
  BY <1>1, <1>7 DEF Sources, FeatureSources, CurrentKeys
<1>8. CASE stage = "language"
  BY <1>1, <1>8 DEF Sources, LanguageSources
<1> QED BY <1>2, <1>3, <1>4, <1>5, <1>6, <1>7, <1>8, StagesAre

LEMMA SourcesRest ==
  ASSUME NEW rs, Sound(rs), NEW ds, NEW stage \in StageNames, NEW s \in Subjects(rs, stage),
         NEW p \in Sources(rs, ds, stage, s), NEW run,
         run.stage = stage, run.subject = s, run.inputs = p
  PROVE  Rests(rs, run)
<1>1. CASE stage = "extraction"
  BY <1>1 DEF Rests, Sources, ExtractionSources, Subjects
<1>2. CASE stage = "segmentation"
  <2>1. PICK x : /\ x \in UNION { UsableExtractions(rs, r) : r \in Reports }
                 /\ Key(x) = s /\ p = <<Key(x)>>
    BY <1>2 DEF Sources, SegmentationSources
  <2>2. PICK r \in Reports : x \in UsableExtractions(rs, r)
    BY <2>1
  <2>3. x \in Successful(rs) /\ x.stage = "extraction"
    BY <2>2, CurrentRuns DEF UsableExtractions
  <2> QED BY <1>2, <2>1, <2>3 DEF Rests
<1>3. CASE stage = "embedding"
  <2>1. PICK k : s \in CurrentKeys(rs, "segmentation", k)
    BY <1>3 DEF Subjects
  <2>2. PICK x \in Current(rs, "segmentation", k) : s = Key(x)
    BY <2>1 DEF CurrentKeys
  <2>3. x \in Successful(rs) /\ x.stage = "segmentation"
    BY CurrentRuns
  <2>4. p = <<s>>
    BY <1>3 DEF Sources, EmbeddingSources
  <2> QED BY <1>3, <2>2, <2>3, <2>4 DEF Rests
<1>4. CASE stage = "alignment"
  <2>1. p \in AlignmentSources(rs, s) /\ s = Pair
    BY <1>4 DEF Sources, Subjects
  <2>2. PICK s1, m1, s2, m2 : /\ CurrentEmbedding(rs, Earlier, s1, m1)
                              /\ CurrentEmbedding(rs, Later, s2, m2)
                              /\ ModelOf(m1) = ModelOf(m2)
                              /\ p = <<Key(s1), Key(s2), Key(m1), Key(m2)>>
    BY <2>1, AlignmentPins DEF Sound
  <2>3. Embeds(rs, Earlier, s1, m1) /\ Embeds(rs, Later, s2, m2)
    BY <2>2, CurrentEmbeddingEmbeds
  <2>4. {s1, m1, s2, m2} \subseteq Successful(rs)
    BY <2>3 DEF Embeds
  <2> QED BY <1>4, <2>1, <2>2, <2>3, <2>4 DEF Rests
<1>5. CASE stage = "similarity"
  <2>1. PICK x \in UsableExtractions(rs, Earlier), y \in UsableExtractions(rs, Later) :
          p = <<Key(x), Key(y)>>
    BY <1>5 DEF Sources, SimilaritySources
  <2>2. x \in Successful(rs) /\ y \in Successful(rs) /\ s = Pair
    BY <1>5, CurrentRuns DEF UsableExtractions, Subjects
  <2> QED BY <1>5, <2>1, <2>2 DEF Rests
<1>6. CASE stage = "features"
  <2>1. s = Pair /\ p \in CurrentKeys(rs, "similarity", Pair) \X CurrentKeys(rs, "alignment", Pair)
    BY <1>6 DEF Sources, FeatureSources, Subjects
  <2>2. PICK x \in Current(rs, "similarity", Pair), y \in Current(rs, "alignment", Pair) :
          p = <<Key(x), Key(y)>>
    BY <2>1 DEF CurrentKeys
  <2>3. /\ x \in Successful(rs) /\ x.stage = "similarity"
        /\ y \in Successful(rs) /\ y.stage = "alignment"
    BY CurrentRuns
  <2> QED BY <1>6, <2>1, <2>2, <2>3 DEF Rests
<1>7. CASE stage = "language"
  <2>1. s = Pair /\ p \in { <<Key(f), f.inputs[2]>> : f \in Current(rs, "features", Pair) }
    BY <1>7 DEF Sources, LanguageSources, Subjects
  <2>2. PICK f \in Current(rs, "features", Pair) : p = <<Key(f), f.inputs[2]>>
    BY <2>1
  <2>3. f \in Successful(rs) /\ f.stage = "features"
    BY CurrentRuns
  <2> QED BY <1>7, <2>1, <2>2, <2>3 DEF Rests
<1> QED BY <1>1, <1>2, <1>3, <1>4, <1>5, <1>6, <1>7, StagesAre

-----------------------------------------------------------------------------
(* What commands add                                                        *)

\* Without --force.
Unforced == FALSE

LEMMA RowFields ==
  ASSUME NEW rs, NEW stage, NEW s, NEW print, NEW p, NEW status
  PROVE  LET x == Row(rs, Attempt(stage, s, print, p), status)
         IN /\ x.stage = stage /\ x.subject = s /\ x.config = print /\ x.inputs = p
            /\ x.status = status /\ x.n = Cardinality(RunsOf(rs, stage, s)) + 1
BY DEF Row, Attempt

\* An attempt that was right when it was started may be recorded.
Startable(rs, attempt) ==
  /\ \E stage, s, print, p : attempt = Attempt(stage, s, print, p)
  /\ Rests(rs, attempt)

LEMMA RecordedSound ==
  ASSUME NEW rs, Sound(rs), NEW attempt, Startable(rs, attempt), NEW status
  PROVE  /\ Sound(Recorded(rs, attempt, status))
         /\ Successful(rs) \subseteq Successful(Recorded(rs, attempt, status))
<1>1. PICK stage, s, print, p : attempt = Attempt(stage, s, print, p)
  BY DEF Startable
<1> DEFINE x == Row(rs, attempt, status)
<1>2. /\ x.stage = stage /\ x.subject = s /\ x.inputs = p /\ x.config = print
      /\ x.n = Cardinality(RunsOf(rs, stage, s)) + 1
      /\ attempt.stage = stage /\ attempt.subject = s /\ attempt.inputs = p
  BY <1>1, RowFields DEF Attempt
<1> HIDE DEF x
<1>3. Rests(rs, x)
  BY <1>2 DEF Startable, Rests
<1>4. Adds(rs, {x})
  BY <1>2, <1>3 DEF Adds
<1> QED BY <1>4, SoundStays, SuccessfulAfter DEF Recorded, x

LEMMA AttemptStartable ==
  ASSUME NEW rs, Sound(rs), NEW cfg, NEW ds, NEW stage \in StageNames,
         NEW s \in Subjects(rs, stage), NEW force,
         NEW attempt \in Attempts(rs, cfg, ds, stage, s, force)
  PROVE  Startable(rs, attempt)
<1>1. PICK p \in Sources(rs, ds, stage, s) : attempt = Attempt(stage, s, Fingerprint(cfg, ds, stage), p)
  BY DEF Attempts
<1>2. attempt.stage = stage /\ attempt.subject = s /\ attempt.inputs = p
  BY <1>1 DEF Attempt
<1> QED BY <1>1, <1>2, SourcesRest DEF Startable

\* The rows the command of a stage adds for a subject.
Added(rs, cfg, ds, stage, s) ==
  { Row(rs, attempt, "COMPLETED") : attempt \in Attempts(rs, cfg, ds, stage, s, Unforced) }

LEMMA RunStageAdds ==
  ASSUME NEW rs, NEW cfg, NEW ds, NEW stage
  PROVE  RunStage(rs, cfg, ds, stage)
           = rs \cup UNION { Added(rs, cfg, ds, stage, s) : s \in Subjects(rs, stage) }
BY DEF RunStage, Added, Unforced

LEMMA AddedRow ==
  ASSUME NEW rs, NEW cfg, NEW ds, NEW stage, NEW s, NEW x \in Added(rs, cfg, ds, stage, s)
  PROVE  /\ x.stage = stage /\ x.subject = s /\ x.n = Cardinality(RunsOf(rs, stage, s)) + 1
         /\ x.status = "COMPLETED" /\ x.config = Fingerprint(cfg, ds, stage)
         /\ x.inputs \in Sources(rs, ds, stage, s)
         /\ ~UpToDate(rs, stage, s, Fingerprint(cfg, ds, stage), x.inputs)
<1>1. PICK p \in Sources(rs, ds, stage, s) :
        /\ ~UpToDate(rs, stage, s, Fingerprint(cfg, ds, stage), p)
        /\ x = Row(rs, Attempt(stage, s, Fingerprint(cfg, ds, stage), p), "COMPLETED")
  BY DEF Added, Attempts, Unforced
<1> QED BY <1>1, RowFields

LEMMA OneAdded ==
  ASSUME NEW rs, Numbered(rs), NEW cfg, NEW ds, NEW stage \in StageNames, NEW s,
         NEW x \in Added(rs, cfg, ds, stage, s), NEW y \in Added(rs, cfg, ds, stage, s)
  PROVE  x = y
BY OneSource DEF Added, Attempts

LEMMA RunStageSound ==
  ASSUME NEW rs, Sound(rs), NEW cfg, NEW ds, NEW stage \in StageNames
  PROVE  Sound(RunStage(rs, cfg, ds, stage))
<1> DEFINE new == UNION { Added(rs, cfg, ds, stage, s) : s \in Subjects(rs, stage) }
<1>1. Adds(rs, new)
  <2>1. \A x \in new : x.n = Cardinality(RunsOf(rs, x.stage, x.subject)) + 1
    BY AddedRow
  <2>2. ASSUME NEW x \in new, NEW y \in new, x.subject = y.subject PROVE x = y
    <3>1. PICK s : x \in Added(rs, cfg, ds, stage, s)
      OBVIOUS
    <3>2. PICK r : y \in Added(rs, cfg, ds, stage, r)
      OBVIOUS
    <3>3. s = r
      BY <2>2, <3>1, <3>2, AddedRow
    <3> QED BY <3>1, <3>2, <3>3, OneAdded DEF Sound
  <2>3. ASSUME NEW x \in new PROVE Rests(rs, x)
    <3>1. PICK s \in Subjects(rs, stage) : x \in Added(rs, cfg, ds, stage, s)
      OBVIOUS
    <3>2. x.stage = stage /\ x.subject = s /\ x.inputs \in Sources(rs, ds, stage, s)
      BY <3>1, AddedRow
    <3> QED BY <3>2, SourcesRest
  <2> QED BY <2>1, <2>2, <2>3 DEF Adds
<1> HIDE DEF new
<1>2. Sound(rs \cup new)
  BY <1>1, SoundStays
<1> QED BY <1>2, RunStageAdds DEF new

-----------------------------------------------------------------------------
(* The commands in order                                                    *)

LEMMA StagesIterate ==
  ASSUME NEW rs, NEW cfg, NEW ds, NEW n \in 0 .. 7
  PROVE  \E f : /\ f[0] = rs
                /\ \A i \in 1 .. n : f[i] = RunStage(f[i - 1], cfg, ds, Stages[i])
                /\ RunStages(rs, cfg, ds, n) = f[n]
<1> DEFINE step(r, i) == RunStage(r, cfg, ds, Stages[i])
           r1 == step(rs, 1)
           r2 == step(r1, 2)
           r3 == step(r2, 3)
           r4 == step(r3, 4)
           r5 == step(r4, 5)
           r6 == step(r5, 6)
           r7 == step(r6, 7)
           all == [i \in 0 .. 7 |-> CASE i = 0 -> rs [] i = 1 -> r1 [] i = 2 -> r2 [] i = 3 -> r3
                                      [] i = 4 -> r4 [] i = 5 -> r5 [] i = 6 -> r6 [] i = 7 -> r7]
           states == [i \in 0 .. n |-> all[i]]
           Runs(f) == f = [i \in 0 .. n |-> IF i = 0 THEN rs ELSE step(f[i - 1], i)]
           after == CHOOSE f : Runs(f)
<1>1. \A i \in 0 .. 7 : all[i] = IF i = 0 THEN rs ELSE step(all[i - 1], i)
  <2> HIDE DEF step
  <2>1. /\ r1 = step(rs, 1) /\ r2 = step(r1, 2) /\ r3 = step(r2, 3) /\ r4 = step(r3, 4)
        /\ r5 = step(r4, 5) /\ r6 = step(r5, 6) /\ r7 = step(r6, 7)
    OBVIOUS
  <2> HIDE DEF r1, r2, r3, r4, r5, r6, r7
  <2>2. /\ all[0] = rs /\ all[1] = r1 /\ all[2] = r2 /\ all[3] = r3 /\ all[4] = r4
        /\ all[5] = r5 /\ all[6] = r6 /\ all[7] = r7
    OBVIOUS
  <2> HIDE DEF all
  <2> TAKE i \in 0 .. 7
  <2>3. i = 0 \/ i = 1 \/ i = 2 \/ i = 3 \/ i = 4 \/ i = 5 \/ i = 6 \/ i = 7
    OBVIOUS
  <2> QED BY <2>1, <2>2, <2>3
<1> HIDE DEF step, all
<1>2. Runs(states)
  <2>1. \A i \in 0 .. n : states[i] = IF i = 0 THEN rs ELSE step(states[i - 1], i)
    <3> TAKE i \in 0 .. n
    <3>1. states[i] = all[i] /\ (i # 0 => states[i - 1] = all[i - 1])
      OBVIOUS
    <3> HIDE DEF states
    <3> QED BY <1>1, <3>1
  <2> QED BY <2>1
<1>3. Runs(after)
  BY <1>2
<1>4. RunStages(rs, cfg, ds, n) = after[n]
  BY DEF RunStages, step
<1> HIDE DEF after
<1>5. after[0] = rs /\ \A i \in 1 .. n : after[i] = step(after[i - 1], i)
  BY <1>3
<1> QED BY <1>4, <1>5 DEF step

LEMMA RunStagesSound ==
  ASSUME NEW rs, Sound(rs), NEW cfg, NEW ds, NEW n \in 0 .. 7
  PROVE  Sound(RunStages(rs, cfg, ds, n))
<1>1. PICK f : /\ f[0] = rs
               /\ \A i \in 1 .. n : f[i] = RunStage(f[i - 1], cfg, ds, Stages[i])
               /\ RunStages(rs, cfg, ds, n) = f[n]
  BY StagesIterate
<1> DEFINE S == { i \in 0 .. n : Sound(f[i]) }
<1>2. 0 \in S
  BY <1>1
<1>3. \A i \in 1 .. n : i - 1 \in S => i \in S
  BY <1>1, RunStageSound, StagesAre
<1> HIDE DEF S
<1>4. 0 .. n \subseteq S
  BY <1>2, <1>3, UpTo
<1> QED BY <1>1, <1>4 DEF S

-----------------------------------------------------------------------------
(* The invariant of the runs                                                *)

RunsInv == Sound(runs) /\ (slow # None => Startable(runs, slow))

LEMMA InitRuns ==
  ASSUME Init
  PROVE  RunsInv
<1>1. PICK start \in Starts : runs = RunStages({}, config, dictionaries, start[1])
  BY DEF Init
<1>2. start[1] \in 0 .. 7
  BY StartsTyped, StagesAre
<1>3. Sound({})
  <2>1. \A stage, s : RunsOf({}, stage, s) = {}
    BY DEF RunsOf
  <2> QED BY <2>1, FS_EmptySet DEF Sound, Numbered, Successful
<1>4. Sound(runs)
  BY <1>1, <1>2, <1>3, RunStagesSound
<1> QED BY <1>4 DEF RunsInv, Init

LEMMA StartableStays ==
  ASSUME NEW rs, NEW more, Successful(rs) \subseteq Successful(more), NEW attempt,
         Startable(rs, attempt)
  PROVE  Startable(more, attempt)
BY RestsStays DEF Startable

LEMMA NextRuns ==
  ASSUME RunsInv, [Next]_vars
  PROVE  RunsInv' /\ Successful(runs) \subseteq Successful(runs')
<1> USE DEF RunsInv
<1>1. ASSUME NEW stage \in StageNames, Command(stage)
      PROVE  RunsInv' /\ Successful(runs) \subseteq Successful(runs')
  <2>1. PICK s \in Subjects(runs, stage), force \in BOOLEAN, status \in {"COMPLETED", "FAILED"} :
          \E attempt \in Attempts(runs, config, dictionaries, stage, s, force) :
            Records(attempt, status) /\ UNCHANGED slow
    BY <1>1 DEF Command
  <2>2. PICK attempt \in Attempts(runs, config, dictionaries, stage, s, force) :
          Records(attempt, status) /\ UNCHANGED slow
    BY <2>1
  <2>3. Startable(runs, attempt)
    BY AttemptStartable
  <2> QED BY <2>2, <2>3, RecordedSound, StartableStays DEF Records
<1>2. CASE SlowCommandSelects
  <2>1. PICK stage \in SlowStages : \E s \in Subjects(runs, stage) :
          slow' \in Attempts(runs, config, dictionaries, stage, s, FALSE)
    BY <1>2 DEF SlowCommandSelects
  <2>2. stage \in StageNames
    BY StagesTyped DEF StageNames
  <2>3. Startable(runs, slow')
    BY <2>1, <2>2, AttemptStartable
  <2> QED BY <1>2, <2>3 DEF SlowCommandSelects
<1>3. CASE SlowCommandCommits
  BY <1>3, RecordedSound DEF SlowCommandCommits, Records
<1>4. CASE SlowCommandDies
  BY <1>4 DEF SlowCommandDies
<1>5. CASE UNCHANGED <<runs, slow>>
  BY <1>5
<1>6. {"extraction", "segmentation", "embedding", "alignment", "similarity", "features",
       "language"} \subseteq StageNames
  BY StagesAre
<1>7. Deploy \/ ImportDictionary => UNCHANGED <<runs, slow>>
  BY DEF Deploy, ImportDictionary
<1>8. ReadFeatureRun \/ ReadFeatures \/ ReadLanguageRun \/ ReadLanguageFeatures \/ ReadPassages
        \/ ReadLaterPassages => UNCHANGED <<runs, slow>>
  BY DEF ReadFeatureRun, ReadFeatures, ReadLanguageRun, ReadLanguageFeatures, ReadPassages,
         ReadLaterPassages, Reads
<1>9. UNCHANGED vars => UNCHANGED <<runs, slow>>
  BY DEF vars
<1> QED BY <1>1, <1>2, <1>3, <1>4, <1>5, <1>6, <1>7, <1>8, <1>9
        DEF Next, Extract, Segment, Embed, Align, Score, BuildFeatures, BuildLanguageSignals

LEMMA SoundLineage ==
  ASSUME RunsInv
  PROVE  LineageConsistent
<1> SUFFICES ASSUME NEW run \in Successful(runs)
             PROVE  LET source == [i \in DOMAIN run.inputs |-> RunAt(Successful(runs), run.inputs[i])]
                        report(s) == RunAt(runs, s.subject).subject
                    IN /\ \A i \in DOMAIN run.inputs : \E s \in Successful(runs) : Key(s) = run.inputs[i]
                       /\ run.stage = "alignment" =>
                            /\ report(source[1]) = Earlier /\ report(source[2]) = Later
                            /\ source[3].subject = run.inputs[1] /\ source[4].subject = run.inputs[2]
                            /\ ModelOf(source[3]) = ModelOf(source[4])
                       /\ run.stage = "features" =>
                            source[1].stage = "similarity" /\ source[2].stage = "alignment"
                       /\ run.stage = "language" => source[1].inputs[2] = run.inputs[2]
  BY DEF LineageConsistent
<1> DEFINE source == [i \in DOMAIN run.inputs |-> RunAt(Successful(runs), run.inputs[i])]
           report(s) == RunAt(runs, s.subject).subject
<1>1. Rests(runs, run) /\ Numbered(runs)
  BY DEF RunsInv, Sound
<1>2. \A x \in Successful(runs) : x \in runs /\ RunAt(runs, Key(x)) = x /\ RunAt(Successful(runs), Key(x)) = x
  BY <1>1, RunAtItsKey DEF Successful
<1>3. CASE run.stage = "extraction"
  <2>1. DOMAIN run.inputs = {}
    BY <1>1, <1>3 DEF Rests
  <2> QED BY <1>3, <2>1
<1>4. CASE run.stage \in {"segmentation", "embedding"}
  <2>1. PICK e \in Successful(runs) : run.inputs = <<Key(e)>>
    BY <1>1, <1>4 DEF Rests
  <2>2. DOMAIN run.inputs = {1}
    BY <2>1
  <2> QED BY <1>4, <2>1, <2>2
<1>5. CASE run.stage = "alignment"
  <2>1. PICK s1 \in Successful(runs), m1 \in Successful(runs),
             s2 \in Successful(runs), m2 \in Successful(runs) :
          /\ Embeds(runs, Earlier, s1, m1) /\ Embeds(runs, Later, s2, m2) /\ ModelOf(m1) = ModelOf(m2)
          /\ run.inputs = <<Key(s1), Key(s2), Key(m1), Key(m2)>>
    BY <1>1, <1>5 DEF Rests
  <2>2. DOMAIN run.inputs = 1 .. 4
    BY <2>1
  <2>3. source[1] = s1 /\ source[2] = s2 /\ source[3] = m1 /\ source[4] = m2
    BY <1>2, <2>1, <2>2
  <2>4. PICK e1 \in Successful(runs) : s1.subject = Key(e1) /\ e1.subject = Earlier
    BY <2>1 DEF Embeds
  <2>5. PICK e2 \in Successful(runs) : s2.subject = Key(e2) /\ e2.subject = Later
    BY <2>1 DEF Embeds
  <2>6. m1.subject = Key(s1) /\ m2.subject = Key(s2)
    BY <2>1 DEF Embeds
  <2>7. report(s1) = Earlier /\ report(s2) = Later
    BY <1>2, <2>4, <2>5
  <2>8. run.inputs[1] = Key(s1) /\ run.inputs[2] = Key(s2)
    BY <2>1
  <2>9. \A i \in DOMAIN run.inputs : \E s \in Successful(runs) : Key(s) = run.inputs[i]
    <3>1. \A i \in 1 .. 4 : i = 1 \/ i = 2 \/ i = 3 \/ i = 4
      OBVIOUS
    <3> QED BY <2>1, <2>2, <3>1
  <2> HIDE DEF source, report
  <2> QED BY <1>5, <2>1, <2>3, <2>6, <2>7, <2>8, <2>9 DEF source, report
<1>6. CASE run.stage = "similarity"
  <2>1. PICK e1 \in Successful(runs), e2 \in Successful(runs) : run.inputs = <<Key(e1), Key(e2)>>
    BY <1>1, <1>6 DEF Rests
  <2>2. DOMAIN run.inputs = {1, 2}
    BY <2>1
  <2> QED BY <1>6, <2>1, <2>2
<1>7. CASE run.stage = "features"
  <2>1. PICK s \in Successful(runs), a \in Successful(runs) :
          s.stage = "similarity" /\ a.stage = "alignment" /\ run.inputs = <<Key(s), Key(a)>>
    BY <1>1, <1>7 DEF Rests
  <2>2. DOMAIN run.inputs = {1, 2}
    BY <2>1
  <2>3. source[1] = s /\ source[2] = a
    BY <1>2, <2>1, <2>2
  <2> QED BY <1>7, <2>1, <2>2, <2>3
<1>8. CASE run.stage = "language"
  <2>1. PICK f \in Successful(runs) : f.stage = "features" /\ run.inputs = <<Key(f), f.inputs[2]>>
    BY <1>1, <1>8 DEF Rests
  <2>2. PICK s \in Successful(runs), a \in Successful(runs) : f.inputs = <<Key(s), Key(a)>>
    BY <2>1 DEF RunsInv, Sound, Rests
  <2>3. DOMAIN run.inputs = {1, 2} /\ run.inputs = <<Key(f), Key(a)>>
    BY <2>1, <2>2
  <2>4. source[1] = f
    BY <1>2, <2>3
  <2> QED BY <1>8, <2>1, <2>3, <2>4
<1> QED BY <1>1, <1>3, <1>4, <1>5, <1>6, <1>7, <1>8, StagesAre DEF Rests

-----------------------------------------------------------------------------
(* What the commands of a stage leave of the others                         *)

\* The stages whose runs a stage is made from.
Upstream(stage) ==
  CASE stage = "segmentation" -> {"extraction"}
    [] stage = "embedding" -> {"extraction", "segmentation"}
    [] stage = "alignment" -> {"extraction", "segmentation", "embedding"}
    [] stage = "similarity" -> {"extraction"}
    [] stage = "features" -> {"similarity", "alignment"}
    [] stage = "language" -> {"features"}
    [] OTHER -> {}

\* A command of a stage would do nothing.
StageSettled(rs, cfg, ds, stage) ==
  \A s \in Subjects(rs, stage) : \A p \in Sources(rs, ds, stage, s) :
    UpToDate(rs, stage, s, Fingerprint(cfg, ds, stage), p)

LEMMA RunsOfAfter ==
  ASSUME NEW rs, NEW cfg, NEW ds, NEW stage, NEW t, NEW s
  PROVE  RunsOf(RunStage(rs, cfg, ds, stage), t, s)
           = RunsOf(rs, t, s) \cup
               (IF t = stage /\ s \in Subjects(rs, stage) THEN Added(rs, cfg, ds, stage, s) ELSE {})
<1> DEFINE after == RunStage(rs, cfg, ds, stage)
<1>1. \A x : x \in after <=> x \in rs \/ \E r \in Subjects(rs, stage) : x \in Added(rs, cfg, ds, stage, r)
  BY RunStageAdds
<1>2. \A r : \A x \in Added(rs, cfg, ds, stage, r) : x.stage = stage /\ x.subject = r
  BY AddedRow
<1> HIDE DEF after
<1>3. \A x \in RunsOf(after, t, s) :
        \/ x \in RunsOf(rs, t, s)
        \/ t = stage /\ s \in Subjects(rs, stage) /\ x \in Added(rs, cfg, ds, stage, s)
  BY <1>1, <1>2 DEF RunsOf
<1>4. RunsOf(rs, t, s) \subseteq RunsOf(after, t, s)
  BY <1>1 DEF RunsOf
<1>5. t = stage /\ s \in Subjects(rs, stage) => Added(rs, cfg, ds, stage, s) \subseteq RunsOf(after, t, s)
  BY <1>1, <1>2 DEF RunsOf
<1> QED BY <1>3, <1>4, <1>5 DEF after

LEMMA SuccessfulRunsOf ==
  ASSUME NEW rs, NEW stage, NEW s
  PROVE  RunsOf(Successful(rs), stage, s) = { run \in RunsOf(rs, stage, s) : run.status = "COMPLETED" }
BY DEF RunsOf, Successful

LEMMA CurrentElsewhere ==
  ASSUME NEW rs, NEW cfg, NEW ds, NEW stage, NEW t, NEW s, t # stage
  PROVE  Current(RunStage(rs, cfg, ds, stage), t, s) = Current(rs, t, s)
<1>1. RunsOf(RunStage(rs, cfg, ds, stage), t, s)
        = RunsOf(rs, t, s) \cup
            (IF t = stage /\ s \in Subjects(rs, stage) THEN Added(rs, cfg, ds, stage, s) ELSE {})
  BY RunsOfAfter
<1>2. RunsOf(RunStage(rs, cfg, ds, stage), t, s) = RunsOf(rs, t, s)
  BY <1>1
<1> QED BY <1>2, SuccessfulRunsOf DEF Current

LEMMA SegmentationElsewhere ==
  ASSUME NEW rs, NEW cfg, NEW ds, NEW stage, stage \notin {"extraction", "segmentation"}, NEW r
  PROVE  CurrentSegmentation(RunStage(rs, cfg, ds, stage), r) = CurrentSegmentation(rs, r)
BY CurrentElsewhere DEF CurrentSegmentation, CurrentKeys

\* The successful runs of a stage are those the stage's own commands make.
LEMMA SuccessfulElsewhere ==
  ASSUME NEW rs, NEW cfg, NEW ds, NEW stage, NEW t, t # stage
  PROVE  \A x : x.stage = t =>
           (x \in Successful(RunStage(rs, cfg, ds, stage)) <=> x \in Successful(rs))
<1>1. \A x : x \in RunStage(rs, cfg, ds, stage) <=>
               x \in rs \/ \E s \in Subjects(rs, stage) : x \in Added(rs, cfg, ds, stage, s)
  BY RunStageAdds
<1>2. \A s : \A x \in Added(rs, cfg, ds, stage, s) : x.stage = stage
  BY AddedRow
<1> QED BY <1>1, <1>2 DEF Successful

LEMMA SubjectsElsewhere ==
  ASSUME NEW rs, NEW cfg, NEW ds, NEW stage \in StageNames, NEW t \in StageNames, stage \notin Upstream(t)
  PROVE  Subjects(RunStage(rs, cfg, ds, stage), t) = Subjects(rs, t)
<1> DEFINE after == RunStage(rs, cfg, ds, stage)
<1>1. \A u, s : u # stage => CurrentKeys(after, u, s) = CurrentKeys(rs, u, s)
  BY CurrentElsewhere DEF CurrentKeys
<1> HIDE DEF after
<1>2. CASE t = "segmentation"
  BY <1>1, <1>2 DEF Subjects, Upstream, after
<1>3. CASE t = "embedding"
  <2>1. stage # "extraction" /\ stage # "segmentation"
    BY <1>3 DEF Upstream
  <2>2. \A x : x.stage = "extraction" => (x \in Successful(after) <=> x \in Successful(rs))
    BY <2>1, SuccessfulElsewhere DEF after
  <2> QED BY <1>1, <1>3, <2>1, <2>2 DEF Subjects, after
<1>4. CASE t \notin {"segmentation", "embedding"}
  BY <1>4 DEF Subjects
<1> QED BY <1>2, <1>3, <1>4

LEMMA SourcesElsewhere ==
  ASSUME NEW rs, Sound(rs), NEW cfg, NEW ds, NEW stage \in StageNames, NEW t \in StageNames,
         stage \notin Upstream(t), NEW s \in Subjects(rs, t)
  PROVE  Sources(RunStage(rs, cfg, ds, stage), ds, t, s) = Sources(rs, ds, t, s)
<1> DEFINE after == RunStage(rs, cfg, ds, stage)
<1>1. \A u, r : u # stage => Current(after, u, r) = Current(rs, u, r)
  BY CurrentElsewhere
<1>2. Numbered(rs) /\ Numbered(after)
  BY RunStageSound DEF Sound
<1>0. stage # "extraction" => \A r : UsableExtractions(after, r) = UsableExtractions(rs, r)
  BY <1>1 DEF UsableExtractions
<1> HIDE DEF after
<1>3. CASE t = "extraction"
  BY <1>3 DEF Sources, ExtractionSources, after
<1>4. CASE t = "segmentation"
  BY <1>0, <1>4 DEF Sources, SegmentationSources, Upstream, after
<1>5. CASE t = "embedding"
  <2>1. stage # "segmentation"
    BY <1>5 DEF Upstream
  <2>2. PICK k, y : y \in Current(rs, "segmentation", k) /\ s = Key(y)
    BY <1>5 DEF Subjects, CurrentKeys
  <2>3. y.stage = "segmentation"
    BY <2>2, CurrentRuns
  <2>4. \A x : Key(x) = s => x.stage = "segmentation"
    BY <2>2, <2>3, KeyFields
  <2>5. \A x : x.stage = "segmentation" => (x \in Successful(after) <=> x \in Successful(rs))
    BY <2>1, SuccessfulElsewhere DEF after
  <2>6. { x \in Successful(after) : Key(x) = s } = { x \in Successful(rs) : Key(x) = s }
    BY <2>4, <2>5
  <2> QED BY <1>5, <2>6 DEF Sources, EmbeddingSources, after
<1>6. CASE t = "alignment"
  <2>1. stage \notin {"extraction", "segmentation", "embedding"}
    BY <1>6 DEF Upstream
  <2>2. \A r, x, y : CurrentEmbedding(after, r, x, y) <=> CurrentEmbedding(rs, r, x, y)
    BY <1>1, <2>1, SegmentationElsewhere DEF CurrentEmbedding, after
  <2>3. \A p : p \in AlignmentSources(after, s) <=> p \in AlignmentSources(rs, s)
    BY <1>2, <2>2, AlignmentPins
  <2>4. AlignmentSources(after, s) = AlignmentSources(rs, s)
    <3>1. \A p \in AlignmentSources(after, s) : p \in AlignmentSources(rs, s)
      BY <2>3
    <3>2. \A p \in AlignmentSources(rs, s) : p \in AlignmentSources(after, s)
      BY <2>3
    <3> QED BY <3>1, <3>2
  <2> QED BY <1>6, <2>4 DEF Sources, after
<1>7. CASE t = "similarity"
  BY <1>0, <1>7 DEF Sources, SimilaritySources, Upstream, after
<1>8. CASE t = "features"
  BY <1>1, <1>8 DEF Sources, FeatureSources, CurrentKeys, Upstream, after
<1>9. CASE t = "language"
  BY <1>1, <1>9 DEF Sources, LanguageSources, Upstream, after
<1> QED BY <1>3, <1>4, <1>5, <1>6, <1>7, <1>8, <1>9, StagesAre

LEMMA SettledStays ==
  ASSUME NEW rs, Sound(rs), NEW cfg, NEW ds, NEW stage \in StageNames, NEW t \in StageNames \ {stage},
         stage \notin Upstream(t), StageSettled(rs, cfg, ds, t)
  PROVE  StageSettled(RunStage(rs, cfg, ds, stage), cfg, ds, t)
<1> DEFINE after == RunStage(rs, cfg, ds, stage)
<1>1. Subjects(after, t) = Subjects(rs, t)
  BY SubjectsElsewhere
<1>2. \A s \in Subjects(rs, t) : Sources(after, ds, t, s) = Sources(rs, ds, t, s)
  BY SourcesElsewhere
<1>3. \A s : Current(after, t, s) = Current(rs, t, s)
  BY CurrentElsewhere
<1> HIDE DEF after
<1> QED BY <1>1, <1>2, <1>3 DEF StageSettled, UpToDate, after

LEMMA StageSettles ==
  ASSUME NEW rs, Sound(rs), NEW cfg, NEW ds, NEW stage \in StageNames
  PROVE  StageSettled(RunStage(rs, cfg, ds, stage), cfg, ds, stage)
<1> DEFINE after == RunStage(rs, cfg, ds, stage)
           print == Fingerprint(cfg, ds, stage)
<1>1. stage \notin Upstream(stage)
  BY DEF Upstream
<1>2. Subjects(after, stage) = Subjects(rs, stage)
  BY <1>1, SubjectsElsewhere
<1> SUFFICES ASSUME NEW s \in Subjects(rs, stage), NEW p \in Sources(rs, ds, stage, s)
             PROVE  UpToDate(after, stage, s, print, p)
  BY <1>1, <1>2, SourcesElsewhere DEF StageSettled
<1> DEFINE new == Added(rs, cfg, ds, stage, s)
           old == RunsOf(rs, stage, s)
<1>3. RunsOf(after, stage, s) = old \cup new
  <2>1. RunsOf(after, stage, s) =
          old \cup (IF stage = stage /\ s \in Subjects(rs, stage) THEN new ELSE {})
    BY RunsOfAfter
  <2> QED BY <2>1
<1>4. CASE UpToDate(rs, stage, s, print, p)
  <2>1. \A q \in Sources(rs, ds, stage, s) : q = p
    BY OneSource DEF Sound
  <2>2. new = {}
    BY <1>4, <2>1, AddedRow
  <2> HIDE DEF after, new, print
  <2>3. Current(after, stage, s) = Current(rs, stage, s)
    BY <1>3, <2>2, SuccessfulRunsOf DEF Current
  <2> QED BY <1>4, <2>3 DEF UpToDate
<1>5. CASE ~UpToDate(rs, stage, s, print, p)
  <2> DEFINE run == Row(rs, Attempt(stage, s, print, p), "COMPLETED")
  <2>1. run \in new
    BY <1>5 DEF Added, Attempts, Unforced
  <2>2. new = {run}
    <3>1. \A x \in new : x = run
      BY <2>1, OneAdded DEF Sound
    <3> QED BY <2>1, <3>1
  <2>3. run.n = Cardinality(old) + 1 /\ run.status = "COMPLETED" /\ run.config = print /\ run.inputs = p
    BY RowFields
  <2>4. Cardinality(old) \in Nat /\ \A x \in old : x.n \in 1 .. Cardinality(old)
    BY FS_CardinalityType DEF Sound, Numbered
  <2> HIDE DEF run, old, new, after
  <2>5. \A x \in old \cup new : x.n <= run.n
    BY <2>2, <2>3, <2>4
  <2>6. RunsOf(Successful(after), stage, s) = { x \in old \cup new : x.status = "COMPLETED" }
    BY <1>3, SuccessfulRunsOf
  <2>7. run \in Current(after, stage, s)
    BY <2>1, <2>3, <2>5, <2>6 DEF Current
  <2> QED BY <2>3, <2>7 DEF UpToDate
<1> QED BY <1>4, <1>5

\* A stage reads what stages before it have made.
LEMMA StageOrder ==
  ASSUME NEW i \in 1 .. 7, NEW j \in 1 .. 7, j < i
  PROVE  Stages[i] # Stages[j] /\ Stages[i] \notin Upstream(Stages[j])
<1>1. /\ Stages[1] = "extraction" /\ Stages[2] = "segmentation" /\ Stages[3] = "embedding"
      /\ Stages[4] = "alignment" /\ Stages[5] = "similarity" /\ Stages[6] = "features"
      /\ Stages[7] = "language"
  BY DEF Stages
<1> HIDE DEF Stages
<1>2. i = 1 \/ i = 2 \/ i = 3 \/ i = 4 \/ i = 5 \/ i = 6 \/ i = 7
  OBVIOUS
<1>3. j = 1 \/ j = 2 \/ j = 3 \/ j = 4 \/ j = 5 \/ j = 6 \/ j = 7
  OBVIOUS
<1>4. CASE j = 1 \/ j = 2 \/ j = 7
  BY <1>1, <1>2, <1>4 DEF Upstream
<1>5. CASE j = 3 \/ j = 4
  BY <1>1, <1>2, <1>5 DEF Upstream
<1>6. CASE j = 5 \/ j = 6
  BY <1>1, <1>2, <1>6 DEF Upstream
<1> QED BY <1>3, <1>4, <1>5, <1>6

LEMMA PassSettlesAll ==
  ASSUME NEW rs, Sound(rs), NEW cfg, NEW ds
  PROVE  LET after == RunStages(rs, cfg, ds, Len(Stages))
         IN Sound(after) /\ \A stage \in StageNames : StageSettled(after, cfg, ds, stage)
<1>1. Len(Stages) = 7 /\ 7 \in 0 .. 7
  BY StagesAre
<1>2. PICK f : /\ f[0] = rs
               /\ \A i \in 1 .. 7 : f[i] = RunStage(f[i - 1], cfg, ds, Stages[i])
               /\ RunStages(rs, cfg, ds, 7) = f[7]
  BY <1>1, StagesIterate
<1> DEFINE Done(i) == Sound(f[i]) /\ \A j \in 1 .. i : StageSettled(f[i], cfg, ds, Stages[j])
           S == { i \in 0 .. 7 : Done(i) }
<1>3. 0 \in S
  BY <1>2
<1>4. \A i \in 1 .. 7 : i - 1 \in S => i \in S
  <2> SUFFICES ASSUME NEW i \in 1 .. 7, Done(i - 1) PROVE Done(i)
    OBVIOUS
  <2>1. f[i] = RunStage(f[i - 1], cfg, ds, Stages[i]) /\ Stages[i] \in StageNames
    BY <1>2, StagesAre
  <2>2. Sound(f[i])
    BY <2>1, RunStageSound
  <2>3. StageSettled(f[i], cfg, ds, Stages[i])
    BY <2>1, StageSettles
  <2>4. ASSUME NEW j \in 1 .. i - 1 PROVE StageSettled(f[i], cfg, ds, Stages[j])
    <3>1. j \in 1 .. 7 /\ j < i
      OBVIOUS
    <3>2. Stages[j] \in StageNames \ {Stages[i]} /\ Stages[i] \notin Upstream(Stages[j])
      BY <3>1, StageOrder, StagesAre
    <3>3. StageSettled(f[i - 1], cfg, ds, Stages[j]) /\ Sound(f[i - 1])
      OBVIOUS
    <3> QED BY <2>1, <3>2, <3>3, SettledStays
  <2>5. \A j \in 1 .. i : j = i \/ j \in 1 .. i - 1
    OBVIOUS
  <2> QED BY <2>2, <2>3, <2>4, <2>5
<1> HIDE DEF S, Done
<1>5. 0 .. 7 \subseteq S
  BY <1>3, <1>4, UpTo
<1>6. Done(7)
  BY <1>1, <1>5 DEF S
<1>7. Sound(f[7]) /\ \A j \in 1 .. 7 : StageSettled(f[7], cfg, ds, Stages[j])
  BY <1>6 DEF Done
<1>8. StageNames = { Stages[j] : j \in 1 .. 7 }
  BY StagesAre DEF StageNames, Stages, Range
<1> QED BY <1>1, <1>2, <1>7, <1>8

-----------------------------------------------------------------------------
(* An up-to-date database                                                   *)

LEMMA SettledRun ==
  ASSUME NEW rs, Sound(rs), NEW cfg, NEW ds, NEW stage, StageSettled(rs, cfg, ds, stage),
         NEW s \in Subjects(rs, stage), NEW p \in Sources(rs, ds, stage, s)
  PROVE  \E run \in Current(rs, stage, s) :
           /\ run.inputs = p /\ run.config = Fingerprint(cfg, ds, stage)
           /\ \A x \in Current(rs, stage, s) : x = run
<1>1. PICK run \in Current(rs, stage, s) : run.config = Fingerprint(cfg, ds, stage) /\ run.inputs = p
  BY DEF StageSettled, UpToDate
<1>2. \A x \in Current(rs, stage, s) : x = run
  BY OneCurrent DEF Sound
<1> QED BY <1>1, <1>2

\* No language signals were built before a dictionary was imported.
Signals(rs, ds) == ds = <<>> => \A run \in Successful(rs) : run.stage # "language"

LEMMA SettledEmbedding ==
  ASSUME NEW rs, Sound(rs), NEW cfg, NEW ds,
         \A stage \in StageNames : StageSettled(rs, cfg, ds, stage),
         NEW r \in Reports, NEW e \in UsableExtractions(rs, r)
  PROVE  \E s, m : CurrentEmbedding(rs, r, s, m) /\ m.config = Fingerprint(cfg, ds, "embedding")
<1>1. e \in Current(rs, "extraction", r) /\ e \in Successful(rs) /\ e.stage = "extraction"
  BY CurrentRuns DEF UsableExtractions
<1>2. Key(e) \in Subjects(rs, "segmentation")
  BY <1>1 DEF Subjects, CurrentKeys
<1>3. <<Key(e)>> \in Sources(rs, ds, "segmentation", Key(e))
  BY DEF Sources, SegmentationSources
<1>4. "segmentation" \in StageNames /\ "embedding" \in StageNames
  BY StagesAre
<1>5. PICK s : s \in Current(rs, "segmentation", Key(e))
  BY <1>2, <1>3, <1>4, SettledRun
<1>6. s \in Successful(rs)
  BY <1>5, CurrentRuns
<1>7. Key(s) \in Subjects(rs, "embedding")
  BY <1>1, <1>5 DEF Subjects, CurrentKeys
<1>8. <<Key(s)>> \in Sources(rs, ds, "embedding", Key(s))
  BY <1>6 DEF Sources, EmbeddingSources
<1>9. PICK m \in Current(rs, "embedding", Key(s)) : m.config = Fingerprint(cfg, ds, "embedding")
  BY <1>4, <1>7, <1>8, SettledRun
<1>10. s \in CurrentSegmentation(rs, r)
  BY <1>1, <1>5 DEF CurrentSegmentation, CurrentKeys
<1> QED BY <1>9, <1>10 DEF CurrentEmbedding

LEMMA SettledCoherent ==
  ASSUME NEW rs, Sound(rs), Signals(rs, dictionaries), BothUsable(rs),
         \A stage \in StageNames : StageSettled(rs, config, dictionaries, stage)
  PROVE  /\ Coherent(rs)
         /\ Current(rs, "features", Pair) # {}
         /\ dictionaries # <<>> => Current(rs, "language", Pair) # {}
<1> DEFINE print(stage) == Fingerprint(config, dictionaries, stage)
<1>1. PICK e1 : e1 \in UsableExtractions(rs, Earlier)
  BY DEF BothUsable, Reports
<1>2. PICK e2 : e2 \in UsableExtractions(rs, Later)
  BY DEF BothUsable, Reports
<1>3. Earlier \in Reports /\ Later \in Reports
  BY DEF Reports
<1>4. PICK s1, m1 : CurrentEmbedding(rs, Earlier, s1, m1) /\ m1.config = print("embedding")
  BY <1>1, <1>3, SettledEmbedding
<1>5. PICK s2, m2 : CurrentEmbedding(rs, Later, s2, m2) /\ m2.config = print("embedding")
  BY <1>2, <1>3, SettledEmbedding
<1> HIDE DEF print
<1>6. {"alignment", "similarity", "features", "language"} \subseteq StageNames
      /\ \A stage \in {"alignment", "similarity", "features", "language"} : Pair \in Subjects(rs, stage)
  BY StagesAre DEF Subjects
<1> DEFINE pa == <<Key(s1), Key(s2), Key(m1), Key(m2)>>
           ps == <<Key(e1), Key(e2)>>
<1>7. pa \in Sources(rs, dictionaries, "alignment", Pair)
  BY <1>4, <1>5, AlignmentPins DEF Sources, Sound, ModelOf
<1>8. ps \in Sources(rs, dictionaries, "similarity", Pair)
  BY <1>1, <1>2 DEF Sources, SimilaritySources
<1> HIDE DEF pa, ps
<1>9. PICK a \in Current(rs, "alignment", Pair) :
        a.inputs = pa /\ a.config = print("alignment")
        /\ \A x \in Current(rs, "alignment", Pair) : x = a
  BY <1>6, <1>7, SettledRun DEF print
<1>10. PICK s \in Current(rs, "similarity", Pair) :
        s.inputs = ps /\ s.config = print("similarity")
        /\ \A x \in Current(rs, "similarity", Pair) : x = s
  BY <1>6, <1>8, SettledRun DEF print
<1>11. <<Key(s), Key(a)>> \in FeatureSources(rs, Pair)
  BY <1>9, <1>10 DEF FeatureSources, CurrentKeys
<1>12. <<Key(s), Key(a)>> \in Sources(rs, dictionaries, "features", Pair)
  BY <1>11 DEF Sources
<1>13. PICK f \in Current(rs, "features", Pair) :
        f.inputs = <<Key(s), Key(a)>> /\ f.config = print("features")
        /\ \A x \in Current(rs, "features", Pair) : x = f
  BY <1>6, <1>12, SettledRun DEF print
<1>14. \A l \in Current(rs, "language", Pair) :
         l.inputs \in LanguageSources(rs, dictionaries, Pair) /\ l.config = print("language")
  <2>1. CASE dictionaries = <<>>
    BY <2>1, CurrentRuns DEF Signals
  <2>2. CASE dictionaries # <<>>
    <3>1. <<Key(f), f.inputs[2]>> \in LanguageSources(rs, dictionaries, Pair)
      BY <2>2 DEF LanguageSources
    <3>2. <<Key(f), f.inputs[2]>> \in Sources(rs, dictionaries, "language", Pair)
      BY <3>1 DEF Sources
    <3> QED BY <1>6, <3>1, <3>2, SettledRun DEF print
  <2> QED BY <2>1, <2>2
<1>15. dictionaries # <<>> => Current(rs, "language", Pair) # {}
  <2> SUFFICES ASSUME dictionaries # <<>> PROVE Current(rs, "language", Pair) # {}
    OBVIOUS
  <2>1. <<Key(f), f.inputs[2]>> \in Sources(rs, dictionaries, "language", Pair)
    BY DEF LanguageSources, Sources
  <2> QED BY <1>6, <2>1, SettledRun
<1>16. ASSUME NEW x \in Current(rs, "alignment", Pair)
       PROVE  /\ x.inputs[1] \in { Key(y) : y \in CurrentSegmentation(rs, Earlier) }
              /\ x.inputs[2] \in { Key(y) : y \in CurrentSegmentation(rs, Later) }
              /\ x.inputs[3] \in CurrentKeys(rs, "embedding", x.inputs[1])
              /\ x.inputs[4] \in CurrentKeys(rs, "embedding", x.inputs[2])
  BY <1>4, <1>5, <1>9 DEF CurrentEmbedding, CurrentKeys, pa
<1>17. ASSUME NEW x \in Current(rs, "similarity", Pair)
       PROVE  /\ x.inputs[1] \in CurrentKeys(rs, "extraction", Earlier)
              /\ x.inputs[2] \in CurrentKeys(rs, "extraction", Later)
  BY <1>1, <1>2, <1>10 DEF UsableExtractions, CurrentKeys, ps
<1>18. Coherent(rs)
  BY <1>9, <1>10, <1>11, <1>13, <1>14, <1>16, <1>17 DEF Coherent, print
<1> QED BY <1>13, <1>15, <1>18

LEMMA SignalsAfterStage ==
  ASSUME NEW rs, NEW cfg, NEW ds, NEW stage, Signals(rs, ds)
  PROVE  Signals(RunStage(rs, cfg, ds, stage), ds)
<1> SUFFICES ASSUME ds = <<>>, NEW run \in Successful(RunStage(rs, cfg, ds, stage)),
                    run.stage = "language"
             PROVE  FALSE
  BY DEF Signals
<1>1. run \notin Successful(rs)
  BY DEF Signals
<1>2. PICK s \in Subjects(rs, stage) : run \in Added(rs, cfg, ds, stage, s)
  BY <1>1, RunStageAdds DEF Successful
<1>3. stage = "language" /\ run.inputs \in Sources(rs, ds, stage, s)
  BY <1>2, AddedRow
<1> QED BY <1>3 DEF Sources, LanguageSources

LEMMA SignalsAfterStages ==
  ASSUME NEW rs, NEW cfg, NEW ds, NEW n \in 0 .. 7, Signals(rs, ds)
  PROVE  Signals(RunStages(rs, cfg, ds, n), ds)
<1>1. PICK f : /\ f[0] = rs
               /\ \A i \in 1 .. n : f[i] = RunStage(f[i - 1], cfg, ds, Stages[i])
               /\ RunStages(rs, cfg, ds, n) = f[n]
  BY StagesIterate
<1> DEFINE S == { i \in 0 .. n : Signals(f[i], ds) }
<1>2. 0 \in S
  BY <1>1
<1>3. \A i \in 1 .. n : i - 1 \in S => i \in S
  BY <1>1, SignalsAfterStage
<1> HIDE DEF S
<1>4. 0 .. n \subseteq S
  BY <1>2, <1>3, UpTo
<1> QED BY <1>1, <1>4 DEF S

-----------------------------------------------------------------------------
(* What the publisher reads                                                 *)

RunKeys == ExtractionKeys \cup SegmentationKeys \cup EmbeddingKeys \cup PairKeys

LEMMA KeysTyped ==
  ASSUME NEW rs, Sound(rs), NEW run \in Successful(rs)
  PROVE  Key(run) \in RunKeys /\ Key(run) # None
<1>1. \A x \in Successful(rs) : x.n \in Nat
  <2> SUFFICES ASSUME NEW x \in Successful(rs) PROVE x.n \in Nat
    OBVIOUS
  <2>1. x \in RunsOf(rs, x.stage, x.subject)
    BY DEF RunsOf, Successful
  <2>2. Cardinality(RunsOf(rs, x.stage, x.subject)) \in Nat
    BY FS_CardinalityType DEF Sound, Numbered
  <2> QED BY <2>1, <2>2 DEF Sound, Numbered
<1>2. \A x \in Successful(rs) : Rests(rs, x)
  BY DEF Sound
<1>3. \A x \in Successful(rs) : x.stage = "extraction" => Key(x) \in ExtractionKeys
  BY <1>1, <1>2 DEF Rests, Key, ExtractionKeys
<1>4. \A x \in Successful(rs) : x.stage = "segmentation" => Key(x) \in SegmentationKeys
  <2> SUFFICES ASSUME NEW x \in Successful(rs), x.stage = "segmentation" PROVE Key(x) \in SegmentationKeys
    OBVIOUS
  <2>1. x.subject \in ExtractionKeys
    BY <1>2, <1>3 DEF Rests
  <2> QED BY <1>1, <2>1 DEF Key, SegmentationKeys
<1>5. \A x \in Successful(rs) : x.stage = "embedding" => Key(x) \in EmbeddingKeys
  <2> SUFFICES ASSUME NEW x \in Successful(rs), x.stage = "embedding" PROVE Key(x) \in EmbeddingKeys
    OBVIOUS
  <2>1. x.subject \in SegmentationKeys
    BY <1>2, <1>4 DEF Rests
  <2> QED BY <1>1, <2>1 DEF Key, EmbeddingKeys
<1>6. \A x \in Successful(rs) : x.stage \in {"alignment", "similarity", "features", "language"} =>
        Key(x) \in PairKeys
  BY <1>1, <1>2 DEF Rests, Key, PairKeys
<1>7. run.stage \in {"extraction", "segmentation", "embedding", "alignment", "similarity", "features",
                     "language"}
  BY <1>2, StagesAre DEF Rests
<1>8. Key(run) \in RunKeys
  BY <1>3, <1>4, <1>5, <1>6, <1>7 DEF RunKeys
<1> QED BY <1>8, NoneIsNoKey DEF RunKeys

Phases ==
  {"idle", "features", "language", "language_features", "passages", "later_passages", "resolved"}

KeyOrNone == RunKeys \cup {None}

Snapshots ==
  [next : Phases, feature : KeyOrNone, features : KeyOrNone, alignment : KeyOrNone,
   language : KeyOrNone, language_features : KeyOrNone, passages : [Reports -> KeyOrNone]]

\* What the publisher's statements would answer now.
FeatureNow == Some(CurrentKeys(runs, "features", Pair))
AlignmentNow == IF FeatureNow = None THEN None ELSE RunAt(runs, FeatureNow).inputs[2]
LanguageNow == Some(CurrentKeys(runs, "language", Pair))
Mismatch == LanguageNow # None /\ RunAt(runs, LanguageNow).inputs[2] # AlignmentNow
PassagesNow(r) == Some({ Key(s) : s \in CurrentSegmentation(runs, r) })

\* Undisturbed, the publisher has read what it would read now.
Calm ==
  /\ snapshot.next # "idle"
  /\ snapshot.feature = FeatureNow /\ snapshot.alignment = AlignmentNow
  /\ snapshot.next \in {"features", "language", "language_features"} => FeatureNow # None
  /\ snapshot.next # "features" /\ FeatureNow # None => snapshot.features = FeatureNow
  /\ snapshot.next = "language_features" => snapshot.language = LanguageNow
  /\ /\ snapshot.next \in {"passages", "later_passages", "resolved"}
     /\ FeatureNow # None /\ LanguageNow # None /\ ~Mismatch
     => snapshot.language = LanguageNow /\ snapshot.language_features = LanguageNow
  /\ snapshot.next \in {"later_passages", "resolved"} => snapshot.passages[Earlier] = PassagesNow(Earlier)
  /\ snapshot.next = "resolved" => snapshot.passages[Later] = PassagesNow(Later)

SignalsInv ==
  /\ dictionaries \in Seq(Files)
  /\ Signals(runs, dictionaries)
  /\ slow # None /\ dictionaries = <<>> => slow.stage # "language"

SnapshotInv == snapshot \in Snapshots /\ (undisturbed => Calm)

IInv == RunsInv /\ SignalsInv /\ SnapshotInv

LEMMA SomeKey ==
  ASSUME NEW keys
  PROVE  /\ Some(keys) \in keys \cup {None}
         /\ keys # {} => Some(keys) \in keys
BY DEF Some

LEMMA CurrentKeysTyped ==
  ASSUME NEW rs, Sound(rs), NEW stage, NEW s
  PROVE  CurrentKeys(rs, stage, s) \subseteq RunKeys
BY CurrentRuns, KeysTyped DEF CurrentKeys

LEMMA ReadsTyped ==
  ASSUME Sound(runs)
  PROVE  /\ FeatureNow \in KeyOrNone /\ AlignmentNow \in KeyOrNone /\ LanguageNow \in KeyOrNone
         /\ \A r : PassagesNow(r) \in KeyOrNone
<1>1. FeatureNow \in KeyOrNone /\ LanguageNow \in KeyOrNone
  BY CurrentKeysTyped, SomeKey DEF FeatureNow, LanguageNow, KeyOrNone
<1>2. AlignmentNow \in KeyOrNone
  <2>1. CASE FeatureNow = None
    BY <2>1 DEF AlignmentNow, KeyOrNone
  <2>2. CASE FeatureNow # None
    <3>1. FeatureNow \in CurrentKeys(runs, "features", Pair)
      BY <2>2, SomeKey DEF FeatureNow
    <3>2. PICK f \in Current(runs, "features", Pair) : FeatureNow = Key(f)
      BY <3>1 DEF CurrentKeys
    <3>3. f \in runs /\ f \in Successful(runs) /\ f.stage = "features"
      BY CurrentRuns
    <3>4. RunAt(runs, FeatureNow) = f
      BY <3>2, <3>3, RunAtItsKey DEF Sound
    <3>5. PICK s \in Successful(runs), a \in Successful(runs) : f.inputs = <<Key(s), Key(a)>>
      BY <3>3 DEF Sound, Rests
    <3>6. Key(a) \in RunKeys
      BY KeysTyped
    <3> QED BY <2>2, <3>4, <3>5, <3>6 DEF AlignmentNow, KeyOrNone
  <2> QED BY <2>1, <2>2
<1>3. ASSUME NEW r PROVE PassagesNow(r) \in KeyOrNone
  <2>1. { Key(s) : s \in CurrentSegmentation(runs, r) } \subseteq RunKeys
    BY CurrentKeysTyped DEF CurrentSegmentation, CurrentKeys
  <2> QED BY <2>1, SomeKey DEF PassagesNow, KeyOrNone
<1> QED BY <1>1, <1>2, <1>3

-----------------------------------------------------------------------------
(* The invariant                                                            *)

LEMMA InitIInv ==
  ASSUME Init
  PROVE  IInv
<1>1. PICK start \in Starts : dictionaries = start[2]
                              /\ runs = RunStages({}, config, dictionaries, start[1])
  BY DEF Init
<1>2. start[1] \in 0 .. 7 /\ start[2] \in Seq(Files)
  BY StartsTyped, StagesAre
<1>3. Signals({}, dictionaries)
  BY DEF Signals, Successful
<1>4. SignalsInv
  BY <1>1, <1>2, <1>3, SignalsAfterStages DEF SignalsInv, Init
<1>5. SnapshotInv
  BY DEF Init, SnapshotInv, EmptySnapshot, Snapshots, KeyOrNone, Phases
<1> QED BY <1>4, <1>5, InitRuns DEF IInv

LEMMA LanguageAttempts ==
  ASSUME NEW rs, NEW cfg, NEW stage, NEW s, NEW force, NEW attempt \in Attempts(rs, cfg, <<>>, stage, s, force)
  PROVE  attempt.stage # "language"
<1>1. attempt.stage = stage /\ Sources(rs, <<>>, stage, s) # {}
  BY DEF Attempts, Attempt
<1> QED BY <1>1 DEF Sources, LanguageSources

LEMMA RecordedSignals ==
  ASSUME NEW rs, NEW ds, Signals(rs, ds), NEW attempt, Startable(rs, attempt), NEW status,
         ds = <<>> => attempt.stage # "language"
  PROVE  Signals(Recorded(rs, attempt, status), ds)
<1>1. PICK stage, s, print, p : attempt = Attempt(stage, s, print, p)
  BY DEF Startable
<1>2. Row(rs, attempt, status).stage = attempt.stage
  <2>1. Row(rs, Attempt(stage, s, print, p), status).stage = stage
    BY RowFields
  <2>2. Attempt(stage, s, print, p).stage = stage
    BY DEF Attempt
  <2> QED BY <1>1, <2>1, <2>2
<1> QED BY <1>2 DEF Signals, Recorded, Successful

LEMMA NextSignals ==
  ASSUME IInv, [Next]_vars
  PROVE  SignalsInv'
<1>1. /\ dictionaries \in Seq(Files) /\ Signals(runs, dictionaries)
      /\ slow # None /\ dictionaries = <<>> => slow.stage # "language"
  BY DEF IInv, SignalsInv
<1>2. Sound(runs) /\ (slow # None => Startable(runs, slow))
  BY DEF IInv, RunsInv
<1>3. ASSUME NEW stage \in StageNames, Command(stage) PROVE SignalsInv'
  <2>1. PICK s \in Subjects(runs, stage), force \in BOOLEAN, status \in {"COMPLETED", "FAILED"} :
          \E attempt \in Attempts(runs, config, dictionaries, stage, s, force) :
            Records(attempt, status) /\ UNCHANGED <<dictionaries, slow>>
    BY <1>3 DEF Command
  <2>2. PICK attempt \in Attempts(runs, config, dictionaries, stage, s, force) :
          Records(attempt, status) /\ UNCHANGED <<dictionaries, slow>>
    BY <2>1
  <2>3. Startable(runs, attempt)
    BY <1>2, AttemptStartable
  <2>4. dictionaries = <<>> => attempt.stage # "language"
    BY LanguageAttempts
  <2>5. Signals(runs', dictionaries)
    BY <1>1, <2>2, <2>3, <2>4, RecordedSignals DEF Records
  <2> QED BY <1>1, <2>2, <2>5 DEF SignalsInv
<1>4. CASE SlowCommandSelects
  <2>1. PICK stage \in SlowStages : \E s \in Subjects(runs, stage) :
          slow' \in Attempts(runs, config, dictionaries, stage, s, FALSE)
    BY <1>4 DEF SlowCommandSelects
  <2>2. dictionaries = <<>> => slow'.stage # "language"
    BY <2>1, LanguageAttempts
  <2> QED BY <1>1, <1>4, <2>2 DEF SlowCommandSelects, SignalsInv
<1>5. CASE SlowCommandCommits
  <2>1. Signals(runs', dictionaries)
    BY <1>1, <1>2, <1>5, RecordedSignals DEF SlowCommandCommits, Records
  <2> QED BY <1>1, <1>5, <2>1 DEF SlowCommandCommits, SignalsInv
<1>6. CASE SlowCommandDies
  BY <1>1, <1>6 DEF SlowCommandDies, SignalsInv
<1>7. CASE ImportDictionary
  <2>1. PICK file \in Files : dictionaries' = Append(dictionaries, file)
    BY <1>7 DEF ImportDictionary
  <2>2. dictionaries' \in Seq(Files) /\ dictionaries' # <<>>
    BY <1>1, <2>1
  <2> QED BY <1>7, <2>2 DEF ImportDictionary, SignalsInv, Signals
<1>8. CASE UNCHANGED <<runs, dictionaries, slow>>
  BY <1>1, <1>8 DEF SignalsInv
<1>9. {"extraction", "segmentation", "embedding", "alignment", "similarity", "features",
       "language"} \subseteq StageNames
  BY StagesAre
<1>10. Deploy \/ UNCHANGED vars => UNCHANGED <<runs, dictionaries, slow>>
  BY DEF Deploy, vars
<1>11. ReadFeatureRun \/ ReadFeatures \/ ReadLanguageRun \/ ReadLanguageFeatures \/ ReadPassages
         \/ ReadLaterPassages => UNCHANGED <<runs, dictionaries, slow>>
  BY DEF ReadFeatureRun, ReadFeatures, ReadLanguageRun, ReadLanguageFeatures, ReadPassages,
         ReadLaterPassages, Reads
<1> QED BY <1>3, <1>4, <1>5, <1>6, <1>7, <1>8, <1>9, <1>10, <1>11
        DEF Next, Extract, Segment, Embed, Align, Score, BuildFeatures, BuildLanguageSignals

\* What the publisher would read is the same while no run is added.
LEMMA NowUnchanged ==
  ASSUME runs' = runs
  PROVE  /\ FeatureNow' = FeatureNow /\ AlignmentNow' = AlignmentNow /\ LanguageNow' = LanguageNow
         /\ Mismatch' = Mismatch
         /\ \A r : PassagesNow(r)' = PassagesNow(r)
BY DEF FeatureNow, AlignmentNow, LanguageNow, Mismatch, PassagesNow

LEMMA NextSnapshot ==
  ASSUME IInv, [Next]_vars
  PROVE  SnapshotInv'
<1>1. Sound(runs) /\ snapshot \in Snapshots /\ (undisturbed => Calm)
  BY DEF IInv, RunsInv, SnapshotInv
<1>2. /\ FeatureNow \in KeyOrNone /\ AlignmentNow \in KeyOrNone /\ LanguageNow \in KeyOrNone
      /\ \A r : PassagesNow(r) \in KeyOrNone
  BY <1>1, ReadsTyped
<1>3. None \in KeyOrNone
  BY DEF KeyOrNone
<1>4. CASE ReadFeatureRun
  <2>1. runs' = runs /\ undisturbed'
    BY <1>4 DEF ReadFeatureRun, Reads
  <2>2. snapshot' = [EmptySnapshot EXCEPT
                       !.next = IF FeatureNow = None THEN "passages" ELSE "features",
                       !.feature = FeatureNow, !.alignment = AlignmentNow]
    BY <1>4 DEF ReadFeatureRun, FeatureNow, AlignmentNow
  <2>3. snapshot' = [next |-> IF FeatureNow = None THEN "passages" ELSE "features",
                     feature |-> FeatureNow, features |-> None, alignment |-> AlignmentNow,
                     language |-> None, language_features |-> None, passages |-> [r \in Reports |-> None]]
    BY <2>2 DEF EmptySnapshot
  <2>4. snapshot' \in Snapshots
    BY <1>2, <1>3, <2>3 DEF Snapshots, Phases
  <2>5. Calm'
    BY <2>1, <2>3, NowUnchanged DEF Calm
  <2> QED BY <2>4, <2>5 DEF SnapshotInv
<1>5. CASE ReadFeatures
  <2>1. runs' = runs /\ undisturbed' = undisturbed /\ snapshot.next = "features"
    BY <1>5 DEF ReadFeatures, Reads
  <2>2. snapshot' = [snapshot EXCEPT !.next = "language", !.features = FeatureNow]
    BY <1>5 DEF ReadFeatures, FeatureNow
  <2>3. /\ snapshot'.next = "language" /\ snapshot'.features = FeatureNow
        /\ snapshot'.feature = snapshot.feature /\ snapshot'.alignment = snapshot.alignment
        /\ snapshot' \in Snapshots
    BY <1>1, <1>2, <2>2 DEF Snapshots, Phases
  <2>4. undisturbed => Calm'
    BY <1>1, <2>1, <2>3, NowUnchanged DEF Calm
  <2> QED BY <2>1, <2>3, <2>4 DEF SnapshotInv
<1>6. CASE ReadLanguageRun
  <2> DEFINE mismatch == LanguageNow # None /\ RunAt(runs, LanguageNow).inputs[2] # snapshot.alignment
  <2>1. runs' = runs /\ undisturbed' = undisturbed /\ snapshot.next = "language"
    BY <1>6 DEF ReadLanguageRun, Reads
  <2>2. snapshot' = [snapshot EXCEPT
                       !.next = IF LanguageNow = None \/ mismatch THEN "passages" ELSE "language_features",
                       !.language = IF mismatch THEN None ELSE LanguageNow]
    BY <1>6 DEF ReadLanguageRun, LanguageNow
  <2>3. undisturbed => (mismatch <=> Mismatch)
    BY <1>1 DEF Calm, Mismatch
  <2> HIDE DEF mismatch
  <2>4. /\ snapshot'.next = IF LanguageNow = None \/ mismatch THEN "passages" ELSE "language_features"
        /\ snapshot'.language = IF mismatch THEN None ELSE LanguageNow
        /\ snapshot'.feature = snapshot.feature /\ snapshot'.alignment = snapshot.alignment
        /\ snapshot'.features = snapshot.features
        /\ snapshot' \in Snapshots
    BY <1>1, <1>2, <1>3, <2>2 DEF Snapshots, Phases
  <2>5. undisturbed => Calm'
    BY <1>1, <2>1, <2>3, <2>4, NowUnchanged DEF Calm
  <2> QED BY <2>1, <2>4, <2>5 DEF SnapshotInv
<1>7. CASE ReadLanguageFeatures
  <2>1. runs' = runs /\ undisturbed' = undisturbed /\ snapshot.next = "language_features"
    BY <1>7 DEF ReadLanguageFeatures, Reads
  <2>2. snapshot' = [snapshot EXCEPT !.next = "passages", !.language_features = LanguageNow]
    BY <1>7 DEF ReadLanguageFeatures, LanguageNow
  <2>3. /\ snapshot'.next = "passages" /\ snapshot'.language_features = LanguageNow
        /\ snapshot'.feature = snapshot.feature /\ snapshot'.alignment = snapshot.alignment
        /\ snapshot'.features = snapshot.features /\ snapshot'.language = snapshot.language
        /\ snapshot' \in Snapshots
    BY <1>1, <1>2, <2>2 DEF Snapshots, Phases
  <2>4. undisturbed => Calm'
    BY <1>1, <2>1, <2>3, NowUnchanged DEF Calm
  <2> QED BY <2>1, <2>3, <2>4 DEF SnapshotInv
<1>8. CASE ReadPassages
  <2>1. runs' = runs /\ undisturbed' = undisturbed /\ snapshot.next = "passages"
    BY <1>8 DEF ReadPassages, Reads
  <2>2. snapshot' = [snapshot EXCEPT !.next = "later_passages", !.passages[Earlier] = PassagesNow(Earlier)]
    BY <1>8 DEF ReadPassages, PassagesNow
  <2> DEFINE passages == [snapshot.passages EXCEPT ![Earlier] = PassagesNow(Earlier)]
  <2>3. passages \in [Reports -> KeyOrNone] /\ passages[Earlier] = PassagesNow(Earlier)
    BY <1>1, <1>2 DEF Snapshots, Reports
  <2>4. snapshot' = [snapshot EXCEPT !.next = "later_passages", !.passages = passages]
    BY <2>2
  <2> HIDE DEF passages
  <2>5. /\ snapshot'.next = "later_passages" /\ snapshot'.passages = passages
        /\ snapshot'.feature = snapshot.feature /\ snapshot'.alignment = snapshot.alignment
        /\ snapshot'.features = snapshot.features /\ snapshot'.language = snapshot.language
        /\ snapshot'.language_features = snapshot.language_features
        /\ snapshot' \in Snapshots
    BY <1>1, <2>3, <2>4 DEF Snapshots, Phases
  <2>6. undisturbed => Calm'
    BY <1>1, <2>1, <2>3, <2>5, NowUnchanged DEF Calm
  <2> QED BY <2>1, <2>5, <2>6 DEF SnapshotInv
<1>9. CASE ReadLaterPassages
  <2>1. runs' = runs /\ undisturbed' = undisturbed /\ snapshot.next = "later_passages"
    BY <1>9 DEF ReadLaterPassages, Reads
  <2>2. snapshot' = [snapshot EXCEPT !.next = "resolved", !.passages[Later] = PassagesNow(Later)]
    BY <1>9 DEF ReadLaterPassages, PassagesNow
  <2> DEFINE passages == [snapshot.passages EXCEPT ![Later] = PassagesNow(Later)]
  <2>3. passages \in [Reports -> KeyOrNone] /\ passages[Later] = PassagesNow(Later)
        /\ passages[Earlier] = snapshot.passages[Earlier]
    BY <1>1, <1>2, PairOfTwo DEF Snapshots, Reports
  <2>4. snapshot' = [snapshot EXCEPT !.next = "resolved", !.passages = passages]
    BY <2>2
  <2> HIDE DEF passages
  <2>5. /\ snapshot'.next = "resolved" /\ snapshot'.passages = passages
        /\ snapshot'.feature = snapshot.feature /\ snapshot'.alignment = snapshot.alignment
        /\ snapshot'.features = snapshot.features /\ snapshot'.language = snapshot.language
        /\ snapshot'.language_features = snapshot.language_features
        /\ snapshot' \in Snapshots
    BY <1>1, <2>3, <2>4 DEF Snapshots, Phases
  <2>6. undisturbed => Calm'
    BY <1>1, <2>1, <2>3, <2>5, NowUnchanged DEF Calm
  <2> QED BY <2>1, <2>5, <2>6 DEF SnapshotInv
<1>10. CASE UNCHANGED <<runs, snapshot, undisturbed>>
  <2>1. undisturbed => Calm'
    BY <1>1, <1>10, NowUnchanged DEF Calm
  <2> QED BY <1>1, <1>10, <2>1 DEF SnapshotInv
<1>11. CASE ~undisturbed' /\ snapshot' = snapshot
  BY <1>1, <1>11 DEF SnapshotInv
<1>12. \A stage : Command(stage) => ~undisturbed' /\ snapshot' = snapshot
  BY DEF Command, Records, Commits
<1>13. SlowCommandCommits \/ ImportDictionary \/ Deploy => ~undisturbed' /\ snapshot' = snapshot
  BY DEF SlowCommandCommits, ImportDictionary, Deploy, Records, Commits
<1>14. SlowCommandSelects \/ SlowCommandDies \/ UNCHANGED vars => UNCHANGED <<runs, snapshot, undisturbed>>
  BY DEF SlowCommandSelects, SlowCommandDies, vars
<1> QED BY <1>4, <1>5, <1>6, <1>7, <1>8, <1>9, <1>10, <1>11, <1>12, <1>13, <1>14
        DEF Next, Extract, Segment, Embed, Align, Score, BuildFeatures, BuildLanguageSignals

-----------------------------------------------------------------------------
(* The theorems                                                             *)

\* Whatever was run, failed, deployed, imported or overlapped: the runs are
\* numbered without a gap, rest on successful runs that fit together, and an
\* undisturbed publisher has read what it would read now.
THEOREM Invariant == Spec => []IInv
<1>1. Init => IInv
  BY InitIInv
<1>2. IInv /\ [Next]_vars => IInv'
  BY NextRuns, NextSignals, NextSnapshot DEF IInv
<1> QED BY <1>1, <1>2, PTL DEF Spec

\* No command, slow ones included, ever records a run on sources that do not
\* fit together: one segmentation of each report with its own embedding under
\* one model, and the language signals of the features' alignment.
THEOREM LineageAlways == Spec => []LineageConsistent
<1>1. IInv => LineageConsistent
  BY SoundLineage DEF IInv
<1> QED BY <1>1, Invariant, PTL

LEMMA SettledAttempts ==
  ASSUME NEW rs, NEW cfg, NEW ds, NEW stage, NEW s \in Subjects(rs, stage)
  PROVE  Attempts(rs, cfg, ds, stage, s, FALSE) = {} <=>
           \A p \in Sources(rs, ds, stage, s) : UpToDate(rs, stage, s, Fingerprint(cfg, ds, stage), p)
BY DEF Attempts

\* From any state the batch commands, run once in order without a failure, end
\* with nothing left to do, and leave one coherent lineage.
THEOREM PassSettlesAlways == Spec => []PassSettles
<1>1. ASSUME IInv PROVE PassSettles
  <2> DEFINE after == RunStages(runs, config, dictionaries, Len(Stages))
  <2>1. Sound(runs) /\ Signals(runs, dictionaries)
    BY <1>1 DEF IInv, RunsInv, SignalsInv
  <2>2. Sound(after) /\ \A stage \in StageNames : StageSettled(after, config, dictionaries, stage)
    BY <2>1, PassSettlesAll
  <2>3. Signals(after, dictionaries)
    <3>1. Len(Stages) \in 0 .. 7
      BY StagesAre
    <3> QED BY <2>1, <3>1, SignalsAfterStages
  <2> HIDE DEF after
  <2>4. Settled(after)
    BY <2>2, SettledAttempts DEF Settled, StageSettled, StageNames
  <2>5. BothUsable(after) => Coherent(after) /\ Current(after, "features", Pair) # {}
    BY <2>2, <2>3, SettledCoherent
  <2> QED BY <2>4, <2>5 DEF PassSettles, after
<1> QED BY <1>1, Invariant, PTL

\* A publisher no command commits beside reads, from an up-to-date database, the
\* passages, features and language signals of one alignment.
THEOREM CalmSnapshotAlways == Spec => []CalmSnapshotCoherent
<1>1. ASSUME IInv, snapshot.next = "resolved", undisturbed, Settled(runs), BothUsable(runs)
      PROVE  /\ snapshot.feature # None
             /\ snapshot.features = snapshot.feature
             /\ LET aligned == RunAt(runs, snapshot.alignment).inputs
                IN snapshot.passages[Earlier] = aligned[1] /\ snapshot.passages[Later] = aligned[2]
             /\ dictionaries # <<>> =>
                  /\ snapshot.language # None
                  /\ snapshot.language_features = snapshot.language
                  /\ RunAt(runs, snapshot.language).inputs = <<snapshot.feature, snapshot.alignment>>
  <2>1. Sound(runs) /\ Numbered(runs) /\ Signals(runs, dictionaries) /\ Calm
    BY <1>1 DEF IInv, RunsInv, SignalsInv, SnapshotInv, Sound
  <2>2. \A stage \in StageNames : StageSettled(runs, config, dictionaries, stage)
    BY <1>1, SettledAttempts DEF Settled, StageSettled, StageNames
  <2>3. /\ Coherent(runs) /\ Current(runs, "features", Pair) # {}
        /\ dictionaries # <<>> => Current(runs, "language", Pair) # {}
    BY <1>1, <2>1, <2>2, SettledCoherent
  <2>4. PICK f : f \in Current(runs, "features", Pair)
    BY <2>3
  <2>5. f \in Successful(runs) /\ f \in runs /\ RunAt(runs, Key(f)) = f /\ Key(f) # None
    BY <2>1, <2>4, CurrentRuns, RunAtItsKey, KeysTyped
  <2>6. FeatureNow = Key(f)
    <3>1. CurrentKeys(runs, "features", Pair) = {Key(f)}
      BY <2>1, <2>4, OneCurrent DEF CurrentKeys
    <3> QED BY <3>1, SomeKey DEF FeatureNow
  <2>7. PICK a \in Current(runs, "alignment", Pair) : f.inputs[2] = Key(a)
    <3>1. f.inputs \in CurrentKeys(runs, "similarity", Pair) \X CurrentKeys(runs, "alignment", Pair)
      BY <2>3, <2>4 DEF Coherent, FeatureSources
    <3> QED BY <3>1 DEF CurrentKeys
  <2>8. AlignmentNow = Key(a)
    BY <2>5, <2>6, <2>7 DEF AlignmentNow
  <2>9. RunAt(runs, Key(a)) = a
    BY <2>1, CurrentRuns, RunAtItsKey
  <2>10. PICK s1 \in CurrentSegmentation(runs, Earlier) : a.inputs[1] = Key(s1)
    BY <2>3 DEF Coherent
  <2>11. PICK s2 \in CurrentSegmentation(runs, Later) : a.inputs[2] = Key(s2)
    BY <2>3 DEF Coherent
  <2>12. PassagesNow(Earlier) = Key(s1) /\ PassagesNow(Later) = Key(s2)
    <3>1. { Key(s) : s \in CurrentSegmentation(runs, Earlier) } = {Key(s1)}
      BY <2>1, OneSegmentation
    <3>2. { Key(s) : s \in CurrentSegmentation(runs, Later) } = {Key(s2)}
      BY <2>1, OneSegmentation
    <3>3. \A k : Some({k}) = k
      BY SomeKey
    <3> QED BY <3>1, <3>2, <3>3 DEF PassagesNow
  <2>13. /\ snapshot.feature = Key(f) /\ snapshot.features = Key(f) /\ snapshot.alignment = Key(a)
         /\ snapshot.passages[Earlier] = a.inputs[1] /\ snapshot.passages[Later] = a.inputs[2]
    BY <1>1, <2>1, <2>5, <2>6, <2>8, <2>10, <2>11, <2>12 DEF Calm
  <2>14. ASSUME dictionaries # <<>>
         PROVE  /\ snapshot.language # None
                /\ snapshot.language_features = snapshot.language
                /\ RunAt(runs, snapshot.language).inputs = <<Key(f), Key(a)>>
    <3>1. PICK l : l \in Current(runs, "language", Pair)
      BY <2>3, <2>14
    <3>2. l \in Successful(runs) /\ RunAt(runs, Key(l)) = l /\ Key(l) # None
      BY <2>1, <3>1, CurrentRuns, RunAtItsKey, KeysTyped
    <3>3. LanguageNow = Key(l)
      <4>1. CurrentKeys(runs, "language", Pair) = {Key(l)}
        BY <2>1, <3>1, OneCurrent DEF CurrentKeys
      <4> QED BY <4>1, SomeKey DEF LanguageNow
    <3>4. l.inputs = <<Key(f), Key(a)>>
      <4>1. l.inputs \in LanguageSources(runs, dictionaries, Pair)
        BY <2>3, <3>1 DEF Coherent
      <4>2. PICK g \in Current(runs, "features", Pair) : l.inputs = <<Key(g), g.inputs[2]>>
        BY <2>14, <4>1 DEF LanguageSources
      <4>3. g = f
        BY <2>1, <2>4, OneCurrent
      <4> QED BY <2>7, <4>2, <4>3
    <3>5. ~Mismatch
      BY <2>8, <3>2, <3>3, <3>4 DEF Mismatch
    <3>6. snapshot.language = Key(l) /\ snapshot.language_features = Key(l)
      BY <1>1, <2>1, <2>5, <2>6, <3>2, <3>3, <3>5 DEF Calm
    <3> QED BY <3>2, <3>4, <3>6
  <2> QED BY <2>5, <2>9, <2>13, <2>14
<1>2. IInv => CalmSnapshotCoherent
  BY <1>1 DEF CalmSnapshotCoherent
<1> QED BY <1>2, Invariant, PTL
=============================================================================
