---------------------------- MODULE ResearchRuns ----------------------------
(***************************************************************************)
(* The processing runs of the research database: extraction, segmentation, *)
(* embedding, alignment, similarity, features and language signals, each   *)
(* stage an append-only log of runs pinned to the runs it was made from.   *)
(* "Current" is a query, the last successful run, never a stored flag.     *)
(*                                                                         *)
(* A command runs in one transaction, so it is one step; at most one slow  *)
(* command is split in the step that selects its sources and the step that *)
(* commits, so that the others may commit in between. `publish build`      *)
(* reads the current runs with one READ COMMITTED statement after another. *)
(***************************************************************************)
EXTENDS Integers, Sequences, FiniteSets, FiniteSetsExt, SequencesExt

CONSTANTS
  Earlier, Later, \* the two reports of the pair
  Pair,           \* the report pair
  Usable,         \* <<report, config>>: extraction under that configuration is
                  \* not of FAILED quality and leaves a narrative with passages
  EmbeddingModel, \* the model name, revision and dimension of an embedding
                  \* configuration, whose fingerprint covers more than these
  Files,          \* dictionary files: [name, version, source_hash]
  Deployable,     \* stages whose configuration a deployment may change
  MaxDeploys,     \* deployments (a bound)
  SlowStages,     \* stages a slow command is considered of (a bound)
  Starts,         \* <<stages already run once, dictionaries>> of the initial states
  MaxChanges,     \* commits to an already processed corpus (a bound)
  MaxFailures,    \* of which failed attempts (a bound)
  None            \* a null column, an absent row

Reports == {Earlier, Later}

Stages ==
  <<"extraction", "segmentation", "embedding", "alignment", "similarity",
    "features", "language">>

\* What names a run: its stage, what it is a run of, and its place among those.
ExtractionKeys == {"extraction"} \X Reports \X Nat
SegmentationKeys == {"segmentation"} \X ExtractionKeys \X Nat
EmbeddingKeys == {"embedding"} \X SegmentationKeys \X Nat
PairKeys == {"alignment", "similarity", "features", "language"} \X {Pair} \X Nat

ASSUME PairOfTwo == Earlier # Later /\ Pair \notin Reports
ASSUME NoneIsNoKey ==
  None \notin ExtractionKeys \cup SegmentationKeys \cup EmbeddingKeys \cup PairKeys
ASSUME BoundsTyped == {MaxDeploys, MaxChanges, MaxFailures} \subseteq Nat
ASSUME StartsTyped == Starts \subseteq (0 .. Len(Stages)) \X Seq(Files)
ASSUME StagesTyped == Deployable \cup SlowStages \subseteq Range(Stages)

VARIABLES
  runs,         \* every run row of every stage
  config,       \* the configuration fingerprint of the installed code, by stage
  dictionaries, \* imported dictionaries, in order
  changes,      \* commits since the initial state
  slow,         \* the run a slow command has selected sources for, or None
  snapshot,     \* what the publisher has read
  undisturbed   \* no command has committed since the publisher began reading

vars == <<runs, config, dictionaries, changes, slow, snapshot, undisturbed>>

-----------------------------------------------------------------------------
(* Runs. A run is named by its stage, what it is a run of, and its place     *)
(* among those; a segmentation is a run of an extraction (its narrative      *)
(* document), an embedding a run of a segmentation.                          *)

Key(run) == <<run.stage, run.subject, run.n>>

RunsOf(rs, stage, subject) == { run \in rs : run.stage = stage /\ run.subject = subject }

Successful(rs) == { run \in rs : run.status = "COMPLETED" }

\* The most recently completed successful run, as a set of at most one.
Current(rs, stage, subject) ==
  LET done == RunsOf(Successful(rs), stage, subject)
  IN { run \in done : \A other \in done : other.n <= run.n }

CurrentKeys(rs, stage, subject) == { Key(run) : run \in Current(rs, stage, subject) }

RunAt(rs, key) == CHOOSE run \in rs : Key(run) = key

\* The current segmentation of a report's current narrative document.
CurrentSegmentation(rs, r) ==
  UNION { Current(rs, "segmentation", e) : e \in CurrentKeys(rs, "extraction", r) }

\* One dictionary per name, the one imported last.
CurrentDictionaries(ds) ==
  { ds[i] : i \in { j \in DOMAIN ds : \A k \in DOMAIN ds : ds[k].name = ds[j].name => k <= j } }

\* compute_configuration_hash; the language stage folds the dictionaries in.
Fingerprint(cfg, ds, stage) ==
  <<cfg[stage], IF stage = "language" THEN CurrentDictionaries(ds) ELSE {}>>

-----------------------------------------------------------------------------
(* Source selection: the tuples of source runs a stage may pin, at most one; *)
(* none when the subject is not eligible.                                    *)

ExtractionSources(rs, r) == {<<>>}

UsableExtractions(rs, r) ==
  { e \in Current(rs, "extraction", r) : <<r, e.config[1]>> \in Usable }

\* segment_report: subject is the narrative of the current extraction.
SegmentationSources(rs, e) ==
  { <<Key(run)>> : run \in { x \in UNION { UsableExtractions(rs, r) : r \in Reports } : Key(x) = e } }

\* embed_segmentation_run: subject is a successful segmentation run.
EmbeddingSources(rs, s) == { <<s>> : run \in { x \in Successful(rs) : Key(x) = s } }

\* Two embedding runs are compatible if they are of one model.
ModelOf(run) == EmbeddingModel[run.config[1]]

\* select_alignment_source: both sides' current segmentation and its embedding.
AlignmentSources(rs, pair) ==
  LET Embedded(r) ==
        UNION { { <<Key(s), m>> : m \in CurrentKeys(rs, "embedding", Key(s)) } :
                  s \in CurrentSegmentation(rs, r) }
      Model(side) == ModelOf(RunAt(rs, side[2]))
  IN { <<x[1][1], x[2][1], x[1][2], x[2][2]>> :
         x \in { z \in Embedded(Earlier) \X Embedded(Later) : Model(z[1]) = Model(z[2]) } }

\* select_source_narratives.
SimilaritySources(rs, pair) ==
  { <<Key(x), Key(y)>> : x \in UsableExtractions(rs, Earlier), y \in UsableExtractions(rs, Later) }

\* select_feature_source.
FeatureSources(rs, pair) ==
  CurrentKeys(rs, "similarity", pair) \X CurrentKeys(rs, "alignment", pair)

\* Mutant: the signals are built over the alignment that is current.
LanguageSourcesMutant(rs, ds, pair) ==
  IF ds = <<>> THEN {} ELSE CurrentKeys(rs, "features", pair) \X CurrentKeys(rs, "alignment", pair)

\* select_language_signal_source: the alignment its feature run is pinned to.
LanguageSources(rs, ds, pair) ==
  IF ds = <<>> THEN {}
  ELSE { <<Key(f), f.inputs[2]>> : f \in Current(rs, "features", pair) }

Sources(rs, ds, stage, subject) ==
  CASE stage = "extraction" -> ExtractionSources(rs, subject)
    [] stage = "segmentation" -> SegmentationSources(rs, subject)
    [] stage = "embedding" -> EmbeddingSources(rs, subject)
    [] stage = "alignment" -> AlignmentSources(rs, subject)
    [] stage = "similarity" -> SimilaritySources(rs, subject)
    [] stage = "features" -> FeatureSources(rs, subject)
    [] stage = "language" -> LanguageSources(rs, ds, subject)

\* What the batch command of a stage goes through.
Subjects(rs, stage) ==
  CASE stage = "extraction" -> Reports
    [] stage = "segmentation" -> UNION { CurrentKeys(rs, "extraction", r) : r \in Reports }
    [] stage = "embedding" ->
         UNION { CurrentKeys(rs, "segmentation", Key(e)) :
                   e \in { x \in Successful(rs) : x.stage = "extraction" } }
    [] OTHER -> {Pair}

\* Mutant: a run of the same configuration exists, whatever it was made from.
UpToDateMutant(rs, stage, subject, fingerprint, inputs) ==
  \E run \in Current(rs, stage, subject) : run.config = fingerprint

\* An identical successful run already exists.
UpToDate(rs, stage, subject, fingerprint, inputs) ==
  \E run \in Current(rs, stage, subject) : run.config = fingerprint /\ run.inputs = inputs

Attempt(stage, subject, fingerprint, inputs) ==
  [stage |-> stage, subject |-> subject, n |-> 0, config |-> fingerprint,
   inputs |-> inputs, status |-> "RUNNING"]

\* The attempts a command may start: none when it is ineligible or skipped.
Attempts(rs, cfg, ds, stage, subject, force) ==
  { Attempt(stage, subject, Fingerprint(cfg, ds, stage), inputs) :
      inputs \in { i \in Sources(rs, ds, stage, subject) :
                     force \/ ~UpToDate(rs, stage, subject, Fingerprint(cfg, ds, stage), i) } }

\* The row an attempt leaves; a failed one is rolled back to its savepoint and
\* leaves a FAILED row.
Row(rs, attempt, status) ==
  [attempt EXCEPT !.n = Cardinality(RunsOf(rs, attempt.stage, attempt.subject)) + 1,
                  !.status = status]

Recorded(rs, attempt, status) == rs \cup {Row(rs, attempt, status)}

\* The batch command of a stage with no failure, in one transaction: no subject
\* of a stage is a source of another.
RunStage(rs, cfg, ds, stage) ==
  rs \cup UNION { { Row(rs, attempt, "COMPLETED") :
                      attempt \in Attempts(rs, cfg, ds, stage, subject, FALSE) } :
                    subject \in Subjects(rs, stage) }

\* The commands of the first n stages, in order.
RunStages(rs, cfg, ds, n) ==
  LET after[i \in 0 .. n] ==
        IF i = 0 THEN rs ELSE RunStage(after[i - 1], cfg, ds, Stages[i])
  IN after[n]

-----------------------------------------------------------------------------
(* Research commands                                                        *)

\* One more commit of another process than the publisher, within the bound.
Commits ==
  /\ changes < MaxChanges
  /\ changes' = changes + 1
  /\ undisturbed' = FALSE

Records(attempt, status) ==
  /\ Commits
  /\ status = "FAILED" => Cardinality(runs \ Successful(runs)) < MaxFailures
  /\ runs' = Recorded(runs, attempt, status)

Command(stage) ==
  \E subject \in Subjects(runs, stage), force \in BOOLEAN, status \in {"COMPLETED", "FAILED"} :
    \E attempt \in Attempts(runs, config, dictionaries, stage, subject, force) :
      /\ Records(attempt, status)
      /\ UNCHANGED <<config, dictionaries, slow, snapshot>>

Extract == Command("extraction")
Segment == Command("segmentation")
Embed == Command("embedding")
Align == Command("alignment")
Score == Command("similarity")
BuildFeatures == Command("features")
BuildLanguageSignals == Command("language")

\* A slow command has selected its sources and is computing.
SlowCommandSelects ==
  /\ slow = None
  /\ changes < MaxChanges
  /\ \E stage \in SlowStages : \E subject \in Subjects(runs, stage) :
       slow' \in Attempts(runs, config, dictionaries, stage, subject, FALSE)
  /\ UNCHANGED <<runs, config, dictionaries, changes, snapshot, undisturbed>>

\* It commits, whatever was committed since, or its process dies first.
SlowCommandCommits ==
  /\ slow # None
  /\ Records(slow, "COMPLETED")
  /\ slow' = None
  /\ UNCHANGED <<config, dictionaries, snapshot>>

SlowCommandDies ==
  /\ slow # None
  /\ slow' = None
  /\ UNCHANGED <<runs, config, dictionaries, changes, snapshot, undisturbed>>

\* dictionary-import: idempotent by (name, version), refused when the content
\* of an imported version differs.
ImportDictionary ==
  \E file \in Files :
    /\ \A i \in DOMAIN dictionaries :
         <<dictionaries[i].name, dictionaries[i].version>> # <<file.name, file.version>>
    /\ Commits
    /\ dictionaries' = Append(dictionaries, file)
    /\ UNCHANGED <<runs, config, slow, snapshot>>

\* New code, with another configuration of a stage, is installed.
Deploy ==
  \E stage \in Deployable :
    /\ FoldFunction(+, 0, config) < MaxDeploys
    /\ config' = [config EXCEPT ![stage] = @ + 1]
    /\ Commits
    /\ UNCHANGED <<runs, dictionaries, slow, snapshot>>

-----------------------------------------------------------------------------
(* publish build: resolve_research_snapshot                                 *)

Some(keys) == IF keys = {} THEN None ELSE CHOOSE k \in keys : TRUE

EmptySnapshot ==
  [next |-> "idle", feature |-> None, features |-> None, alignment |-> None,
   language |-> None, language_features |-> None, passages |-> [r \in Reports |-> None]]

Reads(from, to) ==
  /\ snapshot.next = from
  /\ to # "features" => UNCHANGED undisturbed
  /\ UNCHANGED <<runs, config, dictionaries, changes, slow>>

\* The pair's current feature run and the alignment run it is pinned to; a pair
\* without features has no comparison.
ReadFeatureRun ==
  /\ Reads("idle", "features")
  /\ undisturbed' = TRUE
  /\ LET key == Some(CurrentKeys(runs, "features", Pair))
     IN snapshot' = [EmptySnapshot EXCEPT
          !.next = IF key = None THEN "passages" ELSE "features",
          !.feature = key,
          !.alignment = IF key = None THEN None ELSE RunAt(runs, key).inputs[2]]

\* get_current_report_pair_features asks for the current feature run again.
ReadFeatures ==
  /\ Reads("features", "language")
  /\ snapshot' = [snapshot EXCEPT !.next = "language",
                                  !.features = Some(CurrentKeys(runs, "features", Pair))]

\* A language run of another alignment run is left out of the publication.
ReadLanguageRun ==
  /\ Reads("language", "language_features")
  /\ LET key == Some(CurrentKeys(runs, "language", Pair))
         mismatch == key # None /\ RunAt(runs, key).inputs[2] # snapshot.alignment
     IN snapshot' = [snapshot EXCEPT
          !.next = IF key = None \/ mismatch THEN "passages" ELSE "language_features",
          !.language = IF mismatch THEN None ELSE key]

\* get_current_pair_language_features asks for the current language run again.
ReadLanguageFeatures ==
  /\ Reads("language_features", "passages")
  /\ snapshot' = [snapshot EXCEPT !.next = "passages",
                    !.language_features = Some(CurrentKeys(runs, "language", Pair))]

\* Each report's passages: those of its current segmentation.
ReadPassages ==
  /\ Reads("passages", "later_passages")
  /\ snapshot' = [snapshot EXCEPT !.next = "later_passages",
       !.passages[Earlier] = Some({ Key(s) : s \in CurrentSegmentation(runs, Earlier) })]

ReadLaterPassages ==
  /\ Reads("later_passages", "resolved")
  /\ snapshot' = [snapshot EXCEPT !.next = "resolved",
       !.passages[Later] = Some({ Key(s) : s \in CurrentSegmentation(runs, Later) })]

-----------------------------------------------------------------------------
\* A corpus whose first stages have been run once.
Init ==
  /\ config = [stage \in Range(Stages) |-> 0]
  /\ \E start \in Starts :
       /\ dictionaries = start[2]
       /\ runs = RunStages({}, config, dictionaries, start[1])
  /\ changes = 0
  /\ slow = None
  /\ snapshot = EmptySnapshot
  /\ undisturbed = FALSE

Next ==
  \/ Extract \/ Segment \/ Embed \/ Align \/ Score \/ BuildFeatures \/ BuildLanguageSignals
  \/ SlowCommandSelects \/ SlowCommandCommits \/ SlowCommandDies
  \/ ImportDictionary \/ Deploy
  \/ ReadFeatureRun \/ ReadFeatures \/ ReadLanguageRun \/ ReadLanguageFeatures
  \/ ReadPassages \/ ReadLaterPassages

Spec == Init /\ [][Next]_vars

-----------------------------------------------------------------------------
(* Properties                                                              *)

\* Whatever commands failed, died, overlapped or were forced, every run rests on
\* successful runs that fit together: an alignment on one segmentation of each
\* report and on embeddings of those two, under one model; a language run on the
\* alignment of its feature run. (The publisher's reading changes no run: asked
\* before it begins.)
LineageConsistent ==
  snapshot.next = "idle" =>
  \A run \in Successful(runs) :
    LET source == [i \in DOMAIN run.inputs |-> RunAt(Successful(runs), run.inputs[i])]
        report(s) == RunAt(runs, s.subject).subject
    IN /\ \A i \in DOMAIN run.inputs : \E s \in Successful(runs) : Key(s) = run.inputs[i]
       /\ run.stage = "alignment" =>
            /\ report(source[1]) = Earlier /\ report(source[2]) = Later
            /\ source[3].subject = run.inputs[1] /\ source[4].subject = run.inputs[2]
            /\ ModelOf(source[3]) = ModelOf(source[4])
       /\ run.stage = "features" =>
            source[1].stage = "similarity" /\ source[2].stage = "alignment"
       /\ run.stage = "language" => source[1].inputs[2] = run.inputs[2]

\* Every command would skip or refuse.
Settled(rs) ==
  \A stage \in Range(Stages) : \A subject \in Subjects(rs, stage) :
    Attempts(rs, config, dictionaries, stage, subject, FALSE) = {}

BothUsable(rs) == \A r \in Reports : UsableExtractions(rs, r) # {}

\* The current runs form one lineage from the current extractions on, and were
\* made by the installed code with the current dictionaries.
Coherent(rs) ==
  LET made(stage) == Current(rs, stage, Pair)
      segmentation(r) == { Key(s) : s \in CurrentSegmentation(rs, r) }
  IN /\ \A a \in made("alignment") :
          /\ a.inputs[1] \in segmentation(Earlier) /\ a.inputs[2] \in segmentation(Later)
          /\ a.inputs[3] \in CurrentKeys(rs, "embedding", a.inputs[1])
          /\ a.inputs[4] \in CurrentKeys(rs, "embedding", a.inputs[2])
     /\ \A s \in made("similarity") :
          /\ s.inputs[1] \in CurrentKeys(rs, "extraction", Earlier)
          /\ s.inputs[2] \in CurrentKeys(rs, "extraction", Later)
     /\ \A f \in made("features") : f.inputs \in FeatureSources(rs, Pair)
     /\ \A l \in made("language") : l.inputs \in LanguageSources(rs, dictionaries, Pair)
     /\ \A stage \in {"alignment", "similarity", "features", "language"} :
          \A run \in made(stage) : run.config = Fingerprint(config, dictionaries, stage)

\* From any state, however stale or mixed, one uninterrupted pass of the batch
\* commands in order makes every command up to date and, when both extractions
\* are usable, leaves one coherent lineage with a feature run: the skip rules
\* neither keep a stale run nor rebuild for ever. (Asked, too, before the publisher
\* begins, and while no slow command computes.)
PassSettles ==
  snapshot.next = "idle" /\ slow = None =>
  LET after == RunStages(runs, config, dictionaries, Len(Stages))
  IN /\ Settled(after)
     /\ BothUsable(after) => Coherent(after) /\ Current(after, "features", Pair) # {}

\* A publisher that reads an up-to-date database no command commits to publishes
\* the very passages its comparisons align, with the features and the language
\* signals of that one alignment.
CalmSnapshotCoherent ==
  snapshot.next = "resolved" /\ undisturbed /\ Settled(runs) /\ BothUsable(runs) =>
    /\ snapshot.feature # None
    /\ snapshot.features = snapshot.feature
    /\ LET aligned == RunAt(runs, snapshot.alignment).inputs
       IN snapshot.passages[Earlier] = aligned[1] /\ snapshot.passages[Later] = aligned[2]
    /\ dictionaries # <<>> =>
         /\ snapshot.language # None
         /\ snapshot.language_features = snapshot.language
         /\ RunAt(runs, snapshot.language).inputs = <<snapshot.feature, snapshot.alignment>>

\* "language output is then excluded from publication for this comparison
\* entirely rather than silently mixing two lineages": the language features
\* published with a comparison are of its alignment run.
LanguageNeverMixed ==
  snapshot.language_features # None =>
    RunAt(runs, snapshot.language_features).inputs[2] = snapshot.alignment
=============================================================================
