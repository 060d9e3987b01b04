# Verification of market-documents

TLA+ models, model-checking runs and machine-checked proofs about
*market-documents*: a pipeline that imports annual reports into a research
database, extracts and aligns the passages of consecutive reports, derives
metrics and language signals, publishes the result as immutable releases into
an application database, and serves it through a web application with search
and question answering.

- [1. The system](#1-the-system)
- [2. Plan](#2-plan)
- [3. Modules](#3-modules)
- [4. What the runs show](#4-what-the-runs-show)
- [5. Proofs](#5-proofs)
- [6. Where the code and its documents disagree](#6-where-the-code-and-its-documents-disagree)
- [7. Abstractions and what is not modelled](#7-abstractions-and-what-is-not-modelled)

Paths below are relative to `src/src/market_documents` unless they start with
`src/`.

## 1. The system

### 1.1 Components

| Component | State | Operations | Hard behaviours | Correct when |
|---|---|---|---|---|
| **Publication commands** `publishing/publisher.py`, `validation.py`, `labels.py`, `cli/publish.py` | `app_internal.publications`, the `application_state` singleton, thin `app.*` rows per publication, shared `app_corpus` and `app_artifacts` rows | `build`, `validate`, `promote`, `cleanup`, `gc-corpus`, `gc-artifacts`; each one transaction of `app_session_scope` | content shared by reference between publications, identities that are hashes of a version and a source key, reference-counted collection, any order of commands, two operators at once | one publication is served; a retained publication always resolves to what its own build computed; failed ones are never served |
| **Application schema** `publishing/schema.py`, `models.py` | views `app.current_*`, foreign keys, cascades | resolved at every read | the corpus tables have no foreign key; views join on the pointer and on passage ids | readers see the served publication only |
| **Publication content** `findings.py`, `discovery.py`, `labels.py`, `qa_chunking.py` | none (pure) | percentile bands, findings, histories, ranked lists, token windows | boundaries, ties, gates stated twice | a build passes its own validation; a list and a page tell one story; text written in sentences is quotable |
| **Research import** `services/scanning.py`, `importing.py`, `metadata_review.py`, `pairing.py` | companies, reports with metadata and validation status, report pairs | scan, import, inspect, export and import of reviews, validate, pair | files exported earlier and imported late or twice, conflicting period ends, a report that arrives between two paired ones, per-row savepoints | no two reports share a file or a period end; pairs join neighbours and stay true |
| **Research runs** `services/extraction.py`, `passage_segmentation.py`, `passage_embedding.py`, `passage_alignment.py`, `similarity.py`, `feature_extraction.py`, `financial_language_signals.py` | one append-only run table per stage, each run naming the runs it was made from | run a stage: skip when a completed run of the same sources and configuration exists, else a fresh run; a failure rolls back to a savepoint and leaves a FAILED run | the *current* run is a query; later stages select or pin earlier ones; upstream re-runs make downstream ones stale; a slow command among others | a run never mixes lineages; a pass over all stages settles |
| **Snapshot** `publishing/source_dataset.py` | none | reads the current lineage of everything | many SELECTs of a READ COMMITTED transaction | one lineage per comparison |
| **Unit track** `services/canonical_extraction.py`, `schedule_localization.py`, `semantic_unit_*.py`, `comparison_routing.py`, `structured_table_*.py`, `cutover_*.py` | run tables of its own, units, unit alignments, decisions, tables | the same skip and force rules, mostly without fingerprints | warnings that turn absence into "not found", runs that rest on another source than the one current now | absence only where the code did not look; metrics only on resolved units |
| **Document algorithms** page text, passages, alignment, units, tables, features, language signals | none (pure over their inputs) | see section 3 | ties, order dependence, thresholds, text lost between two rules | what was printed comes out, once, on the right side |
| **Web question answering** `src/web/lib/services/qa`, `generation/gemini-provider.ts`, `src/scripts/sql/qa_quota.sql` | two daily counters, per client and global | route, retrieve, count, generate (with retries), validate | concurrent requests at the limit, counters spent by refused or failed requests, fail-open and fail-closed, the day changing in between | generation within the limits, on evidence only |
| **Web evidence review** `src/web/lib/services/qa/qa-pipeline.ts` and the modules it wires | none | analyse the question, gather candidates, rerank, select evidence, check coherence, judge | stages that each drop candidates, in an order; tiers that hide later ones; passages of two comparisons | a supported verdict rests on passages that say what was asked |
| **Web retrieval** `src/web/lib/services/retrieval-service.ts`, `rrf.ts`, `query-embedding-provider.ts`, repositories | a process-wide LRU cache of query embeddings | semantic, lexical, hybrid search | every query resolves the served publication anew while promotions run; concurrent cache misses | one page comes from one publication |
| **Embedding service**, **report downloader**, **PDF access**, **audits and experiments**, **web pages** | none of their own, or files | wrappers, network discovery, rendering | network and document formats | see section 7 |

### 1.2 How they interact

Research commands write the research database, each in its own transaction;
nothing is shared in memory. A command takes its sources from the *current*
runs, computes, and commits one run that names them. `build` opens a session
on both databases, reads one snapshot of the research side, statement by
statement, and writes a whole publication to the application side. `promote`
moves the pointer that all `app.current_*` views join on; from then on every
query of the web application resolves to the new publication, also the next
query of a request that is half done. `cleanup` deletes publications and, by
cascade, their thin rows; `gc-corpus` and `gc-artifacts` then delete the
shared rows no thin row names. The web application only reads, apart from the
quota counters.

### 1.3 Hard behaviours

`PROJECT.json` lists them under `hazards`, each at its line and with the
properties that cover it. The groups that shape the models are

1. *long sequences of legal commands*: a build reuses what an earlier build,
   perhaps of another revision of the code, stored under the same identity; a
   run stays current although its sources were rerun; a review file exported
   before other changes is imported after them;
2. *two actors at once*: decisions made on rows read several statements
   earlier, row locks, foreign keys that exist for some of the references and
   not for others, deadlocks, requests that share counters and a cache;
3. *state that moves under a reader*: a snapshot read while runs commit, a
   page built from several queries while a release is promoted;
4. *order and ties*: algorithms that scan rows in an order nobody chose, and
   thresholds that meet at a boundary.

## 2. Plan

In the order of importance.

| # | Modules | Content | Status |
|---|---|---|---|
| 1 | `Publication`, `ReleaseRegister` | the publication layer as serial commands; the register of immutable releases it implements | done |
| 2 | `PublicationProofs` | its invariants and the refinement, for all constants | done |
| 3 | `PublisherSessions` | the same commands as concurrent transactions | done |
| 4 | `ResearchRuns` | the seven stages of the research database, and the snapshot read from them | done |
| 5 | `WebRequests` | searches and questions over the register, the cache, the quota | done |
| 6 | `ReportIntake` | import, review and pairing over time | done |
| 7 | `UnitRuns` | the runs of the unit track and the cutover comparison | done |
| 8 | `PageText`, `Passages`, `PassageAlignment`, `UnitText`, `StructuredTables`, `PairFeatures`, `LanguageSignals`, `PublishedComparisons`, `EvidenceReview` | the algorithms, each against what was put in | done |
| 9 | `WebRequestsProofs` | what a page shows, the quota and the cache, for any number of requests and releases | done |
| 10 | `PublisherSessionsProofs` | the pointer, the artifacts and the corpus under any number of overlapping commands | done |
| 11 | `ResearchRunsProofs`, `UnitRunsProofs` | lineages, passes that settle and what is served, for any runs; `IterationLemmas` for passes over stages | done |
| 12 | `ReportIntakeProofs` | unique reports, sound pairs, idempotent reviews, for sheets of any length | done |
| 13 | `DocumentProofs` | the passage alignment, phrases, the change score, and the rows, histories and ranked lists of a build, for inputs of any size; passages, vectors and windows; the verdict of an evidence review | done |
| 14 | more proofs about document modules | properties that hold for every input and not only for well-printed ones: `GroundedSupport`, `PassagesTile`, `EmbeddingAccounts`, `PunctuatedTextCovered` | done |
| 15 | more runs | two pairs that share a report in `ResearchRuns`; several tickers in `UnitRuns` | open |

How the modules compose: `Publication` implements `ReleaseRegister`, and
`WebRequests` instantiates that same register as the store its requests read
from, so that what is shown of the publication layer is what the web
application is checked against. `ResearchRuns` ends in the snapshot that
`Publication` takes any of; `UnitRuns` takes the outcomes of `UnitText` and
`StructuredTables` as constants. `LanguageSignals` continues the job of
`PairFeatures` on the same pair. The document modules share the three
variables of `DocumentJobs`, so that one run goes through all of them.

## 3. Modules

### `Publication` – serial commands

One variable per table, or per group of tables that live and die together.

| Variable | Code |
|---|---|
| `status`, `summary` | `publications.status`, `validation_summary` |
| `after` | the order of `completed_at`, all that `cleanup` uses of it |
| `active` | `application_state.active_publication_id` |
| `thin[v]` | the `app.*` rows of v: passages, the artifact ids they name, the contexts with the embedding each names, the child rows |
| `text`, `embedding` | `app_corpus.passages`, `app_corpus.passage_embeddings` |
| `artifact` | `app_artifacts.passage_comparisons`, `retrieval_contexts`, `passage_language_signals`, `qa_chunks`: identity and hashed content |
| `child` | `app_artifacts.retrieval_context_language_categories`, `..._risk_subcategories`, `qa_chunk_passages` |
| `raised` | how the last command ended, if by an exception |
| `computed` | history: the artifact rows each retained publication's build computed |

A *snapshot* is what `resolve_research_snapshot` returns, together with the
`*_ARTIFACT_VERSION` constants of the revision of the code that reads it, so
that a build after a deployment is a build from another snapshot. What
`_build_rows` derives from one (which alignments are compared, which sides get
a context, which signals are published, which rows carry which identity) is
operators; what the rows say beyond what is hashed or linked is data.

| Action | Code |
|---|---|
| `Build` | `PublicationBuilder.build` that commits, READY or FAILED |
| `BuildDuplicate`, `BuildMismatch` | `build` that raises (`uq_publications_version`, `_check_content_hash`): rolled back |
| `Validate` | the `validate` command |
| `Promote` | `activate_publication` |
| `Cleanup(keep)` | `cleanup_publications`, with the cascades |
| `GcCorpus`, `GcArtifacts` | `gc_orphaned_corpus_rows`, `gc_orphaned_artifact_rows` |

PENDING, BUILDING and VALIDATING are never committed and do not appear.
`validate_persisted` is `Verdicts`: the checks that read shared rows
(embedding coverage, the embedding each context names) are spelled out, the
others are the snapshot's `sound`. Of several embeddings of one passage the
code keeps the one its query happens to return last, hence a set of verdicts.

### `ReleaseRegister` – what is promised

Releases that never change, one of them live; a release goes live at most
once, rejected ones never, the live one is never retired. `Publication` maps
its state to it by resolving every publication through the shared tables,
so that `ImplementsRegister` says that sharing is invisible.

### `PublisherSessions` – concurrent commands

The same commands, statement by statement, as PostgreSQL runs them in READ
COMMITTED: a SELECT sees what is committed when it is sent; each INSERT,
UPDATE, DELETE and foreign-key check takes a row lock, waits for conflicting
ones and then applies to the row it finds; SQLAlchemy decides the order of the
writes of a flush; everything written becomes visible at commit. `Fails` are
the errors (duplicate key, row count of an UPDATE, foreign key), after which
`app_session_scope` rolls back. The content is reduced to passages, with one
text, one embedding and one artifact row each. Builds write in the order of
their snapshot, collectors in the order of the rows' ids, which are hashes and
hence unrelated: `Rank`.

`overlap`, `raced` and `collected` are history variables used by properties
only.

### `ReportIntake` – the corpus catalogue

`report` is the table by path, `pairs` the pairs, `manifest` and `sheet` the
two CSV files an operator edits between commands: a manifest with rows in any
order and repeated, and a review sheet that may be older than the table. One
action per command (`Scan`, `Import`, `InspectMetadata`, `ExportReview`,
`ImportMetadataReview`, `ValidateReports`, `BuildPairs`); the loops over rows
are folds in the order of the file, because a row is checked against the rows
before it, and a row that fails to flush is undone alone (`Flushes`, the
savepoint of `metadata_review.py:312`). `Outcome` says what becomes of a row of a
sheet, and `notes` how often each reviewer's note stands in a report's
`validation_notes`; what inspection writes there is only modelled where it
erases them (`InspectionFails`). Dates are naturals, a month
`DaysPerMonth` of them; what a PDF yields is a record of what inspection can
find in it.

### `ResearchRuns` – the research database as logs of runs

A run is `[stage, subject, n, config, sources, status]`; *current* is the query
of the code (`Current`), never a flag. `Sources` says, for each stage, which
runs a command would take now; `UpToDate` is the skip rule with the
fingerprint each stage compares. A command (`Extract`, `Segment`, `Embed`,
`Align`, `Score`, `BuildFeatures`, `BuildLanguageSignals`) goes over all
subjects in one transaction and is one step, forced or not, with one attempt
that may fail and leave its FAILED row. One command may be *slow*: it selects
(`SlowCommandSelects`), others commit, then it commits or dies with its process.
`Deploy` changes the configuration fingerprint of a stage, `ImportDictionary`
adds a dictionary file.

`ReadFeatureRun`, `ReadFeatures`, `ReadLanguageRun`, `ReadLanguageFeatures`,
`ReadPassages`, `ReadLaterPassages` are the statements of
`resolve_research_snapshot` for one pair, commits of other commands in
between. `undisturbed` is a history variable: no command has committed since
the reading began.

### `UnitRuns` – the runs of the unit track

The same kind of log for canonical extraction, localization, units, unit
alignment, decisions, tables and table comparison. Only the unit stage has a
fingerprint, which leaves out which source the blocks came from; the others
compare the runs they rest on. What the algorithms find in a document is a
constant, so that every combination of "found here, lost there" is in reach.
`Narrative` and `Structured` are what `cutover_comparison.py` answers from the
current runs.

### `WebRequests` – requests of the web application

A request is a sequence of awaits. Each statement reads the release that is
live when it is sent (`Content`, `ReadFrom`), so a promotion may fall between
any two: a row of an earlier release is then not found under its id. One
action per await: `LookUp`, `Embedded`, `RetryEmbedding` and the three ways of
going on without an embedding; `SearchPassageWords`, `SearchPassages`,
`SearchChunks`, `SearchChunkWords`; `Rerank`, `ExpandContexts`,
`CitePublication`; `ResolveMembers`, `ResolveCitations`,
`ResolveCitationMembers`; `CheckClient`, `CheckGlobal`, `QuotaFails`;
`Generate`. A row shown has its id, the release of its context or citation
(`cited`) and what a still later statement gives the citation (`named`): the
publication id of a search, the release of a chunk's member passages. `RequestFails` is a statement that
throws. Rank fusion, reranking and deduplication are the code's, on exact
fractions. `increment_and_check` is one action, as it is one statement;
a lost answer of it has counted or not (`QuotaFails`).

### The document modules

Each is a job over `DocumentJobs`: it takes an input and passes the stages of
its code, one action per stage, every intermediate result in `found`.

| Module | Code | Input | Stages |
|---|---|---|---|
| `PageText` | `extraction.py`, `source_adapter.py`, header and footer detection | pages of blocks, known by their measures | zones and repeated lines, the classification rules in order, page quality, narrative |
| `Passages` | `passage_segmentation.py`, `passage_embedding.py`, `retrieval_chunking.py`, `qa_chunking.py` | blocks as words with a size and sentence ends | segments, passages, vectors and chunks with failing batches, windows |
| `PassageAlignment` | `alignment_candidates.py`, `passage_alignment.py`, `alignment_reconciliation.py` | two reports and the comparison of any two texts | candidates, greedy claims, exchange, flags, rows |
| `UnitText` | `heading_structure.py`, `schedule_localization.py`, `semantic_unit_extraction.py`, `semantic_unit_alignment.py` | two reports and their outline | localization, units, alignment |
| `StructuredTables` | `structured_table_reconstruction.py`, `structured_table_comparison.py` | two pages typeset from a table | reconstruction, comparison |
| `PairFeatures` | `similarity.py`, `feature_extraction.py` | sides, rows, similarities of a pair | metrics and quality, features and score |
| `LanguageSignals` | dictionaries, `financial_language_metrics.py`, `financial_language_signals.py`, `structured_content_audit.py` | the same pair and a dictionary file | import, matching with negation, counts, topic changes, quality |
| `PublishedComparisons` | the comparison part of `_build_rows`, `labels.py`, `findings.py`, `discovery.py`, `validation.py` | the pairs of a snapshot in database order | bands, findings, histories, lists, validation |
| `EvidenceReview` | `runEvidencePipeline` of the web application and what it calls (`src/web/lib/services/qa`) | a question, the passages and contexts of a publication, what the two searches find, reranker and preset | analysis, candidates, reranking, evidence set, coherence, gate |

The inputs are in `MCPages`, `MCBlocks`, `MCAlignments`, `MCUnits`,
`MCTables`, `MCSignals`, `MCPublished` and `MCReviews`, which print, for instance, a table
in seven ways and say which of them are sound; `MCDocuments` joins them.

## 4. What the runs show

| Run | Instance | Distinct states | Shows |
|---|---|---|---|
| `sharing` | 2 versions, 3 passages of 2 reports, 2 alignments, 2 categories, 2 models, 7 snapshots, `--keep` 0 or 1 | 134 thousand | `TypeOK`, `OneServed`, `ContentAsBuilt`, `RetainedResolves`, `OnlyOtherModelsInvalidate`, `RetentionHonoured`, refinement of `ReleaseRegister` |
| `sessions` | 2 sessions, 2 versions, 1 passage; all five commands, `--keep 0` | 93 thousand | `PointerIsServed`, `SerialPromotionsKeepOne`, `ArtifactsResolve`, `OnlyOverlapLosesCorpus` |
| `sessions_end` | 2 sessions, 1 version, 2 passages; build, promote, cleanup, gc-artifacts | 13 thousand | `CommandsEnd` (liveness) |
| `intake` | 4 files of one company, one twice; 3 manifests, 6 corrections, sheets of 2 rows, 1 reviewer note standing at most twice (`MaxNotes`), 6 days | 3.4 thousand, with every sheet of two rows tried in each | `UniqueReports`, `PairsStaySound`, `ReviewImportIdempotent`, `SettledMetadataStays`, `EachPairedWithPredecessor` |
| `research` | one pair, processed up to stage 0, 4 or 7; 3 commits, 1 failure, 1 deployment, 2 dictionaries; slow alignment and features | 82 thousand | `LineageConsistent`, `PassSettles`, `CalmSnapshotCoherent` |
| `units` | one pair, 3 units, 2 versions of the code, 7 commands, 1 failure | 124 thousand | `AbsenceOnlyAcrossConfigurations`, `MetricsRestOnResolvedUnits`, `PassSettles`, `FailureChangesNothingServed` |
| `documents` | generated inputs of every document module | 50 thousand | the thirteen properties below |
| `web` | 2 requests, 2 texts, 2 releases, 2 days, cache of 1, limits of 1, one retry each, fail-closed | 729 thousand | `OneReleasePerPage`, `AnswersWithinLimits`, `CacheBounded` |

`sessions_corpus_lost`, `research_mixed`, `qa_windows` and `evidence_scope` are
expected to find a violation; section 6.

What `documents` checks:

- `NarrativeIsBody`: the narrative is what was printed as text, in order; no
  paragraph is taken for a running head, no table for text.
- `PassagesTile`: passages are the included words in order, none lost or
  twice, none too long. `EmbeddingAccounts`: a text that cannot be encoded
  takes only itself out of a batch, and what is stored in chunks leaves out no
  word; a chunk fits the model unless it is one word, which nothing divides.
  `PunctuatedTextCovered`: text in sentences
  no longer than the overlap is quotable as a whole.
- `RowsPartitionPassages`: every eligible passage is in exactly one alignment
  row. `NoTextRemovedAndNew`: no text is reported as removed and new at once.
- `UnitsMatchOutline`: the text of a unit is what stands under its heading,
  whatever surrounds it, for sound printings. Headings wrapped over two lines
  and sentences that open with a heading's words are among them. One printing
  is unsound: a sentence that opens with the heading's words and whose line
  ends right after them. The code excuses a lowercase continuation after a line
  break (`semantic_unit_extraction.py:322`, `GoesOn`) and so takes it for the
  heading.
- `EventsMatchPrinted`: for sound printings the events of a table comparison
  are exactly the differences of the tables that were typeset.
- `ScoreMirrors`: with the two reports exchanged the change score is the same.
- `PhrasesMatchedOnce`: no phrase is missed, counted twice, or counted as one
  of its words.
- `BuiltComparisonsValidate`: no snapshot makes a build fail its own
  validation of comparison rows. `DiscoveryMatchesFindings`: `discovery.py`
  and `findings.py`, which state the same gates twice, agree.
- `GroundedSupport`: when a question about one company is called supported,
  every passage shown for it is of that company and of the years asked, says
  in its body what was asked, in the way it was asked (a figure, a reason,
  something new), and repeats no other; one is a strong hit; of two clauses
  each is answered and a comparison has both sides, under the presets that
  promise so. The four stages that establish it each drop some candidates and
  none looks at all of it. `MCReviews` has a question of every type and scope
  and reaches every tier of the gate but two the code cannot reach either: a
  chronology outside its years (`groundedness-gate.ts:167`; the search has
  filtered by them) and a match on the company alone (`:149`; such passages
  are dropped before for a question about one company).

**Bounds.** Sharing takes two publications that name one row, and so does a
cleanup that deletes one and leaves its successor; `RetentionIsHonoured` has
any number. The snapshots
are chosen so that every pair meets once in either order: same content, other
content under the same identity (by a new revision of the code, or by a new
segmentation), other content under a bumped version, a passage with no
embedding, a passage on no side of a comparison, a negated signal, a
comparison that validation refuses. Two sessions are enough for each pairwise race and for a cycle of locks; two
passages for a lock cycle within one table. Versions (serial), sessions,
requests and texts are symmetric and are reduced, except in the liveness run.
Versions in `PublisherSessions` are numbered, because updates are flushed in
the order of ids. Two embedding models, and a snapshot that embeds a passage
under the second one after another was built under the first, are what
`OnlyOtherModelsInvalidate` needs.

In `intake`, three reports are the least for one to arrive between two paired
ones, and two rows for an order within a sheet. In `research`, the initial
states put the three commits where they matter instead of spending them on the
first pass; three are one to select under, one to overtake with and one to
rebuild on. In `units`, seven commands are a way through the unit track up to
the comparison with one stage run again. In `web`, limits of one make two
requests meet at each counter, a cache of one makes the second insertion evict
the first, and two releases with ids of their own are enough for a promotion
between any two statements; FailOpen lets requests through unmetered by
design and is left out. The document inputs are the shapes the rules
distinguish: below, at and above each threshold that a property depends on.

`CHECK_DEADLOCK FALSE` is set where the model really stops: bounded numbers of
commits (`research`, `units`), of requests (`web`), jobs that end
(`documents`). In the publication, session and intake runs a deadlock of the
model is checked, and there is none.

**Fairness.** `CommandsEnd` assumes `SF_vars(Continues(s))`: a command whose
next statement is possible again and again is eventually sent. A waiting
statement may be enabled and disabled as other transactions take and release
the lock; PostgreSQL queues the waiters of a row lock, so it is eventually
granted. Deadlocks end because the server picks a victim, which is part of
`Continues`. Nothing is assumed of `Starts`: operators may stop for good. The
safety runs assume no fairness. Nothing similar is stated of web requests: the
abort timers of both providers are cleared before the body of the response is
read (`response.json()`), so the code bounds no request. That research
commands converge is `PassSettles`, an invariant: what one uninterrupted pass
would do is computed in every state.

**Mutants.** Every property is paired with a change of one operator that a
plausible bug would make (a collector that counts the served publication only,
a skip rule that ignores its sources, a dropped gate, a comparison of the
count before its increment, ...), kept beside the operator as `...Mutant`;
under it TLC finds the property violated.

## 5. Proofs

TLAPS proves, for every value of the constants that meets the named
assumptions, what the runs check on small instances.

### The publication layer

`PublicationProofs` (assumptions `NoneIsNew`, `KeepsAreNaturals`,
`SnapshotsTyped`, `DatasetsFinite`, `ReportOfTyped`):

- `TypeCorrect`: `Spec => []TypeOK`
- `OneIsServed`: `Spec => []OneServed`
- `ContentStaysAsBuilt`: `Spec => []ContentAsBuilt`
- `RetainedAlwaysResolves`: `Spec => []RetainedResolves`
- `RegisterImplemented`: `Spec => ImplementsRegister`
- `RetentionIsHonoured`: `Spec => RetentionHonoured`
- `InvalidatedByOtherModel`: `Spec => []OnlyOtherModelsInvalidate`

None of the three invariants is inductive alone. The invariant is

    IInv == TypeOK /\ OneServed /\ ContentAsBuilt /\ RetainedResolves /\ ChildrenOwned

- `ContentAsBuilt` survives a collection because what a retained publication
  computed is named by its thin rows (a conjunct of `TypeOK`), and the
  collector keeps what is named. It survives a build because a build that
  finds another content under one of its ids raises, and because one build
  never computes two rows with one id (`ArtifactRowsKeyed`).
- `RetainedResolves` needs `ChildrenOwned`: the child rows a publication names
  hang off artifacts it also names, so that the collector's cascade, which
  counts no references of children, does not reach them
  (`ChildRowsOwned`).
- `OneServed` gives that the pointer's row survives `cleanup`, which spares
  ACTIVE rows, not the pointer's.

`RetentionIsHonoured` needs a second invariant, `Ordered`: the retained
publications are finitely many, and `after` orders them strictly, since a build
comes after all that are there. Whatever is not among the newest `keep` of such
an order has `keep` newer ones that are (`NewestStay`, by the well-foundedness
of the finite sets of newer ones), and those are not doomed.

The invariant of `InvalidatedByOtherModel`, `AllStillValid`, says why a
validation repeated later agrees with the first: the collector keeps the
embeddings of the passages it keeps, so that what was covered stays covered
(`CoveredStays`, by the cardinalities of finite sets), and as long as a passage
has one vector, it is the one its context names. So a verdict that turned
points to a passage with a vector of another model.

`NextIInv` has one lemma per command (`BuildIInv`, `PromoteIInv`, ...). For the
refinement, `ResolvedAsBuilt` turns the invariant into *what a reader of v
sees is a function of v's own build*, from which every command maps to one
step of the register or to a stutter (`NextRegister`).

### The web application

`WebRequestsProofs` (assumptions `LimitsPositive`, `PagesKnown`,
`RequestsFinite`, `NamesDistinct`, `ContentTyped`), for any number of requests,
clients, releases and promotions, any limits and any ranking scores:

- `CacheIsBounded`: `Spec => []CacheBounded`
- `PagesAreOfOneRelease`: `Spec => []OneReleasePerPage`
- `LimitsAreKept`: `Spec => []AnswersWithinLimits`

The cache has an invariant of its own (`CacheInv`): it is a sequence without
repetitions within its bound, and a hit is removed before it is appended, an
insertion makes room first. The other two properties speak of requests that
are done, so the invariant says what a waiting request has read and was
charged so far:

    IInv == StoreInv /\ RequestInv /\ MeterInv

- `StoreInv`: a recorded release is what was built, and the live one is
  recorded (so that what a statement reads is a sequence of rows).
- `RequestInv`: each request is absent, `Searching`, has its evidence and is
  `Metering` or `Generating`, or is `Finished`. What was found under its ids is
  of one release (`FoundAlike`), because one last statement reads it and an id
  names its release; before that nothing was charged and nobody was called;
  while generating, every call is an attempt.
- `NamedInv`, proved on top of `IInv`: what was found is of releases that were
  live (`Grounded`), and what a citation names is the release of its row unless
  that one was superseded. No later step undoes that, since no release goes
  live twice (`NamesGoOn`, `NamesStayRight`).
- `MeterInv`: today's counters are at least the number of requests let through
  today, per key, and on no day more were let through than the limit. A
  refusal or a failure may count without letting through, never the other way
  round; pruning spares today's counters; a new day starts with nobody let
  through on it. This is where concurrent requests, the half-charged one and
  the one that runs over midnight are settled (`MeterLet`, `MeterKept`).

That rows kept of a sequence stay in order and none comes twice needs that a
set of n places has a k-th one (`PlaceExists`). The library's induction rules
are out of the provers' reach, so that this is proved with a least
counterexample, from the well-foundedness of the naturals (`LeastNatural` of
`IterationLemmas`, `Counting`).

### Concurrent commands

`PublisherSessionsProofs` (assumptions `RowsAreNumbers`, `RankOrders`,
`PassagesFinite`, `KeepsAreNaturals`, `CommandsKnown`), for any number of
sessions, versions, passages and snapshots:

- `PointerServedAlways`: `Spec => []PointerIsServed`
- `SerialPromotionsKeepOneAlways`: `Spec => []SerialPromotionsKeepOne`
- `ArtifactsResolveAlways`: `Spec => []ArtifactsResolve`
- `OnlyOverlapLosesCorpusAlways`: `Spec => []OnlyOverlapLosesCorpus`

All four follow from one invariant, `IInv`, which says of every session what
it has done and what it still will:

- `PlanOf`: the writes made (`held`) and those to come (`queue`) are together
  what the command sends. A build inserts its publication and, for every
  artifact it wants, an `INSERT` or the `SHARE` of a foreign key; a promotion
  updates the pointer and shares the row it points to.
- `LocksExclude` and `WritesStand`: no two sessions hold conflicting locks, so
  that what let a write succeed is still so when its session commits. This is
  the argument for the pointer and the artifacts: a `DELETE` cannot be granted
  beside the `SHARE` that a foreign key check took, in either order.
- `Aware`: a promotion nobody overlapped still knows the pointer.
- `Covers` and `Spares`: where no foreign key helps. A build that no collector
  overlapped finds or inserts its whole corpus; what a collector is about to
  delete is used by no publication but those whose build it overlapped.
- `CorpusKept`, stronger than `OnlyOverlapLosesCorpus`: the corpus of every
  publication outside `collected` is there, whatever became of its validation,
  as the collectors count every publication.

### The research runs

`ResearchRunsProofs` (assumptions `PairOfTwo`, `NoneIsNoKey`, `BoundsTyped`,
`StartsTyped`, `StagesTyped`), for any reports, files, starting points and
bounds:

- `LineageAlways`: `Spec => []LineageConsistent`
- `PassSettlesAlways`: `Spec => []PassSettles`
- `CalmSnapshotAlways`: `Spec => []CalmSnapshotCoherent`

    IInv == RunsInv /\ SignalsInv /\ SnapshotInv

- `RunsInv`: the runs of a subject are finitely many and numbered without a
  gap (`Numbered`), so that a key names one run and the latest is unique; every
  successful run `Rests` on successful runs that fit together; and what a slow
  command has selected would still fit when it commits, although it may no
  longer be current (`Startable`). Rows are only added, and nothing that a run
  rests on is ever taken away, which is why a command that overtakes another
  does no harm to the lineage.
- `PassSettles` speaks of a pass from *any* reachable table. `StageSettles`
  shows that one batch command leaves its own stage with nothing to do,
  `SettledStays` that a later stage does not disturb it, because the sources of
  a stage are rows of earlier ones (`StageOrder`, `SourcesElsewhere`).
  `PassSettlesAll` goes through the stages in order; `SettledCoherent` shows
  that a table in which every command would skip has one lineage.
- `SnapshotInv`: as long as nothing was committed since it began, the publisher
  has read what it would read now (`Calm`).

### The unit track

`UnitRunsProofs` (assumptions `PairOfTwo`, `ConfiguredTyped`, `ExtractedTyped`,
`BoundsTyped`), for any units, code versions and extraction outcomes:

- `AbsenceIsOfConfigurations`: `Spec => []AbsenceOnlyAcrossConfigurations`
- `MetricsRestAlways`: `Spec => []MetricsRestOnResolvedUnits`
- `PassSettlesAlways`: `Spec => []PassSettles`
- `FailuresChangeNothingServed`: `Spec => FailureChangesNothingServed`

The invariant, `Sound(runs)`, relates each output to the runs it names: a unit
run without a warning resolved all it looked for (`UnitsTold`), an alignment
has the rows of its two unit runs (`AlignmentsRest`), decisions are about the
rows of their alignment (`DecisionsRest`). With `Numbered`, a name cannot come
to mean another run later.

### The report intake

`ReportIntakeProofs` (assumptions `DatesAreNaturals`, `NoneIsNoValue`,
`PdfTyped`, `ManifestsTyped`, `CorrectionsTyped`, `ConfiguredTyped`,
`BatchesBounded`), for any files, manifests and review sheets of any length:

- `UniqueReportsAlways`: `Spec => []UniqueReports`
- `PairsStaySoundAlways`: `Spec => []PairsStaySound`
- `ReviewImportIdempotentAlways`: `Spec => []ReviewImportIdempotent`
- `SettledMetadataStaysAlways`: `Spec => SettledMetadataStays`
- `EachPairedAlways`: `Spec => EachPairedWithPredecessor`

The invariant has one conjunct the properties do not state: a VALIDATED report
has pages and a period end (`ValidatedSound`), on which pairs rest. For the
idempotence, `Reviews` orders the tables a sheet goes through: each only adds
to what the one before had settled. So whatever a row was refused for the
first time, a period taken or a report that is not open, still stands at the
end of the sheet, and a row that was applied finds its own values; over the
final table each row is decided as before and changes nothing
(`RowsDecidedAlike`, `ImportTwice`). An accepted row that no other disputes
still finds its values at the end of the sheet (`StaysMatching`,
`MatchingUnchanged`), so it is "unchanged" and adds no note (`OutcomesTwice`,
`NotesCounted`).

### The passage alignment

`DocumentProofs` (assumptions `InputsTyped`, `ConfigTyped`,
`NoneIsNoPassage`), for any two reports of any length, any comparison of their
texts, thresholds and number of exchange sweeps, with `AlignmentSpec` as the
specification of alignment runs alone:

- `RowsPartitionAlways`: `AlignmentSpec => []RowsPartitionPassages`
- `NoTextRemovedAndNewAlways`: `AlignmentSpec => []NoTextRemovedAndNew`

    AlignmentInv == ... /\ (stage \in {"claimed", "matched"} => Matching(accepted)) /\ ...

- Sorting by score, then by index, is a strict total order because no two
  passages of a side have one index (`InputsTyped`); so `InOrder` lists each
  proposal once (`InOrderLists`).
- What is claimed from a list is one-to-one, and every pair of the list meets a
  claimed one (`ClaimedPairs`, an induction over the list). The first half
  makes `Greedy` a matching and reconciled pairs disjoint; the second is why a
  text is not left over on both sides: its two passages would be a pair of the
  list that nothing claimed touches (`ReconciledOfOneText`, `TextsReconciled`).
- An exchange permutes the earlier passages of two matches (`SweepMatches`), so
  any number of sweeps keeps a matching on the same passages
  (`ExchangedMatches`): what was unmatched before them is what is unmatched
  after, which the code relies on.
- Rows are counted by bijections: matched passages, reconciled passages and
  lone ones divide each side (`SidesDivide`), and each gives one row
  (`OneRowEach`, `MatchedRowsCounted`).

### The measures of a pair

`DocumentProofs` (assumptions `PairsTyped`, `WeightsTyped`), for any
dictionaries, sentences, alignment rows and weights, with `LanguageSpec` as the
specification of feature and language runs alone:

- `PhrasesMatchedOnceAlways`: `LanguageSpec => []PhrasesMatchedOnce`
- `ScoreMirrorsAlways`: `LanguageSpec => []ScoreMirrors`

The state adds little to these (`MeasureInv`: a job measures the pair it was
given); the arguments are about the algorithms.

- The scan of a sentence keeps `Scanned`: the matches so far are disjoint and
  end before the next token, whatever key begins before it is met by a match,
  and no match is shorter than a key that begins where it does. A match of the
  longest key, a hyphenated token and a token of no key each keep it
  (`AcceptScans`, `PassScans`); terms that overlap are settled because the
  scan goes on behind what it took.
- A sum is taken row by row (`TotalOfNaturals`: it is a natural, and zero only
  if every term is; equal terms give equal sums). Exchanging the reports gives
  each row the same weight and, as `NEW` and `REMOVED` weigh alike
  (`WeightsTyped`), the same points (`RowMirrors`, `PointsMirror`).

`PairsTyped` says which sides a row of each status has, which is what the
alignment writes; `WeightsTyped` holds of the configured weights, and the
mirror property is false without its second part.

### The rows of a build

`DocumentProofs` (assumptions `CorporaTyped`, `TopKTyped`, `NoneIsEnabled`),
for any snapshot and length of the ranked lists, with `PublishedSpec` as the
specification of builds alone:

- `BuiltComparisonsValidateAlways`: `PublishedSpec => []BuiltComparisonsValidate`
- `DiscoveryMatchesFindingsAlways`: `PublishedSpec => []DiscoveryMatchesFindings`

    PublishedInv == ... /\ (stage \in {"built_rows", ...} => Built) /\ (... => Chronicled) /\ ...

- `Built`: there is a row for each pair whose reports are both published, and
  it says of the pair what was measured (`RowSound`). `Chronicled`: its place
  and whether it is the latest are those of its company's history. From
  discovery on, the lists are `Discovered`, which is defined from the snapshot
  alone (`DiscoveryIs`): the language metrics computed in between, whichever
  subcategories they take, do not touch it.
- Both the history of a company and the pool of a list are finite sets in a
  strict total order: the one by the later report, then the database's order,
  the other by size, then the row's identity. The places in such an order are
  0 to n - 1, one each (`PlacesCount`). That gives contiguous indices and one
  latest pair (`HistoryPlaces`), and contiguous ranks to the end of the list
  or of its pool (`RanksCount`, `ListWhole`).
- A finding that is ranked below the end of a list leaves `TopK` items above
  it, each at least as large (`DiscoveryMatches`).

`CorporaTyped` says what the research stages guarantee of a snapshot: two pairs
are two, the earlier report is earlier, and nothing of poor quality is eligible
for analysis.

### The evidence review

`DocumentProofs` (assumptions `QuestionsTyped`, `RetrievalsTyped`,
`ReviewConfigTyped`, `NoneIsNoDirection`), for any questions, passages,
contexts, search results, rerankers, presets and configured limits, with
`ReviewSpec` as the specification of reviews alone:

- `GroundedSupportAlways`: `ReviewSpec => []GroundedSupport`

Each stage looks at its own part of what the verdict promises, so the invariant
(`ReviewInv`) carries through the later stages what the earlier ones have seen:

- `CandidatesSound`: a candidate is a context of the publication, of a passage
  the scope of the question allows, and its rank and similarity are those the
  searches gave its passage (`Gathers`; `LexicalRanks`, `NearHits`).
- `RankedSound`: the ranked list has the same candidates, each once, and each
  is eligible exactly if it says what was asked (`Ranks`,
  `EligibleResponds`). That scores sort into a list without loss needs that
  they are integers (`ScoresTyped`) and ids distinct.
- `EvidenceSound`: what is selected is ranked, in scope, above the floor, and
  for a narrow question eligible; no two are of one text (`Keeps`;
  `DeduplicatedLists`, `ChosenSelects`, `WhereAmong`).
- `VerdictSound`: no tier of the gate that comes before the verdict applied
  (`Decides`).

A question about one company is narrow (`OneCompany`), which is what makes
eligibility binding; `Grounds` puts the four together. The rank of a keyword
hit counts the hits of the company asked about only, as the search filters by
company in its WHERE clause: `GroundedSupport` first counted all hits, and the
proof did not go through (the property was false for hits of other companies
before the first one, which the run had no instance of; now it has one).

### The passages

`DocumentProofs` (assumptions `BlocksTyped`, `SizesTyped`), for any list of
classified blocks, any words in them, any encoder and any sizes, with
`PassagesSpec` as the specification of these jobs alone:

- `PassagesTileAlways`: `PassagesSpec => []PassagesTile`
- `EmbeddingAccountsAlways`: `PassagesSpec => []EmbeddingAccounts`
- `PunctuatedTextCoveredAlways`: `PassagesSpec => []PunctuatedTextCovered`

`BlocksTyped` says that a text is a sequence of words and that a heading is no
longer than a passage may be (headings are blocks of a few words, the maximum
is hundreds; one that long would be split, and its last part might be merged
into the passage before it).
`SizesTyped` says that sizes are naturals, that a passage may have a word, and
that a chunk may not have more tokens than the model takes. The target, the
minimum and the overlap are left free, in any relation to each other.

The invariant (`PassagesInv`) only says what each stage is given and made of
it; the argument is in what each function makes of any input:

- Pieces of a text. A *chain* of spans begins at a word, ends at a word and has
  nothing between one span and the next. Sentences are a chain (`SentencesChain`),
  words are (`WordsChain`), and packing spans keeps them a chain whatever is
  joined, closed or cut finer (`PackSpanKeeps`, `PackSpansChain`, `PackChain`);
  a packed piece fits, unless it is one word. So the pieces of a text cover it
  once (`ChainCovers`), which is what chunks need (`ChunksChain`, `Accounts`).
- Groups of pieces. `Packs` says of the groups built so far that they tile the
  blocks taken so far, that each fits a passage, and that a heading is the first
  piece of the first of them; it holds whether a block joins the open group,
  starts the next or is split (`PackBlockKeeps`). Merging the last two groups
  changes no piece (`TileMerge`, `PacksMerge`), and as the merge looks at the
  maximum, the merged group fits too (`MergeKeeps`).
- A heading opens a group because its block is the first of its run
  (`RunPacks`), and runs divide the included blocks in order (`RunsDivide`), so
  that the groups of all runs, one after the other, tile them (`PiecesJoin`,
  `Segments`).
- Windows for questions. Between the cut of a window and the start of the next
  there is no word, as long as a sentence ends within the overlap
  (`WindowFacts`, `NextFacts`): the words up to the cut of the last window are
  covered, at every step (`Quotes`). Without the punctuation they are not, which
  is the violation run `qa_windows` shows.

### Lists and stages of any length

A sheet, a manifest or a pass over the stages is a recursive function over
positions. Induction over it is not available as the library states it, with an
operator for the induction hypothesis. `IterationLemmas` states what is needed
with sets and functions instead: a set of naturals has a least element
(`LeastNatural`), a set that has 0 and is closed under the successor has
everything up to n (`UpTo`), and the states of an iteration exist for every
step function (`IterationExists`), from which the recursive definitions get
the value their equation says.

### Only model-checked

- Three properties of the document modules (run `documents`): `NarrativeIsBody`,
  `UnitsMatchOutline` and `EventsMatchPrinted`. Each compares what a chain of
  heuristics reads out of a report with what was put in, for the printings the
  run generates. They are no statement about every value of the constants: a
  page comes out as it was printed if it was printed within the thresholds of
  the code, and what that takes of a page is as long as the heuristics.
- `CommandsEnd`: liveness under fairness is outside the prover's reach.
- The four claims that do not hold (section 6): a counterexample needs no proof.

## 6. Where the code and its documents disagree

Four have a run that finds the counterexample, and an entry in `findings`
with the lines quoted.

| Run | Claim | The code |
|---|---|---|
| `sessions_corpus_lost` | `gc-corpus` is safe at any time (`publisher.py:2057`) | rows that an uncommitted build found are deleted, and no foreign key objects (`:2064`) |
| `research_mixed` | language output is excluded rather than mixing two lineages (`source_dataset.py:86`) | the lineage is checked on one run and the features are read of another (`source_dataset.py:243`) |
| `qa_windows` | a window ends at a sentence within the tolerance of its boundary, or at the boundary (`qa_chunking.py:133`) | it ends at the last sentence end anywhere in it (`qa_chunking.py:145`); the words cut off may be in no chunk |
| `evidence_scope` | a passage's contexts keep their scope identity for the evidence set's checks (`src/web/lib/services/qa/candidate-generation.ts:117`) | duplicates of a passage are dropped before the scope is checked (`evidence-set-builder.ts:119`), so the context asked for may be the one dropped |

The others show in the definitions themselves, or were found by earlier runs
that made room for properties that hold.

*Publication.*
- A SUPERSEDED publication can be promoted again (`src/docs/publishing.md:145`,
  `src/README.md:520`); `activate_publication` accepts READY only.
- A failed build leaves a FAILED publication (`publisher.py:418`); its caller
  rolls the row back. `src/docs/publishing.md:154` calls a retried build an
  in-place upsert; `build` always inserts, so a version that is present cannot
  be built (`BuildDuplicate`).
- A build touches no other publication's rows (`src/docs/publishing.md:131`);
  a new model's embeddings appear in the served view (`schema.py:264`) as soon
  as the build commits.
- "A validation failure marks the publication `FAILED`"
  (`src/docs/publishing.md:137`). A build's failure does; the `validate`
  command stores its verdict and leaves the status alone
  (`cli/publish.py:210`). With vectors of two models the verdict of an
  unchanged publication may turn to failed (`validation.py:361`) beside READY
  or ACTIVE. Run `sharing` reaches such states; `OnlyOtherModelsInvalidate`
  says that there is no other way to one.
- A content-hash mismatch means unbumped generation logic
  (`publisher.py:276`); a report segmented again changes its chunks under the
  same ids, by the same code.
- Promotion is atomic (`publisher.py:1995`), and refuses what is not READY
  (`:1996`); two that overlap leave two ACTIVE rows, and the status is checked
  at the read and not in the UPDATE, while ids recur after a cleanup and a
  rebuild.
- Cleanup removes FAILED and old SUPERSEDED publications
  (`src/docs/publishing.md:148`); `Doomed` includes READY ones.
- A release that bumps one family leaves the others' generations untouched
  (`publishing/models.py:1269`); the category rows derive from language signals
  and are keyed by the alignment version (`ChildRows`).

*Comparisons.*
- "Four-band percentile split (P50/P80/P95)" (`labels.py:224`);
  `quantiles(n=100)[49], [78], [93]` are the 50th, 79th and 94th
  (`labels.py:245`). Labels are also shown for ineligible values.
- Movers of equal change are listed in the order of a set of strings
  (`publisher.py:1373`), which differs from one process to the next. A pair
  that skips a report and the pair that ends with the same one share a period
  end, so which is latest depends on the order of the database
  (`publisher.py:795`).

*Intake.* Importing a sheet again gives "only 'unchanged' rows (no DB writes,
no duplicate notes)" (`metadata_review.py:252`). If two accepted rows disagree
about one report (`Disputed`), each is applied over the other at every import
and appends its note again (`metadata_review.py:319`); the fields end as
before, which is all `ReviewImportIdempotent` says of such rows. A failed
inspection erases the notes (`metadata_inspection.py:100`). A pair recorded before a report between its two was validated stays
beside the two new pairs (`pairing.py:52`); `is_transition` is that of the day
of pairing (`pairing.py:60`).

*Alignment.* The local exchange can put a match below the content gate that
greedy acceptance enforces; `position_difference` exceeds 1
(`passage_alignment.py:122`) when indices of excluded passages count.
`classify_collision` looks for parts of words in `review_reason`
(`financial_language_metrics.py:93`) and so also takes the rows of duplicate
reconciliation for collisions.

*Units and tables.*
- AMBIGUOUS is never guessed (`enums.py:331`); only candidates of the later
  report are looked at, in database order, and ambiguous ones of the later
  report get no row. "Proof every unit was accounted for" (`enums.py:326`)
  holds for one configuration of the code only, see
  `AbsenceOnlyAcrossConfigurations`.
- A response carries the exact provenance (`cutover_comparison.py:67`); the
  runs it names are those current now, not those the alignment rests on
  (`:191`). MISSING_DATA of `cutover_preflight.py:82` cannot be reached.
  A localization that finds nothing leaves the unit runs of the earlier one
  served, and no fingerprint has the canonical run.
- "Only CLEAN is produced" (`enums.py:424`). A row with a blank cell before
  its last value is shifted and still CLEAN; rows of one identity collapse;
  a block of values alone ends a table, CLEAN; two numbers on one line merge
  when the second begins with three digits.
- A section ends with a page, so that text below its last heading is lost or
  kept with the page; "continued" headings are excluded twice; a widened range
  may take a heading outside the schedule.

*Page text.* The median of a page's type sizes is the upper one of two; the
headings "Note 1", "Note 2", ... at the head of their pages are taken for one
running head (numbers aside, they are one text), the exception in
`NarrativeIsBody`.

*Signals and features.* The loop over spellings of inflections adds nothing;
`feature_eligible` is decided by side in one place and by row in the other;
`split_merge_flag` is always false, as no row has the status it looks for; a
hyphenated token is split only for phrases of exactly its words.

*Web.*
- "The ONE Gemini call this request will ever make" (`qa-orchestrator.ts:123`);
  `gemini-provider.ts:144` retries, under one unit of quota.
- A unit is spent when the global counter refuses, when generation fails and
  when there is no evidence; a request without the cookie is not metered
  (`qa-orchestrator.ts:128`); one that runs into the next day is counted on
  one day for its client and on the other globally.
- "A stable citation identity" (`src/web/lib/domain/retrieval.ts:136`): the
  citations of a search get the publication id that a last statement reads
  (`retrieval-service.ts:96`, `:189`), another publication's if a promotion
  came in between; the citations of `/ask` lose their member passages in the
  same way (`postgres-qa-chunk-repository.ts:212`). Rows, texts, pages and
  labels are of one release. `OneReleasePerPage` states all three.
- A hybrid search without its embedding lists a passage of two comparisons
  twice. A question whose embedding fails is answered INSUFFICIENT_EVIDENCE.
  Of two concurrent misses for one text the second evicts another entry.

*Evidence review.*
- "Does not flag conflicting periods for a comparative question that
  legitimately spans two periods" (`src/web/tests/unit/coherence-checker.test.ts:146`)
  holds for the fixture, whose contexts have no report period; a published
  context has one, and a question with one company and a direction is a
  `single_comparison`, for which two periods conflict
  (`coherence-checker.ts:31`). So such a question, asked of both its reports,
  ends in AMBIGUOUS_OR_CONFLICTING.
- The default preset is said to be `full_gate_restatement_safeguards`
  (`qa-config.ts:86`); `query_type_gate_generic_penalty` is shipped.
- "Nearby context" of a bare figure (`passage-quality.ts:105`) may be the same
  passage in another comparison (`qa-reranker.ts:130`).
- A text duplicate is rejected under its own passage id, so
  `duplicateCountedAsIndependent` (`coherence-checker.ts:59`) sees repeated
  passages only.
- The publication a package names is read beside its candidates
  (`qa-pipeline.ts:76`), as in a search.

## 7. Abstractions and what is not modelled

- **Dry runs** of cleanup and the collectors change nothing and are left out,
  as are the read-only commands (`list`, `show`, `audit`, `benchmark`).
- A **publication built before the shared tables** existed (texts and
  embeddings inline in `app.*`) is not modelled: no command builds one.
- `kind`, `detail`, `hits` stand for the columns that are hashed: what
  `classify_passage` and the labelling code make of a row, and whether a
  category's hits count, are all negated or are absent. `Categories` are
  categories and subcategories alike.
- In `Publication`, the windows of `build_qa_chunks` over one report are one
  chunk, keyed by the report; `Passages` has the windows themselves.
- `Snapshots` is any set of typed snapshots: consistent lineages are not
  assumed, so a snapshot torn between two SELECTs is covered.
- Report-comparison, metric, discovery and cutover rows belong to one
  publication, share nothing and are cascaded with the rest of its thin rows;
  they are left out of `thin` and modelled in `PublishedComparisons`.
- In `PublisherSessions` the `validate` command is left out (it rewrites a
  summary no other command reads), as are the schema commands; a build's pure
  computation between statements is not a step. `Rank` is one order of the
  shared rows' ids. Lock timeouts and lost connections are not modelled; a
  connection lost before COMMIT leaves what `Victim` leaves.
- `ResearchRuns` has one pair and at most one slow command; research commands
  do not lock each other out in the code either. Embedding models and page
  texts are part of the configuration.
- The five **document similarity metrics** (TF-IDF, BM25, Jaccard, edit
  ratio, embeddings) and the metrics of `lexical_unit_comparison` are inputs;
  so are the measures a block or a passage is classified by. Scores are exact
  integers and fractions where the code has floats.
- The **question router** and the **validation of the generated text** are a
  free outcome; filters by year and company, the cache of heading frequencies
  (five minutes), the second exact query when the index finds nothing and
  failures of `listCompanies` are left out of `WebRequests`.
- In `EvidenceReview` the **patterns over the wording** of questions and
  passages are inputs; scores are exact percentages; the limit of 40 candidates
  per search, the tokens of citations, warnings, timings and the list of
  superseded passages, on which no decision rests, are left out, as is the
  chunk source that only offline experiments pass.
- **Text cleaning and PDF access**: regular expressions over characters and a
  third-party library, no state.
- **Audits, exports, validation samples, experiments**: read-only reports.
- **Web pages, mappers, client components**, the **embedding service**, the
  **report downloader**: rendering, a stateless wrapper, and network discovery
  before the first scan.
- **Migrations and grants** of the application schema.
