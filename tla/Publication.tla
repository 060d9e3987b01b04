---------------------------- MODULE Publication ----------------------------
(***************************************************************************)
(* The application database of the publication layer, as the operator      *)
(* commands `market-documents publish build / validate / promote /         *)
(* cleanup / gc-corpus / gc-artifacts` change it.                          *)
(*                                                                         *)
(*   app_internal   publications and the application_state pointer         *)
(*   app            thin rows, one copy per publication                    *)
(*   app_corpus     passage texts and embeddings, shared by publications   *)
(*   app_artifacts  versioned artifacts, shared by publications            *)
(*                                                                         *)
(* Every command runs in one app_session_scope transaction, so here each   *)
(* command is one action; PublisherSessions interleaves them.              *)
(***************************************************************************)
EXTENDS Naturals, FiniteSets

CONSTANTS
  Versions,     \* publication_version strings; the publication id derives from it
  Passages,     \* research passage ids
  Reports,      \* research report ids
  ReportOf,     \* the report each passage belongs to
  Alignments,   \* research passage_alignment ids
  Categories,   \* language-signal categories
  Models,       \* embedding model revisions
  Generations,  \* values of the *_ARTIFACT_VERSION constants
  Snapshots,    \* what resolve_research_snapshot (and the deployed code) may yield
  Keeps,        \* values of cleanup's --keep
  None          \* a null column

ASSUME NoneIsNew == None \notin Versions \cup Passages \cup Models

ASSUME KeepsAreNaturals == Keeps \subseteq Nat

VARIABLES
  status,     \* publications.status, ABSENT when there is no row
  after,      \* the order of publications.completed_at, latest first
  summary,    \* publications.validation_summary: did the last validation pass?
  active,     \* application_state.active_publication_id
  thin,       \* the app.* rows of each publication
  text,       \* app_corpus.passages
  embedding,  \* app_corpus.passage_embeddings
  artifact,   \* the four large app_artifacts tables
  child,      \* the three app_artifacts child tables
  raised,     \* the last command, when it was a build that raised
  computed    \* history: the artifact rows each publication's build computed

catalog == <<status, after, summary, active>>
shared == <<text, embedding, artifact, child>>
vars == <<catalog, thin, shared, raised, computed>>

-----------------------------------------------------------------------------
(* Statuses, sides and snapshots                                           *)

Statuses == {"READY", "ACTIVE", "FAILED", "SUPERSEDED"}
Successful == {"READY", "ACTIVE", "SUPERSEDED"}

Sides == {"EARLIER", "LATER"}
Matched == {"UNCHANGED", "LIGHTLY_MODIFIED", "SUBSTANTIALLY_MODIFIED"}
AlignmentStatuses == Matched \cup {"NEW", "REMOVED", "AMBIGUOUS"}

\* A primary PassageAlignment row. `detail` stands for its scores and for
\* whatever the deployed labelling code derives from them.
AlignmentRows ==
  [status : AlignmentStatuses, EARLIER : Passages \cup {None},
   LATER : Passages \cup {None}, detail : Nat]

\* "counted" is a hit row with a positive adjusted count, "negated" one whose
\* hits are all negated, "none" no hit row (or no language run to publish).
Hits == {"none", "negated", "counted"}

\* A ResearchSnapshot, with the artifact versions of the code that reads it.
\* `passages` are those left after the excluded_as_artifact filter, `kind` is
\* what the deployed classify_passage makes of each; `sound` says that the
\* dataset passes the checks of validate_persisted that look at nothing shared.
SnapshotType ==
  [passages : SUBSET Passages,
   kind : [Passages -> Nat],
   model : [Passages -> Models \cup {None}],
   align : [Alignments -> AlignmentRows \cup {None}],
   hits : [Alignments \X Sides \X Categories -> Hits],
   alignment_version : Generations,
   signal_version : Generations,
   chunking_version : Generations,
   sound : BOOLEAN]

ASSUME SnapshotsTyped == Snapshots \subseteq SnapshotType

ASSUME DatasetsFinite == \A d \in Snapshots : IsFiniteSet(d.passages)

ASSUME ReportOfTyped == ReportOf \in [Passages -> Reports]

Present(v) == status[v] # "ABSENT"

-----------------------------------------------------------------------------
(* Identities: derive_id over an artifact version, a table, a source key   *)

Id(table, version, key, context_type) ==
  [table |-> table, version |-> version, key |-> key, context_type |-> context_type]

ComparisonId(d, a) == Id("passage_comparisons", d.alignment_version, <<a>>, "NONE")
LinkedId(d, a, s) == Id("retrieval_contexts", d.alignment_version, <<a, s>>, "COMPARISON_LINKED")
ReportOnlyId(d, p) == Id("retrieval_contexts", d.alignment_version, <<p>>, "REPORT_ONLY")
SignalId(d, a, s, c) == Id("passage_language_signals", d.signal_version, <<a, s, c>>, "NONE")
ChunkId(d, r) == Id("qa_chunks", d.chunking_version, <<r>>, "NONE")

-----------------------------------------------------------------------------
(* What _build_rows derives from a snapshot                                *)

\* The alignments that become app.passage_comparisons rows: a side whose
\* passage is not published counts as missing.
Compared(d) ==
  { a \in Alignments :
      /\ d.align[a] # None
      /\ LET row == d.align[a]
             earlier == row.EARLIER \in d.passages
             later == row.LATER \in d.passages
         IN /\ earlier \/ later
            /\ row.status \in Matched => earlier /\ later
            /\ row.status = "NEW" => later
            /\ row.status = "REMOVED" => earlier }

SidePassage(d, a, s) == d.align[a][s]

PublishedSides(d) ==
  { x \in Compared(d) \X Sides : SidePassage(d, x[1], x[2]) \in d.passages }

\* One COMPARISON_LINKED context per published side with an embedding, one
\* REPORT_ONLY context per embedded passage on no side of any comparison.
Linked(d) ==
  { x \in PublishedSides(d) : d.model[SidePassage(d, x[1], x[2])] # None }

ReportOnly(d) ==
  { p \in d.passages :
      /\ d.model[p] # None
      /\ \A x \in PublishedSides(d) : SidePassage(d, x[1], x[2]) # p }

Counted(d) ==
  { x \in Alignments \X Sides \X Categories : d.hits[x] = "counted" }

Signalled(d) ==
  { x \in Alignments \X Sides \X Categories :
      /\ d.hits[x] # "none"
      /\ <<x[1], x[2]>> \in PublishedSides(d) }

\* is_introduced, is_removed, is_retained of a signal.
Movement(d, a, s) ==
  LET alignment_status == d.align[a].status IN
  CASE alignment_status = "NEW" /\ s = "LATER" -> "introduced"
    [] alignment_status = "REMOVED" /\ s = "EARLIER" -> "removed"
    [] alignment_status \in Matched -> "retained"
    [] OTHER -> "other"

\* The windows of build_qa_chunks over one report, taken together: their text
\* is determined by the report's published passages, their key is not.
Chunked(d, qa) ==
  { r \in Reports : qa /\ \E p \in d.passages : ReportOf[p] = r }

ChunkMembers(d, r) == { p \in d.passages : ReportOf[p] = r }

\* The artifact rows (identity and hashed content) a build computes.
ArtifactRows(d, qa) ==
     { [id |-> ComparisonId(d, a), content |-> d.align[a]] : a \in Compared(d) }
  \cup
     { [id |-> LinkedId(d, x[1], x[2]),
        content |-> [status |-> d.align[x[1]].status, detail |-> d.align[x[1]].detail,
                     passage |-> SidePassage(d, x[1], x[2]),
                     kind |-> d.kind[SidePassage(d, x[1], x[2])]]] : x \in Linked(d) }
  \cup
     { [id |-> ReportOnlyId(d, p), content |-> [passage |-> p, kind |-> d.kind[p]]]
       : p \in ReportOnly(d) }
  \cup
     { [id |-> SignalId(d, x[1], x[2], x[3]),
        content |-> [hit |-> d.hits[x], passage |-> SidePassage(d, x[1], x[2]),
                     movement |-> Movement(d, x[1], x[2])]]
       : x \in Signalled(d) }
  \cup
     { [id |-> ChunkId(d, r), content |-> ChunkMembers(d, r)] : r \in Chunked(d, qa) }

\* Category and chunk-member rows: no version axis of their own and no hash.
ChildRows(d, qa) ==
     { [of |-> LinkedId(d, x[1], x[2]), value |-> x[3]]
       : x \in { y \in Counted(d) : <<y[1], y[2]>> \in Linked(d) } }
  \cup
     { [of |-> ChunkId(d, ReportOf[p]), value |-> p]
       : p \in { p \in d.passages : ReportOf[p] \in Chunked(d, qa) } }

EmbeddingRows(d) ==
  { <<p, d.model[p]>> : p \in { p \in d.passages : d.model[p] # None } }

\* app.retrieval_contexts: the artifact and the corpus embedding each row names.
ContextRows(d) ==
     { [artifact |-> LinkedId(d, x[1], x[2]),
        embedding |-> <<SidePassage(d, x[1], x[2]), d.model[SidePassage(d, x[1], x[2])]>>]
       : x \in Linked(d) }
  \cup
     { [artifact |-> ReportOnlyId(d, p), embedding |-> <<p, d.model[p]>>]
       : p \in ReportOnly(d) }

\* The per-publication rows; each names the shared rows that hold its content.
ThinRows(d, qa) ==
  [passages |-> d.passages,
   artifacts |-> { r.id : r \in ArtifactRows(d, qa) },
   contexts |-> ContextRows(d),
   children |-> ChildRows(d, qa)]

NoRows == [passages |-> {}, artifacts |-> {}, contexts |-> {}, children |-> {}]

-----------------------------------------------------------------------------
(* validate_persisted                                                      *)

\* At least 95% of the passages have an embedding row, under any model.
Covered(rows, stored) ==
  LET missing == { p \in rows.passages : \A m \in Models : <<p, m>> \notin stored }
  IN 100 * Cardinality(missing) <= 5 * Cardinality(rows.passages)

\* The check indexes the stored embeddings by passage alone, so of several
\* models' rows the one the query returns last is compared with the context's.
ContextsMatch(rows, pick) ==
  \A c \in rows.contexts : c.embedding = <<c.embedding[1], pick[c.embedding[1]]>>

Picks(rows, stored) ==
  { pick \in [rows.passages -> Models \cup {None}] :
      \A p \in rows.passages :
        IF \E m \in Models : <<p, m>> \in stored
        THEN <<p, pick[p]>> \in stored
        ELSE pick[p] = None }

Verdicts(rows, stored, sound) ==
  { sound /\ Covered(rows, stored) /\ ContextsMatch(rows, pick)
    : pick \in Picks(rows, stored) }

-----------------------------------------------------------------------------
(* The commands                                                            *)

Init ==
  /\ status = [v \in Versions |-> "ABSENT"]
  /\ after = {}
  /\ summary = [v \in Versions |-> [sound |-> FALSE, passed |-> FALSE]]
  /\ active = None
  /\ thin = [v \in Versions |-> NoRows]
  /\ text = {}
  /\ embedding = {}
  /\ artifact = {}
  /\ child = {}
  /\ raised = None
  /\ computed = [v \in Versions |-> {}]

\* Mutant: an existing artifact id is taken for the same content.
HashesAgreeMutant(rows) == TRUE

\* _check_content_hash against every artifact row the build finds stored.
HashesAgree(rows) ==
  \A x \in artifact, r \in rows : x.id = r.id => x = r

\* The rows are written, validated in place and committed READY or FAILED.
Build(v, d, qa) ==
  LET rows == ArtifactRows(d, qa)
      stored == embedding \cup EmbeddingRows(d)
  IN /\ status[v] = "ABSENT"
     /\ HashesAgree(rows)
     /\ thin' = [thin EXCEPT ![v] = ThinRows(d, qa)]
     /\ text' = text \cup d.passages
     /\ embedding' = stored
     /\ artifact' = artifact \cup { r \in rows : \A x \in artifact : x.id # r.id }
     /\ child' = child \cup ChildRows(d, qa)
     /\ \E passed \in Verdicts(ThinRows(d, qa), stored, d.sound) :
          /\ status' = [status EXCEPT ![v] = IF passed THEN "READY" ELSE "FAILED"]
          /\ summary' = [summary EXCEPT ![v] = [sound |-> d.sound, passed |-> passed]]
     /\ after' = after \cup { <<v, w>> : w \in { w \in Versions : Present(w) } }
     /\ computed' = [computed EXCEPT ![v] = rows]
     /\ raised' = None
     /\ UNCHANGED active

\* A build that raises: app_session_scope rolls its whole transaction back.
Raises(v, error) ==
  /\ raised' = [version |-> v, error |-> error]
  /\ UNCHANGED <<catalog, thin, shared, computed>>

\* The first flush violates uq_publications_version.
BuildDuplicate(v) ==
  /\ Present(v)
  /\ Raises(v, "IntegrityError")

\* _check_content_hash found another content under an id of this build.
BuildMismatch(v, d, qa) ==
  /\ status[v] = "ABSENT"
  /\ ~HashesAgree(ArtifactRows(d, qa))
  /\ Raises(v, "RuntimeError")

\* The validate command stores the new summary and leaves the status alone.
Validate(v) ==
  /\ Present(v)
  /\ \E passed \in Verdicts(thin[v], embedding, summary[v].sound) :
       summary' = [summary EXCEPT ![v].passed = passed]
  /\ raised' = None
  /\ UNCHANGED <<status, after, active, thin, shared, computed>>

Promotable(v) == status[v] = "READY"

\* activate_publication.
Promote(v) ==
  /\ Promotable(v)
  /\ status' = [w \in Versions |->
                  CASE w = v -> "ACTIVE"
                    [] w # v /\ w = active /\ status[w] = "ACTIVE" -> "SUPERSEDED"
                    [] OTHER -> status[w]]
  /\ active' = v
  /\ raised' = None
  /\ UNCHANGED <<after, summary, thin, shared, computed>>

\* Mutant: order_by(completed_at) without desc().
LatestMutant(keep) ==
  { v \in Versions :
      /\ status[v] \in Successful
      /\ Cardinality({ w \in Versions : status[w] \in Successful /\ <<v, w>> \in after }) < keep }

\* cleanup_publications: the `keep` latest successful publications, and every
\* ACTIVE one, survive.
Latest(keep) ==
  { v \in Versions :
      /\ status[v] \in Successful
      /\ Cardinality({ w \in Versions : status[w] \in Successful /\ <<w, v>> \in after }) < keep }

\* Mutant: the served publication is not exempt.
DoomedMutant(keep) == { v \in Versions : Present(v) /\ v \notin Latest(keep) }

Doomed(keep) ==
  { v \in Versions : Present(v) /\ v \notin Latest(keep) /\ status[v] # "ACTIVE" }

\* Mutant: a foreign key without ON DELETE CASCADE.
CascadeMutant(gone) == thin

\* The app.* rows of a deleted publications row go with it.
Cascade(gone) == [v \in Versions |-> IF v \in gone THEN NoRows ELSE thin[v]]

Cleanup(keep) ==
  LET gone == Doomed(keep) IN
  /\ status' = [v \in Versions |-> IF v \in gone THEN "ABSENT" ELSE status[v]]
  /\ summary' = [v \in Versions |-> IF v \in gone THEN [sound |-> FALSE, passed |-> FALSE]
                                    ELSE summary[v]]
  /\ after' = { x \in after : x[1] \notin gone /\ x[2] \notin gone }
  /\ thin' = Cascade(gone)
  /\ computed' = [v \in Versions |-> IF v \in gone THEN {} ELSE computed[v]]
  /\ raised' = None
  /\ UNCHANGED <<active, shared>>

\* Mutant: only what is served counts as a reference.
UsedPassageMutant(p) == \E v \in Versions : status[v] = "ACTIVE" /\ p \in thin[v].passages

\* gc_orphaned_corpus_rows.
UsedPassage(p) == \E v \in Versions : p \in thin[v].passages

\* Mutant: the embeddings of publications that are not served count as unused.
UsedEmbeddingMutant(e) ==
  \E v \in Versions : status[v] = "ACTIVE" /\ e[1] \in thin[v].passages

UsedEmbedding(e) ==
  \/ UsedPassage(e[1])
  \/ \E v \in Versions : \E c \in thin[v].contexts : c.embedding = e

GcCorpus ==
  /\ embedding' = { e \in embedding : UsedEmbedding(e) }
  /\ text' = { p \in text : UsedPassage(p) }
  /\ raised' = None
  /\ UNCHANGED <<catalog, thin, artifact, child, computed>>

\* Mutant: the same mistake for artifacts.
UsedArtifactMutant(id) == \E v \in Versions : status[v] = "ACTIVE" /\ id \in thin[v].artifacts

\* gc_orphaned_artifact_rows; child rows go with their parent (ON DELETE CASCADE).
UsedArtifact(id) == \E v \in Versions : id \in thin[v].artifacts

GcArtifacts ==
  /\ artifact' = { x \in artifact : UsedArtifact(x.id) }
  /\ child' = { x \in child : UsedArtifact(x.of) }
  /\ raised' = None
  /\ UNCHANGED <<catalog, thin, text, embedding, computed>>

Next ==
  \/ \E v \in Versions, d \in Snapshots, qa \in BOOLEAN : Build(v, d, qa)
  \/ \E v \in Versions : BuildDuplicate(v)
  \/ \E v \in Versions, d \in Snapshots, qa \in BOOLEAN : BuildMismatch(v, d, qa)
  \/ \E v \in Versions : Validate(v)
  \/ \E v \in Versions : Promote(v)
  \/ \E keep \in Keeps : Cleanup(keep)
  \/ GcCorpus
  \/ GcArtifacts

Spec == Init /\ [][Next]_vars

-----------------------------------------------------------------------------
(* Properties                                                              *)

RowIds == { r.id : r \in artifact }

\* Every column holds a value of its domain; an absent publication has no row
\* anywhere (ON DELETE CASCADE), and the thin rows of a present one name
\* exactly the artifact rows its build computed.
TypeOK ==
  /\ status \in [Versions -> Statuses \cup {"ABSENT"}]
  /\ after \subseteq { x \in Versions \X Versions : Present(x[1]) /\ Present(x[2]) }
  /\ summary \in [Versions -> [sound : BOOLEAN, passed : BOOLEAN]]
  /\ active \in Versions \cup {None}
  /\ DOMAIN thin = Versions /\ DOMAIN computed = Versions
  /\ \A v \in Versions :
       /\ thin[v].passages \subseteq Passages
       /\ thin[v].artifacts = { r.id : r \in computed[v] }
       /\ ~Present(v) => thin[v] = NoRows /\ computed[v] = {}
  /\ text \subseteq Passages
  /\ embedding \subseteq Passages \X Models
  /\ raised \in [version : Versions, error : {"IntegrityError", "RuntimeError"}] \cup {None}

\* The pointer the app.current_* views join on and the ACTIVE status agree:
\* at most one publication is ACTIVE, it is the served one, and no sequence of
\* builds, promotions and cleanups leaves the pointer without its publication.
OneServed == \A v \in Versions : status[v] = "ACTIVE" <=> active = v

\* An artifact id of a retained publication names exactly one stored row, and
\* that row is what the publication's own build computed, whatever other
\* builds reused or the garbage collection removed since.
ContentAsBuilt ==
  \A v \in Versions : \A r \in computed[v] :
    { x \in artifact : x.id = r.id } = {r}

\* Nothing a retained publication's thin rows point to is missing from the
\* shared tables: there is no foreign key from them into app_corpus, only the
\* reference counting of gc_orphaned_corpus_rows.
RetainedResolves ==
  \A v \in Versions :
    /\ thin[v].passages \subseteq text
    /\ \A c \in thin[v].contexts : c.embedding \in embedding
    /\ thin[v].children \subseteq child

\* A passage that v cites is also stored under a model other than v cites.
OtherModelStored(v) ==
  \E c \in thin[v].contexts, m \in Models :
    m # c.embedding[2] /\ <<c.embedding[1], m>> \in embedding

\* The validate command, run on any publication after any builds, cleanups and
\* collections, takes back a build's verdict in one case only: a passage has
\* been embedded under a second model, and the check compares its context with
\* that vector. The failed summary then stands beside READY, ACTIVE or
\* SUPERSEDED, for validate leaves the status alone
\* (docs/publishing.md: "A validation failure marks the publication FAILED").
OnlyOtherModelsInvalidate ==
  \A v \in Versions :
    Present(v) /\ ~summary[v].passed /\ status[v] # "FAILED" => OtherModelStored(v)

\* A successful publication disappears only once as many newer successful ones
\* as the smallest --keep asks for remain, and never while it is served.
RetentionHonoured ==
  [][ \A v \in Versions :
        status[v] \in Successful /\ status'[v] = "ABSENT" =>
          /\ active # v
          /\ \E keep \in Keeps :
               /\ Cleanup(keep)
               /\ Cardinality({ w \in Versions : /\ status'[w] \in Successful
                                              /\ <<w, v>> \in after }) >= keep ]_vars

\* What a reader of publication v gets when its rows are resolved through the
\* shared tables.
Resolved(v) ==
  [texts |-> thin[v].passages \cap text,
   artifacts |-> { x \in artifact : x.id \in thin[v].artifacts },
   embeddings |-> { c.embedding : c \in thin[v].contexts } \cap embedding,
   children |-> thin[v].children \cap child]

Register == INSTANCE ReleaseRegister WITH
  release <- [v \in { v \in Versions : Present(v) } |-> Resolved(v)],
  live <- active,
  spent <- { v \in Versions : status[v] \in {"ACTIVE", "SUPERSEDED"} },
  rejected <- { v \in Versions : status[v] = "FAILED" }

\* The publication layer, for all its sharing and garbage collection, is a
\* register of immutable releases of which one is live.
ImplementsRegister == Register!Spec
=============================================================================
