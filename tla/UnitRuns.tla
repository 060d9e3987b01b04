------------------------------ MODULE UnitRuns ------------------------------
(***************************************************************************)
(* The runs of the semantic-unit track for one schedule and one table      *)
(* family: canonical extraction, schedule localization, unit extraction,   *)
(* unit alignment, analytical decisions, table reconstruction and table    *)
(* comparison, and the comparison the cutover serves from them.            *)
(*                                                                         *)
(* Each stage is a log of runs, "current" the last successful one. A       *)
(* command goes through all reports or pairs of a ticker in one            *)
(* transaction and is one step. What the algorithms find in a document is  *)
(* given by constants: UnitText and StructuredTables model how. A unit's    *)
(* heading stands for its key, so that no two units of a report share one.  *)
(***************************************************************************)
EXTENDS Integers, Sequences, FiniteSets, FiniteSetsExt, SequencesExt, Functions

CONSTANTS
  Earlier, Later, \* the two reports of the pair
  Pair,           \* the report pair
  Units,          \* unit keys
  Configured,     \* units configured for the ticker, by version of the code
  Mode,           \* UNIT_ANALYTICAL_MODES: a mode for some of the units
  Scope,          \* NEW_PIPELINE_NARRATIVE_SCOPE
  Usable,         \* reports whose legacy extraction is not of FAILED quality
  Located,        \* <<report, source>>: the schedule is found in that source
  Extracted,      \* what becomes of each unit, by report, the source that
                  \* located the schedule and the source its blocks are of
  Tabulated,      \* reports whose canonical source holds the table
  MaxCommands,    \* commands (a bound)
  MaxFailures,    \* failed attempts (a bound)
  None

Reports == {Earlier, Later}

Stages ==
  <<"extraction", "canonical", "localization", "units", "alignment", "decisions",
    "tables", "table_alignment">>

\* Where blocks are read from: the legacy extraction or the canonical one.
Kinds == {"legacy", "canonical"}

\* A unit of a run; a unit whose heading was not found has no row.
BoundaryStatus == {"RESOLVED", "UNRESOLVED"}

ASSUME PairOfTwo == Earlier # Later /\ Pair \notin Reports
ASSUME ConfiguredTyped == Configured \in Seq(SUBSET Units) /\ Configured # <<>>
ASSUME ExtractedTyped ==
  Extracted \in [Reports \X Kinds \X Kinds -> [Units -> BoundaryStatus \cup {"absent"}]]
ASSUME BoundsTyped == {MaxCommands, MaxFailures} \subseteq Nat

VARIABLES
  runs,     \* every run row of every stage
  version,  \* the installed code, by its unit configuration
  commands  \* commands run

vars == <<runs, version, commands>>

-----------------------------------------------------------------------------
Key(run) == <<run.stage, run.subject, run.n>>

RunsOf(rs, stage, subject) == { run \in rs : run.stage = stage /\ run.subject = subject }

Successful(rs) == { run \in rs : run.status # "FAILED" }

\* Mutant: a failed attempt hides the run before it.
CurrentMutant(rs, stage, subject) ==
  { run \in RunsOf(Successful(rs), stage, subject) :
      \A other \in RunsOf(rs, stage, subject) : other.n <= run.n }

\* get_current_*_run: the last completed, as a set of at most one.
Current(rs, stage, subject) ==
  LET done == RunsOf(Successful(rs), stage, subject)
  IN { run \in done : \A other \in done : other.n <= run.n }

RunAt(rs, key) == CHOOSE run \in rs : Key(run) = key

\* get_current_canonical_run decides where blocks come from.
SourceOf(rs, r) ==
  IF Current(rs, "canonical", r) = {} THEN "legacy" ELSE "canonical"

-----------------------------------------------------------------------------
(* align_units, units being told apart by their keys                        *)

\* Mutant: a unit that one run lacks is taken to be absent from the report.
AlignmentRowsMutant(e, l) ==
  { [unit |-> u, status |-> IF u \notin DOMAIN e.output THEN "ADDED"
                            ELSE IF u \notin DOMAIN l.output THEN "REMOVED" ELSE "MATCHED"] :
      u \in DOMAIN e.output \cup DOMAIN l.output }

\* Rows of two unit runs; an absent counterpart is a fact only when the other
\* run had no warning.
AlignmentRows(e, l) ==
  LET clean(run) == run.status = "COMPLETED"
      Row(u) ==
        LET inE == u \in DOMAIN e.output
            inL == u \in DOMAIN l.output
            status ==
              CASE inE /\ inL -> IF e.output[u] = "RESOLVED" /\ l.output[u] = "RESOLVED"
                                 THEN "MATCHED" ELSE "UNRESOLVED_UPSTREAM"
                [] inE /\ ~inL -> IF e.output[u] = "RESOLVED" /\ clean(l)
                                  THEN "REMOVED" ELSE "UNRESOLVED_UPSTREAM"
                [] ~inE /\ inL -> IF l.output[u] = "RESOLVED" /\ clean(e)
                                  THEN "ADDED" ELSE "UNRESOLVED_UPSTREAM"
        IN [unit |-> u, status |-> status]
  IN { Row(u) : u \in DOMAIN e.output \cup DOMAIN l.output }

\* route_alignment and the metrics of a LEXICAL_ONLY decision; unresolved
\* alignments have no decision.
Decisions(alignment) ==
  LET mode(row) ==
        CASE row.status \in {"ADDED", "REMOVED"} -> "PRESENCE_STATUS_ONLY"
          [] row.status = "MATCHED" ->
               IF row.unit \in DOMAIN Mode THEN Mode[row.unit] ELSE "NOT_ELIGIBLE"
  IN { [unit |-> row.unit, mode |-> mode(row), metrics |-> mode(row) = "LEXICAL_ONLY"] :
         row \in { r \in alignment.output : r.status # "UNRESOLVED_UPSTREAM" } }

-----------------------------------------------------------------------------
(* The stages: what a run is pinned to, and what it makes of what it reads   *)

Subjects(stage) ==
  IF stage \in {"alignment", "decisions", "table_alignment"} THEN {Pair} ELSE Reports

Keys(rs) == { Key(run) : run \in rs }

\* The runs a new run would be pinned to; none when the subject is ineligible.
Sources(rs, stage, s) ==
  LET Both(upstream) ==
        { <<Key(e), Key(l)>> : e \in Current(rs, upstream, Earlier), l \in Current(rs, upstream, Later) }
  IN CASE stage \in {"extraction", "canonical"} -> {<<>>}
       [] stage = "localization" ->
            IF s \notin Usable THEN {} ELSE { <<k>> : k \in Keys(Current(rs, "extraction", s)) }
       [] stage = "units" ->
            IF Configured[version] = {} THEN {}
            ELSE { <<Key(run)>> : run \in { x \in Current(rs, "localization", s) : x.output # "NOT_FOUND" } }
       [] stage = "alignment" -> Both("units")
       [] stage = "decisions" -> { <<k>> : k \in Keys(Current(rs, "alignment", s)) }
       [] stage = "tables" -> { <<k>> : k \in Keys(Current(rs, "canonical", s)) }
       [] stage = "table_alignment" ->
            { pin \in Both("tables") : \A i \in DOMAIN pin : RunAt(rs, pin[i]).output = "table" }

\* compute_configuration_hash: only the units change with the code.
Fingerprint(stage) == IF stage = "units" THEN version ELSE 0

\* The rows a run writes.
Output(rs, stage, s, pin) ==
  LET source(i) == RunAt(rs, pin[i])
      kind == SourceOf(rs, s)
      found == Extracted[<<s, source(1).read, kind>>]
  IN CASE stage = "localization" -> IF <<s, kind>> \in Located THEN "FOUND" ELSE "NOT_FOUND"
       [] stage = "units" -> Restrict(found, { u \in Configured[version] : found[u] # "absent" })
       [] stage = "alignment" -> AlignmentRows(source(1), source(2))
       [] stage = "decisions" -> Decisions(source(1))
       [] stage = "tables" -> IF s \in Tabulated THEN "table" ELSE "no table"
       [] OTHER -> None

\* A unit without a heading, an unresolved one, a doubtful row, a unit of no
\* mode or a missing table is a warning.
Clean(stage, output) ==
  CASE stage = "units" -> \A u \in Configured[version] : u \in DOMAIN output /\ output[u] = "RESOLVED"
    [] stage = "alignment" -> \A row \in output : row.status # "UNRESOLVED_UPSTREAM"
    [] stage = "decisions" -> \A row \in output : row.mode # "NOT_ELIGIBLE"
    [] stage = "tables" -> output = "table"
    [] OTHER -> TRUE

Attempt(rs, stage, s, pin) ==
  LET output == Output(rs, stage, s, pin)
  IN [stage |-> stage, subject |-> s, n |-> Cardinality(RunsOf(rs, stage, s)) + 1,
      config |-> Fingerprint(stage), inputs |-> pin, read |-> IF s = Pair THEN None ELSE SourceOf(rs, s),
      output |-> output,
      status |-> IF Clean(stage, output) THEN "COMPLETED" ELSE "COMPLETED_WITH_WARNINGS"]

\* A failure rolls the run's rows back to a savepoint and leaves a FAILED run.
Failed(run) == [run EXCEPT !.output = None, !.status = "FAILED"]

\* Mutant: whatever the run was made from.
UpToDateMutant(rs, stage, s, pin) == \E run \in Current(rs, stage, s) : run.config = Fingerprint(stage)

UpToDate(rs, stage, s, pin) ==
  \E run \in Current(rs, stage, s) : run.config = Fingerprint(stage) /\ run.inputs = pin

Attempts(rs, stage, s, force) ==
  { Attempt(rs, stage, s, pin) :
      pin \in { p \in Sources(rs, stage, s) : force \/ ~UpToDate(rs, stage, s, p) } }

\* One command: every subject, of which those in `failing` fail.
RunStage(rs, stage, force, failing) ==
  rs \cup UNION { { IF s \in failing THEN Failed(run) ELSE run : run \in Attempts(rs, stage, s, force) } :
                    s \in Subjects(stage) }

-----------------------------------------------------------------------------
(* What is served                                                           *)

\* Mutant: the current decisions, whatever alignment they were made for.
DecisionsOnMutant(alignments) == UNION { run.output : run \in Current(runs, "decisions", Pair) }

\* The decisions about the very rows of the current alignment run.
DecisionsOn(alignments) ==
  UNION { run.output : run \in
    { x \in Current(runs, "decisions", Pair) : \E a \in alignments : x.inputs = <<Key(a)>> } }

\* get_narrative_comparison with the cutover enabled.
Narrative(unit) ==
  LET alignments == Current(runs, "alignment", Pair)
      rows == { row \in UNION { a.output : a \in alignments } : row.unit = unit }
      row == CHOOSE r \in rows : TRUE
      decisions == { d \in DecisionsOn(alignments) : d.unit = unit }
      decision == CHOOSE d \in decisions : TRUE
      Response(status, alignment, mode, metrics) ==
        [status |-> status, alignment |-> alignment, mode |-> mode, metrics |-> metrics]
  IN CASE unit \notin Scope -> Response("NOT_AVAILABLE", None, None, FALSE)
       [] OTHER ->
            IF rows = {} THEN Response("UNRESOLVED_UPSTREAM", None, None, FALSE)
            ELSE IF row.status = "UNRESOLVED_UPSTREAM"
                 THEN Response("UNRESOLVED_UPSTREAM", row.status, None, FALSE)
            ELSE IF decisions = {} THEN Response("REVIEW_REQUIRED", row.status, None, FALSE)
            ELSE Response(IF decision.mode = "NOT_ELIGIBLE" THEN "REVIEW_REQUIRED" ELSE "RESOLVED",
                          row.status, decision.mode, decision.metrics)

\* The sides of a served comparison that carry provenance: their unit runs.
ProvenanceRuns(unit) ==
  LET alignments == { a \in Current(runs, "alignment", Pair) : \E row \in a.output : row.unit = unit }
  IN { run \in UNION { { RunAt(runs, a.inputs[i]) : i \in DOMAIN a.inputs } : a \in alignments } :
         unit \in DOMAIN run.output /\ run.output[unit] = "RESOLVED" }

\* get_structured_comparison: whatever alignment run is current.
Structured == IF Current(runs, "table_alignment", Pair) = {} THEN "UNRESOLVED_UPSTREAM" ELSE "RESOLVED"

-----------------------------------------------------------------------------
Init ==
  /\ runs = {}
  /\ version = 1
  /\ commands = 0

Commits ==
  /\ commands < MaxCommands
  /\ commands' = commands + 1

Command(stage) ==
  \E force \in BOOLEAN, failing \in SUBSET Subjects(stage) :
    /\ Commits
    /\ Cardinality(failing) <= MaxFailures - Cardinality(runs \ Successful(runs))
    /\ runs' = RunStage(runs, stage, force, failing)
    /\ UNCHANGED version

Extract == Command("extraction")
ExtractCanonical == Command("canonical")
Localize == Command("localization")
ExtractUnits == Command("units")
AlignUnits == Command("alignment")
Classify == Command("decisions")
Structure == Command("tables")
CompareStructured == Command("table_alignment")

\* New code is installed.
Deploy ==
  /\ version < Len(Configured)
  /\ version' = version + 1
  /\ Commits
  /\ UNCHANGED runs

Next ==
  \/ Extract \/ ExtractCanonical \/ Localize \/ ExtractUnits \/ AlignUnits \/ Classify
  \/ Structure \/ CompareStructured
  \/ Deploy

Spec == Init /\ [][Next]_vars

-----------------------------------------------------------------------------
(* Properties                                                              *)

\* A unit is recorded as added or removed only when the run of the report it is
\* missing from was made by code that did not look for it: a run that looked and
\* did not find it has a warning, whether the report has the section or not.
AbsenceOnlyAcrossConfigurations ==
  \A run \in { x \in Successful(runs) : x.stage = "alignment" } :
    \A row \in run.output :
      /\ row.status = "ADDED" => row.unit \notin Configured[RunAt(runs, run.inputs[1]).config]
      /\ row.status = "REMOVED" => row.unit \notin Configured[RunAt(runs, run.inputs[2]).config]

\* Whatever was rerun, forced, deployed or failed since, a comparison is served
\* with metrics only when the current alignment rests on unit runs in which the
\* unit of both reports is resolved, and the metrics are of that alignment.
MetricsRestOnResolvedUnits ==
  \A unit \in Units :
    Narrative(unit).metrics =>
      /\ Narrative(unit).status = "RESOLVED" /\ Narrative(unit).alignment = "MATCHED"
      /\ Cardinality(ProvenanceRuns(unit)) = 2
      /\ \E d \in Current(runs, "decisions", Pair), a \in Current(runs, "alignment", Pair) :
           /\ d.inputs = <<Key(a)>>
           /\ \E decision \in d.output : decision.unit = unit /\ decision.metrics

\* An attempt that fails changes nothing that is served.
FailureChangesNothingServed ==
  [][(\A run \in runs' \ runs : run.status = "FAILED") =>
       /\ \A unit \in Units : Narrative(unit)' = Narrative(unit)
       /\ Structured' = Structured]_vars

\* The pipeline's commands in order, none failing.
Pass(rs) ==
  LET after[i \in 0 .. Len(Stages)] ==
        IF i = 0 THEN rs ELSE RunStage(after[i - 1], Stages[i], FALSE, {})
  IN after[Len(Stages)]

\* From any state one uninterrupted pass leaves every command with nothing to do,
\* and the current tables and their comparison rest on the current canonical
\* source, the current units on the current localization, where there is one.
PassSettles ==
  LET after == Pass(runs)
      pinned(stage, s) ==
        \A run \in Current(after, stage, s) :
          Sources(after, stage, s) # {} => run.inputs \in Sources(after, stage, s)
  IN /\ \A stage \in Range(Stages) : \A s \in Subjects(stage) : Attempts(after, stage, s, FALSE) = {}
     /\ \A stage \in Range(Stages) : \A s \in Subjects(stage) : pinned(stage, s)
=============================================================================
