--------------------------- MODULE UnitRunsProofs ---------------------------
(***************************************************************************)
(* Proofs about UnitRuns, for any units, configurations, documents and     *)
(* failures, and any number of commands.                                   *)
(***************************************************************************)
EXTENDS UnitRuns, FiniteSetTheorems, TLAPS

-----------------------------------------------------------------------------
(* The invariant of a set of run rows                                       *)

StageNames == Range(Stages)

\* The runs of a subject are numbered from 1 on, and no number comes twice.
Numbered(rs) ==
  /\ \A stage \in StageNames : \A s \in Subjects(stage) :
       /\ IsFiniteSet(RunsOf(rs, stage, s))
       /\ \A run \in RunsOf(rs, stage, s) : run.n \in 1 .. Cardinality(RunsOf(rs, stage, s))
  /\ \A x, y \in rs : Key(x) = Key(y) => x = y
  /\ \A run \in rs : run.stage \in StageNames /\ run.subject \in Subjects(run.stage)

\* A unit run without a warning has resolved every unit its code looks for.
UnitsTold(rs) ==
  \A run \in Successful(rs) : run.stage = "units" /\ run.status = "COMPLETED" =>
    \A u \in Configured[run.config] : u \in DOMAIN run.output /\ run.output[u] = "RESOLVED"

\* The rows of an alignment are those of the two unit runs it names.
AlignmentsRest(rs) ==
  \A run \in Successful(rs) : run.stage = "alignment" =>
    \E e, l \in Successful(rs) :
      /\ e.stage = "units" /\ e.subject = Earlier /\ l.stage = "units" /\ l.subject = Later
      /\ run.inputs = <<Key(e), Key(l)>> /\ run.output = AlignmentRows(e, l)

\* And decisions are about the rows of the alignment they name.
DecisionsRest(rs) ==
  \A run \in Successful(rs) : run.stage = "decisions" =>
    \E a \in Successful(rs) :
      a.stage = "alignment" /\ run.inputs = <<Key(a)>> /\ run.output = Decisions(a)

Sound(rs) == Numbered(rs) /\ UnitsTold(rs) /\ AlignmentsRest(rs) /\ DecisionsRest(rs)

IInv == Sound(runs)

-----------------------------------------------------------------------------
(* Current runs and what a run is pinned to                                 *)

LEMMA StagesAre ==
  /\ Len(Stages) = 8
  /\ StageNames = {"extraction", "canonical", "localization", "units", "alignment", "decisions",
                   "tables", "table_alignment"}
  /\ \A i \in 1 .. 8 : Stages[i] \in StageNames
<1>1. Len(Stages) = 8 /\ DOMAIN Stages = 1 .. 8
  BY DEF Stages
<1>2. \A i \in 1 .. 8 : i = 1 \/ i = 2 \/ i = 3 \/ i = 4 \/ i = 5 \/ i = 6 \/ i = 7 \/ i = 8
  OBVIOUS
<1>3. /\ Stages[1] = "extraction" /\ Stages[2] = "canonical" /\ Stages[3] = "localization"
      /\ Stages[4] = "units" /\ Stages[5] = "alignment" /\ Stages[6] = "decisions"
      /\ Stages[7] = "tables" /\ Stages[8] = "table_alignment"
  BY DEF Stages
<1>4. StageNames = { Stages[i] : i \in 1 .. 8 }
  BY <1>1 DEF StageNames, Range
<1>5. /\ \A x \in StageNames : x \in {"extraction", "canonical", "localization", "units", "alignment",
                                      "decisions", "tables", "table_alignment"}
      /\ \A i \in 1 .. 8 : Stages[i] \in StageNames
  BY <1>2, <1>3, <1>4
<1>6. {"extraction", "canonical", "localization", "units", "alignment", "decisions", "tables",
       "table_alignment"} \subseteq StageNames
  BY <1>3, <1>5
<1> QED BY <1>1, <1>5, <1>6

LEMMA RunAtItsKey ==
  ASSUME NEW rs, Numbered(rs), NEW run \in rs
  PROVE  RunAt(rs, Key(run)) = run
BY DEF RunAt, Numbered

LEMMA CurrentRuns ==
  ASSUME NEW rs, NEW stage, NEW s
  PROVE  \A run \in Current(rs, stage, s) :
           run \in rs /\ run \in Successful(rs) /\ run.stage = stage /\ run.subject = s
BY DEF Current, RunsOf, Successful

LEMMA OneCurrent ==
  ASSUME NEW rs, Numbered(rs), NEW stage \in StageNames, NEW s \in Subjects(stage),
         NEW x \in Current(rs, stage, s), NEW y \in Current(rs, stage, s)
  PROVE  x = y
<1>1. x.n <= y.n /\ y.n <= x.n
  BY DEF Current
<1>2. x \in RunsOf(rs, stage, s) /\ y \in RunsOf(rs, stage, s)
  BY CurrentRuns DEF RunsOf
<1>3. x.n \in Nat /\ y.n \in Nat
  <2>1. Cardinality(RunsOf(rs, stage, s)) \in Nat
    BY FS_CardinalityType DEF Numbered
  <2> QED BY <1>2, <2>1 DEF Numbered
<1>4. Key(x) = Key(y)
  BY <1>1, <1>2, <1>3 DEF Key, RunsOf
<1> QED BY <1>2, <1>4 DEF Numbered, RunsOf

\* A new run of a subject is pinned to one tuple of runs.
LEMMA OneSource ==
  ASSUME NEW rs, Numbered(rs), NEW stage \in StageNames, NEW s \in Subjects(stage),
         NEW p \in Sources(rs, stage, s), NEW q \in Sources(rs, stage, s)
  PROVE  p = q
<1>1. \A t \in StageNames : \A r \in Subjects(t) : \A x, y \in Current(rs, t, r) : x = y
  BY OneCurrent
<1>2. stage \in {"extraction", "canonical", "localization", "units", "alignment", "decisions",
                 "tables", "table_alignment"} /\ "extraction" \in StageNames /\ "localization" \in StageNames
      /\ "canonical" \in StageNames /\ "units" \in StageNames /\ "alignment" \in StageNames
      /\ "tables" \in StageNames
  BY StagesAre
<1>3. /\ \A r \in Reports : r \in Subjects("extraction") /\ r \in Subjects("localization")
                            /\ r \in Subjects("canonical")
      /\ Pair \in Subjects("alignment")
      /\ Earlier \in Subjects("units") /\ Later \in Subjects("units")
      /\ Earlier \in Subjects("tables") /\ Later \in Subjects("tables")
  BY DEF Subjects, Reports
<1>4. CASE stage \in {"extraction", "canonical"}
  BY <1>4 DEF Sources
<1>5. CASE stage \in {"localization", "units", "tables"}
  <2>1. s \in Reports
    BY <1>5 DEF Subjects
  <2> QED BY <1>1, <1>2, <1>3, <1>5, <2>1 DEF Sources, Keys
<1>6. CASE stage = "decisions"
  <2>1. s = Pair
    BY <1>6 DEF Subjects
  <2> QED BY <1>1, <1>2, <1>3, <1>6, <2>1 DEF Sources, Keys
<1>7. CASE stage \in {"alignment", "table_alignment"}
  BY <1>1, <1>2, <1>3, <1>7 DEF Sources
<1> QED BY <1>2, <1>4, <1>5, <1>6, <1>7

-----------------------------------------------------------------------------
(* What a command adds                                                      *)

\* The row a command adds for a subject, if any.
Added(rs, stage, s, force, failing) ==
  { IF s \in failing THEN Failed(run) ELSE run : run \in Attempts(rs, stage, s, force) }

LEMMA RunStageAdds ==
  ASSUME NEW rs, NEW stage, NEW force, NEW failing
  PROVE  RunStage(rs, stage, force, failing)
           = rs \cup UNION { Added(rs, stage, s, force, failing) : s \in Subjects(stage) }
BY DEF RunStage, Added

LEMMA AddedRow ==
  ASSUME NEW rs, NEW stage, NEW s, NEW force, NEW failing, NEW x \in Added(rs, stage, s, force, failing)
  PROVE  /\ x.stage = stage /\ x.subject = s /\ x.n = Cardinality(RunsOf(rs, stage, s)) + 1
         /\ x.status # "FAILED" =>
              \E pin \in Sources(rs, stage, s) : x = Attempt(rs, stage, s, pin)
         /\ s \notin failing => x.status # "FAILED"
<1>1. PICK pin \in Sources(rs, stage, s) :
        x = IF s \in failing THEN Failed(Attempt(rs, stage, s, pin)) ELSE Attempt(rs, stage, s, pin)
  BY DEF Added, Attempts
<1> DEFINE run == Attempt(rs, stage, s, pin)
<1>2. run.stage = stage /\ run.subject = s /\ run.n = Cardinality(RunsOf(rs, stage, s)) + 1
      /\ run.status # "FAILED"
  BY DEF Attempt
<1>3. Failed(run).stage = run.stage /\ Failed(run).subject = run.subject /\ Failed(run).n = run.n
      /\ Failed(run).status = "FAILED"
  BY DEF Failed, Attempt
<1> QED BY <1>1, <1>2, <1>3

LEMMA OneAdded ==
  ASSUME NEW rs, Numbered(rs), NEW stage \in StageNames, NEW s \in Subjects(stage), NEW force, NEW failing,
         NEW x \in Added(rs, stage, s, force, failing), NEW y \in Added(rs, stage, s, force, failing)
  PROVE  x = y
BY OneSource DEF Added, Attempts

LEMMA RunsOfAfter ==
  ASSUME NEW rs, NEW stage \in StageNames, NEW force, NEW failing,
         NEW t \in StageNames, NEW s \in Subjects(t)
  PROVE  RunsOf(RunStage(rs, stage, force, failing), t, s)
           = RunsOf(rs, t, s) \cup (IF t = stage THEN Added(rs, stage, s, force, failing) ELSE {})
<1> DEFINE after == RunStage(rs, stage, force, failing)
<1>1. \A x : x \in after <=> x \in rs \/ \E r \in Subjects(stage) : x \in Added(rs, stage, r, force, failing)
  BY RunStageAdds
<1>2. \A r : \A x \in Added(rs, stage, r, force, failing) : x.stage = stage /\ x.subject = r
  BY AddedRow
<1> HIDE DEF after
<1>3. \A x \in RunsOf(after, t, s) : x \in RunsOf(rs, t, s) \/ (t = stage /\ x \in Added(rs, stage, s, force, failing))
  BY <1>1, <1>2 DEF RunsOf
<1>4. RunsOf(rs, t, s) \subseteq RunsOf(after, t, s)
  BY <1>1 DEF RunsOf
<1>5. t = stage => Added(rs, stage, s, force, failing) \subseteq RunsOf(after, t, s)
  BY <1>1, <1>2 DEF RunsOf
<1> QED BY <1>3, <1>4, <1>5 DEF after

LEMMA NumberedKept ==
  ASSUME NEW rs, Numbered(rs), NEW stage \in StageNames, NEW force, NEW failing
  PROVE  Numbered(RunStage(rs, stage, force, failing))
<1> DEFINE after == RunStage(rs, stage, force, failing)
           new(s) == Added(rs, stage, s, force, failing)
<1>1. ASSUME NEW t \in StageNames, NEW s \in Subjects(t)
      PROVE  /\ IsFiniteSet(RunsOf(after, t, s))
             /\ \A run \in RunsOf(after, t, s) : run.n \in 1 .. Cardinality(RunsOf(after, t, s))
  <2> DEFINE old == RunsOf(rs, t, s)
  <2>1. IsFiniteSet(old) /\ Cardinality(old) \in Nat /\ \A run \in old : run.n \in 1 .. Cardinality(old)
    BY FS_CardinalityType DEF Numbered
  <2>2. CASE t # stage \/ new(s) = {}
    <3>1. RunsOf(after, t, s) = old
      BY <2>2, RunsOfAfter
    <3> QED BY <2>1, <3>1
  <2>3. CASE t = stage /\ new(s) # {}
    <3>1. PICK x : x \in new(s)
      BY <2>3
    <3>2. new(s) = {x}
      BY <2>3, <3>1, OneAdded
    <3>3. x.n = Cardinality(old) + 1
      BY <2>3, <3>1, AddedRow
    <3>4. x \notin old
      BY <2>1, <3>3
    <3>5. RunsOf(after, t, s) = old \cup {x}
      BY <2>3, <3>2, RunsOfAfter
    <3> HIDE DEF old, new, after
    <3>6. IsFiniteSet(old \cup {x}) /\ Cardinality(old \cup {x}) = Cardinality(old) + 1
      BY <2>1, <3>4, FS_AddElement
    <3> QED BY <2>1, <3>3, <3>5, <3>6
  <2> QED BY <2>2, <2>3
<1>2. \A x : x \in after <=> x \in rs \/ \E s \in Subjects(stage) : x \in new(s)
  BY RunStageAdds
<1>3. \A run \in after : run.stage \in StageNames /\ run.subject \in Subjects(run.stage)
  BY <1>2, AddedRow DEF Numbered
<1>4. ASSUME NEW s \in Subjects(stage), NEW x \in new(s), NEW y \in rs PROVE Key(x) # Key(y)
  <2>1. x.stage = stage /\ x.subject = s /\ x.n = Cardinality(RunsOf(rs, stage, s)) + 1
    BY AddedRow
  <2>2. Cardinality(RunsOf(rs, stage, s)) \in Nat
        /\ \A run \in RunsOf(rs, stage, s) : run.n \in 1 .. Cardinality(RunsOf(rs, stage, s))
    BY FS_CardinalityType DEF Numbered
  <2>3. x.n # y.n \/ y \notin RunsOf(rs, stage, s)
    BY <2>1, <2>2
  <2> QED BY <2>1, <2>3 DEF Key, RunsOf
<1>5. ASSUME NEW s \in Subjects(stage), NEW r \in Subjects(stage), NEW x \in new(s), NEW y \in new(r),
             Key(x) = Key(y)
      PROVE  x = y
  <2>1. s = r
    BY <1>5, AddedRow DEF Key
  <2> QED BY <2>1, OneAdded
<1> HIDE DEF after, new
<1>6. \A x, y \in after : Key(x) = Key(y) => x = y
  BY <1>2, <1>4, <1>5 DEF Numbered
<1> QED BY <1>1, <1>3, <1>6 DEF Numbered, after

LEMMA SuccessfulAfter ==
  ASSUME NEW rs, NEW stage, NEW force, NEW failing,
         NEW x \in Successful(RunStage(rs, stage, force, failing))
  PROVE  \/ x \in Successful(rs)
         \/ \E s \in Subjects(stage) : \E pin \in Sources(rs, stage, s) : x = Attempt(rs, stage, s, pin)
<1>1. x \in rs \/ \E s \in Subjects(stage) : x \in Added(rs, stage, s, force, failing)
  BY RunStageAdds DEF Successful
<1> QED BY <1>1, AddedRow DEF Successful

LEMMA SuccessfulGrows ==
  ASSUME NEW rs, NEW stage, NEW force, NEW failing
  PROVE  Successful(rs) \subseteq Successful(RunStage(rs, stage, force, failing))
BY RunStageAdds DEF Successful

LEMMA SoundKept ==
  ASSUME NEW rs, Sound(rs), NEW stage \in StageNames, NEW force, NEW failing
  PROVE  Sound(RunStage(rs, stage, force, failing))
<1> DEFINE after == RunStage(rs, stage, force, failing)
<1>1. Numbered(rs) /\ Numbered(after)
  BY NumberedKept DEF Sound
<1>2. Successful(rs) \subseteq Successful(after)
  BY SuccessfulGrows
<1>3. ASSUME NEW x \in Successful(after) \ Successful(rs)
      PROVE  \E s \in Subjects(stage) : \E pin \in Sources(rs, stage, s) : x = Attempt(rs, stage, s, pin)
  BY SuccessfulAfter
<1> HIDE DEF after
<1>4. UnitsTold(after)
  <2>1. ASSUME NEW x \in Successful(after) \ Successful(rs), x.stage = "units", x.status = "COMPLETED"
        PROVE  \A u \in Configured[x.config] : u \in DOMAIN x.output /\ x.output[u] = "RESOLVED"
    <3>1. PICK s, pin : pin \in Sources(rs, stage, s) /\ x = Attempt(rs, stage, s, pin)
      BY <1>3
    <3>2. stage = "units"
      BY <2>1, <3>1 DEF Attempt
    <3>3. x.config = version /\ Clean("units", x.output)
      BY <2>1, <3>1, <3>2 DEF Attempt, Fingerprint
    <3> QED BY <3>3 DEF Clean
  <2> QED BY <2>1 DEF Sound, UnitsTold
<1>5. AlignmentsRest(after)
  <2>1. ASSUME NEW x \in Successful(after) \ Successful(rs), x.stage = "alignment"
        PROVE  \E e, l \in Successful(after) :
                 /\ e.stage = "units" /\ e.subject = Earlier /\ l.stage = "units" /\ l.subject = Later
                 /\ x.inputs = <<Key(e), Key(l)>> /\ x.output = AlignmentRows(e, l)
    <3>1. PICK s, pin : pin \in Sources(rs, stage, s) /\ x = Attempt(rs, stage, s, pin)
      BY <1>3
    <3>2. stage = "alignment"
      BY <2>1, <3>1 DEF Attempt
    <3>3. PICK e \in Current(rs, "units", Earlier), l \in Current(rs, "units", Later) : pin = <<Key(e), Key(l)>>
      BY <3>1, <3>2 DEF Sources
    <3>4. /\ e \in rs /\ e \in Successful(rs) /\ e.stage = "units" /\ e.subject = Earlier
          /\ l \in rs /\ l \in Successful(rs) /\ l.stage = "units" /\ l.subject = Later
      BY CurrentRuns
    <3>5. x.inputs = pin /\ x.output = AlignmentRows(RunAt(rs, pin[1]), RunAt(rs, pin[2]))
      BY <3>1, <3>2 DEF Attempt, Output
    <3>6. RunAt(rs, pin[1]) = e /\ RunAt(rs, pin[2]) = l
      BY <1>1, <3>3, <3>4, RunAtItsKey
    <3> QED BY <1>2, <3>3, <3>4, <3>5, <3>6
  <2> QED BY <1>2, <2>1 DEF Sound, AlignmentsRest
<1>6. DecisionsRest(after)
  <2>1. ASSUME NEW x \in Successful(after) \ Successful(rs), x.stage = "decisions"
        PROVE  \E a \in Successful(after) :
                 a.stage = "alignment" /\ x.inputs = <<Key(a)>> /\ x.output = Decisions(a)
    <3>1. PICK s, pin : pin \in Sources(rs, stage, s) /\ x = Attempt(rs, stage, s, pin)
      BY <1>3
    <3>2. stage = "decisions"
      BY <2>1, <3>1 DEF Attempt
    <3>3. PICK a \in Current(rs, "alignment", s) : pin = <<Key(a)>>
      BY <3>1, <3>2 DEF Sources, Keys
    <3>4. a \in rs /\ a \in Successful(rs) /\ a.stage = "alignment"
      BY CurrentRuns
    <3>5. x.inputs = pin /\ x.output = Decisions(RunAt(rs, pin[1]))
      BY <3>1, <3>2 DEF Attempt, Output
    <3>6. RunAt(rs, pin[1]) = a
      BY <1>1, <3>3, <3>4, RunAtItsKey
    <3> QED BY <1>2, <3>3, <3>4, <3>5, <3>6
  <2> QED BY <1>2, <2>1 DEF Sound, DecisionsRest
<1> QED BY <1>1, <1>4, <1>5, <1>6 DEF Sound, after

-----------------------------------------------------------------------------
(* What follows of a sound set of runs                                      *)

LEMMA SoundAbsence ==
  ASSUME IInv
  PROVE  AbsenceOnlyAcrossConfigurations
<1> SUFFICES ASSUME NEW run \in Successful(runs), run.stage = "alignment", NEW row \in run.output
             PROVE  /\ row.status = "ADDED" =>
                         row.unit \notin Configured[RunAt(runs, run.inputs[1]).config]
                    /\ row.status = "REMOVED" =>
                         row.unit \notin Configured[RunAt(runs, run.inputs[2]).config]
  BY DEF AbsenceOnlyAcrossConfigurations
<1>1. PICK e \in Successful(runs), l \in Successful(runs) :
        /\ e.stage = "units" /\ l.stage = "units"
        /\ run.inputs = <<Key(e), Key(l)>> /\ run.output = AlignmentRows(e, l)
  BY DEF IInv, Sound, AlignmentsRest
<1>2. RunAt(runs, run.inputs[1]) = e /\ RunAt(runs, run.inputs[2]) = l
  BY <1>1, RunAtItsKey DEF IInv, Sound, Successful
<1>3. row.status = "ADDED" => row.unit \notin DOMAIN e.output /\ e.status = "COMPLETED"
  BY <1>1 DEF AlignmentRows
<1>4. row.status = "REMOVED" => row.unit \notin DOMAIN l.output /\ l.status = "COMPLETED"
  BY <1>1 DEF AlignmentRows
<1>5. /\ e.status = "COMPLETED" => Configured[e.config] \subseteq DOMAIN e.output
      /\ l.status = "COMPLETED" => Configured[l.config] \subseteq DOMAIN l.output
  BY <1>1 DEF IInv, Sound, UnitsTold
<1> QED BY <1>2, <1>3, <1>4, <1>5

\* A unit has at most one row, and is matched where both runs resolved it.
LEMMA AlignmentRowOfUnit ==
  ASSUME NEW e, NEW l, NEW x \in AlignmentRows(e, l)
  PROVE  /\ x.status \in {"MATCHED", "UNRESOLVED_UPSTREAM", "ADDED", "REMOVED"}
         /\ \A y \in AlignmentRows(e, l) : y.unit = x.unit => y = x
         /\ x.status = "MATCHED" =>
              /\ x.unit \in DOMAIN e.output /\ e.output[x.unit] = "RESOLVED"
              /\ x.unit \in DOMAIN l.output /\ l.output[x.unit] = "RESOLVED"
BY DEF AlignmentRows

\* Metrics are made for matched units only.
LEMMA MetricsOfMatched ==
  ASSUME NEW a, NEW d \in Decisions(a), d.metrics,
         \A row \in a.output : row.status \in {"MATCHED", "UNRESOLVED_UPSTREAM", "ADDED", "REMOVED"}
  PROVE  d.mode = "LEXICAL_ONLY" /\ \E row \in a.output : row.unit = d.unit /\ row.status = "MATCHED"
<1> DEFINE mode(row) ==
             CASE row.status \in {"ADDED", "REMOVED"} -> "PRESENCE_STATUS_ONLY"
               [] row.status = "MATCHED" ->
                    IF row.unit \in DOMAIN Mode THEN Mode[row.unit] ELSE "NOT_ELIGIBLE"
<1>1. PICK row \in { r \in a.output : r.status # "UNRESOLVED_UPSTREAM" } :
        d = [unit |-> row.unit, mode |-> mode(row), metrics |-> mode(row) = "LEXICAL_ONLY"]
  BY DEF Decisions
<1> HIDE DEF mode
<1>2. d.unit = row.unit /\ d.mode = mode(row) /\ (d.metrics <=> mode(row) = "LEXICAL_ONLY")
  BY <1>1
<1>3. row.status \in {"ADDED", "REMOVED"} => mode(row) = "PRESENCE_STATUS_ONLY"
  BY DEF mode
<1> QED BY <1>2, <1>3

LEMMA SoundMetrics ==
  ASSUME IInv
  PROVE  MetricsRestOnResolvedUnits
<1> SUFFICES ASSUME NEW unit \in Units, Narrative(unit).metrics
             PROVE  /\ Narrative(unit).status = "RESOLVED" /\ Narrative(unit).alignment = "MATCHED"
                    /\ Cardinality(ProvenanceRuns(unit)) = 2
                    /\ \E d \in Current(runs, "decisions", Pair), a \in Current(runs, "alignment", Pair) :
                         /\ d.inputs = <<Key(a)>>
                         /\ \E decision \in d.output : decision.unit = unit /\ decision.metrics
  BY DEF MetricsRestOnResolvedUnits
<1> DEFINE alignments == Current(runs, "alignment", Pair)
           rows == { row \in UNION { a.output : a \in alignments } : row.unit = unit }
           row == CHOOSE r \in rows : TRUE
           decisions == { d \in DecisionsOn(alignments) : d.unit = unit }
           decision == CHOOSE d \in decisions : TRUE
<1>1. /\ rows # {} /\ decisions # {} /\ decision.metrics
      /\ Narrative(unit).status = IF decision.mode = "NOT_ELIGIBLE" THEN "REVIEW_REQUIRED" ELSE "RESOLVED"
      /\ Narrative(unit).alignment = row.status
  BY DEF Narrative
<1>2. row \in rows /\ decision \in decisions
  BY <1>1
<1> HIDE DEF row, decision
<1>3. PICK a \in alignments : row \in a.output /\ row.unit = unit
  BY <1>2
<1>4. Numbered(runs) /\ "alignment" \in StageNames /\ Pair \in Subjects("alignment")
  BY StagesAre DEF IInv, Sound, Subjects
<1>5. alignments = {a}
  BY <1>3, <1>4, OneCurrent
<1>6. a \in Successful(runs) /\ a \in runs /\ a.stage = "alignment"
  BY CurrentRuns
<1>7. PICK e \in Successful(runs), l \in Successful(runs) :
        /\ e.subject = Earlier /\ l.subject = Later
        /\ a.inputs = <<Key(e), Key(l)>> /\ a.output = AlignmentRows(e, l)
  BY <1>6 DEF IInv, Sound, AlignmentsRest
<1>8. PICK d \in Current(runs, "decisions", Pair) : d.inputs = <<Key(a)>> /\ decision \in d.output
  BY <1>2, <1>5 DEF DecisionsOn
<1>9. d \in Successful(runs) /\ d.stage = "decisions"
  BY CurrentRuns
<1>10. PICK b \in Successful(runs) : d.inputs = <<Key(b)>> /\ d.output = Decisions(b)
  BY <1>9 DEF IInv, Sound, DecisionsRest
<1>11. a = b
  BY <1>4, <1>6, <1>8, <1>10 DEF Numbered, Successful
<1>12. decision \in Decisions(a) /\ decision.unit = unit
  BY <1>2, <1>8, <1>10, <1>11
<1>13. decision.mode = "LEXICAL_ONLY" /\ \E r \in a.output : r.unit = unit /\ r.status = "MATCHED"
  BY <1>1, <1>7, <1>12, AlignmentRowOfUnit, MetricsOfMatched
<1>14. row.status = "MATCHED"
  BY <1>3, <1>7, <1>13, AlignmentRowOfUnit
<1>15. Narrative(unit).status = "RESOLVED" /\ Narrative(unit).alignment = "MATCHED"
  BY <1>1, <1>13, <1>14
<1>16. ProvenanceRuns(unit) = {e, l}
  <2>1. unit \in DOMAIN e.output /\ e.output[unit] = "RESOLVED"
        /\ unit \in DOMAIN l.output /\ l.output[unit] = "RESOLVED"
    BY <1>3, <1>7, <1>14, AlignmentRowOfUnit
  <2>2. RunAt(runs, a.inputs[1]) = e /\ RunAt(runs, a.inputs[2]) = l /\ DOMAIN a.inputs = {1, 2}
    BY <1>4, <1>7, RunAtItsKey DEF Successful
  <2>3. { x \in Current(runs, "alignment", Pair) : \E r \in x.output : r.unit = unit } = {a}
    BY <1>3, <1>5
  <2>4. { RunAt(runs, a.inputs[i]) : i \in DOMAIN a.inputs } = {e, l}
    BY <2>2
  <2>5. UNION { { RunAt(runs, x.inputs[i]) : i \in DOMAIN x.inputs } : x \in {a} } = {e, l}
    BY <2>4
  <2> QED BY <2>1, <2>3, <2>5 DEF ProvenanceRuns
<1>17. Cardinality(ProvenanceRuns(unit)) = 2
  <2>1. e # l
    BY <1>7, PairOfTwo
  <2>2. IsFiniteSet({e}) /\ Cardinality({e}) = 1
    BY FS_Singleton
  <2>3. l \notin {e} /\ {e, l} = {e} \cup {l}
    BY <2>1
  <2>4. Cardinality({e} \cup {l}) = Cardinality({e}) + 1
    BY <2>2, <2>3, FS_AddElement
  <2> QED BY <1>16, <2>2, <2>3, <2>4
<1> QED BY <1>1, <1>3, <1>8, <1>12, <1>15, <1>17

\* What is served depends on the successful runs only.
LEMMA ServedOfSuccessful ==
  ASSUME Successful(runs') = Successful(runs)
  PROVE  (\A unit \in Units : Narrative(unit)' = Narrative(unit)) /\ Structured' = Structured
<1>1. \A stage, s : Current(runs', stage, s) = Current(runs, stage, s)
  BY DEF Current
<1>2. \A x : DecisionsOn(x)' = DecisionsOn(x)
  BY <1>1 DEF DecisionsOn
<1> QED BY <1>1, <1>2 DEF Narrative, Structured


-----------------------------------------------------------------------------
(* An uninterrupted pass                                                    *)

\* The stages whose current runs a stage is pinned to.
Upstream(stage) ==
  CASE stage = "localization" -> {"extraction"}
    [] stage = "units" -> {"localization"}
    [] stage = "alignment" -> {"units"}
    [] stage = "decisions" -> {"alignment"}
    [] stage = "tables" -> {"canonical"}
    [] stage = "table_alignment" -> {"tables"}
    [] OTHER -> {}

\* Without --force.
Unforced == FALSE

\* A command would do nothing.
Settled(rs, stage) ==
  \A s \in Subjects(stage) : \A p \in Sources(rs, stage, s) : UpToDate(rs, stage, s, p)

LEMMA SuccessfulRunsOf ==
  ASSUME NEW rs, NEW stage, NEW s
  PROVE  RunsOf(Successful(rs), stage, s) = { run \in RunsOf(rs, stage, s) : run.status # "FAILED" }
BY DEF RunsOf, Successful

LEMMA CurrentElsewhere ==
  ASSUME NEW rs, NEW stage \in StageNames, NEW force, NEW failing,
         NEW t \in StageNames \ {stage}, NEW s \in Subjects(t)
  PROVE  Current(RunStage(rs, stage, force, failing), t, s) = Current(rs, t, s)
<1>1. RunsOf(RunStage(rs, stage, force, failing), t, s)
        = RunsOf(rs, t, s) \cup (IF t = stage THEN Added(rs, stage, s, force, failing) ELSE {})
  BY RunsOfAfter
<1>2. RunsOf(RunStage(rs, stage, force, failing), t, s) = RunsOf(rs, t, s)
  BY <1>1
<1> QED BY <1>2, SuccessfulRunsOf DEF Current

LEMMA SourcesElsewhere ==
  ASSUME NEW rs, Numbered(rs), NEW stage \in StageNames, NEW force, NEW failing,
         NEW t \in StageNames, stage \notin Upstream(t), NEW s \in Subjects(t)
  PROVE  Sources(RunStage(rs, stage, force, failing), t, s) = Sources(rs, t, s)
<1> DEFINE after == RunStage(rs, stage, force, failing)
<1>1. \A u \in StageNames \ {stage} : \A r \in Subjects(u) : Current(after, u, r) = Current(rs, u, r)
  BY CurrentElsewhere
<1>2. Numbered(after) /\ rs \subseteq after
  BY NumberedKept, RunStageAdds
<1>3. {"extraction", "canonical", "localization", "units", "alignment", "tables"} \subseteq StageNames
      /\ t \in {"extraction", "canonical", "localization", "units", "alignment", "decisions",
                "tables", "table_alignment"}
  BY StagesAre
<1>4. /\ Earlier \in Subjects("units") /\ Later \in Subjects("units")
      /\ Earlier \in Subjects("tables") /\ Later \in Subjects("tables")
  BY DEF Subjects, Reports
<1> HIDE DEF after
<1>5. CASE t \in {"extraction", "canonical"}
  BY <1>5 DEF Sources, after
<1>6. CASE t \in {"localization", "units", "tables", "decisions"}
  <2>1. \A u \in Upstream(t) : s \in Subjects(u) /\ u \in StageNames \ {stage}
    BY <1>3, <1>6 DEF Upstream, Subjects
  <2>2. \A u \in Upstream(t) : Current(after, u, s) = Current(rs, u, s)
    BY <1>1, <2>1
  <2>3. CASE t = "localization"
    BY <2>2, <2>3 DEF Sources, Upstream, after
  <2>4. CASE t = "units"
    BY <2>2, <2>4 DEF Sources, Upstream, after
  <2>5. CASE t = "tables"
    BY <2>2, <2>5 DEF Sources, Upstream, after
  <2>6. CASE t = "decisions"
    BY <2>2, <2>6 DEF Sources, Upstream, after
  <2> QED BY <1>6, <2>3, <2>4, <2>5, <2>6
<1>7. CASE t = "alignment"
  <2>1. stage # "units"
    BY <1>7 DEF Upstream
  <2>2. Current(after, "units", Earlier) = Current(rs, "units", Earlier)
        /\ Current(after, "units", Later) = Current(rs, "units", Later)
    BY <1>1, <1>3, <1>4, <2>1
  <2> QED BY <1>7, <2>2 DEF Sources, after
<1>8. CASE t = "table_alignment"
  <2>1. stage # "tables"
    BY <1>8 DEF Upstream
  <2>2. Current(after, "tables", Earlier) = Current(rs, "tables", Earlier)
        /\ Current(after, "tables", Later) = Current(rs, "tables", Later)
    BY <1>1, <1>3, <1>4, <2>1
  <2> DEFINE Both == { <<Key(e), Key(l)>> : e \in Current(rs, "tables", Earlier),
                                            l \in Current(rs, "tables", Later) }
  <2>3. ASSUME NEW pin \in Both, NEW i \in DOMAIN pin
        PROVE  RunAt(after, pin[i]) = RunAt(rs, pin[i])
    <3>1. PICK e \in Current(rs, "tables", Earlier), l \in Current(rs, "tables", Later) : pin = <<Key(e), Key(l)>>
      BY <2>3
    <3>2. e \in rs /\ l \in rs
      BY CurrentRuns
    <3>3. pin[i] = Key(e) \/ pin[i] = Key(l)
      BY <2>3, <3>1
    <3> QED BY <1>2, <3>2, <3>3, RunAtItsKey
  <2>4. Sources(rs, t, s) = { pin \in Both : \A i \in DOMAIN pin : RunAt(rs, pin[i]).output = "table" }
    BY <1>8 DEF Sources
  <2>5. Sources(after, t, s) = { pin \in Both : \A i \in DOMAIN pin : RunAt(after, pin[i]).output = "table" }
    BY <1>8, <2>2 DEF Sources
  <2> HIDE DEF Both
  <2> QED BY <2>3, <2>4, <2>5 DEF after
<1> QED BY <1>3, <1>5, <1>6, <1>7, <1>8

LEMMA SettledStays ==
  ASSUME NEW rs, Numbered(rs), NEW stage \in StageNames, NEW t \in StageNames \ {stage},
         stage \notin Upstream(t), Settled(rs, t)
  PROVE  Settled(RunStage(rs, stage, Unforced, {}), t)
<1> DEFINE after == RunStage(rs, stage, Unforced, {})
<1>1. \A s \in Subjects(t) : Sources(after, t, s) = Sources(rs, t, s)
  BY SourcesElsewhere
<1>2. \A s \in Subjects(t) : Current(after, t, s) = Current(rs, t, s)
  BY CurrentElsewhere
<1> HIDE DEF after
<1> QED BY <1>1, <1>2 DEF Settled, UpToDate, after

LEMMA StageSettles ==
  ASSUME NEW rs, Numbered(rs), NEW stage \in StageNames
  PROVE  Settled(RunStage(rs, stage, Unforced, {}), stage)
<1> DEFINE after == RunStage(rs, stage, Unforced, {})
<1> SUFFICES ASSUME NEW s \in Subjects(stage), NEW p \in Sources(after, stage, s)
             PROVE  UpToDate(after, stage, s, p)
  BY DEF Settled
<1> DEFINE new == Added(rs, stage, s, Unforced, {})
           old == RunsOf(rs, stage, s)
<1>1. p \in Sources(rs, stage, s)
  <2>1. stage \notin Upstream(stage)
    BY DEF Upstream
  <2>2. Sources(after, stage, s) = Sources(rs, stage, s)
    BY <2>1, SourcesElsewhere
  <2> QED BY <2>2
<1>2. RunsOf(after, stage, s) = old \cup new
  <2>1. RunsOf(after, stage, s) = old \cup (IF stage = stage THEN new ELSE {})
    BY RunsOfAfter
  <2> QED BY <2>1
<1>3. CASE UpToDate(rs, stage, s, p)
  <2>1. Attempts(rs, stage, s, Unforced) = {}
    BY <1>1, <1>3, OneSource DEF Attempts, Unforced
  <2>2. RunsOf(after, stage, s) = old
    BY <1>2, <2>1 DEF Added
  <2> HIDE DEF after
  <2>3. Current(after, stage, s) = Current(rs, stage, s)
    BY <2>2, SuccessfulRunsOf DEF Current
  <2> QED BY <1>3, <2>3 DEF UpToDate
<1>4. CASE ~UpToDate(rs, stage, s, p)
  <2> DEFINE run == Attempt(rs, stage, s, p)
  <2>1. run \in new
    BY <1>1, <1>4 DEF Added, Attempts, Unforced
  <2>2. new = {run}
    <3>1. \A x \in new : x = run
      BY <2>1, OneAdded
    <3> QED BY <2>1, <3>1
  <2>3. run.n = Cardinality(old) + 1 /\ run.status # "FAILED" /\ run.config = Fingerprint(stage) /\ run.inputs = p
    BY DEF Attempt
  <2>4. Cardinality(old) \in Nat /\ \A x \in old : x.n \in 1 .. Cardinality(old)
    BY FS_CardinalityType DEF Numbered
  <2> HIDE DEF run, old, new, after
  <2>5. \A x \in old \cup new : x.n <= run.n
    BY <2>2, <2>3, <2>4
  <2>6. RunsOf(Successful(after), stage, s) = { x \in old \cup new : x.status # "FAILED" }
    BY <1>2, SuccessfulRunsOf
  <2>7. run \in Current(after, stage, s)
    BY <2>1, <2>3, <2>5, <2>6 DEF Current
  <2> QED BY <2>3, <2>7 DEF UpToDate
<1> QED BY <1>3, <1>4

\* A stage reads what stages before it have made.
LEMMA StageOrder ==
  ASSUME NEW i \in 1 .. 8, NEW j \in 1 .. 8, j < i
  PROVE  Stages[i] # Stages[j] /\ Stages[i] \notin Upstream(Stages[j])
<1>1. /\ Stages[1] = "extraction" /\ Stages[2] = "canonical" /\ Stages[3] = "localization"
      /\ Stages[4] = "units" /\ Stages[5] = "alignment" /\ Stages[6] = "decisions"
      /\ Stages[7] = "tables" /\ Stages[8] = "table_alignment"
  BY DEF Stages
<1> HIDE DEF Stages
<1>2. i = 1 \/ i = 2 \/ i = 3 \/ i = 4 \/ i = 5 \/ i = 6 \/ i = 7 \/ i = 8
  OBVIOUS
<1>3. j = 1 \/ j = 2 \/ j = 3 \/ j = 4 \/ j = 5 \/ j = 6 \/ j = 7 \/ j = 8
  OBVIOUS
<1>4. CASE j = 1 \/ j = 2 \/ j = 5 \/ j = 6 \/ j = 8
  BY <1>1, <1>2, <1>4 DEF Upstream
<1>5. CASE j = 3 \/ j = 4
  BY <1>1, <1>2, <1>5 DEF Upstream
<1>6. CASE j = 7
  BY <1>1, <1>2, <1>6 DEF Upstream
<1> QED BY <1>3, <1>4, <1>5, <1>6

\* The states of a pass.
LEMMA PassIterates ==
  ASSUME NEW rs
  PROVE  \E f : /\ f[0] = rs
                /\ \A i \in 1 .. 8 : f[i] = RunStage(f[i - 1], Stages[i], Unforced, {})
                /\ Pass(rs) = f[8]
<1> DEFINE step(r, i) == RunStage(r, Stages[i], Unforced, {})
           r1 == step(rs, 1)
           r2 == step(r1, 2)
           r3 == step(r2, 3)
           r4 == step(r3, 4)
           r5 == step(r4, 5)
           r6 == step(r5, 6)
           r7 == step(r6, 7)
           r8 == step(r7, 8)
           states == [i \in 0 .. 8 |-> CASE i = 0 -> rs [] i = 1 -> r1 [] i = 2 -> r2 [] i = 3 -> r3
                                         [] i = 4 -> r4 [] i = 5 -> r5 [] i = 6 -> r6 [] i = 7 -> r7
                                         [] i = 8 -> r8]
           Iterates(f) == f = [i \in 0 .. 8 |-> IF i = 0 THEN rs ELSE step(f[i - 1], i)]
           after == CHOOSE f : Iterates(f)
<1>1. Iterates(states)
  <2> HIDE DEF step
  <2>1. /\ r1 = step(rs, 1) /\ r2 = step(r1, 2) /\ r3 = step(r2, 3) /\ r4 = step(r3, 4)
        /\ r5 = step(r4, 5) /\ r6 = step(r5, 6) /\ r7 = step(r6, 7) /\ r8 = step(r7, 8)
    OBVIOUS
  <2> HIDE DEF r1, r2, r3, r4, r5, r6, r7, r8
  <2>2. /\ states[0] = rs /\ states[1] = r1 /\ states[2] = r2 /\ states[3] = r3 /\ states[4] = r4
        /\ states[5] = r5 /\ states[6] = r6 /\ states[7] = r7 /\ states[8] = r8
    OBVIOUS
  <2>3. states = [i \in 0 .. 8 |-> states[i]]
    OBVIOUS
  <2> HIDE DEF states
  <2>4. ASSUME NEW i \in 0 .. 8 PROVE states[i] = IF i = 0 THEN rs ELSE step(states[i - 1], i)
    <3>1. i = 0 \/ i = 1 \/ i = 2 \/ i = 3 \/ i = 4 \/ i = 5 \/ i = 6 \/ i = 7 \/ i = 8
      OBVIOUS
    <3> QED BY <2>1, <2>2, <3>1
  <2> QED BY <2>3, <2>4
<1>2. Iterates(after)
  BY <1>1
<1>3. Pass(rs) = after[8]
  BY StagesAre DEF Pass, Unforced
<1> HIDE DEF after, step
<1>4. after[0] = rs /\ \A i \in 1 .. 8 : after[i] = step(after[i - 1], i)
  BY <1>2
<1> QED BY <1>3, <1>4 DEF step

LEMMA SoundPassSettles ==
  ASSUME IInv
  PROVE  PassSettles
<1>1. PICK f : /\ f[0] = runs
               /\ \A i \in 1 .. 8 : f[i] = RunStage(f[i - 1], Stages[i], Unforced, {})
               /\ Pass(runs) = f[8]
  BY PassIterates
<1> DEFINE Done(i) == Numbered(f[i]) /\ \A j \in 1 .. i : Settled(f[i], Stages[j])
<1>2. Done(0)
  BY <1>1 DEF IInv, Sound
<1>3. ASSUME NEW i \in 1 .. 8, Done(i - 1) PROVE Done(i)
  <2>1. f[i] = RunStage(f[i - 1], Stages[i], Unforced, {}) /\ Stages[i] \in StageNames
    BY <1>1, StagesAre
  <2>2. Numbered(f[i])
    BY <1>3, <2>1, NumberedKept
  <2>3. Settled(f[i], Stages[i])
    BY <1>3, <2>1, StageSettles
  <2>4. ASSUME NEW j \in 1 .. i - 1 PROVE Settled(f[i], Stages[j])
    <3>1. j \in 1 .. 8 /\ j < i
      OBVIOUS
    <3>2. Stages[j] \in StageNames \ {Stages[i]} /\ Stages[i] \notin Upstream(Stages[j])
      BY <3>1, StageOrder, StagesAre
    <3>3. Settled(f[i - 1], Stages[j]) /\ Numbered(f[i - 1])
      BY <1>3
    <3> QED BY <2>1, <3>2, <3>3, SettledStays
  <2>5. \A j \in 1 .. i : j = i \/ j \in 1 .. i - 1
    OBVIOUS
  <2> QED BY <2>2, <2>3, <2>4, <2>5
<1> HIDE DEF Done
<1>4. \A i \in 1 .. 8 : Done(i - 1) => Done(i)
  BY <1>3
<1>5. Done(1) /\ Done(2) /\ Done(3) /\ Done(4) /\ Done(5) /\ Done(6) /\ Done(7) /\ Done(8)
  <2>1. /\ Done(0) => Done(1)
        /\ Done(1) => Done(2)
        /\ Done(2) => Done(3)
        /\ Done(3) => Done(4)
        /\ Done(4) => Done(5)
        /\ Done(5) => Done(6)
        /\ Done(6) => Done(7)
        /\ Done(7) => Done(8)
    BY <1>4
  <2> QED BY <1>2, <2>1
<1> DEFINE after == f[8]
<1>6. Pass(runs) = after /\ Numbered(after)
  BY <1>1, <1>5 DEF Done
<1>7. \A stage \in StageNames : Settled(after, stage)
  <2>1. \A j \in 1 .. 8 : Settled(after, Stages[j])
    BY <1>5 DEF Done
  <2>2. StageNames = { Stages[j] : j \in 1 .. 8 }
    BY StagesAre DEF StageNames, Stages, Range
  <2> QED BY <2>1, <2>2
<1> HIDE DEF after
<1>8. ASSUME NEW stage \in StageNames, NEW s \in Subjects(stage)
      PROVE  /\ Attempts(after, stage, s, Unforced) = {}
             /\ \A run \in Current(after, stage, s) :
                  Sources(after, stage, s) # {} => run.inputs \in Sources(after, stage, s)
  <2>1. \A p \in Sources(after, stage, s) : UpToDate(after, stage, s, p)
    BY <1>7 DEF Settled
  <2>2. Attempts(after, stage, s, Unforced) = {}
    BY <2>1 DEF Attempts, Unforced
  <2>3. ASSUME NEW run \in Current(after, stage, s), NEW p \in Sources(after, stage, s)
        PROVE  run.inputs = p
    <3>1. PICK other \in Current(after, stage, s) : other.inputs = p
      BY <2>1 DEF UpToDate
    <3> QED BY <1>6, <3>1, OneCurrent
  <2> QED BY <2>2, <2>3
<1> QED BY <1>6, <1>8 DEF PassSettles, StageNames, Unforced

-----------------------------------------------------------------------------
(* The theorems                                                             *)

LEMMA InitIInv ==
  ASSUME Init
  PROVE  IInv
<1>1. \A stage, s : RunsOf(runs, stage, s) = {} /\ Successful(runs) = {}
  BY DEF Init, RunsOf, Successful
<1>2. Numbered(runs)
  BY <1>1, FS_EmptySet DEF Init, Numbered
<1> QED BY <1>1, <1>2 DEF IInv, Sound, UnitsTold, AlignmentsRest, DecisionsRest

LEMMA NextRuns ==
  ASSUME Next
  PROVE  \/ runs' = runs
         \/ \E stage \in StageNames, force \in BOOLEAN : \E failing :
              runs' = RunStage(runs, stage, force, failing)
<1>1. ASSUME NEW stage \in StageNames, Command(stage)
      PROVE  \E force \in BOOLEAN : \E failing : runs' = RunStage(runs, stage, force, failing)
  BY <1>1 DEF Command
<1>2. {"extraction", "canonical", "localization", "units", "alignment", "decisions", "tables",
       "table_alignment"} \subseteq StageNames
  BY StagesAre
<1> QED BY <1>1, <1>2 DEF Next, Deploy, Extract, ExtractCanonical, Localize, ExtractUnits, AlignUnits,
                          Classify, Structure, CompareStructured

LEMMA NextIInv ==
  ASSUME IInv, [Next]_vars
  PROVE  IInv'
<1>1. CASE runs' = runs
  BY <1>1 DEF IInv, Sound, Numbered, UnitsTold, AlignmentsRest, DecisionsRest
<1>2. CASE \E stage \in StageNames, force \in BOOLEAN : \E failing :
              runs' = RunStage(runs, stage, force, failing)
  BY <1>2, SoundKept DEF IInv
<1> QED BY <1>1, <1>2, NextRuns DEF vars

\* Whatever commands were run, forced, failed or skipped and whatever code was
\* deployed between them: the runs of a report or pair are numbered without a
\* gap, and alignments and decisions rest on the runs they name.
THEOREM Invariant == Spec => []IInv
<1>1. Init => IInv
  BY InitIInv
<1>2. IInv /\ [Next]_vars => IInv'
  BY NextIInv
<1> QED BY <1>1, <1>2, PTL DEF Spec

\* align_units calls a unit added or removed only across configurations: where
\* the other run looked for the unit, it has a warning or the unit.
THEOREM AbsenceIsOfConfigurations == Spec => []AbsenceOnlyAcrossConfigurations
<1>1. IInv => AbsenceOnlyAcrossConfigurations
  BY SoundAbsence
<1> QED BY <1>1, Invariant, PTL

\* get_narrative_comparison serves metrics only of the current alignment, for a
\* unit that both of its unit runs resolved.
THEOREM MetricsRestAlways == Spec => []MetricsRestOnResolvedUnits
<1>1. IInv => MetricsRestOnResolvedUnits
  BY SoundMetrics
<1> QED BY <1>1, Invariant, PTL

\* From any state a pass without failures leaves every command with nothing to
\* do, and every current run pinned to current ones: no skip condition misses
\* a change upstream, and no command undoes what a later one rests on.
THEOREM PassSettlesAlways == Spec => []PassSettles
<1>1. IInv => PassSettles
  BY SoundPassSettles
<1> QED BY <1>1, Invariant, PTL

\* A run that fails leaves a FAILED row, and nothing that is served looks at it.
THEOREM FailuresChangeNothingServed == Spec => FailureChangesNothingServed
<1>1. ASSUME [Next]_vars, \A run \in runs' \ runs : run.status = "FAILED"
      PROVE  (\A unit \in Units : Narrative(unit)' = Narrative(unit)) /\ Structured' = Structured
  <2>1. runs \subseteq runs'
    BY <1>1, NextRuns, RunStageAdds DEF vars
  <2>2. Successful(runs') = Successful(runs)
    BY <1>1, <2>1 DEF Successful
  <2> QED BY <2>2, ServedOfSuccessful
<1>2. [Next]_vars => [(\A run \in runs' \ runs : run.status = "FAILED") =>
                        /\ \A unit \in Units : Narrative(unit)' = Narrative(unit)
                        /\ Structured' = Structured]_vars
  BY <1>1
<1> QED BY <1>2, PTL DEF Spec, FailureChangesNothingServed
=============================================================================
