------------------------- MODULE ReportIntakeProofs -------------------------
(***************************************************************************)
(* Proofs about ReportIntake, for any files, manifests, reviewed CSVs and  *)
(* order of the commands.                                                  *)
(***************************************************************************)
EXTENDS ReportIntake, FiniteSetTheorems, IterationLemmas

-----------------------------------------------------------------------------
(* The invariant                                                            *)

Table == [Paths -> Report \cup {None}]

\* What the unique indexes of `reports` demand.
Unique(t) ==
  \A p, q \in Paths : p # q /\ t[p] # None /\ t[q] # None =>
    /\ t[p].sha256 # t[q].sha256
    /\ t[p].company # t[q].company \/ t[p].period_end = None \/ t[p].period_end # t[q].period_end

\* What `reports validate` saw of a report it validated.
ValidatedSound(t) ==
  \A p \in Paths : t[p] # None /\ t[p].metadata_status = "VALIDATED" =>
    t[p].page_count \notin {None, 0} /\ t[p].period_end # None

Tables == { t \in Table : Unique(t) /\ ValidatedSound(t) }

NoteTable == [Paths -> [Notes -> Nat]]

IInv ==
  /\ report \in Tables /\ notes \in NoteTable
  /\ sheet \in SUBSET ReviewRow /\ PairsStaySound

\* What no command takes back.
Kept(r, r2) ==
  /\ r2 # None /\ r2.company = r.company
  /\ r.period_end # None => r2.period_end = r.period_end
  /\ r.metadata_status = "VALIDATED" => r2.metadata_status = "VALIDATED"
  /\ r.metadata_source = "MANUAL" => r2.metadata_source = "MANUAL"

Keeps(t, u) == \A p \in Paths : t[p] # None => Kept(t[p], u[p])

LEMMA KeepsTransitive ==
  ASSUME NEW t, NEW u, NEW v, Keeps(t, u), Keeps(u, v)
  PROVE  Keeps(t, v)
BY DEF Keeps, Kept

LEMMA KeepsItself ==
  ASSUME NEW t
  PROVE  Keeps(t, t)
BY DEF Keeps, Kept

-----------------------------------------------------------------------------
(* reports import                                                           *)

ImportState == [report : Tables, paths : SUBSET Paths, hashes : SUBSET Hashes]

LEMMA NewReportTyped ==
  ASSUME NEW row \in ManifestRow
  PROVE  /\ NewReport(row) \in Report /\ NewReport(row) # None
         /\ NewReport(row).sha256 = row.sha256 /\ NewReport(row).period_end = None
         /\ NewReport(row).metadata_status = "DISCOVERED"
<1>1. row.ticker \in Tickers /\ row.sha256 \in Hashes
  BY DEF ManifestRow
<1>2. "DISCOVERED" \in MetadataStatus /\ "DIRECTORY" \in MetadataSource
  BY DEF MetadataStatus, MetadataSource
<1>3. NewReport(row) \in Report
  BY <1>1, <1>2 DEF NewReport, Report
<1>4. NewReport(row) # None
  BY <1>3, NoneIsNoValue
<1> QED BY <1>3, <1>4 DEF NewReport

LEMMA ImportRowKeeps ==
  ASSUME NEW known, NEW acc \in ImportState, NEW row \in ManifestRow
  PROVE  /\ ImportRow(known, acc, row) \in ImportState
         /\ Keeps(acc.report, ImportRow(known, acc, row).report)
<1> DEFINE seen == [acc EXCEPT !.paths = @ \cup {row.path}, !.hashes = @ \cup {row.sha256}]
           added == [seen EXCEPT !.report[row.path] = NewReport(row)]
           table == [acc.report EXCEPT ![row.path] = NewReport(row)]
<1>1. row.path \in Paths /\ row.sha256 \in Hashes /\ row.ticker \in Tickers
  BY DEF ManifestRow
<1>2. seen \in ImportState /\ seen.report = acc.report
  BY <1>1 DEF ImportState
<1>3. CASE ImportRow(known, acc, row) \in {acc, seen}
  BY <1>2, <1>3, KeepsItself
<1>4. CASE /\ ImportRow(known, acc, row) = added
           /\ acc.report[row.path] = None
           /\ \A p \in Paths : acc.report[p] = None \/ acc.report[p].sha256 # row.sha256
  <2>1. acc.report \in Tables /\ acc.report \in Table
    BY DEF ImportState, Tables
  <2>2. added.report = table
        /\ added = [report |-> table, paths |-> seen.paths, hashes |-> seen.hashes]
    <3> DEFINE t == NewReport(row)
               q == row.path
    <3>0. \A s \in ImportState :
            s = [report |-> s.report, paths |-> s.paths, hashes |-> s.hashes]
      BY DEF ImportState
    <3> HIDE DEF seen, t, q
    <3>1. seen = [report |-> acc.report, paths |-> seen.paths, hashes |-> seen.hashes]
      BY <1>2, <3>0
    <3>2. [seen EXCEPT !.report[q] = t]
            = [report |-> [acc.report EXCEPT ![q] = t], paths |-> seen.paths, hashes |-> seen.hashes]
      BY <3>1
    <3> QED BY <3>2 DEF t, q
  <2>3. table \in Table /\ table[row.path] = NewReport(row)
        /\ \A p \in Paths \ {row.path} : table[p] = acc.report[p]
    BY <1>1, <2>1, NewReportTyped DEF Table
  <2> HIDE DEF table, added, seen
  <2>4. Unique(table)
    BY <1>4, <2>1, <2>3, NewReportTyped DEF Unique, Tables
  <2>5. ValidatedSound(table)
    BY <2>1, <2>3, NewReportTyped DEF ValidatedSound, Tables
  <2>6. Keeps(acc.report, table)
    BY <1>4, <2>3 DEF Keeps, Kept
  <2>7. added \in ImportState
    BY <1>2, <2>2, <2>3, <2>4, <2>5 DEF ImportState, Tables
  <2> QED BY <1>4, <2>2, <2>6, <2>7
<1> HIDE DEF seen, added
<1>5. \/ ImportRow(known, acc, row) \in {acc, seen}
      \/ /\ ImportRow(known, acc, row) = added
         /\ acc.report[row.path] = None
         /\ \A p \in Paths : acc.report[p] = None \/ acc.report[p].sha256 # row.sha256
  BY DEF ImportRow, seen, added
<1> QED BY <1>3, <1>4, <1>5

LEMMA ImportRowsKeeps ==
  ASSUME NEW known, NEW table \in Tables, NEW rows \in Seq(ManifestRow)
  PROVE  ImportRows(known, table, rows) \in Tables /\ Keeps(table, ImportRows(known, table, rows))
<1> DEFINE n == Len(rows)
           base == [report |-> table, paths |-> {}, hashes |-> {}]
           T == { acc \in ImportState : Keeps(table, acc.report) }
           Runs(f) == f = [i \in 0 .. n |-> IF i = 0 THEN base ELSE ImportRow(known, f[i - 1], rows[i])]
           after == CHOOSE f : Runs(f)
           step == [x \in T \X (1 .. n) |-> ImportRow(known, x[1], rows[x[2]])]
<1>1. n \in Nat /\ \A i \in 1 .. n : rows[i] \in ManifestRow
  OBVIOUS
<1>2. base \in T
  BY KeepsItself DEF ImportState
<1>3. \A acc \in T : \A i \in 1 .. n : ImportRow(known, acc, rows[i]) \in T
  BY <1>1, ImportRowKeeps, KeepsTransitive
<1>4. step \in [T \X (1 .. n) -> T]
  BY <1>3
<1> HIDE DEF T, n, base
<1>5. PICK f \in [0 .. n -> T] : Iterates(f, base, step, n)
  BY <1>1, <1>2, <1>4, IterationExists
<1>6. Runs(f)
  <2>1. \A i \in 0 .. n : f[i] = IF i = 0 THEN base ELSE ImportRow(known, f[i - 1], rows[i])
    <3> SUFFICES ASSUME NEW i \in 0 .. n, i # 0 PROVE f[i] = ImportRow(known, f[i - 1], rows[i])
      BY <1>5 DEF Iterates
    <3>1. i \in 1 .. n /\ i - 1 \in 0 .. n
      BY <1>1
    <3>2. f[i] = step[<<f[i - 1], i>>] /\ f[i - 1] \in T
      BY <1>5, <3>1 DEF Iterates
    <3> QED BY <3>1, <3>2
  <2> QED BY <2>1
<1>7. Runs(after)
  BY <1>6
<1> HIDE DEF after, step
<1>8. 0 .. n \subseteq { i \in 0 .. n : after[i] \in T }
  <2> DEFINE S == { i \in 0 .. n : after[i] \in T }
  <2>1. 0 \in S
    BY <1>1, <1>2, <1>7
  <2>2. ASSUME NEW i \in 1 .. n, after[i - 1] \in T PROVE after[i] \in T
    <3>1. after[i] = ImportRow(known, after[i - 1], rows[i])
      BY <1>1, <1>7
    <3> QED BY <1>3, <2>2, <3>1
  <2>3. \A i \in 1 .. n : i - 1 \in S => i \in S
    BY <2>2
  <2> HIDE DEF S
  <2>4. 0 .. n \subseteq S
    BY <1>1, <2>1, <2>3, UpTo
  <2> QED BY <2>4 DEF S
<1>9. after[n] \in T
  BY <1>1, <1>8
<1>10. ImportRows(known, table, rows) = after[n].report
  BY DEF ImportRows, after, n, base
<1> QED BY <1>9, <1>10 DEF T, ImportState

-----------------------------------------------------------------------------
(* reports metadata-review-import                                           *)

\* A row is applied to the table the rows before it left.
Applies(t, row) ==
  /\ WellFormed(row)
  /\ row.reviewer_status \in Applicable
  /\ t[row.path] # None
  /\ ~Conflicts(t, row)
  /\ Flushes(row)

\* What reviewed rows leave of a table, and what they may settle.
Reviews(t, u) ==
  \A p \in Paths :
    /\ u[p] = None <=> t[p] = None
    /\ t[p] # None =>
         /\ u[p].company = t[p].company /\ u[p].sha256 = t[p].sha256
         /\ u[p].metadata_status = t[p].metadata_status /\ u[p].page_count = t[p].page_count
         /\ t[p].metadata_source = "MANUAL" => u[p].metadata_source = "MANUAL"
         /\ t[p].period_end # None => u[p].period_end = t[p].period_end

LEMMA ReviewsTransitive ==
  ASSUME NEW t, NEW u, NEW v, Reviews(t, u), Reviews(u, v)
  PROVE  Reviews(t, v)
BY DEF Reviews

LEMMA ReviewsItself ==
  ASSUME NEW t
  PROVE  Reviews(t, t)
BY DEF Reviews

LEMMA ReviewsKeeps ==
  ASSUME NEW t, NEW u, Reviews(t, u)
  PROVE  Keeps(t, u)
BY DEF Reviews, Keeps, Kept

\* A reviewed report takes the row's values and keeps the rest.
LEMMA ReviewedFields ==
  ASSUME NEW r \in Report, NEW row \in ReviewRow
  PROVE  /\ Reviewed(r, row) \in Report
         /\ Reviewed(r, row) =
              [company |-> r.company, sha256 |-> r.sha256, metadata_status |-> r.metadata_status,
               metadata_source |-> "MANUAL", page_count |-> r.page_count,
               period_start |-> row.period_start, period_end |-> row.period_end,
               reporting_months |-> row.reporting_months,
               transition_report |-> row.transition_report]
<1>1. /\ row.period_start \in Dates \cup {None} /\ row.period_end \in Dates \cup {None}
      /\ row.reporting_months \in Months \cup {None} /\ row.transition_report \in BOOLEAN
      /\ "MANUAL" \in MetadataSource
  BY DEF ReviewRow, MetadataSource
<1> DEFINE new == Reviewed(r, row)
<1>2. new \in Report
  BY <1>1 DEF Reviewed, Report
<1>3. /\ new.company = r.company /\ new.sha256 = r.sha256
      /\ new.metadata_status = r.metadata_status /\ new.page_count = r.page_count
      /\ new.metadata_source = "MANUAL"
      /\ new.period_start = row.period_start /\ new.period_end = row.period_end
      /\ new.reporting_months = row.reporting_months
      /\ new.transition_report = row.transition_report
  BY DEF Reviewed, Report
<1>4. \A s \in Report :
        s = [company |-> s.company, sha256 |-> s.sha256, metadata_status |-> s.metadata_status,
             metadata_source |-> s.metadata_source, page_count |-> s.page_count,
             period_start |-> s.period_start, period_end |-> s.period_end,
             reporting_months |-> s.reporting_months, transition_report |-> s.transition_report]
  BY DEF Report
<1> HIDE DEF new
<1>5. new = [company |-> new.company, sha256 |-> new.sha256, metadata_status |-> new.metadata_status,
             metadata_source |-> new.metadata_source, page_count |-> new.page_count,
             period_start |-> new.period_start, period_end |-> new.period_end,
             reporting_months |-> new.reporting_months, transition_report |-> new.transition_report]
  BY <1>2, <1>4
<1>6. new = [company |-> r.company, sha256 |-> r.sha256, metadata_status |-> r.metadata_status,
             metadata_source |-> "MANUAL", page_count |-> r.page_count,
             period_start |-> row.period_start, period_end |-> row.period_end,
             reporting_months |-> row.reporting_months,
             transition_report |-> row.transition_report]
  BY <1>3, <1>5, Zenon
<1> QED BY <1>2, <1>6 DEF new

\* A row that is not applied because a review settled the same already leaves
\* the table as applying it would.
LEMMA RowImports ==
  ASSUME NEW t \in Tables, NEW row \in ReviewRow
  PROVE  ImportReviewRow(t, row) =
           IF Applies(t, row) THEN [t EXCEPT ![row.path] = Reviewed(@, row)] ELSE t
<1>1. row.path \in Paths /\ t \in Table
  BY DEF ReviewRow, Tables
<1>2. FieldsAlreadyMatch(t[row.path], row) => [t EXCEPT ![row.path] = Reviewed(@, row)] = t
  BY <1>1 DEF FieldsAlreadyMatch, Table
<1>3. Outcome(t, row) = "applied" <=>
        Applies(t, row) /\ ~FieldsAlreadyMatch(t[row.path], row)
  BY DEF Outcome, Applies
<1> QED BY <1>2, <1>3 DEF ImportReviewRow

LEMMA ImportReviewRowKeeps ==
  ASSUME NEW t \in Tables, NEW row \in ReviewRow
  PROVE  ImportReviewRow(t, row) \in Tables /\ Reviews(t, ImportReviewRow(t, row))
<1>1. CASE ~Applies(t, row)
  <2>1. ImportReviewRow(t, row) = t
    BY <1>1, RowImports
  <2> QED BY <2>1, ReviewsItself
<1>2. CASE Applies(t, row)
  <2> DEFINE q == row.path
             new == Reviewed(t[q], row)
             u == [t EXCEPT ![q] = new]
  <2>1. ImportReviewRow(t, row) = u
    BY <1>2, RowImports
  <2>2. q \in Paths /\ t \in Table /\ Unique(t) /\ ValidatedSound(t) /\ t[q] \in Report /\ t[q] # None
    BY <1>2 DEF ReviewRow, Tables, Table, Applies
  <2>3. /\ new \in Report /\ new # None
        /\ new.company = t[q].company /\ new.sha256 = t[q].sha256
        /\ new.metadata_status = t[q].metadata_status /\ new.page_count = t[q].page_count
        /\ new.metadata_source = "MANUAL" /\ new.period_end = row.period_end
    BY <2>2, ReviewedFields, NoneIsNoValue
  <2> HIDE DEF new
  <2>4. u \in Table /\ u[q] = new /\ \A p \in Paths \ {q} : u[p] = t[p]
    BY <2>2, <2>3 DEF Table
  <2> HIDE DEF u
  <2>5. /\ row.period_end # None
        /\ t[q].period_end \in {None, row.period_end}
        /\ \A p \in Paths \ {q} : ~ (/\ t[p] # None /\ t[p].company = t[q].company
                                     /\ t[p].period_end = row.period_end)
    BY <1>2 DEF Applies, WellFormed, Conflicts, PeriodTaken
  <2> HIDE DEF q
  <2>6. Reviews(t, u)
    BY <2>2, <2>3, <2>4, <2>5 DEF Reviews
  <2>7. Unique(u)
    <3> SUFFICES ASSUME NEW p \in Paths, NEW s \in Paths, p # s, u[p] # None, u[s] # None
                 PROVE  /\ u[p].sha256 # u[s].sha256
                        /\ \/ u[p].company # u[s].company
                           \/ u[p].period_end = None
                           \/ u[p].period_end # u[s].period_end
      BY DEF Unique
    <3>1. CASE p = q
      BY <2>2, <2>3, <2>4, <2>5, <3>1 DEF Unique
    <3>2. CASE s = q
      BY <2>2, <2>3, <2>4, <2>5, <3>2 DEF Unique
    <3>3. CASE p # q /\ s # q
      BY <2>2, <2>4, <3>3 DEF Unique
    <3> QED BY <3>1, <3>2, <3>3
  <2>8. ValidatedSound(u)
    BY <2>2, <2>3, <2>4, <2>5 DEF ValidatedSound
  <2> QED BY <2>1, <2>4, <2>6, <2>7, <2>8 DEF Tables
<1> QED BY <1>1, <1>2

\* The tables a reviewed CSV goes through.
Reviewing(f, rows) ==
  /\ f \in [0 .. Len(rows) -> Tables]
  /\ \A i \in 1 .. Len(rows) : f[i] = ImportReviewRow(f[i - 1], rows[i])

LEMMA ImportReviewStates ==
  ASSUME NEW table \in Tables, NEW rows \in Seq(ReviewRow)
  PROVE  \E f : /\ Reviewing(f, rows) /\ f[0] = table /\ f = ReviewTables(table, rows)
               /\ ImportReview(table, rows) = f[Len(rows)]
<1> DEFINE n == Len(rows)
           Runs(f) == f = [i \in 0 .. n |-> IF i = 0 THEN table ELSE ImportReviewRow(f[i - 1], rows[i])]
           after == CHOOSE f : Runs(f)
           step == [x \in Tables \X (1 .. n) |-> ImportReviewRow(x[1], rows[x[2]])]
<1>1. n \in Nat /\ \A i \in 1 .. n : rows[i] \in ReviewRow
  OBVIOUS
<1>2. \A t \in Tables : \A i \in 1 .. n : ImportReviewRow(t, rows[i]) \in Tables
  BY <1>1, ImportReviewRowKeeps
<1>3. step \in [Tables \X (1 .. n) -> Tables]
  BY <1>2
<1> HIDE DEF n
<1>4. PICK f \in [0 .. n -> Tables] : Iterates(f, table, step, n)
  BY <1>1, <1>3, IterationExists
<1>5. Runs(f)
  <2>1. \A i \in 0 .. n : f[i] = IF i = 0 THEN table ELSE ImportReviewRow(f[i - 1], rows[i])
    <3> SUFFICES ASSUME NEW i \in 0 .. n, i # 0 PROVE f[i] = ImportReviewRow(f[i - 1], rows[i])
      BY <1>4 DEF Iterates
    <3>1. i \in 1 .. n /\ i - 1 \in 0 .. n
      BY <1>1
    <3>2. f[i] = step[<<f[i - 1], i>>] /\ f[i - 1] \in Tables
      BY <1>4, <3>1 DEF Iterates
    <3> QED BY <3>1, <3>2
  <2> QED BY <2>1
<1>6. Runs(after)
  BY <1>5
<1> HIDE DEF after, step
<1>7. after[0] = table /\ \A i \in 1 .. n : after[i] = ImportReviewRow(after[i - 1], rows[i])
  BY <1>1, <1>6
<1>8. \A i \in 0 .. n : after[i] \in Tables
  <2> DEFINE S == { i \in 0 .. n : after[i] \in Tables }
  <2>1. 0 \in S
    BY <1>1, <1>7
  <2>2. \A i \in 1 .. n : i - 1 \in S => i \in S
    BY <1>2, <1>7
  <2> HIDE DEF S
  <2>3. 0 .. n \subseteq S
    BY <1>1, <2>1, <2>2, UpTo
  <2> QED BY <2>3 DEF S
<1>9. after \in [0 .. n -> Tables]
  BY <1>6, <1>8
<1>10. after = ReviewTables(table, rows) /\ ImportReview(table, rows) = after[n]
  BY DEF ImportReview, ReviewTables, after, n
<1> QED BY <1>7, <1>9, <1>10 DEF Reviewing, n

\* Later tables only add to what earlier ones settled.
LEMMA ReviewingGrows ==
  ASSUME NEW rows \in Seq(ReviewRow), NEW f, Reviewing(f, rows)
  PROVE  \A j \in 0 .. Len(rows) : \A i \in 0 .. j : Reviews(f[i], f[j])
<1> DEFINE n == Len(rows)
           S == { j \in 0 .. n : \A i \in 0 .. j : Reviews(f[i], f[j]) }
<1>1. n \in Nat /\ \A i \in 1 .. n : rows[i] \in ReviewRow
  OBVIOUS
<1>2. 0 \in S
  BY <1>1, ReviewsItself
<1>3. \A j \in 1 .. n : j - 1 \in S => j \in S
  <2> SUFFICES ASSUME NEW j \in 1 .. n, j - 1 \in S, NEW i \in 0 .. j PROVE Reviews(f[i], f[j])
    OBVIOUS
  <2>1. CASE i = j
    BY <2>1, ReviewsItself
  <2>2. CASE i # j
    <3>1. i \in 0 .. j - 1 /\ j - 1 \in 0 .. n
      BY <1>1, <2>2
    <3>2. Reviews(f[i], f[j - 1])
      BY <3>1
    <3>3. Reviews(f[j - 1], f[j])
      BY <1>1, <3>1, ImportReviewRowKeeps DEF Reviewing
    <3> QED BY <3>2, <3>3, ReviewsTransitive
  <2> QED BY <2>1, <2>2
<1> HIDE DEF S
<1>4. 0 .. n \subseteq S
  BY <1>1, <1>2, <1>3, UpTo
<1> QED BY <1>4 DEF S

\* A row decides on the same grounds whenever a batch meets it again: over any
\* table with the companies and dates the batch ended with, exactly the rows
\* that were applied are applied.
LEMMA RowsDecidedAlike ==
  ASSUME NEW t \in Tables, NEW row \in ReviewRow, NEW once \in Tables, NEW v \in Table,
         Reviews(ImportReviewRow(t, row), once), Reviews(t, once), Reviews(once, v),
         \A p \in Paths : once[p] # None => v[p].period_end = once[p].period_end
  PROVE  Applies(v, row) <=> Applies(t, row)
<1> DEFINE q == row.path
<1>1. q \in Paths /\ t \in Table /\ once \in Table /\ Unique(once)
  BY DEF ReviewRow, Tables
<1>2. \A p \in Paths :
        /\ v[p] = None <=> t[p] = None
        /\ v[p] = None <=> once[p] = None
        /\ t[p] # None => /\ v[p].company = t[p].company
                          /\ v[p].company = once[p].company
                          /\ v[p].period_end = once[p].period_end
                          /\ t[p].period_end # None => v[p].period_end = t[p].period_end
  BY DEF Reviews
<1>3. Applies(t, row) <=> /\ WellFormed(row) /\ row.reviewer_status \in Applicable /\ Flushes(row)
                          /\ t[q] # None /\ t[q].period_end \in {None, row.period_end}
                          /\ ~PeriodTaken(t, row)
  BY DEF Applies, Conflicts
<1>4. Applies(v, row) <=> /\ WellFormed(row) /\ row.reviewer_status \in Applicable /\ Flushes(row)
                          /\ v[q] # None /\ v[q].period_end \in {None, row.period_end}
                          /\ ~PeriodTaken(v, row)
  BY DEF Applies, Conflicts
<1>5. Applies(t, row) \/ Applies(v, row) => row.period_end # None
  BY DEF Applies, WellFormed
<1>6. ASSUME Applies(t, row) PROVE Applies(v, row)
  <2>1. t[q] \in Report /\ t[q] # None
    BY <1>1, <1>3, <1>6 DEF Table
  <2>2. ImportReviewRow(t, row) = [t EXCEPT ![q] = Reviewed(@, row)]
    BY <1>6, RowImports
  <2>3. Reviewed(t[q], row).period_end = row.period_end /\ Reviewed(t[q], row) # None
    BY <2>1, ReviewedFields, NoneIsNoValue
  <2>4. ImportReviewRow(t, row)[q] = Reviewed(t[q], row)
    BY <1>1, <2>2 DEF Table
  <2>5. once[q].period_end = row.period_end /\ v[q].period_end = row.period_end /\ v[q] # None
    BY <1>1, <1>2, <1>5, <1>6, <2>1, <2>3, <2>4 DEF Reviews
  <2>6. ~PeriodTaken(v, row)
    <3> SUFFICES ASSUME NEW p \in Paths \ {q}, v[p] # None, v[p].company = v[q].company,
                        v[p].period_end = row.period_end
                 PROVE FALSE
      BY DEF PeriodTaken
    <3>1. once[p] # None /\ once[q] # None /\ once[p].company = once[q].company
          /\ once[p].period_end = once[q].period_end /\ once[p].period_end # None
      BY <1>1, <1>2, <1>5, <1>6, <2>1, <2>5
    <3> QED BY <1>1, <3>1 DEF Unique
  <2> QED BY <1>3, <1>4, <1>6, <2>5, <2>6
<1>7. ASSUME Applies(v, row) PROVE Applies(t, row)
  <2>1. t[q] # None /\ t[q].period_end \in {None, row.period_end}
    BY <1>1, <1>2, <1>4, <1>5, <1>7
  <2>2. ~PeriodTaken(t, row)
    <3> SUFFICES ASSUME NEW p \in Paths \ {q}, t[p] # None, t[p].company = t[q].company,
                        t[p].period_end = row.period_end
                 PROVE FALSE
      BY DEF PeriodTaken
    <3>1. v[p] # None /\ v[p].company = v[q].company /\ v[p].period_end = row.period_end
      BY <1>1, <1>2, <1>5, <1>7, <2>1
    <3> QED BY <1>4, <1>7, <3>1 DEF PeriodTaken
  <2> QED BY <1>3, <1>4, <1>7, <2>1, <2>2
<1> QED BY <1>6, <1>7

\* The second import decides every row as the first did, and ends where it
\* began.
LEMMA ImportTwice ==
  ASSUME NEW table \in Tables, NEW rows \in Seq(ReviewRow),
         NEW t, NEW u, Reviewing(t, rows), Reviewing(u, rows),
         t[0] = table, u[0] = t[Len(rows)]
  PROVE  /\ u[Len(rows)] = u[0]
         /\ \A j \in 1 .. Len(rows) : Applies(u[j - 1], rows[j]) <=> Applies(t[j - 1], rows[j])
<1> DEFINE n == Len(rows)
           once == t[n]
<1>1. n \in Nat /\ \A i \in 1 .. n : rows[i] \in ReviewRow /\ rows[i].path \in Paths
  <2>1. n \in Nat /\ \A i \in 1 .. n : rows[i] \in ReviewRow
    OBVIOUS
  <2> QED BY <2>1 DEF ReviewRow
<1>2. Reviewing(t, rows) /\ t[0] = table /\ once = t[n]
  OBVIOUS
<1>3. once \in Tables /\ once \in Table
  BY <1>1, <1>2 DEF Reviewing, Tables
<1>4. Reviewing(u, rows) /\ u[0] = once
  OBVIOUS
<1> HIDE DEF once
<1>5. \A j \in 0 .. n : t[j] \in Tables /\ t[j] \in Table /\ Reviews(t[j], once)
                        /\ u[j] \in Tables /\ u[j] \in Table /\ Reviews(once, u[j])
  <2>1. \A j \in 0 .. n : t[j] \in Tables /\ u[j] \in Tables
    BY <1>2, <1>4 DEF Reviewing
  <2>2. \A j \in 0 .. n : Reviews(t[j], t[n])
    <3>1. n \in 0 .. n
      BY <1>1
    <3> QED BY <1>2, <3>1, ReviewingGrows
  <2>3. \A j \in 0 .. n : Reviews(u[0], u[j])
    <3>1. \A j \in 0 .. n : 0 \in 0 .. j
      BY <1>1
    <3> QED BY <1>4, <3>1, ReviewingGrows
  <2> QED BY <1>2, <1>4, <2>1, <2>2, <2>3 DEF Tables
<1> DEFINE Applied(i) == Applies(t[i - 1], rows[i])
           Touched(j) == { p \in Paths : \E i \in 1 .. j : Applied(i) /\ rows[i].path = p }
           Followed(j) ==
             \A p \in Paths : /\ once[p] # None => u[j][p].period_end = once[p].period_end
                              /\ u[j][p] = IF p \in Touched(j) THEN t[j][p] ELSE once[p]
           S == { j \in 0 .. n : Followed(j) }
<1>6. 0 \in S
  BY <1>1, <1>4
<1>7. \A j \in 1 .. n : j - 1 \in S => j \in S
  <2> SUFFICES ASSUME NEW j \in 1 .. n, j - 1 \in S PROVE Followed(j)
    BY <1>1
  <2> DEFINE row == rows[j]
             q == row.path
             a == t[j - 1]
             b == u[j - 1]
  <2>1. j - 1 \in 0 .. n /\ row \in ReviewRow /\ q \in Paths
    BY <1>1
  <2>2. t[j] = ImportReviewRow(a, row) /\ u[j] = ImportReviewRow(b, row)
    BY <1>2, <1>4 DEF Reviewing
  <2>3. a \in Tables /\ a \in Table /\ b \in Tables /\ b \in Table /\ Reviews(a, once) /\ Reviews(once, b)
        /\ Reviews(t[j], once)
    BY <1>1, <1>5, <2>1
  <2>4. \A p \in Paths : /\ once[p] # None => b[p].period_end = once[p].period_end
                         /\ b[p] = IF p \in Touched(j - 1) THEN a[p] ELSE once[p]
    BY <2>1
  <2>5. Applies(b, row) <=> Applies(a, row)
    BY <1>3, <2>1, <2>2, <2>3, <2>4, RowsDecidedAlike
  <2>6. \A i : i \in 1 .. j <=> i \in 1 .. j - 1 \/ i = j
    BY <1>1
  <2>7. Touched(j) = Touched(j - 1) \cup (IF Applies(a, row) THEN {q} ELSE {})
    BY <2>1, <2>6
  <2> HIDE DEF Touched, row, a, b
  <2>8. CASE ~Applies(a, row)
    <3>1. t[j] = a /\ u[j] = b
      BY <2>1, <2>2, <2>3, <2>5, <2>8, RowImports
    <3> QED BY <2>4, <2>7, <2>8, <3>1
  <2>9. CASE Applies(a, row)
    <3>1. t[j] = [a EXCEPT ![q] = Reviewed(@, row)] /\ u[j] = [b EXCEPT ![q] = Reviewed(@, row)]
      BY <2>1, <2>2, <2>3, <2>5, <2>9, RowImports
    <3>2. /\ t[j][q] = Reviewed(a[q], row) /\ u[j][q] = Reviewed(b[q], row)
          /\ \A p \in Paths \ {q} : t[j][p] = a[p] /\ u[j][p] = b[p]
      BY <2>1, <2>3, <3>1 DEF Table
    <3>3. a[q] # None /\ b[q] # None /\ a[q] \in Report /\ b[q] \in Report
      BY <2>1, <2>3, <2>5, <2>9 DEF Table, Applies
    <3>4. /\ b[q].company = a[q].company /\ b[q].sha256 = a[q].sha256
          /\ b[q].metadata_status = a[q].metadata_status /\ b[q].page_count = a[q].page_count
      BY <2>1, <2>3, <3>3 DEF Reviews
    <3>5. Reviewed(b[q], row) = Reviewed(a[q], row)
          /\ Reviewed(a[q], row).period_end = row.period_end /\ Reviewed(a[q], row) # None
      <4> DEFINE ra == a[q]
                 rb == b[q]
                 New(r) == [company |-> r.company, sha256 |-> r.sha256,
                            metadata_status |-> r.metadata_status,
                            metadata_source |-> "MANUAL", page_count |-> r.page_count,
                            period_start |-> row.period_start, period_end |-> row.period_end,
                            reporting_months |-> row.reporting_months,
                            transition_report |-> row.transition_report]
      <4>1. \A r \in Report : Reviewed(r, row) = New(r) /\ Reviewed(r, row) \in Report
        BY <2>1, ReviewedFields
      <4>2. New(ra) = New(rb) /\ New(ra).period_end = row.period_end
        BY <3>4
      <4> HIDE DEF New, ra, rb
      <4>3. Reviewed(ra, row) = New(ra) /\ Reviewed(rb, row) = New(rb) /\ Reviewed(ra, row) \in Report
        BY <3>3, <4>1 DEF ra, rb
      <4> QED BY <4>2, <4>3, NoneIsNoValue DEF ra, rb
    <3>6. row.period_end # None
      BY <2>9 DEF Applies, WellFormed
    <3>7. once[q].period_end = row.period_end
      BY <2>1, <2>3, <3>2, <3>5, <3>6 DEF Reviews
    <3> HIDE DEF q
    <3>8. ASSUME NEW p \in Paths
          PROVE  /\ once[p] # None => u[j][p].period_end = once[p].period_end
                 /\ u[j][p] = IF p \in Touched(j) THEN t[j][p] ELSE once[p]
      <4>1. CASE p = q
        BY <2>7, <2>9, <3>2, <3>5, <3>7, <4>1
      <4>2. CASE p # q
        BY <2>4, <2>7, <2>9, <3>2, <4>2
      <4> QED BY <4>1, <4>2
    <3> QED BY <3>8
  <2> QED BY <2>8, <2>9
<1> HIDE DEF S, Touched, n
<1>8. 0 .. n \subseteq S
  BY <1>1, <1>6, <1>7, UpTo
<1>9. \A p \in Paths : u[n][p] = once[p]
  <2>1. n \in S
    BY <1>1, <1>8
  <2> QED BY <1>2, <2>1 DEF S
<1>10. u[n] = once
  BY <1>1, <1>3, <1>5, <1>9 DEF Table
<1>11. ASSUME NEW j \in 1 .. n
       PROVE  Applies(u[j - 1], rows[j]) <=> Applies(t[j - 1], rows[j])
  <2>1. j - 1 \in 0 .. n /\ j \in 0 .. n /\ j - 1 \in S /\ rows[j] \in ReviewRow
    BY <1>1, <1>8
  <2>2. \A p \in Paths : once[p] # None => u[j - 1][p].period_end = once[p].period_end
    BY <2>1 DEF S
  <2>3. t[j] = ImportReviewRow(t[j - 1], rows[j])
    BY <1>2 DEF Reviewing, n
  <2> QED BY <1>3, <1>5, <2>1, <2>2, <2>3, RowsDecidedAlike
<1> QED BY <1>4, <1>10, <1>11 DEF once, n

-----------------------------------------------------------------------------
(* What a second import reports                                             *)

LEMMA OutcomeApplies ==
  ASSUME NEW t, NEW row
  PROVE  /\ Outcome(t, row) = "applied" => Applies(t, row)
         /\ Applies(t, row) => Outcome(t, row) \in Accepted
         /\ Outcome(t, row) = "unchanged" => FieldsAlreadyMatch(t[row.path], row)
         /\ Outcome(t, row) \in Accepted =>
              /\ WellFormed(row) /\ row.reviewer_status \in Applicable
              /\ t[row.path] # None /\ row.period_end # None
BY DEF Outcome, Applies, Accepted, WellFormed

\* After its row a report holds what the row proposes.
LEMMA AppliedMatches ==
  ASSUME NEW r \in Report, NEW row \in ReviewRow, NEW other \in ReviewRow,
         Fields(other) = Fields(row)
  PROVE  FieldsAlreadyMatch(Reviewed(r, other), row)
<1> DEFINE new == Reviewed(r, other)
<1>1. /\ row.period_start = other.period_start /\ row.period_end = other.period_end
      /\ row.reporting_months = other.reporting_months
      /\ row.transition_report = other.transition_report
  BY DEF Fields
<1>2. new \in Report
  BY ReviewedFields
<1>3. /\ new.metadata_source = "MANUAL"
      /\ new.period_start = row.period_start /\ new.period_end = row.period_end
      /\ new.reporting_months = row.reporting_months
      /\ new.transition_report = row.transition_report
  BY <1>1 DEF Reviewed, Report
<1> HIDE DEF new
<1>4. [new EXCEPT !.period_start = row.period_start, !.period_end = row.period_end,
                  !.reporting_months = row.reporting_months,
                  !.transition_report = row.transition_report,
                  !.metadata_source = "MANUAL"] = new
  BY <1>2, <1>3 DEF Report
<1> QED BY <1>4 DEF FieldsAlreadyMatch, Reviewed, new

\* It goes on holding it while no row of the report with other values applies.
LEMMA StaysMatching ==
  ASSUME NEW rows \in Seq(ReviewRow), NEW f, Reviewing(f, rows), NEW row \in ReviewRow,
         NEW k \in 0 .. Len(rows), NEW m \in k .. Len(rows),
         f[k][row.path] # None, FieldsAlreadyMatch(f[k][row.path], row),
         \A j \in k + 1 .. m :
           rows[j].path = row.path /\ Applies(f[j - 1], rows[j]) => Fields(rows[j]) = Fields(row)
  PROVE  FieldsAlreadyMatch(f[m][row.path], row)
<1> DEFINE n == Len(rows)
           q == row.path
           Good(j) == f[j][q] # None /\ FieldsAlreadyMatch(f[j][q], row)
           S == { j \in 0 .. m : j >= k => Good(j) }
<1>1. n \in Nat /\ m \in Nat /\ m <= n /\ k \in Nat /\ q \in Paths
      /\ \A j \in 1 .. n : rows[j] \in ReviewRow
  <2>1. n \in Nat /\ \A j \in 1 .. n : rows[j] \in ReviewRow
    OBVIOUS
  <2>2. q \in Paths
    BY DEF ReviewRow
  <2> QED BY <2>1, <2>2
<1>2. 0 \in S
  BY <1>1
<1>3. \A j \in 1 .. m : j - 1 \in S => j \in S
  <2> SUFFICES ASSUME NEW j \in 1 .. m, j - 1 \in S, j >= k PROVE Good(j)
    BY <1>1
  <2>1. CASE j = k
    BY <2>1
  <2>2. CASE j # k
    <3> DEFINE a == f[j - 1]
    <3>1. j \in 1 .. n /\ j - 1 \in 0 .. n /\ j \in k + 1 .. m /\ j - 1 >= k
      BY <1>1, <2>2
    <3>2. a \in Tables /\ a \in Table /\ f[j] = ImportReviewRow(a, rows[j]) /\ rows[j] \in ReviewRow
      BY <1>1, <3>1 DEF Reviewing, Tables
    <3>3. Good(j - 1)
      BY <3>1
    <3>4. a[q] \in Report
      BY <1>1, <3>2, <3>3 DEF Table
    <3> HIDE DEF a
    <3>5. CASE Applies(a, rows[j]) /\ rows[j].path = q
      <4>1. f[j] = [a EXCEPT ![q] = Reviewed(@, rows[j])]
        BY <3>2, <3>5, RowImports
      <4>2. f[j][q] = Reviewed(a[q], rows[j])
        BY <1>1, <3>2, <4>1 DEF Table
      <4>3. Fields(rows[j]) = Fields(row)
        BY <3>1, <3>5 DEF a
      <4>4. FieldsAlreadyMatch(f[j][q], row)
        BY <3>2, <3>4, <4>2, <4>3, AppliedMatches
      <4>5. f[j][q] \in Report
        BY <3>2, <3>4, <4>2, ReviewedFields
      <4> QED BY <4>4, <4>5, NoneIsNoValue
    <3>6. CASE ~(Applies(a, rows[j]) /\ rows[j].path = q)
      <4>1. f[j][q] = a[q]
        BY <1>1, <3>2, <3>6, RowImports DEF Table
      <4> QED BY <3>3, <4>1 DEF a
    <3> QED BY <3>5, <3>6
  <2> QED BY <2>1, <2>2
<1> HIDE DEF S, Good
<1>4. 0 .. m \subseteq S
  BY <1>1, <1>2, <1>3, UpTo
<1>5. m \in S /\ m >= k
  BY <1>1, <1>4
<1> QED BY <1>5 DEF S, Good

\* A report that holds what an acceptable row proposes leaves it "unchanged".
LEMMA MatchingUnchanged ==
  ASSUME NEW v \in Tables, NEW row \in ReviewRow, WellFormed(row),
         row.reviewer_status \in Applicable, row.period_end # None,
         v[row.path] # None, FieldsAlreadyMatch(v[row.path], row)
  PROVE  Outcome(v, row) = "unchanged"
<1>1. row.path \in Paths /\ v \in Table /\ Unique(v)
  BY DEF ReviewRow, Tables
<1>2. v[row.path] \in Report
  BY <1>1 DEF Table
<1>3. Reviewed(v[row.path], row).period_end = row.period_end
  BY <1>2, ReviewedFields
<1>4. v[row.path].period_end = row.period_end
  BY <1>3 DEF FieldsAlreadyMatch
<1>5. ~Conflicts(v, row)
  BY <1>1, <1>4 DEF Conflicts, PeriodTaken, Unique
<1> QED BY <1>5 DEF Outcome

\* The rows of a repeated import: what was accepted and is not disputed is
\* "unchanged", what was refused is not applied.
LEMMA OutcomesTwice ==
  ASSUME NEW table \in Tables, NEW rows \in Seq(ReviewRow)
  PROVE  LET once == ImportReview(table, rows)
             first == Outcomes(table, rows)
             second == Outcomes(once, rows)
         IN /\ once \in Tables
            /\ ImportReview(once, rows) = once
            /\ \A i \in DOMAIN rows :
                 IF first[i] \in Accepted
                 THEN ~Disputed(rows, first, i) => second[i] = "unchanged"
                 ELSE second[i] # "applied"
<1> DEFINE n == Len(rows)
           once == ImportReview(table, rows)
           first == Outcomes(table, rows)
           second == Outcomes(once, rows)
<1>1. n \in Nat /\ DOMAIN rows = 1 .. n /\ \A i \in 1 .. n : rows[i] \in ReviewRow
  OBVIOUS
<1>2. PICK t : /\ Reviewing(t, rows) /\ t[0] = table /\ t = ReviewTables(table, rows)
               /\ once = t[n]
  BY ImportReviewStates
<1>3. once \in Tables
  BY <1>1, <1>2 DEF Reviewing
<1> HIDE DEF once
<1>4. PICK u : /\ Reviewing(u, rows) /\ u[0] = once /\ u = ReviewTables(once, rows)
               /\ ImportReview(once, rows) = u[n]
  BY <1>3, ImportReviewStates
<1>5. u[n] = once /\ \A j \in 1 .. n : Applies(u[j - 1], rows[j]) <=> Applies(t[j - 1], rows[j])
  BY <1>2, <1>4, ImportTwice
<1>6. \A i \in 1 .. n : first[i] = Outcome(t[i - 1], rows[i]) /\ second[i] = Outcome(u[i - 1], rows[i])
  BY <1>1, <1>2, <1>4 DEF Outcomes
<1> HIDE DEF first, second
<1>7. ASSUME NEW i \in 1 .. n, first[i] \notin Accepted PROVE second[i] # "applied"
  BY <1>5, <1>6, <1>7, OutcomeApplies
<1>8. ASSUME NEW i \in 1 .. n, first[i] \in Accepted, ~Disputed(rows, first, i)
      PROVE  second[i] = "unchanged"
  <2> DEFINE row == rows[i]
             q == row.path
  <2>1. row \in ReviewRow /\ q \in Paths /\ i - 1 \in 0 .. n /\ i \in 0 .. n /\ 0 \in 0 .. n
    BY <1>1 DEF ReviewRow
  <2>2. t[i - 1] \in Tables /\ t[i - 1] \in Table /\ t[i] = ImportReviewRow(t[i - 1], row)
        /\ u[i - 1] \in Tables
    BY <1>2, <1>4, <2>1 DEF Reviewing, Tables
  <2>3. /\ WellFormed(row) /\ row.reviewer_status \in Applicable
        /\ t[i - 1][q] # None /\ row.period_end # None
    BY <1>6, <1>8, OutcomeApplies
  <2>4. \A j \in 1 .. n :
          rows[j].path = q /\ (Applies(t[j - 1], rows[j]) \/ Applies(u[j - 1], rows[j]))
            => Fields(rows[j]) = Fields(row)
    <3> SUFFICES ASSUME NEW j \in 1 .. n, rows[j].path = q, Applies(t[j - 1], rows[j])
                 PROVE  Fields(rows[j]) = Fields(row)
      BY <1>5
    <3>1. first[j] \in Accepted
      BY <1>6, OutcomeApplies
    <3> QED BY <1>1, <1>8, <3>1 DEF Disputed
  <2>5. t[i - 1][q] \in Report
    BY <2>1, <2>2, <2>3 DEF Table
  <2> HIDE DEF q, row
  <2>6. t[i][q] # None /\ FieldsAlreadyMatch(t[i][q], row)
    <3>1. CASE Applies(t[i - 1], row)
      <4>1. t[i] = [t[i - 1] EXCEPT ![row.path] = Reviewed(@, row)]
        BY <2>1, <2>2, <3>1, RowImports
      <4>2. t[i][q] = Reviewed(t[i - 1][q], row)
        BY <2>1, <2>2, <4>1 DEF Table, q
      <4> QED BY <2>1, <2>5, <4>2, AppliedMatches, ReviewedFields, NoneIsNoValue
    <3>2. CASE ~Applies(t[i - 1], row)
      <4>1. t[i] = t[i - 1]
        BY <2>1, <2>2, <3>2, RowImports
      <4>2. Outcome(t[i - 1], row) = "unchanged"
        BY <1>6, <1>8, <3>2, OutcomeApplies DEF Accepted, row
      <4> QED BY <2>3, <4>1, <4>2, OutcomeApplies DEF q
    <3> QED BY <3>1, <3>2
  <2>7. once[q] # None /\ FieldsAlreadyMatch(once[q], row)
    <3>1. n \in i .. n /\ i + 1 .. n \subseteq 1 .. n
      BY <1>1
    <3>2. FieldsAlreadyMatch(t[n][q], row)
      BY <1>2, <2>1, <2>4, <2>6, <3>1, StaysMatching DEF q
    <3>3. Reviews(t[i], t[n])
      <4>1. n \in 0 .. n /\ i \in 0 .. n
        BY <1>1
      <4> QED BY <1>2, <4>1, ReviewingGrows
    <3> QED BY <1>2, <2>1, <2>6, <3>2, <3>3 DEF Reviews
  <2>8. u[i - 1][q] # None /\ FieldsAlreadyMatch(u[i - 1][q], row)
    <3>1. i - 1 \in 0 .. n /\ 0 + 1 .. i - 1 \subseteq 1 .. n
      BY <1>1
    <3>2. FieldsAlreadyMatch(u[i - 1][q], row)
      BY <1>4, <2>1, <2>4, <2>7, <3>1, StaysMatching DEF q
    <3>3. Reviews(u[0], u[i - 1])
      <4>1. 0 \in 0 .. i - 1
        BY <1>1
      <4> QED BY <1>4, <2>1, <4>1, ReviewingGrows
    <3> QED BY <1>4, <2>1, <2>7, <3>2, <3>3 DEF Reviews
  <2>9. Outcome(u[i - 1], row) = "unchanged"
    BY <2>1, <2>2, <2>3, <2>8, MatchingUnchanged DEF q
  <2> QED BY <1>6, <2>9 DEF row
<1> QED BY <1>1, <1>3, <1>4, <1>5, <1>7, <1>8 DEF once, first, second

\* Notes are counted, and rows none of which is applied write none.
LEMMA NotesCounted ==
  ASSUME NEW before \in NoteTable, NEW rows \in Seq(ReviewRow), NEW outcomes
  PROVE  /\ Noted(before, rows, outcomes) \in NoteTable
         /\ \A p \in Paths :
              (\A i \in DOMAIN rows : rows[i].path = p => outcomes[i] # "applied")
                => Noted(before, rows, outcomes)[p] = before[p]
<1> DEFINE Lines(p, x) == { i \in DOMAIN rows : /\ outcomes[i] = "applied" /\ rows[i].path = p
                                                /\ rows[i].reviewer_notes = x }
<1>1. IsFiniteSet(DOMAIN rows)
  <2>1. Len(rows) \in Nat /\ DOMAIN rows = 1 .. Len(rows)
    OBVIOUS
  <2> QED BY <2>1, FS_Interval
<1>2. \A p, x : Cardinality(Lines(p, x)) \in Nat
  <2>1. \A p, x : IsFiniteSet(Lines(p, x))
    BY <1>1, FS_Subset
  <2> HIDE DEF Lines
  <2> QED BY <2>1, FS_CardinalityType
<1>3. Noted(before, rows, outcomes) =
        [p \in Paths |-> [x \in Notes |-> before[p][x] + Cardinality(Lines(p, x))]]
  BY DEF Noted
<1>4. ASSUME NEW p \in Paths, \A i \in DOMAIN rows : rows[i].path = p => outcomes[i] # "applied"
      PROVE  Noted(before, rows, outcomes)[p] = before[p]
  <2>1. \A x : Lines(p, x) = {}
    BY <1>4
  <2> HIDE DEF Lines
  <2>2. \A x : Cardinality(Lines(p, x)) = 0
    BY <2>1, FS_EmptySet
  <2> QED BY <1>3, <2>2 DEF NoteTable
<1> HIDE DEF Lines
<1>5. Noted(before, rows, outcomes) \in NoteTable
  BY <1>2, <1>3 DEF NoteTable
<1> QED BY <1>4, <1>5

-----------------------------------------------------------------------------
(* reports inspect-metadata, reports validate, metadata-review-export       *)

LEMMA InspectedKeeps ==
  ASSUME NEW r \in Report, NEW pdf \in PdfContent, r.metadata_status = "DISCOVERED"
  PROVE  /\ Inspected(r, pdf) \in Report
         /\ Inspected(r, pdf).company = r.company /\ Inspected(r, pdf).sha256 = r.sha256
         /\ Inspected(r, pdf).period_end = r.period_end
         /\ Inspected(r, pdf).metadata_status # "VALIDATED"
         /\ r.metadata_source = "MANUAL" => Inspected(r, pdf).metadata_source = "MANUAL"
<1>1. /\ pdf.page_count \in Nat \cup {None} /\ pdf.months \in Months \cup {None}
      /\ pdf.transition \in BOOLEAN /\ "PDF" \in MetadataSource
      /\ "INSPECTED" \in MetadataStatus
  BY DEF PdfContent, MetadataSource, MetadataStatus
<1> DEFINE counted == [r EXCEPT !.page_count = pdf.page_count]
<1>2. /\ counted \in Report
      /\ counted.company = r.company /\ counted.sha256 = r.sha256
      /\ counted.period_end = r.period_end /\ counted.metadata_status = "DISCOVERED"
      /\ counted.metadata_source = r.metadata_source
      /\ counted.transition_report = r.transition_report
  BY <1>1 DEF Report
<1> HIDE DEF counted
<1> DEFINE Read(months, transition, source) ==
             [counted EXCEPT !.reporting_months = months, !.transition_report = transition,
                             !.metadata_source = source, !.metadata_status = "INSPECTED"]
<1>3. \A months \in Months \cup {None}, transition \in BOOLEAN, source \in MetadataSource :
        /\ Read(months, transition, source) \in Report
        /\ Read(months, transition, source).company = r.company
        /\ Read(months, transition, source).sha256 = r.sha256
        /\ Read(months, transition, source).period_end = r.period_end
        /\ Read(months, transition, source).metadata_status = "INSPECTED"
        /\ Read(months, transition, source).metadata_source = source
  BY <1>1, <1>2 DEF Report
<1>4. /\ r.reporting_months \in Months \cup {None} /\ r.transition_report \in BOOLEAN
      /\ r.metadata_source \in MetadataSource
  BY DEF Report
<1>5. CASE pdf.reads = "nothing"
  <2>1. Inspected(r, pdf) = r
    BY <1>5 DEF Inspected
  <2> QED BY <2>1
<1>6. CASE pdf.reads = "pages"
  <2>1. Inspected(r, pdf) = counted
    BY <1>6 DEF Inspected, counted
  <2> QED BY <1>2, <2>1
<1>7. CASE pdf.reads \notin {"nothing", "pages"}
  <2> DEFINE hints == r.metadata_source # "MANUAL"
             months == IF hints /\ r.reporting_months = None THEN pdf.months ELSE r.reporting_months
             noted == \/ pdf.ends # <<>>
                      \/ r.reporting_months = None /\ pdf.months # None
                      \/ pdf.transition
             transition == counted.transition_report \/ (hints /\ pdf.transition)
             source == IF hints /\ noted THEN "PDF" ELSE counted.metadata_source
  <2>1. months \in Months \cup {None} /\ transition \in BOOLEAN /\ source \in MetadataSource
        /\ (r.metadata_source = "MANUAL" => source = "MANUAL")
    BY <1>1, <1>2, <1>4
  <2>2. Inspected(r, pdf) = Read(months, transition, source)
    BY <1>7 DEF Inspected, counted
  <2> HIDE DEF months, transition, source, Read
  <2>3. "INSPECTED" # "VALIDATED"
    OBVIOUS
  <2> QED BY <1>3, <2>1, <2>2, <2>3
<1> QED BY <1>5, <1>6, <1>7

\* A command that leaves alone what makes reports unique, and validates none
\* but those it read pages and a date of, leaves a sound table.
LEMMA RewriteKeeps ==
  ASSUME NEW t \in Tables, NEW u \in Table,
         \A p \in Paths :
           /\ u[p] = None <=> t[p] = None
           /\ t[p] # None => /\ Kept(t[p], u[p])
                             /\ u[p].sha256 = t[p].sha256 /\ u[p].period_end = t[p].period_end
                             /\ u[p].metadata_status = "VALIDATED" =>
                                  u[p].page_count \notin {None, 0} /\ u[p].period_end # None
  PROVE  u \in Tables /\ Keeps(t, u)
<1>1. Unique(u)
  BY DEF Tables, Unique, Kept
<1>2. ValidatedSound(u) /\ Keeps(t, u)
  BY DEF ValidatedSound, Keeps
<1> QED BY <1>1, <1>2 DEF Tables

LEMMA InspectKeeps ==
  ASSUME IInv, InspectMetadata
  PROVE  report' \in Tables /\ Keeps(report, report')
<1>1. report \in Table /\ report \in Tables
  BY DEF IInv, Tables
<1>2. ASSUME NEW p \in Paths
      PROVE  /\ report'[p] \in Report \cup {None}
             /\ report'[p] = None <=> report[p] = None
             /\ report[p] # None =>
                  /\ Kept(report[p], report'[p])
                  /\ report'[p].sha256 = report[p].sha256
                  /\ report'[p].period_end = report[p].period_end
                  /\ report'[p].metadata_status = "VALIDATED" =>
                       report'[p].page_count \notin {None, 0} /\ report'[p].period_end # None
  <2>1. CASE p \in Imported /\ report[p].metadata_status = "DISCOVERED"
    <3>1. report'[p] = Inspected(report[p], Pdf[p])
      BY <2>1 DEF InspectMetadata
    <3>2. report[p] \in Report /\ report[p] # None /\ Pdf[p] \in PdfContent
      BY <1>1, <2>1, PdfTyped DEF Table, Imported
    <3> QED BY <2>1, <3>1, <3>2, InspectedKeeps, NoneIsNoValue DEF Kept
  <2>2. CASE ~(p \in Imported /\ report[p].metadata_status = "DISCOVERED")
    <3>1. report'[p] = report[p]
      BY <2>2 DEF InspectMetadata
    <3> QED BY <1>1, <3>1 DEF Table, Tables, Kept, ValidatedSound
  <2> QED BY <2>1, <2>2
<1>3. report' \in Table
  BY <1>2 DEF InspectMetadata, Table
<1> QED BY <1>1, <1>2, <1>3, RewriteKeeps

LEMMA ValidateKeeps ==
  ASSUME IInv, ValidateReports
  PROVE  report' \in Tables /\ Keeps(report, report')
<1>1. report \in Table /\ report \in Tables /\ ValidatedSound(report)
  BY DEF IInv, Tables
<1>2. ASSUME NEW p \in Paths
      PROVE  /\ report'[p] \in Report \cup {None}
             /\ report'[p] = None <=> report[p] = None
             /\ report[p] # None =>
                  /\ Kept(report[p], report'[p])
                  /\ report'[p].sha256 = report[p].sha256
                  /\ report'[p].period_end = report[p].period_end
                  /\ report'[p].metadata_status = "VALIDATED" =>
                       report'[p].page_count \notin {None, 0} /\ report'[p].period_end # None
  <2>1. CASE p \in Imported /\ report[p].metadata_status # "DISCOVERED"
    <3>1. report'[p] = [report[p] EXCEPT !.metadata_status = ValidatedStatus(report[p])]
      BY <2>1 DEF ValidateReports
    <3>2. report[p] \in Report /\ report[p] # None
      BY <1>1, <2>1 DEF Table, Imported
    <3>3. ValidatedStatus(report[p]) \in MetadataStatus
      BY DEF ValidatedStatus, MetadataStatus
    <3>4. /\ report'[p] \in Report
          /\ report'[p].company = report[p].company /\ report'[p].sha256 = report[p].sha256
          /\ report'[p].period_end = report[p].period_end
          /\ report'[p].page_count = report[p].page_count
          /\ report'[p].metadata_source = report[p].metadata_source
          /\ report'[p].metadata_status = ValidatedStatus(report[p])
      BY <3>1, <3>2, <3>3 DEF Report
    <3>5. ValidatedStatus(report[p]) = "VALIDATED" <=>
            report[p].page_count \notin {None, 0} /\ report[p].period_end # None
      BY DEF ValidatedStatus
    <3>6. report[p].metadata_status = "VALIDATED" =>
            report[p].page_count \notin {None, 0} /\ report[p].period_end # None
      BY <1>1, <3>2 DEF ValidatedSound
    <3> QED BY <3>2, <3>4, <3>5, <3>6, NoneIsNoValue DEF Kept
  <2>2. CASE ~(p \in Imported /\ report[p].metadata_status # "DISCOVERED")
    <3>1. report'[p] = report[p]
      BY <2>2 DEF ValidateReports
    <3> QED BY <1>1, <3>1 DEF Table, Kept, ValidatedSound
  <2> QED BY <2>1, <2>2
<1>3. report' \in Table
  BY <1>2 DEF ValidateReports, Table
<1> QED BY <1>1, <1>2, <1>3, RewriteKeeps

LEMMA ExportRowTyped ==
  ASSUME NEW p \in Paths
  PROVE  ExportRow(p) \in ReviewRow
<1>1. Pdf[p] \in PdfContent
  BY PdfTyped
<1> DEFINE ends == Pdf[p].ends
           parsed == { i \in DOMAIN ends : ends[i] # None }
<1>2. ends \in Seq(Dates \cup {None}) /\ Pdf[p].months \in Months \cup {None}
      /\ Pdf[p].transition \in BOOLEAN
  BY <1>1 DEF PdfContent
<1>3. Proposed(Pdf[p]) \in Dates \cup {None}
  <2>1. CASE Pdf[p].reads # "all" \/ parsed = {}
    BY <2>1 DEF Proposed
  <2>2. CASE ~(Pdf[p].reads # "all" \/ parsed = {})
    <3>1. parsed \in SUBSET Nat /\ parsed # {}
      BY <1>2, <2>2
    <3>2. Proposed(Pdf[p]) = ends[Min(parsed)]
      BY <2>2 DEF Proposed
    <3> HIDE DEF parsed
    <3>3. Min(parsed) \in parsed
      BY <3>1, LeastNatural DEF Min
    <3>4. Min(parsed) \in DOMAIN ends
      BY <3>3 DEF parsed
    <3>5. \A i \in DOMAIN ends : ends[i] \in Dates \cup {None}
      BY <1>2
    <3> QED BY <3>2, <3>4, <3>5
  <2> QED BY <2>1, <2>2
<1>4. "UNREVIEWED" \in ReviewerStatus
  BY DEF ReviewerStatus
<1> QED BY <1>2, <1>3, <1>4 DEF ExportRow, ReviewRow

\* What an operator hands in is a list of review rows.
LEMMA BatchesTyped ==
  ASSUME IInv
  PROVE  Batches \subseteq Seq(ReviewRow)
<1>1. Decided \subseteq ReviewRow
  BY DEF IInv, Decided, ReviewRow
<1>2. ASSUME NEW rows \in Batches PROVE rows \in Seq(ReviewRow)
  <2>1. PICK n \in 1 .. MaxBatch : rows \in [1 .. n -> Decided \cup Corrections]
    BY DEF Batches
  <2> QED BY <1>1, <2>1, CorrectionsTyped, BatchesBounded
<1> QED BY <1>2

-----------------------------------------------------------------------------
(* pairs build, and the invariant                                           *)

\* A pair outlives every command that keeps the reports.
LEMMA KeepsPairs ==
  ASSUME PairsStaySound, Keeps(report, report'), pairs' = pairs
  PROVE  PairsStaySound'
<1> SUFFICES ASSUME NEW pair \in pairs
             PROVE  LET earlier == report'[pair.earlier]
                        later == report'[pair.later]
                    IN /\ {pair.earlier, pair.later} \subseteq Imported'
                       /\ {earlier.company, later.company} = {pair.company}
                       /\ {earlier.metadata_status, later.metadata_status} = {"VALIDATED"}
                       /\ None \notin {earlier.period_end, later.period_end}
                       /\ earlier.period_end < later.period_end
                       /\ pair.gap_months = MonthSpan(earlier.period_end, later.period_end)
  BY DEF PairsStaySound
<1> DEFINE e == pair.earlier
           l == pair.later
<1>1. /\ e \in Paths /\ l \in Paths /\ report[e] # None /\ report[l] # None
      /\ report[e].company = pair.company /\ report[l].company = pair.company
      /\ report[e].metadata_status = "VALIDATED" /\ report[l].metadata_status = "VALIDATED"
      /\ report[e].period_end # None /\ report[l].period_end # None
      /\ report[e].period_end < report[l].period_end
      /\ pair.gap_months = MonthSpan(report[e].period_end, report[l].period_end)
  BY DEF PairsStaySound, Imported
<1>2. /\ report'[e] # None /\ report'[l] # None
      /\ report'[e].company = report[e].company /\ report'[l].company = report[l].company
      /\ report'[e].metadata_status = "VALIDATED" /\ report'[l].metadata_status = "VALIDATED"
      /\ report'[e].period_end = report[e].period_end
      /\ report'[l].period_end = report[l].period_end
  BY <1>1 DEF Keeps, Kept
<1> QED BY <1>1, <1>2 DEF Imported

LEMMA BuildPairsSound ==
  ASSUME PairsStaySound, BuildPairs
  PROVE  PairsStaySound'
<1>1. report' = report /\ Imported' = Imported
  BY DEF BuildPairs, Imported
<1> DEFINE Sound(pair) ==
             LET earlier == report[pair.earlier]
                 later == report[pair.later]
             IN /\ {pair.earlier, pair.later} \subseteq Imported
                /\ {earlier.company, later.company} = {pair.company}
                /\ {earlier.metadata_status, later.metadata_status} = {"VALIDATED"}
                /\ None \notin {earlier.period_end, later.period_end}
                /\ earlier.period_end < later.period_end
                /\ pair.gap_months = MonthSpan(earlier.period_end, later.period_end)
<1>2. ASSUME NEW c, NEW x \in Successive(c) PROVE Sound(NewPair(c, x))
  <2>1. x[1] \in Pairable(c) /\ x[2] \in Pairable(c)
        /\ report[x[1]].period_end < report[x[2]].period_end
    BY DEF Successive
  <2>2. /\ NewPair(c, x).earlier = x[1] /\ NewPair(c, x).later = x[2]
        /\ NewPair(c, x).company = c
        /\ NewPair(c, x).gap_months = MonthSpan(report[x[1]].period_end, report[x[2]].period_end)
    BY DEF NewPair
  <2> QED BY <2>1, <2>2 DEF Pairable
<1>3. \A pair \in pairs : Sound(pair)
  BY DEF PairsStaySound
<1> HIDE DEF Sound
<1>4. \A pair \in pairs' : Sound(pair)
  BY <1>2, <1>3 DEF BuildPairs
<1> QED BY <1>1, <1>4 DEF PairsStaySound, Sound

\* Every command leaves counts of notes.
LEMMA NotesTyped ==
  ASSUME IInv, [Next]_vars
  PROVE  notes' \in NoteTable
<1>1. notes \in NoteTable /\ NoNotes \in [Notes -> Nat]
  BY DEF IInv, NoNotes
<1>2. CASE InspectMetadata
  BY <1>1, <1>2 DEF InspectMetadata, NoteTable
<1>3. CASE ImportMetadataReview
  <2>1. PICK rows \in Batches : notes' = Noted(notes, rows, Outcomes(report, rows))
    BY <1>3 DEF ImportMetadataReview
  <2> QED BY <1>1, <2>1, BatchesTyped, NotesCounted
<1>4. CASE UNCHANGED notes
  BY <1>1, <1>4
<1> QED BY <1>2, <1>3, <1>4
  DEF Next, vars, Scan, Import, ExportReview, ValidateReports, BuildPairs

LEMMA TypeInit == Init => IInv
<1> SUFFICES ASSUME Init PROVE IInv
  OBVIOUS
<1>1. report \in Table /\ \A p \in Paths : report[p] = None
  BY DEF Init, Table
<1>2. report \in Tables
  BY <1>1 DEF Tables, Unique, ValidatedSound
<1>3. notes \in NoteTable
  BY DEF Init, NoteTable, NoNotes
<1> QED BY <1>2, <1>3 DEF Init, IInv, PairsStaySound

\* What every command does to the reports and the pairs.
LEMMA StepKeeps ==
  ASSUME IInv, [Next]_vars
  PROVE  /\ report' \in Tables /\ Keeps(report, report')
         /\ sheet' \in SUBSET ReviewRow
         /\ pairs' = pairs \/ BuildPairs
<1> USE DEF IInv
<1>1. CASE Import
  <2>1. PICK rows \in Manifests : report' = ImportRows(companies', report, rows)
    BY <1>1 DEF Import
  <2>2. rows \in Seq(ManifestRow)
    BY ManifestsTyped
  <2> QED BY <1>1, <2>1, <2>2, ImportRowsKeeps DEF Import
<1>2. CASE InspectMetadata
  BY <1>2, InspectKeeps DEF InspectMetadata
<1>3. CASE ImportMetadataReview
  <2>1. PICK rows \in Batches : report' = ImportReview(report, rows)
    BY <1>3 DEF ImportMetadataReview
  <2>2. rows \in Seq(ReviewRow)
    BY BatchesTyped
  <2>3. PICK f : Reviewing(f, rows) /\ f[0] = report /\ ImportReview(report, rows) = f[Len(rows)]
    BY <2>2, ImportReviewStates
  <2>4. Len(rows) \in Nat /\ Len(rows) \in 0 .. Len(rows) /\ 0 \in 0 .. Len(rows)
    BY <2>2
  <2>5. Reviews(report, report') /\ report' \in Tables
    BY <2>1, <2>2, <2>3, <2>4, ReviewingGrows DEF Reviewing
  <2> QED BY <1>3, <2>5, ReviewsKeeps DEF ImportMetadataReview
<1>4. CASE ValidateReports
  BY <1>4, ValidateKeeps DEF ValidateReports
<1>5. CASE ExportReview
  <2>1. sheet' \subseteq ReviewRow
    BY <1>5, ExportRowTyped DEF ExportReview, Imported
  <2> QED BY <1>5, <2>1, KeepsItself DEF ExportReview
<1>6. CASE Scan
  BY <1>6, KeepsItself DEF Scan
<1>7. CASE BuildPairs
  BY <1>7, KeepsItself DEF BuildPairs
<1>8. CASE UNCHANGED vars
  BY <1>8, KeepsItself DEF vars
<1> QED BY <1>1, <1>2, <1>3, <1>4, <1>5, <1>6, <1>7, <1>8 DEF Next

LEMMA TypeNext == IInv /\ [Next]_vars => IInv'
<1> SUFFICES ASSUME IInv, [Next]_vars PROVE IInv'
  OBVIOUS
<1>1. PairsStaySound
  BY DEF IInv
<1>2. PairsStaySound'
  BY <1>1, StepKeeps, KeepsPairs, BuildPairsSound
<1> QED BY <1>2, StepKeeps, NotesTyped DEF IInv

\* The reports table obeys its indexes and its validation, and the pairs rest
\* on it, after any commands on any files and CSVs.
THEOREM Invariant == Spec => []IInv
<1> QED BY TypeInit, TypeNext, PTL DEF Spec

\* No command ever runs into a unique index of `reports`: no file, no digest
\* and no company's closing date is catalogued twice.
THEOREM UniqueReportsAlways == Spec => []UniqueReports
<1>1. IInv => UniqueReports
  BY DEF IInv, Tables, Unique, UniqueReports, Imported
<1> QED BY <1>1, Invariant, PTL

\* A recorded pair stays a pair of two validated reports in order, its gap the
\* distance of their dates, whatever is reviewed later.
THEOREM PairsStaySoundAlways == Spec => []PairsStaySound
<1>1. IInv => PairsStaySound
  BY DEF IInv
<1> QED BY <1>1, Invariant, PTL

\* A reviewed CSV imported again leaves every report's fields as they are,
\* whatever its rows, their order and their number; an accepted row is
\* "unchanged" then, a refused one not applied, and no note is written again,
\* except where two accepted rows disagree about a report.
THEOREM ReviewImportIdempotentAlways == Spec => []ReviewImportIdempotent
<1>1. IInv => ReviewImportIdempotent
  <2> SUFFICES ASSUME IInv PROVE ReviewImportIdempotent
    OBVIOUS
  <2> SUFFICES ASSUME NEW rows \in Batches
               PROVE  LET once == ImportReview(report, rows)
                          first == Outcomes(report, rows)
                          second == Outcomes(once, rows)
                      IN /\ ImportReview(once, rows) = once
                         /\ \A i \in DOMAIN rows :
                              IF first[i] \in Accepted
                              THEN ~Disputed(rows, first, i) => second[i] = "unchanged"
                              ELSE second[i] # "applied"
                         /\ \A p \in Paths :
                              (\A i \in DOMAIN rows : rows[i].path = p => ~Disputed(rows, first, i))
                                => Noted(notes, rows, second)[p] = notes[p]
    BY DEF ReviewImportIdempotent
  <2> DEFINE once == ImportReview(report, rows)
             first == Outcomes(report, rows)
             second == Outcomes(once, rows)
  <2>1. report \in Tables /\ notes \in NoteTable /\ rows \in Seq(ReviewRow)
    BY BatchesTyped DEF IInv
  <2>2. /\ ImportReview(once, rows) = once
        /\ \A i \in DOMAIN rows :
             IF first[i] \in Accepted
             THEN ~Disputed(rows, first, i) => second[i] = "unchanged"
             ELSE second[i] # "applied"
    BY <2>1, OutcomesTwice
  <2> HIDE DEF once, first, second
  <2>3. ASSUME NEW p \in Paths,
               \A i \in DOMAIN rows : rows[i].path = p => ~Disputed(rows, first, i)
        PROVE  Noted(notes, rows, second)[p] = notes[p]
    <3>1. \A i \in DOMAIN rows : rows[i].path = p => second[i] # "applied"
      BY <2>2, <2>3
    <3> QED BY <2>1, <3>1, NotesCounted
  <2> QED BY <2>2, <2>3 DEF once, first, second
<1> QED BY <1>1, Invariant, PTL

\* A settled date, a validation and a pair are never taken back by any command.
THEOREM SettledMetadataStaysAlways == Spec => SettledMetadataStays
<1> DEFINE Settled ==
             /\ pairs \subseteq pairs'
             /\ \A p \in Imported :
                  /\ report'[p] # None
                  /\ report[p].period_end # None => report'[p].period_end = report[p].period_end
                  /\ report[p].metadata_status = "VALIDATED" =>
                       report'[p].metadata_status = "VALIDATED"
                  /\ report[p].metadata_source = "MANUAL" => report'[p].metadata_source = "MANUAL"
<1>1. IInv /\ [Next]_vars => [Settled]_vars
  <2> SUFFICES ASSUME IInv, [Next]_vars PROVE Settled
    OBVIOUS
  <2>1. pairs \subseteq pairs'
    BY StepKeeps DEF BuildPairs
  <2>2. Keeps(report, report')
    BY StepKeeps
  <2> QED BY <2>1, <2>2 DEF Keeps, Kept, Imported
<1>2. SettledMetadataStays <=> [][Settled]_vars
  BY PTL DEF SettledMetadataStays
<1> QED BY <1>1, <1>2, Invariant, PTL DEF Spec

\* An older validated report has a latest one among its company's, which is the
\* immediate predecessor pairs build pairs with.
LEMMA PredecessorExists ==
  ASSUME IInv, NEW c, NEW p \in Pairable(c), NEW q \in Pairable(c),
         report[q].period_end < report[p].period_end
  PROVE  \E s \in Pairable(c) :
           /\ <<s, p>> \in Successive(c)
           /\ \A r \in Pairable(c) : report[r].period_end < report[p].period_end
                                     => report[r].period_end <= report[s].period_end
<1> DEFINE End(r) == report[r].period_end
           Older == { r \in Pairable(c) : End(r) < End(p) }
           T == { End(p) - End(r) : r \in Older }
<1>1. \A r \in Pairable(c) : End(r) \in Nat
  BY DatesAreNaturals DEF IInv, Tables, Table, Report, Pairable, Imported
<1>2. T \in SUBSET Nat /\ T # {}
  BY <1>1
<1> HIDE DEF T
<1>3. PICK m \in T : \A k \in T : m <= k
  BY <1>2, LeastNatural
<1> USE DEF T
<1>4. PICK s \in Older : m = End(p) - End(s)
  OBVIOUS
<1>5. \A r \in Older : End(p) - End(s) <= End(p) - End(r)
  BY <1>3, <1>4
<1>6. \A r \in Older : End(r) <= End(s)
  BY <1>1, <1>5
<1>7. <<s, p>> \in Successive(c)
  BY <1>1, <1>6 DEF Successive
<1> QED BY <1>6, <1>7

\* After pairs build every validated report with an older one has the pair with
\* its immediate predecessor, for any order of validations and earlier builds.
THEOREM EachPairedAlways == Spec => EachPairedWithPredecessor
<1> DEFINE Paired ==
             BuildPairs => \A p, q \in Imported :
               LET validated(r, c) == report[r].company = c /\ report[r].metadata_status = "VALIDATED"
                   c == report[p].company
               IN /\ c \in companies /\ validated(p, c) /\ validated(q, c)
                  /\ report[q].period_end < report[p].period_end
                  => \E pair \in pairs' :
                       /\ pair.later = p
                       /\ \A r \in Imported : validated(r, c) /\ report[r].period_end < report[p].period_end
                                              => report[r].period_end <= report[pair.earlier].period_end
<1>1. IInv => Paired
  <2> SUFFICES ASSUME IInv, BuildPairs, NEW p \in Imported, NEW q \in Imported, NEW c,
                      c = report[p].company, c \in companies,
                      report[p].metadata_status = "VALIDATED",
                      report[q].company = c, report[q].metadata_status = "VALIDATED",
                      report[q].period_end < report[p].period_end
               PROVE  \E pair \in pairs' :
                        /\ pair.later = p
                        /\ \A r \in Imported :
                             (report[r].company = c /\ report[r].metadata_status = "VALIDATED")
                             /\ report[r].period_end < report[p].period_end
                             => report[r].period_end <= report[pair.earlier].period_end
    OBVIOUS
  <2>1. \A r \in Imported : report[r].company = c /\ report[r].metadata_status = "VALIDATED"
                            => r \in Pairable(c)
    BY DEF IInv, Tables, ValidatedSound, Pairable, Imported
  <2>2. PICK s \in Pairable(c) :
          /\ <<s, p>> \in Successive(c)
          /\ \A r \in Pairable(c) : report[r].period_end < report[p].period_end
                                    => report[r].period_end <= report[s].period_end
    BY <2>1, PredecessorExists
  <2>3. \E pair \in pairs' : pair.earlier = s /\ pair.later = p
    <3>1. CASE HasPair(<<s, p>>)
      <4>1. PICK pair \in pairs : <<pair.earlier, pair.later>> = <<s, p>>
        BY <3>1 DEF HasPair
      <4> QED BY <4>1 DEF BuildPairs
    <3>2. CASE ~HasPair(<<s, p>>)
      <4>1. NewPair(c, <<s, p>>) \in pairs'
        BY <2>2, <3>2 DEF BuildPairs
      <4>2. NewPair(c, <<s, p>>).earlier = s /\ NewPair(c, <<s, p>>).later = p
        BY DEF NewPair
      <4> QED BY <4>1, <4>2
    <3> QED BY <3>1, <3>2
  <2> QED BY <2>1, <2>2, <2>3
<1>2. EachPairedWithPredecessor <=> [][Paired]_vars
  BY PTL DEF EachPairedWithPredecessor
<1> QED BY <1>1, <1>2, Invariant, PTL DEF Spec
=============================================================================
