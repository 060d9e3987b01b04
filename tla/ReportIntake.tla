---------------------------- MODULE ReportIntake ----------------------------
(***************************************************************************)
(* The corpus catalogue of the research database: companies, reports and   *)
(* report pairs, as the operator commands `market-documents reports scan / *)
(* import / inspect-metadata / metadata-review-export /                    *)
(* metadata-review-import / validate` and `pairs build` change it.         *)
(*                                                                         *)
(* Each command runs in one get_session transaction, so each is an action. *)
(* Its inputs are CSV files an operator edits between two commands.        *)
(***************************************************************************)
EXTENDS Integers, Sequences, FiniteSets, FiniteSetsExt

CONSTANTS
  Paths,        \* local_path of the PDF files under the scanned directory
  Pdf,          \* what the file at each path holds
  Tickers,      \* ticker symbols, known or not
  Configured,   \* tickers listed in config/companies.yaml
  Hashes,       \* sha256 digests
  Manifests,    \* reviewed manifests, as sequences of rows
  Corrections,  \* review rows an operator may write by hand
  Notes,        \* texts of reviewer_notes
  MaxNotes,     \* times one note may stand in a report's notes (a bound)
  MaxBatch,     \* rows of a reviewed metadata CSV (a bound)
  Dates,        \* dates, as naturals
  DaysPerMonth, \* days of a month
  MaxInt,       \* largest value of an Integer column
  None          \* a null column

VARIABLES
  companies,  \* registered tickers
  report,     \* the reports table, by local_path
  notes,      \* its validation_notes: how often each reviewer's note is in it
  pairs,      \* the report_pairs table
  manifest,   \* the CSV of the last scan
  sheet       \* the CSV of the last metadata-review export

vars == <<companies, report, notes, pairs, manifest, sheet>>

-----------------------------------------------------------------------------
(* Rows                                                                    *)

MetadataStatus == {"DISCOVERED", "INSPECTED", "VALIDATED", "NEEDS_REVIEW", "REJECTED"}
MetadataSource == {"DIRECTORY", "PDF", "MANUAL"}

Months == Int

Report ==
  [company : Tickers, sha256 : Hashes, metadata_status : MetadataStatus,
   metadata_source : MetadataSource, page_count : Nat \cup {None},
   period_start : Dates \cup {None}, period_end : Dates \cup {None},
   reporting_months : Months \cup {None}, transition_report : BOOLEAN]

ReportPair ==
  [earlier : Paths, later : Paths, company : Tickers, gap_months : Int,
   is_transition : BOOLEAN]

\* `reads` says how far pypdf gets: the whole file, its page tree only, nothing.
\* `ends` are the period-end dates of the fiscal-period phrases of the first
\* pages, in order, None for a phrase whose date does not parse.
PdfContent ==
  [sha256 : Hashes, reads : {"all", "pages", "nothing"}, page_count : Nat,
   ends : Seq(Dates \cup {None}), months : Months \cup {None}, transition : BOOLEAN]

\* A row of a reviewed manifest; ~valid when ImportRow rejects it.
ManifestRow ==
  [valid : BOOLEAN, ticker : Tickers, path : Paths, sha256 : Hashes]

ReviewerStatus == {"UNREVIEWED", "CONFIRMED", "CORRECTED", "REJECTED", "NEEDS_FURTHER_REVIEW"}
Applicable == {"CONFIRMED", "CORRECTED"}

\* A row's publication_date, on which nothing depends, goes with period_start.
ReviewRow ==
  [path : Paths, reviewer_status : ReviewerStatus, period_start : Dates \cup {None},
   period_end : Dates \cup {None}, reporting_months : Months \cup {None},
   transition_report : BOOLEAN, reviewer_notes : Notes \cup {None}]

ASSUME DatesAreNaturals == Dates \subseteq Nat /\ DaysPerMonth \in Nat \ {0}
ASSUME NoneIsNoValue == None \notin Dates \cup Paths \cup Int \cup Report \cup Notes
ASSUME PdfTyped == Pdf \in [Paths -> PdfContent]
ASSUME ManifestsTyped == Manifests \subseteq Seq(ManifestRow)
ASSUME CorrectionsTyped == Corrections \subseteq ReviewRow
ASSUME ConfiguredTyped == Configured \subseteq Tickers
ASSUME BatchesBounded == MaxBatch \in Nat /\ MaxNotes \in Nat

Imported == { p \in Paths : report[p] # None }

MonthOf(d) == d \div DaysPerMonth

MonthSpan(from, to) == MonthOf(to) - MonthOf(from)

-----------------------------------------------------------------------------
(* reports scan, reports import                                            *)

\* One ScanRow per PDF found, its digest read from the file.
Scan ==
  /\ manifest' = [p \in Paths |-> Pdf[p].sha256]
  /\ UNCHANGED <<companies, report, notes, pairs, sheet>>

NewReport(row) ==
  [company |-> row.ticker, sha256 |-> row.sha256, metadata_status |-> "DISCOVERED",
   metadata_source |-> "DIRECTORY", page_count |-> None, period_start |-> None,
   period_end |-> None, reporting_months |-> None, transition_report |-> FALSE]

\* Mutant: a file seen before is looked for by its path alone.
ImportRowMutant(known, acc, row) ==
  LET seen == [acc EXCEPT !.paths = @ \cup {row.path}, !.hashes = @ \cup {row.sha256}]
  IN IF ~row.valid \/ row.path \in acc.paths \/ row.sha256 \in acc.hashes \/ row.ticker \notin known
     THEN acc
     ELSE IF acc.report[row.path] # None THEN seen
     ELSE [seen EXCEPT !.report[row.path] = NewReport(row)]

\* One manifest row, over what the rows before it left: the reports table and
\* the paths and digests import_manifest has seen.
ImportRow(known, acc, row) ==
  LET seen == [acc EXCEPT !.paths = @ \cup {row.path}, !.hashes = @ \cup {row.sha256}]
      by_path == acc.report[row.path] # None
      by_hash == \E p \in Paths : acc.report[p] # None /\ acc.report[p].sha256 = row.sha256
  IN IF ~row.valid \/ row.path \in acc.paths \/ row.sha256 \in acc.hashes
          \/ row.ticker \notin known
     THEN acc
     ELSE IF by_path \/ by_hash THEN seen
     ELSE [seen EXCEPT !.report[row.path] = NewReport(row)]

ImportRows(known, table, rows) ==
  LET after[i \in 0 .. Len(rows)] ==
        IF i = 0 THEN [report |-> table, paths |-> {}, hashes |-> {}]
        ELSE ImportRow(known, after[i - 1], rows[i])
  IN after[Len(rows)].report

\* A manifest is reviewed from a scan: its digests are the scanned ones.
Import ==
  \E rows \in Manifests :
    /\ \A i \in DOMAIN rows : manifest # None /\ rows[i].sha256 = manifest[rows[i].path]
    /\ companies' = companies \cup Configured
    /\ report' = ImportRows(companies', report, rows)
    /\ UNCHANGED <<notes, pairs, manifest, sheet>>

-----------------------------------------------------------------------------
(* reports inspect-metadata                                                *)

\* Mutant: what a human settled counts as a hint too.
InspectedMutant(r, pdf) ==
  IF pdf.reads # "all" THEN r
  ELSE [r EXCEPT !.page_count = pdf.page_count, !.metadata_status = "INSPECTED",
                 !.metadata_source = IF pdf.ends # <<>> THEN "PDF" ELSE @]

\* inspect_report sets page_count before it reads the pages' text: a failure
\* there keeps that one assignment, and the report stays DISCOVERED.
Inspected(r, pdf) ==
  LET counted == [r EXCEPT !.page_count = pdf.page_count]
      hints == r.metadata_source # "MANUAL"
      months == IF hints /\ r.reporting_months = None
                THEN pdf.months ELSE r.reporting_months
      noted == \/ pdf.ends # <<>>
               \/ r.reporting_months = None /\ pdf.months # None
               \/ pdf.transition
  IN CASE pdf.reads = "nothing" -> r
       [] pdf.reads = "pages" -> counted
       [] OTHER ->
            [counted EXCEPT
               !.reporting_months = months,
               !.transition_report = @ \/ (hints /\ pdf.transition),
               !.metadata_source = IF hints /\ noted THEN "PDF" ELSE @,
               !.metadata_status = "INSPECTED"]

NoNotes == [n \in Notes |-> 0]

\* validation_notes is overwritten, then, with what went wrong.
InspectionFails(p) == report[p].metadata_status = "DISCOVERED" /\ Pdf[p].reads # "all"

InspectMetadata ==
  /\ report' = [p \in Paths |->
                  IF p \in Imported /\ report[p].metadata_status = "DISCOVERED"
                  THEN Inspected(report[p], Pdf[p]) ELSE report[p]]
  /\ notes' = [p \in Paths |-> IF p \in Imported /\ InspectionFails(p) THEN NoNotes ELSE notes[p]]
  /\ UNCHANGED <<companies, pairs, manifest, sheet>>

-----------------------------------------------------------------------------
(* reports metadata-review-export, reports metadata-review-import          *)

\* The first date that parses is proposed, whether or not others follow.
Proposed(pdf) ==
  LET parsed == { i \in DOMAIN pdf.ends : pdf.ends[i] # None }
  IN IF pdf.reads # "all" \/ parsed = {} THEN None ELSE pdf.ends[Min(parsed)]

ExportRow(p) ==
  [path |-> p, reviewer_status |-> "UNREVIEWED", period_start |-> None,
   period_end |-> Proposed(Pdf[p]),
   reporting_months |-> IF Pdf[p].reads = "all" THEN Pdf[p].months ELSE None,
   transition_report |-> Pdf[p].reads = "all" /\ Pdf[p].transition,
   reviewer_notes |-> None]

ExportStatuses(include_validated) ==
  {"DISCOVERED", "INSPECTED", "NEEDS_REVIEW"}
    \cup (IF include_validated THEN {"VALIDATED"} ELSE {})

ExportReview ==
  \E include_validated \in BOOLEAN :
    /\ sheet' = { ExportRow(p) : p \in { q \in Imported :
                    report[q].metadata_status \in ExportStatuses(include_validated) } }
    /\ UNCHANGED <<companies, report, notes, pairs, manifest>>

\* MetadataReviewImportRow accepts the row.
WellFormed(row) ==
  row.reviewer_status \in Applicable =>
    /\ row.period_end # None
    /\ row.period_start # None => row.period_start <= row.period_end
    /\ row.reporting_months # None /\ row.period_start # None =>
         MonthSpan(row.period_start, row.period_end) - row.reporting_months \in -1 .. 1

\* Another report of the company already has the row's period_end.
PeriodTaken(table, row) ==
  \E p \in Paths \ {row.path} :
    /\ table[p] # None
    /\ table[p].company = table[row.path].company
    /\ table[p].period_end = row.period_end

Conflicts(table, row) ==
  \/ table[row.path].period_end \notin {None, row.period_end}
  \/ PeriodTaken(table, row)

\* A value that does not fit its column makes the flush raise; the savepoint of
\* the row is rolled back and the report read again.
Flushes(row) == row.reporting_months # None => row.reporting_months <= MaxInt

Reviewed(r, row) ==
  [r EXCEPT !.period_start = row.period_start, !.period_end = row.period_end,
            !.reporting_months = row.reporting_months,
            !.transition_report = row.transition_report, !.metadata_source = "MANUAL"]

\* Mutant: a row is compared with nothing.
FieldsAlreadyMatchMutant(r, row) == FALSE

\* _fields_already_match: a review has already settled what the row proposes.
FieldsAlreadyMatch(r, row) == r = Reviewed(r, row)

\* What becomes of one row of the reviewed CSV.
Outcome(table, row) ==
  IF ~WellFormed(row) THEN "invalid"
  ELSE IF row.reviewer_status \notin Applicable THEN "skipped"
  ELSE IF table[row.path] = None THEN "invalid"
  ELSE IF Conflicts(table, row) THEN "conflicted"
  ELSE IF FieldsAlreadyMatch(table[row.path], row) THEN "unchanged"
  ELSE IF Flushes(row) THEN "applied" ELSE "invalid"

ImportReviewRow(table, row) ==
  IF Outcome(table, row) = "applied" THEN [table EXCEPT ![row.path] = Reviewed(@, row)] ELSE table

\* The tables a reviewed CSV goes through, row by row.
ReviewTables(table, rows) ==
  LET after[i \in 0 .. Len(rows)] ==
        IF i = 0 THEN table ELSE ImportReviewRow(after[i - 1], rows[i])
  IN after

ImportReview(table, rows) == ReviewTables(table, rows)[Len(rows)]

\* MetadataReviewImportOutcome.
Outcomes(table, rows) ==
  LET tables == ReviewTables(table, rows)
  IN [i \in DOMAIN rows |-> Outcome(tables[i - 1], rows[i])]

\* An applied row appends its notes to validation_notes.
Noted(before, rows, outcomes) ==
  [p \in Paths |-> [n \in Notes |->
     before[p][n] + Cardinality({ i \in DOMAIN rows :
       outcomes[i] = "applied" /\ rows[i].path = p /\ rows[i].reviewer_notes = n })]]

\* What the operator may hand in: the exported rows with a decision filled in,
\* in any order, and rows corrected by hand.
Decided == { [row EXCEPT !.reviewer_status = s] : row \in sheet, s \in ReviewerStatus }

Batches == UNION { [1 .. n -> Decided \cup Corrections] : n \in 1 .. MaxBatch }

ImportMetadataReview ==
  \E rows \in Batches :
    /\ report' = ImportReview(report, rows)
    /\ notes' = Noted(notes, rows, Outcomes(report, rows))
    /\ \A p \in Paths, n \in Notes : notes'[p][n] <= MaxNotes
    /\ UNCHANGED <<companies, pairs, manifest, sheet>>

-----------------------------------------------------------------------------
(* reports validate, pairs build                                           *)

ValidatedStatus(r) ==
  IF r.page_count \in {None, 0} THEN "REJECTED"
  ELSE IF r.period_end # None THEN "VALIDATED"
  ELSE "NEEDS_REVIEW"

ValidateReports ==
  /\ report' = [p \in Paths |->
                  IF p \in Imported /\ report[p].metadata_status # "DISCOVERED"
                  THEN [report[p] EXCEPT !.metadata_status = ValidatedStatus(report[p])]
                  ELSE report[p]]
  /\ UNCHANGED <<companies, notes, pairs, manifest, sheet>>

\* Mutant: every dated report is paired.
PairableMutant(c) == { p \in Imported : report[p].company = c /\ report[p].period_end # None }

\* The reports build_pairs orders by period_end, for one company.
Pairable(c) ==
  { p \in Imported :
      /\ report[p].company = c
      /\ report[p].metadata_status = "VALIDATED"
      /\ report[p].period_end # None }

Successive(c) ==
  { x \in Pairable(c) \X Pairable(c) :
      /\ report[x[1]].period_end < report[x[2]].period_end
      /\ \A q \in Pairable(c) :
           ~(/\ report[x[1]].period_end < report[q].period_end
             /\ report[q].period_end < report[x[2]].period_end) }

NewPair(c, x) ==
  [earlier |-> x[1], later |-> x[2], company |-> c,
   gap_months |-> MonthSpan(report[x[1]].period_end, report[x[2]].period_end),
   is_transition |-> report[x[1]].transition_report \/ report[x[2]].transition_report]

\* Mutant: a report that has one predecessor is not paired again.
HasPairMutant(x) == \E pair \in pairs : pair.later = x[2]

HasPair(x) == \E pair \in pairs : <<pair.earlier, pair.later>> = x

BuildPairs ==
  /\ pairs' = pairs \cup
       UNION { { NewPair(c, x) : x \in { y \in Successive(c) : ~HasPair(y) } } : c \in companies }
  /\ UNCHANGED <<companies, report, notes, manifest, sheet>>

-----------------------------------------------------------------------------
Init ==
  /\ companies = {}
  /\ report = [p \in Paths |-> None]
  /\ notes = [p \in Paths |-> NoNotes]
  /\ pairs = {}
  /\ manifest = None
  /\ sheet = {}

Next ==
  \/ Scan
  \/ Import
  \/ InspectMetadata
  \/ ExportReview
  \/ ImportMetadataReview
  \/ ValidateReports
  \/ BuildPairs

Spec == Init /\ [][Next]_vars

-----------------------------------------------------------------------------
(* Properties                                                              *)

\* No file and no content is catalogued twice, and no two reports of a company
\* end on the same date, whatever the manifests and the reviewed CSVs hold: the
\* unique indexes of `reports`, which the commands must never run into.
UniqueReports ==
  \A p, q \in Imported :
    p # q => /\ report[p].sha256 # report[q].sha256
             /\ \/ report[p].company # report[q].company
                \/ report[p].period_end = None
                \/ report[p].period_end # report[q].period_end

\* A pair, once recorded, stays a pair of two validated reports of its company,
\* the earlier one really earlier, and its gap_months stays the distance of
\* their dates, although reviews go on rewriting report metadata.
PairsStaySound ==
  \A pair \in pairs :
    LET earlier == report[pair.earlier]
        later == report[pair.later]
    IN /\ {pair.earlier, pair.later} \subseteq Imported
       /\ {earlier.company, later.company} = {pair.company}
       /\ {earlier.metadata_status, later.metadata_status} = {"VALIDATED"}
       /\ None \notin {earlier.period_end, later.period_end}
       /\ earlier.period_end < later.period_end
       /\ pair.gap_months = MonthSpan(earlier.period_end, later.period_end)

Accepted == {"applied", "unchanged"}

Fields(row) ==
  <<row.period_start, row.period_end, row.reporting_months, row.transition_report>>

\* Two accepted rows of one CSV say different things of one report.
Disputed(rows, outcomes, i) ==
  \E j \in DOMAIN rows :
    /\ rows[j].path = rows[i].path
    /\ outcomes[j] \in Accepted
    /\ Fields(rows[j]) # Fields(rows[i])

\* Importing a reviewed CSV a second time leaves every field of every report as
\* the first time did, in any state and for any order of its rows. A row that
\* was accepted is "unchanged" now and one that was refused is not applied, and
\* no note is written twice, unless accepted rows disagree about a report: those
\* are applied again one over the other, with their notes, although
\* import_metadata_review promises "no DB writes, no duplicate notes".
ReviewImportIdempotent ==
  \A rows \in Batches :
    LET once == ImportReview(report, rows)
        first == Outcomes(report, rows)
        second == Outcomes(once, rows)
    IN /\ ImportReview(once, rows) = once
       /\ \A i \in DOMAIN rows :
            IF first[i] \in Accepted
            THEN ~Disputed(rows, first, i) => second[i] = "unchanged"
            ELSE second[i] # "applied"
       /\ \A p \in Paths :
            (\A i \in DOMAIN rows : rows[i].path = p => ~Disputed(rows, first, i))
              => Noted(notes, rows, second)[p] = notes[p]

\* A date a human or a review settled is never changed, a report that became
\* VALIDATED stays so, and a pair is never dropped or rewritten.
SettledMetadataStays ==
  [][/\ pairs \subseteq pairs'
     /\ \A p \in Imported :
          /\ report'[p] # None
          /\ report[p].period_end # None => report'[p].period_end = report[p].period_end
          /\ report[p].metadata_status = "VALIDATED" =>
               report'[p].metadata_status = "VALIDATED"
          /\ report[p].metadata_source = "MANUAL" => report'[p].metadata_source = "MANUAL"]_vars

\* After pairs build every validated report of a registered company that has an
\* older one is paired with its immediate predecessor by period_end, also when
\* that one was validated after the two reports around it had been paired.
EachPairedWithPredecessor ==
  [][BuildPairs => \A p, q \in Imported :
       LET validated(r, c) == report[r].company = c /\ report[r].metadata_status = "VALIDATED"
           c == report[p].company
       IN /\ c \in companies /\ validated(p, c) /\ validated(q, c)
          /\ report[q].period_end < report[p].period_end
          => \E pair \in pairs' :
               /\ pair.later = p
               /\ \A r \in Imported : validated(r, c) /\ report[r].period_end < report[p].period_end
                                      => report[r].period_end <= report[pair.earlier].period_end]_vars
=============================================================================
