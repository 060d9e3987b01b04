--------------------------- MODULE MCReportIntake ---------------------------
(* A directory of four files: three reports of one company, the third one    *)
(* again under another path. Two days make a month.                          *)
EXTENDS ReportIntake, TLC

CONSTANTS p1, p2, p3, copy, A, X, h1, h2, h3, late

MCPaths == {p1, p2, p3, copy}
MCTickers == {A, X}
MCDates == 0 .. 5

File(sha256, reads, page_count, ends, months, transition) ==
  [sha256 |-> sha256, reads |-> reads, page_count |-> page_count, ends |-> ends,
   months |-> months, transition |-> transition]

\* p1 proposes a date, p2 two of them, p3 none.
MCPdf ==
  (p1 :> File(h1, "all", 1, <<1>>, 3, FALSE)) @@
  (p2 :> File(h2, "all", 1, <<None, 3, 1>>, None, TRUE)) @@
  (p3 :> File(h3, "all", 1, <<>>, None, FALSE)) @@
  (copy :> File(h3, "pages", 1, <<>>, None, FALSE))

Row(path, ticker, valid) ==
  [valid |-> valid, ticker |-> ticker, path |-> path, sha256 |-> MCPdf[path].sha256]

MCManifests ==
  {<<Row(p1, A, TRUE), Row(p2, A, TRUE)>>,
   <<Row(p2, X, TRUE), Row(p1, A, FALSE), Row(p3, A, TRUE), Row(copy, A, TRUE)>>,
   <<Row(copy, A, TRUE)>>}

Review(path, status, period_start, period_end, months, transition, reviewer_notes) ==
  [path |-> path, reviewer_status |-> status, period_start |-> period_start,
   period_end |-> period_end, reporting_months |-> months, transition_report |-> transition,
   reviewer_notes |-> reviewer_notes]

\* Hand-written rows: a date for p3 between the others', a date another report
\* has, an interval that contradicts its months, a value no column holds, and,
\* with a note, a later change of p1's transition flag and the date of a file
\* whose inspection fails.
MCCorrections ==
  {Review(p3, "CORRECTED", 0, 2, 1, FALSE, None), Review(p3, "CORRECTED", None, 3, None, FALSE, None),
   Review(p2, "CORRECTED", 0, 5, 0, FALSE, None), Review(p2, "CORRECTED", None, 4, 9, FALSE, None),
   Review(p1, "CORRECTED", None, 1, None, TRUE, late),
   Review(copy, "CORRECTED", None, 5, None, FALSE, late)}
=============================================================================
