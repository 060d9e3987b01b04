------------------------------ MODULE MCPages ------------------------------
(***************************************************************************)
(* Pages for PageText: a page is one of a few printed layouts, a report a  *)
(* collection of them. Sizes, widths, heights and shares are those of the  *)
(* documents the thresholds were set on; ExtractionConfig is the code's.   *)
(***************************************************************************)
EXTENDS Integers, Sequences

MCConfig ==
  [top_region |-> 12, bottom_region |-> 10, repetition |-> 60, min_page_count |-> 5,
   heading_max_words |-> 12, numeric_max_words |-> 8, numeric_min_digits |-> 50,
   table_min_digits |-> 30, table_min_numerals |-> 3, decorative_max_words |-> 3,
   overlap_density |-> 200, dense_density |-> 25, dense_min_digits |-> 15,
   fragment_width |-> 50, window |-> 6, fragment_max_words |-> 2, fragment_max_chars |-> 30,
   min_chars |-> 40, min_alpha |-> 50, low_text_tolerance |-> 20,
   good_share |-> 95, usable_share |-> 80, review_share |-> 40]

Paragraph ==
  [is |-> "text", says |-> "prose", words |-> 60, chars |-> 360, digits |-> 2, alpha |-> 80, numerals |-> 2,
   density |-> 8, ends |-> TRUE, list |-> FALSE, connectors |-> TRUE, url |-> FALSE, folio |-> FALSE,
   upper |-> FALSE, bold |-> FALSE, size |-> 100, y0 |-> 30, y1 |-> 50, width |-> 90]

\* A heading as wide as the text, and one in a column of its own.
Title == [Paragraph EXCEPT !.is = "heading", !.says = "title", !.words = 4, !.chars = 24, !.digits = 0, !.numerals = 0,
                           !.ends = FALSE, !.connectors = FALSE, !.bold = TRUE, !.size = 140, !.y0 = 20, !.y1 = 24]
NarrowTitle == [Title EXCEPT !.says = "narrow", !.width = 30]
\* "Note 7" at the head of a page.
NoteTitle == [Title EXCEPT !.says = "note #", !.words = 2, !.chars = 6, !.digits = 16, !.numerals = 1, !.y0 = 8, !.y1 = 11]

RunningHead == [Title EXCEPT !.is = "furniture", !.says = "report for #", !.size = 80, !.bold = FALSE,
                             !.upper = TRUE, !.y0 = 3, !.y1 = 5]
Folio == [Paragraph EXCEPT !.is = "number", !.says = "#", !.words = 1, !.chars = 2, !.digits = 100, !.alpha = 0,
                           !.numerals = 1, !.ends = FALSE, !.connectors = FALSE, !.folio = TRUE,
                           !.size = 80, !.y0 = 95, !.y1 = 97, !.width = 3]

ColumnHead == [NarrowTitle EXCEPT !.is = "label", !.says = "column", !.words = 1, !.chars = 8, !.size = 100]
TableRow == [Paragraph EXCEPT !.is = "table", !.says = "row #", !.words = 12, !.chars = 60, !.digits = 40, !.alpha = 40,
                              !.numerals = 8, !.ends = FALSE, !.connectors = FALSE, !.y0 = 52, !.y1 = 56]
\* A row whose long label dilutes its digits, its cells on lines of their own.
DenseRow == [TableRow EXCEPT !.says = "dense #", !.digits = 18, !.density = 40]
ChartLabel == [Paragraph EXCEPT !.is = "label", !.says = "q#", !.words = 2, !.chars = 8, !.digits = 25, !.alpha = 60,
                                !.numerals = 1, !.ends = FALSE, !.connectors = FALSE, !.width = 8]

MCLayouts ==
  << <<RunningHead, Title, Paragraph, Folio>>,
     <<Title, Paragraph, Paragraph, Folio>>,
     <<RunningHead, Paragraph, ColumnHead, ColumnHead, TableRow, DenseRow, Folio>>,
     <<NoteTitle, Paragraph, NarrowTitle, TableRow, Paragraph>>,
     <<RunningHead, Paragraph, ChartLabel, ChartLabel, Folio>>,
     <<>> >>

\* Every collection of Pages layouts, their order aside.
MCReportsOf(Pages) ==
  { [p \in 1..Pages |-> MCLayouts[choice[p]]] :
      choice \in { c \in [1..Pages -> DOMAIN MCLayouts] : \A p \in 1..(Pages - 1) : c[p] <= c[p + 1] } }

MCReports == UNION { MCReportsOf(n) : n \in {1, 2, 5} }
=============================================================================
