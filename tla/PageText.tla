------------------------------ MODULE PageText ------------------------------
(***************************************************************************)
(* From the pages of a PDF to the narrative of the report: the legacy      *)
(* extraction (extraction.py) and the classification the canonical source  *)
(* repeats on its own pages (source_adapter.py).                           *)
(*                                                                         *)
(* A page is a sequence of printed blocks in native order. A block is      *)
(* known by what the rules measure of it: words, share of digits and       *)
(* letters, lines for its height, type size, position, width. `says` names *)
(* its text with every number written #, as normalize_candidate does.      *)
(***************************************************************************)
EXTENDS Integers, Sequences, FiniteSets, SequencesExt, FiniteSetsExt, DocumentJobs

CONSTANTS
  PrintedReports, \* the reports a job may be given, each a sequence of pages
  Config          \* ExtractionConfig: the thresholds, shares in per cent

-----------------------------------------------------------------------------
(* Running heads and feet                                                  *)

Zone(block) ==
  CASE block.y1 <= Config.top_region -> "HEADER"
    [] block.y1 > Config.top_region /\ block.y0 >= 100 - Config.bottom_region -> "FOOTER"
    [] OTHER -> "BODY"

\* max(2, round(total_pages * header_footer_repetition_threshold))
MinRecurrence(pages) ==
  LET share == (Len(pages) * Config.repetition + 50) \div 100
  IN IF share < 2 THEN 2 ELSE share

\* detect_header_footer_blocks: in reports of enough pages, a text in the top or the
\* bottom region of enough of them.
Repeated(pages, block) ==
  LET on == { p \in DOMAIN pages :
                \E i \in DOMAIN pages[p] : pages[p][i].says = block.says /\ Zone(pages[p][i]) = Zone(block) }
  IN /\ Len(pages) >= Config.min_page_count
     /\ Zone(block) # "BODY"
     /\ Cardinality(on) >= MinRecurrence(pages)

-----------------------------------------------------------------------------
(* Classification                                                          *)

\* The upper median of the type sizes of a page.
MedianSize(page) ==
  LET sizes == SortSeq([i \in DOMAIN page |-> page[i].size], <)
  IN sizes[Len(sizes) \div 2 + 1]

\* is_short_alphanumeric_fragment
ShortFragment(block) ==
  /\ block.words \in 1..Config.fragment_max_words
  /\ block.chars <= Config.fragment_max_chars
  /\ block.numerals > 0
  /\ ~block.ends /\ ~block.list /\ ~block.connectors

\* classify_block: the rules in order, the first that holds decides.
Rules(pages, page, block) ==
  LET emphasis == block.size * 100 > MedianSize(page) * 115 \/ block.bold \/ block.upper
      tabular == block.numerals >= Config.table_min_numerals
      Rule(holds, type, excluded) == [holds |-> holds, type |-> type, excluded |-> excluded]
  IN << Rule(Repeated(pages, block), Zone(block), TRUE),
        Rule(block.density > Config.overlap_density, "OVERLAPPING_TEXT_ARTIFACT", TRUE),
        Rule(block.words <= 6 /\ block.folio, "PAGE_NUMBER", TRUE),
        Rule(/\ block.words <= Config.decorative_max_words
             /\ block.url \/ (block.alpha < 30 /\ block.digits < 30), "DECORATIVE_OR_FRAGMENT", TRUE),
        Rule(block.words = 1 /\ block.chars = 1 /\ block.alpha = 100, "DECORATIVE_OR_FRAGMENT", TRUE),
        Rule(tabular /\ block.digits >= Config.table_min_digits, "TABLE_LIKE", TRUE),
        Rule(/\ tabular /\ block.density > Config.dense_density
             /\ block.digits >= Config.dense_min_digits, "TABLE_LIKE", TRUE),
        Rule(/\ block.digits >= Config.numeric_min_digits
             /\ block.words <= Config.numeric_max_words, "NUMERIC_FRAGMENT", TRUE),
        Rule(block.list, "LIST_ITEM", FALSE),
        Rule(~emphasis /\ ShortFragment(block), "NUMERIC_FRAGMENT", TRUE),
        Rule(block.words <= Config.heading_max_words /\ ~block.ends /\ emphasis, "HEADING_CANDIDATE", FALSE),
        Rule(TRUE, "PARAGRAPH", FALSE) >>

\* Mutant: a narrow heading near a table needs no other next to it.
TableHeaderFragmentsMutant(page, type) ==
  LET widest == Max({ page[i].width : i \in DOMAIN page })
  IN { i \in DOMAIN page : /\ type[i] = "HEADING_CANDIDATE"
                           /\ 100 * page[i].width <= Config.fragment_width * widest
                           /\ \E t \in DOMAIN page : type[t] = "TABLE_LIKE" /\ i - t \in -Config.window..Config.window }

\* find_table_header_fragment_indices: narrow headings near a table that have
\* another narrow heading near them.
TableHeaderFragments(page, type) ==
  LET widest == Max({ page[i].width : i \in DOMAIN page })
      narrow == { i \in DOMAIN page : /\ type[i] = "HEADING_CANDIDATE"
                                      /\ 100 * page[i].width <= Config.fragment_width * widest }
      Near(i, j) == i - j \in -Config.window..Config.window
  IN { i \in narrow : /\ \E t \in DOMAIN page : type[t] = "TABLE_LIKE" /\ Near(i, t)
                      /\ \E j \in narrow \ {i} : Near(i, j) }

\* One page as _run_extraction and classify_source_pages store it.
ClassifiedPage(pages, page) ==
  LET rule == [i \in DOMAIN page |->
                 LET rules == Rules(pages, page, page[i])
                 IN rules[Min({ r \in DOMAIN rules : rules[r].holds })]]
      fragments == IF page = <<>> THEN {} ELSE TableHeaderFragments(page, [i \in DOMAIN page |-> rule[i].type])
  IN [i \in DOMAIN page |->
        IF i \in fragments THEN [type |-> "TABLE_HEADER_FRAGMENT", excluded |-> TRUE]
        ELSE [type |-> rule[i].type, excluded |-> rule[i].excluded]]

-----------------------------------------------------------------------------
(* Quality                                                                 *)

SumOver(page, Field(_)) == FoldLeft(LAMBDA sum, block : sum + Field(block), 0, page)

\* assess_page; letters and characters of the whole page.
PageQuality(page) ==
  LET chars == SumOver(page, LAMBDA block : block.chars)
      letters == SumOver(page, LAMBDA block : block.chars * block.alpha)
      low == chars < Config.min_chars \/ letters < Config.min_alpha * chars
  IN CASE chars = 0 -> "FAILED"
       [] chars > 0 /\ low -> "NEEDS_REVIEW"
       [] chars >= 3 * Config.min_chars /\ ~low -> "GOOD"
       [] OTHER -> "USABLE"

\* assess_report: the worst of the share of usable pages and the reasons for review.
ReportQuality(pages) ==
  LET usable == Cardinality({ p \in DOMAIN pages : PageQuality(pages[p]) \in {"GOOD", "USABLE"} })
      empty == Cardinality({ p \in DOMAIN pages : pages[p] = <<>> })
      low == Len(pages) - usable
      \* an empty page is image-only: a reason of its own
      reasons == empty > 0 \/ 100 * low > Config.low_text_tolerance * Len(pages)
      AtLeast(share) == 100 * usable >= share * Len(pages)
  IN CASE AtLeast(Config.good_share) /\ ~reasons -> "GOOD"
       [] AtLeast(Config.usable_share) /\ (reasons \/ ~AtLeast(Config.good_share)) -> "USABLE"
       [] AtLeast(Config.review_share) /\ ~AtLeast(Config.usable_share) -> "NEEDS_REVIEW"
       [] OTHER -> "FAILED"

\* build_narrative_text: the kept blocks, page by page, in reading order.
Narrative(pages, classified) ==
  LET Kept(p) == SelectSeq([i \in DOMAIN pages[p] |-> <<p, i>>], LAMBDA at : ~classified[p][at[2]].excluded)
  IN FoldLeft(LAMBDA text, p : text \o Kept(p), <<>>, [p \in DOMAIN pages |-> p])

-----------------------------------------------------------------------------
(* The job                                                                 *)

\* extract_pages: a document that opens is read whole, its empty blocks dropped.
ChooseReport == \E report \in PrintedReports : Start("read", report)

\* _run_extraction
RunExtraction ==
  LET classified == [p \in DOMAIN input |-> ClassifiedPage(input, input[p])]
      quality == ReportQuality(input)
  IN Follow("read", "extracted",
            [blocks |-> classified,
             narrative |-> Narrative(input, classified),
             quality |-> quality,
             status |-> IF quality = "GOOD" THEN "COMPLETED" ELSE "COMPLETED_WITH_WARNINGS"])

TextNext == ChooseReport \/ RunExtraction

-----------------------------------------------------------------------------
(* Properties                                                              *)

\* The narrative of a report is its printed text in printed order: no paragraph
\* and no heading is taken for a running head, a column head, a page number or a
\* table, and none of those is taken for text. The one exception is text whose
\* wording, numbers aside, stands in the same margin of most pages.
NarrativeIsBody ==
  stage = "extracted" =>
    LET At(at) == input[at[1]][at[2]]
        places == UNION { {p} \X DOMAIN input[p] : p \in DOMAIN input }
        Same(at, other) == /\ At(at).says = At(other).says
                           /\ \/ At(at).y1 <= 12 /\ At(other).y1 <= 12
                              \/ At(at).y0 >= 90 /\ At(other).y0 >= 90
        Recurs(at) == /\ Len(input) >= 5
                      /\ 10 * Cardinality({ other[1] : other \in { o \in places : Same(at, o) } }) >= 6 * Len(input)
    IN /\ ToSet(found.narrative) = { at \in places : At(at).is \in {"text", "heading", "furniture"} /\ ~Recurs(at) }
       /\ \A i \in 1..(Len(found.narrative) - 1) :
            LET a == found.narrative[i]
                b == found.narrative[i + 1]
            IN a[1] < b[1] \/ (a[1] = b[1] /\ a[2] < b[2])
=============================================================================
