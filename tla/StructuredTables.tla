-------------------------- MODULE StructuredTables --------------------------
(***************************************************************************)
(* Reading one table family from the blocks of two canonical sources and   *)
(* comparing the tables: structured_table_reconstruction.py and            *)
(* structured_table_comparison.py.                                         *)
(*                                                                         *)
(* A page is a sequence of blocks in native order, a block a sequence of   *)
(* lines: the heading, a label, printed values, a footnote, the page's     *)
(* running footer. An amount is printed in groups of three digits. Markers *)
(* glued to labels and numbers, decimals and percentages are left out.     *)
(***************************************************************************)
EXTENDS Integers, Sequences, FiniteSets, SequencesExt, Functions, DocumentJobs

CONSTANTS
  Families, \* TABLE_FAMILY_CONFIGS: what rows are told apart by, the columns as
            \* <<normalized_key, is_restated>>, the label of the last row, and the
            \* keys whose composition changes between the years of the pair
  PagesOf,  \* printed pages of a family: the table meant, the blocks it is
            \* printed as, and whether the printing is sound
  Canonical \* _canonical_role and _canonical_role_category

\* _classify_value: what a cell holds, and its number.
Cell(status, number) == [status |-> status, number |-> number]
Missing == Cell("MISSING", 0)
Number(n) == Cell(IF n = 0 THEN "ZERO" ELSE "NUMERIC", n)

-----------------------------------------------------------------------------
(* Reconstruction                                                          *)

\* The tokens of one line of printed pieces: a group of three digits belongs to
\* the number before it, whatever column it was printed in.
Tokens(pieces) ==
  LET Read(tokens, piece) ==
        IF piece.is # "group" THEN Append(tokens, Cell(piece.is, 0))
        ELSE IF piece.wide /\ tokens # <<>> /\ Last(tokens).status \in {"NUMERIC", "ZERO"}
             THEN Append(Front(tokens), Number(Last(tokens).number * 1000 + piece.digits))
        ELSE Append(tokens, Number(piece.digits))
  IN FoldLeft(Read, <<>>, pieces)

\* _segment_block: a label with values below it is a row, the labels above it
\* its category; values without a label are skipped.
Segments(lines) ==
  LET Read(acc, line) ==
        CASE line.is = "label" -> [acc EXCEPT !.heads = Append(@, line.text)]
          [] line.is = "values" /\ acc.heads # <<>> ->
               [heads |-> <<>>,
                rows |-> Append(acc.rows, [label |-> Last(acc.heads), category |-> Front(acc.heads),
                                           tokens |-> Tokens(line.pieces)])]
          [] line.is = "values" /\ acc.heads = <<>> /\ acc.rows # <<>> ->
               [acc EXCEPT !.rows[Len(acc.rows)].tokens = @ \o Tokens(line.pieces)]
          [] OTHER -> acc
  IN FoldLeft(Read, [heads |-> <<>>, rows |-> <<>>], lines)

\* Mutant: footnotes between two rows are read like other blocks.
LooksLikeFootnoteMutant(block) == FALSE

\* _looks_like_footnote_block: one or two digits at the start of its first line.
LooksLikeFootnote(block) ==
  LET first == block.lines[1]
  IN \/ first.is = "footnote"
     \/ first.is = "values" /\ first.pieces[1].is = "group" /\ ~first.pieces[1].wide

\* _row_identity
Identity(family, category, label) ==
  IF family.identity = "ROLE"
  THEN <<[i \in DOMAIN category |-> Canonical[category[i]]], Canonical[label]>>
  ELSE <<<<>>, label>>

\* _build_cells: by position, padded with missing cells, extra values dropped.
Cells(family, tokens) ==
  [i \in DOMAIN family.columns |-> IF i \in DOMAIN tokens THEN tokens[i] ELSE Missing]

\* One row of a block; nothing after the terminal row is read.
ReadSegment(family, acc, segment) ==
  LET category == IF segment.category # <<>> THEN segment.category ELSE acc.category
      row == [identity |-> Identity(family, category, segment.label),
              cells |-> Cells(family, segment.tokens)]
  IN IF acc.terminal THEN acc
     ELSE IF segment.label = None \* a label without a letter
          THEN [acc EXCEPT !.category = category, !.notes = @ + 1]
     ELSE [acc EXCEPT !.category = category,
                      !.rows = Append(@, row),
                      !.notes = @ + (IF Len(segment.tokens) > Len(family.columns) THEN 1 ELSE 0),
                      !.terminal = segment.label = family.terminal]

\* One block of the region: rows, a category for those to come, or, after the
\* first row, the end of the table.
ReadBlock(family, acc, block) ==
  LET read == Segments(block.lines)
      next == FoldLeft(LAMBDA a, segment : ReadSegment(family, a, segment), acc, read.rows)
  IN IF LooksLikeFootnote(block) \/ acc.terminal \/ acc.over THEN acc
     ELSE IF read.rows = <<>> /\ read.heads = <<>>
          THEN [acc EXCEPT !.over = acc.rows # <<>>]
     ELSE [next EXCEPT !.category = IF read.heads # <<>> THEN read.heads ELSE @,
                       !.lastY = IF read.rows # <<>> THEN block.y ELSE @]

\* reconstruct_table: the heading's page from the heading down, in native order.
Reconstruct(family, blocks) ==
  LET Heads(block) == \E i \in DOMAIN block.lines : block.lines[i].is = "heading"
      headings == { i \in DOMAIN blocks : Heads(blocks[i]) }
      heading == blocks[CHOOSE i \in headings : \A j \in headings : i <= j]
      InRegion(block) ==
        /\ block # heading /\ block.page = heading.page /\ block.y >= heading.y
        /\ \A i \in DOMAIN block.lines : block.lines[i].is # "footer"
      region == SelectSeq(blocks, InRegion)
      nothing == [rows |-> <<>>, category |-> <<>>, notes |-> 0, terminal |-> FALSE, over |-> FALSE, lastY |-> 0]
      read == FoldLeft(LAMBDA acc, block : ReadBlock(family, acc, block), nothing, region)
      footnotes == { i \in DOMAIN region : LooksLikeFootnote(region[i]) /\ region[i].y - read.lastY <= 200 }
  IN IF headings = {} THEN None
     ELSE [rows |-> read.rows,
           footnotes |-> IF read.rows = <<>> THEN {} ELSE { region[i].y : i \in footnotes },
           status |-> IF read.rows = <<>> THEN "MAJOR_LAYOUT_RECONSTRUCTION_NEEDED"
                      ELSE IF read.notes = 0 THEN "CLEAN" ELSE "MINOR_CORRECTION_NEEDED"]

-----------------------------------------------------------------------------
(* Comparison                                                              *)

\* Rows by identity, a later row replacing an earlier one of the same identity.
ByIdentity(table) ==
  LET identities == { table.rows[i].identity : i \in DOMAIN table.rows }
  IN [id \in identities |->
        table.rows[CHOOSE i \in DOMAIN table.rows :
                     /\ table.rows[i].identity = id
                     /\ \A j \in DOMAIN table.rows : table.rows[j].identity = id => j <= i]]

\* No value in the columns of the report's own year.
AllMissing(family, cells) ==
  LET own == { i \in DOMAIN family.columns : ~family.columns[i][2] }
  IN own # {} /\ \A i \in own : cells[i].status \in {"MISSING", "NIL_DASH"}

\* align_rows
RowDecisions(family, earlier, later) ==
  LET e == ByIdentity(earlier)
      l == ByIdentity(later)
      Status(id) ==
        CASE id \notin DOMAIN l -> "REMOVED"
          [] id \notin DOMAIN e -> "ADDED"
          [] OTHER -> IF AllMissing(family, l[id].cells) /\ ~AllMissing(family, e[id].cells) THEN "COMPARATIVE_ONLY" ELSE "MATCHED"
  IN [id \in DOMAIN e \cup DOMAIN l |-> Status(id)]

\* align_columns: both tables have the columns of the schema, told apart by key
\* and by whether they are restated.
Comparability(family, column) ==
  IF column[1] \in family.changed THEN "PARTIALLY_COMPARABLE_SCHEMA_CHANGED" ELSE "DIRECTLY_COMPARABLE"

NumberChange(e, l) ==
  CASE l.number = e.number -> "VALUE_UNCHANGED"
    [] l.number > e.number -> "VALUE_INCREASED"
    [] l.number < e.number -> "VALUE_DECREASED"

\* classify_value_change
ValueChange(e, l, rowStatus, comparability) ==
  CASE rowStatus = "COMPARATIVE_ONLY" -> "COMPARATIVE_ONLY"
    [] comparability = "PARTIALLY_COMPARABLE_SCHEMA_CHANGED" -> "SCHEMA_CHANGED"
    [] OTHER ->
         CASE e.status = "MISSING" /\ l.status # "MISSING" -> "MISSING_TO_VALUE"
           [] e.status # "MISSING" /\ l.status = "MISSING" -> "VALUE_TO_MISSING"
           [] e.status = "NIL_DASH" /\ l.status \notin {"NIL_DASH", "MISSING"} -> "NIL_TO_VALUE"
           [] e.status \notin {"NIL_DASH", "MISSING"} /\ l.status = "NIL_DASH" -> "VALUE_TO_NIL"
           [] e.status = "ZERO" /\ l.status = "NUMERIC" -> "ZERO_TO_VALUE"
           [] e.status = "NUMERIC" /\ l.status = "ZERO" -> "VALUE_TO_ZERO"
           [] e.status = "NUMERIC" /\ l.status = "NUMERIC" -> NumberChange(e, l)
           [] OTHER -> IF e.status = l.status THEN "VALUE_UNCHANGED" ELSE "VALUE_NOT_COMPARABLE"

\* _run_table_comparison: one event for each matched row and column.
Events(family, earlier, later) ==
  LET e == ByIdentity(earlier)
      l == ByIdentity(later)
      decisions == RowDecisions(family, earlier, later)
      compared == { id \in DOMAIN decisions : decisions[id] \in {"MATCHED", "COMPARATIVE_ONLY"} }
  IN { [row |-> id, column |-> i,
        event |-> ValueChange(e[id].cells[i], l[id].cells[i], decisions[id], Comparability(family, family.columns[i]))] :
         id \in compared, i \in DOMAIN family.columns }

-----------------------------------------------------------------------------
ChoosePages ==
  \E family \in Families : \E earlier, later \in PagesOf[family] :
    Start("pages", [family |-> family, earlier |-> earlier, later |-> later])

\* structure, for both reports of the pair
ReconstructTables ==
  Follow("pages", "tables",
         [earlier |-> Reconstruct(input.family, input.earlier.blocks),
          later |-> Reconstruct(input.family, input.later.blocks)])

\* compare-structured: ineligible unless both tables were found
CompareTables ==
  /\ stage = "tables" /\ None \notin {found.earlier, found.later}
  /\ Follow("tables", "events",
            [earlier |-> found.earlier, later |-> found.later,
             events |-> Events(input.family, found.earlier, found.later)])

TablesNext == ChoosePages \/ ReconstructTables \/ CompareTables

-----------------------------------------------------------------------------
(* Properties                                                              *)

\* What two printed values have to say: the reference for the events.
Difference(e, l) ==
  LET numbers == {"NUMERIC", "ZERO"}
      both == {e.status, l.status}
  IN IF e = l THEN "VALUE_UNCHANGED"
     ELSE IF both \subseteq numbers
          THEN IF e.number = 0 THEN "ZERO_TO_VALUE" ELSE IF l.number = 0 THEN "VALUE_TO_ZERO"
               ELSE IF l.number > e.number THEN "VALUE_INCREASED" ELSE "VALUE_DECREASED"
     ELSE IF "MISSING" \in both THEN IF e.status = "MISSING" THEN "MISSING_TO_VALUE" ELSE "VALUE_TO_MISSING"
     ELSE IF "NIL_DASH" \in both THEN IF e.status = "NIL_DASH" THEN "NIL_TO_VALUE" ELSE "VALUE_TO_NIL"
     ELSE "VALUE_NOT_COMPARABLE"

\* Where every row is printed in one block with all its values, no two values
\* that could be read as one on a line and no two rows of the same role, the
\* events of a comparison are exactly the differences of the tables meant: no
\* footnote, footer, category, order of emission or text after the table turns
\* into a value or moves one to another row.
EventsMatchPrinted ==
  stage = "events" /\ input.earlier.sound /\ input.later.sound =>
    LET family == input.family
        columns == DOMAIN family.columns
        Id(row) == Identity(family, row.category, row.label)
        Meant(page) == [id \in { Id(row) : row \in page.table } |->
                          (CHOOSE row \in page.table : Id(row) = id).cells]
        e == Meant(input.earlier)
        l == Meant(input.later)
        Expected(id, i) ==
          IF AllMissing(family, l[id]) /\ ~AllMissing(family, e[id]) THEN "COMPARATIVE_ONLY"
          ELSE IF family.columns[i][1] \in family.changed THEN "SCHEMA_CHANGED"
          ELSE Difference(e[id][i], l[id][i])
    IN found.events = { [row |-> id, column |-> i, event |-> Expected(id, i)] :
                          id \in DOMAIN e \cap DOMAIN l, i \in columns }

=============================================================================
