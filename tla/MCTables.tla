------------------------------ MODULE MCTables ------------------------------
(* Pages of the two table families: a few tables, each printed in ways seen   *)
(* in reports, those first that the reading is meant to cope with.            *)
EXTENDS StructuredTables

CONSTANTS board, audit, chairman, chairperson, member, alice, bob, total, fee, increase, basic, sti

RoleFamily == [identity |-> "ROLE", columns |-> <<<<fee, FALSE>>, <<increase, FALSE>>>>,
               terminal |-> None, changed |-> {}]
PersonFamily == [identity |-> "PERSON", columns |-> <<<<basic, FALSE>>, <<basic, TRUE>>, <<sti, FALSE>>>>,
                 terminal |-> total, changed |-> {sti}]

MCFamilies == {RoleFamily, PersonFamily}

\* "chairman" and "chairperson" are one role.
MCCanonical ==
  [x \in {board, audit, chairman, chairperson, member} |-> IF x = chairman THEN chairperson ELSE x]

-----------------------------------------------------------------------------
Piece(is, digits, wide) == [is |-> is, digits |-> digits, wide |-> wide]

\* A value as printed: an amount below a million in groups of three digits.
Pieces(cell) ==
  CASE cell.status = "MISSING" -> <<>>
    [] cell.status \in {"NUMERIC", "ZERO"} ->
         IF cell.number < 1000 THEN <<Piece("group", cell.number, cell.number >= 100)>>
         ELSE <<Piece("group", cell.number \div 1000, cell.number >= 100000),
                Piece("group", cell.number % 1000, TRUE)>>
    [] OTHER -> <<Piece(cell.status, 0, FALSE)>>

Label(text) == [is |-> "label", text |-> text]
Values(pieces) == [is |-> "values", pieces |-> pieces]
HeadingLine == <<[is |-> "heading"]>>
Footnote == <<[is |-> "footnote"], Label(member)>>
Footer == <<[is |-> "footer"], Values(<<Piece("group", 98, FALSE)>>)>>
YearHeader == <<Label(None), Values(<<Piece("group", 202, TRUE)>>)>>

\* The values of a row, one on a line or all on one line.
ValueLines(cells, oneLine) ==
  LET printed == SelectSeq([i \in DOMAIN cells |-> Pieces(cells[i])], LAMBDA p : p # <<>>)
  IN IF oneLine /\ printed # <<>> THEN <<Values(FlattenSeq(printed))>>
     ELSE [i \in DOMAIN printed |-> Values(printed[i])]

RowLines(row, oneLine) == <<Label(row.label)>> \o ValueLines(row.cells, oneLine)

\* The category is printed above its first row only.
Categories(rows, i) ==
  LET category == rows[i].category
  IN IF i > 1 /\ rows[i - 1].category = category THEN <<>>
     ELSE [k \in DOMAIN category |-> Label(category[k])]

\* Blocks from line sequences, top to bottom from y.
Placed(lines, page, y) == [i \in DOMAIN lines |-> [page |-> page, y |-> y + 10 * i, lines |-> lines[i]]]

\* The ways a table is printed.
Styles == {"plain", "wrapped", "one line", "rows first", "noisy", "split", "no heading"}

Printed(rows, style) ==
  LET each == [i \in DOMAIN rows |-> RowLines(rows[i], style = "one line")]
      apart == FlattenSeq([i \in DOMAIN rows |->
                 SelectSeq(<<Categories(rows, i), each[i]>>, LAMBDA lines : lines # <<>>)])
      within == [i \in DOMAIN rows |-> Categories(rows, i) \o each[i]]
      body == IF style = "wrapped" THEN within ELSE apart
  IN CASE style = "rows first" -> Placed(body, 1, 100) \o Placed(<<HeadingLine>>, 1, 0)
       [] style = "noisy" ->
            Placed(<<Footnote, RowLines(rows[1], TRUE)>>, 1, 0) \o Placed(<<HeadingLine, YearHeader>>, 1, 100)
              \o Placed(<<Head(body), Footnote>> \o Tail(body) \o <<Footer>>, 1, 200)
              \o Placed(<<each[1]>>, 2, 300)
       [] style = "split" ->
            Placed(<<HeadingLine>> \o FlattenSeq([i \in DOMAIN rows |->
                     <<<<Head(each[i])>>>> \o (IF Len(each[i]) > 1 THEN <<Tail(each[i])>> ELSE <<>>)]), 1, 0)
       [] style = "no heading" -> Placed(body, 1, 0)
       [] OTHER -> Placed(<<HeadingLine>> \o body, 1, 0)

\* Sound printings: a blank cell can only be the last of its row, a row has some
\* value, and on one line no value but the first begins with three digits.
Sound(rows, style) ==
  /\ style \notin {"split", "no heading"}
  /\ \A i \in DOMAIN rows :
       LET cells == rows[i].cells
       IN /\ cells[1].status # "MISSING"
          /\ \A k \in 1 .. Len(cells) - 1 : cells[k].status = "MISSING" => cells[k + 1].status = "MISSING"
          /\ style = "one line" =>
               \A k \in 2 .. Len(cells) : cells[k].status \in {"NUMERIC", "ZERO"} => ~Pieces(cells[k])[1].wide

Page(rows, style) ==
  [table |-> ToSet(rows), blocks |-> Printed(rows, style), sound |-> Sound(rows, style)]

PrintedRow(category, label, cells) == [category |-> category, label |-> label, cells |-> cells]
Nil == Cell("NIL_DASH", 0)
Na == Cell("NOT_APPLICABLE", 0)

RoleTables ==
  { <<PrintedRow(<<board>>, chairperson, <<Number(1200), Number(0)>>), PrintedRow(<<audit>>, member, <<Number(40), Number(7)>>)>>,
    <<PrintedRow(<<board>>, chairman, <<Number(500), Number(500)>>), PrintedRow(<<board>>, member, <<Na, Nil>>)>>,
    <<PrintedRow(<<board>>, chairperson, <<Number(0), Missing>>), PrintedRow(<<audit>>, chairman, <<Nil, Number(7)>>)>>,
    <<PrintedRow(<<board>>, member, <<Missing, Number(7)>>)>> }

PersonTables ==
  { <<PrintedRow(<<>>, alice, <<Number(1200), Number(500), Number(7)>>), PrintedRow(<<>>, bob, <<Nil, Number(40), Missing>>),
      PrintedRow(<<>>, total, <<Number(1200), Number(0), Number(7)>>)>>,
    <<PrintedRow(<<>>, alice, <<Number(500), Number(7), Nil>>), PrintedRow(<<>>, total, <<Number(7), Number(7), Missing>>)>>,
    <<PrintedRow(<<>>, bob, <<Number(40), Missing, Number(7)>>), PrintedRow(<<>>, alice, <<Nil, Nil, Nil>>)>> }

MCPagesOf ==
  [family \in MCFamilies |->
     { Page(rows, style) : rows \in (IF family = RoleFamily THEN RoleTables ELSE PersonTables), style \in Styles }]
=============================================================================
