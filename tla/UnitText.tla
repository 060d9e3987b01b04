------------------------------ MODULE UnitText ------------------------------
(***************************************************************************)
(* What the unit track computes from the text of two reports: where the    *)
(* schedule stands (schedule_localization.py, heading_structure.py), the   *)
(* text of its configured units (semantic_unit_extraction.py) and which    *)
(* earlier unit is which later one (semantic_unit_alignment.py). UnitRuns  *)
(* models the runs these computations are recorded in.                     *)
(*                                                                         *)
(* A report is a sequence of pages, a page a sequence of blocks, a block a *)
(* type, a type size, a sequence of words and the words its lines end      *)
(* with. No word contains another one, so text containment is containment  *)
(* of phrases.                                                             *)
(***************************************************************************)
EXTENDS Integers, Sequences, FiniteSets, SequencesExt, FiniteSetsExt, DocumentJobs

CONSTANTS
  Comparisons, \* pairs of reports, each with its configured units and its outline
  Vocabulary,  \* the headings of the schedule, most specific first
  PageNumbers, \* words that are a trailing page number
  Enders,      \* words that end a sentence
  Small,       \* words printed with a small first letter
  Anchors      \* words that complete an anchor sentence

-----------------------------------------------------------------------------
(* Phrases                                                                 *)

\* The blocks of a report in reading order, each with its page.
BlocksOf(pages) ==
  FlattenSeq([p \in DOMAIN pages |->
                [i \in DOMAIN pages[p] |-> [page |-> p, type |-> pages[p][i].type,
                                            size |-> pages[p][i].size, words |-> pages[p][i].words,
                                            breaks |-> pages[p][i].breaks]]])

IsHeading(block) == block.type = "HEADING_CANDIDATE"

PhraseAt(words, phrase, i) ==
  i + Len(phrase) - 1 <= Len(words) /\ SubSeq(words, i, i + Len(phrase) - 1) = phrase

\* The phrase itself, or its words with at most one other among them.
Mentions(words, phrase) ==
  \E i \in DOMAIN words :
    \/ PhraseAt(words, phrase, i)
    \/ /\ Len(phrase) >= 2
       /\ ToSet(phrase) \subseteq { words[j] : j \in (i..(i + Len(phrase))) \cap DOMAIN words }

\* _matches_vocabulary: the first candidate that matches decides.
VocabularyMatch(words) ==
  LET hits == { v \in DOMAIN Vocabulary : Mentions(words, Vocabulary[v]) }
  IN CASE hits = {} -> "none"
       [] hits # {} /\ words = Vocabulary[Min(hits)] -> "exact"
       [] OTHER -> "partial"

Continued(words) == words # <<>> /\ Last(words) = "continued"

-----------------------------------------------------------------------------
(* The structure of the headings                                           *)

\* Two sizes are of one tier when no gap of a quarter lies between them.
SameTier(sizes, s, t) ==
  \A a \in sizes : a > Min({s, t}) /\ a <= Max({s, t}) =>
    \E b \in sizes : b < a /\ 4 * b >= 3 * a

IsContentsEntry(blocks, h) ==
  LET Numbered(i) == Len(blocks[i].words) > 1 /\ Last(blocks[i].words) \in PageNumbers
  IN /\ Numbered(h)
     /\ Cardinality({ i \in DOMAIN blocks : /\ IsHeading(blocks[i])
                                            /\ blocks[i].page = blocks[h].page
                                            /\ Numbered(i) }) >= 3

\* Labels of one picture share their words.
IsPairedLabel(blocks, h) ==
  \E i \in DOMAIN blocks \ {h} :
    /\ IsHeading(blocks[i]) /\ blocks[i].page = blocks[h].page
    /\ LET mine == ToSet(blocks[h].words)
           its == ToSet(blocks[i].words)
           shared == Cardinality(mine \cap its)
       IN shared >= 2 /\ 2 * shared >= Min({Cardinality(mine), Cardinality(its)})

\* assess_heading_structure, with the sizes of the vocabulary's headings for anchors.
IsTopLevel(blocks, anchors, h) ==
  LET sizes == { blocks[i].size : i \in { j \in DOMAIN blocks : IsHeading(blocks[j]) } }
      top == { s \in sizes : SameTier(sizes, s, Max(anchors)) }
  IN ~IsContentsEntry(blocks, h) /\ ~IsPairedLabel(blocks, h) /\ (top = sizes \/ blocks[h].size \in top)

\* _end_page_for: the page before the next heading that can begin another section.
EndPage(blocks, anchors, h, words, last) ==
  LET Repeats(i) == Cardinality({ j \in DOMAIN blocks : IsHeading(blocks[j]) /\ blocks[j].words = blocks[i].words })
      later == { i \in DOMAIN blocks : /\ IsHeading(blocks[i])
                                       /\ blocks[i].page > blocks[h].page
                                       /\ Repeats(i) < 3
                                       /\ blocks[i].words # Append(words, "continued")
                                       /\ IsTopLevel(blocks, anchors, i)
                                       /\ 100 * blocks[i].size >= 78 * blocks[h].size }
  IN IF later = {} THEN last ELSE Max({blocks[h].page, blocks[Min(later)].page - 1})

\* localize_schedule: every heading of the vocabulary opens a span; the best is the
\* primary one, the others support it. A heading may be printed in two blocks.
Localized(pages) ==
  LET blocks == BlocksOf(pages)
      headings == { i \in DOMAIN blocks : IsHeading(blocks[i]) }
      Two(h) == LET next == { i \in headings : i > h }
                IN IF next # {} /\ blocks[Min(next)].page = blocks[h].page
                   THEN blocks[h].words \o blocks[Min(next)].words ELSE <<>>
      Read(h) == IF VocabularyMatch(blocks[h].words) # "none" THEN blocks[h].words ELSE Two(h)
      raw == { h \in headings : VocabularyMatch(Read(h)) # "none" }
      anchors == { blocks[h].size : h \in raw }
      Rank(h) == << IF VocabularyMatch(Read(h)) = "exact" THEN 0 ELSE 1,
                    IF IsTopLevel(blocks, anchors, h) THEN 0 ELSE 1,
                    -blocks[h].size, h >>
      matches == { h \in raw : ~IsContentsEntry(blocks, h) }
      Span(h) == [heading |-> Read(h), start |-> blocks[h].page,
                  end |-> EndPage(blocks, anchors, h, Read(h), Len(pages)),
                  exact |-> VocabularyMatch(Read(h)) = "exact"]
      Before(a, b) == \E n \in 1..4 : a[n] < b[n] /\ \A k \in 1..(n - 1) : a[k] = b[k]
      best == CHOOSE h \in matches : \A other \in matches \ {h} : Before(Rank(h), Rank(other))
  IN IF matches = {} THEN None
     ELSE [primary |-> Span(best), supporting |-> { Span(h) : h \in matches \ {best} }]

-----------------------------------------------------------------------------
(* The text of one unit                                                    *)

\* _heading_run_in_match: the heading opens the paragraph or one of its sentences.
RunIns(words, heading) ==
  { i \in DOMAIN words : PhraseAt(words, heading, i) /\ (i = 1 \/ words[i - 1] \in Enders) }

\* The words of a block behind the heading it opens with.
Remainder(block, heading) ==
  IF IsHeading(block) THEN <<>>
  ELSE SubSeq(block.words, Min(RunIns(block.words, heading)) + Len(heading), Len(block.words))

\* Mutant: a sentence that goes on after the heading's words opens the unit too.
OpensMutant(block, heading) ==
  \/ IsHeading(block) /\ Mentions(block.words, heading)
  \/ block.type = "PARAGRAPH" /\ RunIns(block.words, heading) # {}

\* _run_in_remainder_is_prose_continuation: the sentence goes on in small letters,
\* on the line of the heading's words. Behind a line break it counts as a heading
\* that was wrapped.
GoesOn(block, heading) ==
  LET rest == Remainder(block, heading)
      last == Min(RunIns(block.words, heading)) + Len(heading) - 1
  IN rest # <<>> /\ rest[1] \in Small /\ last \notin block.breaks

\* A heading that mentions the configured one, or a paragraph that runs on from it
\* and is not just a sentence that uses its words.
Opens(block, heading) ==
  \/ IsHeading(block) /\ Mentions(block.words, heading)
  \/ /\ block.type = "PARAGRAPH"
     /\ RunIns(block.words, heading) # {}
     /\ ~GoesOn(block, heading)

\* The words up to the next heading, headings that say "continued" left out.
ToNextHeading(lead, body) ==
  LET ends == { j \in DOMAIN body : IsHeading(body[j]) /\ ~Continued(body[j].words) }
      upTo == IF ends = {} THEN body ELSE SubSeq(body, 1, Min(ends) - 1)
      kept == SelectSeq(upTo, LAMBDA block : ~IsHeading(block))
  IN lead \o FlattenSeq([j \in DOMAIN kept |-> kept[j].words])

\* The words up to the first anchor sentence, none if there is no such sentence.
ToAnchor(lead, body) ==
  LET words == lead \o FlattenSeq([j \in DOMAIN body |-> body[j].words])
      hits == { w \in DOMAIN words : words[w] \in Anchors }
  IN IF hits = {} THEN <<>> ELSE SubSeq(words, 1, Min(hits))

\* extract_unit: the first exact match of the heading, else its first mention.
ExtractedUnit(blocks, unit) ==
  LET candidates == { i \in DOMAIN blocks : Opens(blocks[i], unit.heading) }
      exact == { i \in candidates : ~IsHeading(blocks[i]) \/ blocks[i].words = unit.heading }
      first == Min(IF exact # {} THEN exact ELSE candidates)
      lead == Remainder(blocks[first], unit.heading)
      body == SubSeq(blocks, first + 1, Len(blocks))
      text == IF unit.strategy = "NEXT_HEADING" THEN ToNextHeading(lead, body) ELSE ToAnchor(lead, body)
  IN IF candidates = {} THEN None
     ELSE [key |-> unit.key, text |-> text,
           heading |-> IF IsHeading(blocks[first]) THEN blocks[first].words ELSE unit.heading,
           status |-> IF text = <<>> THEN "UNRESOLVED" ELSE "RESOLVED"]

\* _run_extraction: every configured unit, on the pages of the primary and the
\* supporting spans. The run is clean when every one of them was found and resolved.
ExtractedUnits(report, instance) ==
  LET spans == {instance.primary} \cup instance.supporting
      pages == Min({ s.start : s \in spans })..Max({ s.end : s \in spans })
      blocks == SelectSeq(BlocksOf(report.pages), LAMBDA block : block.page \in pages)
      rows == { ExtractedUnit(blocks, unit) : unit \in report.units } \ {None}
  IN [units |-> rows,
      clean |-> Cardinality(rows) = Cardinality(report.units) /\ \A u \in rows : u.status = "RESOLVED"]

-----------------------------------------------------------------------------
(* Which earlier unit is which later one                                   *)

UnitRow(e, l, status) == [earlier |-> e, later |-> l, status |-> status]

Resolved(units) == { u \in units : u.status = "RESOLVED" }

\* A unit of the same key on both sides, resolved on both.
SameKeyRows(earlier, later) ==
  { UnitRow(e.key, e.key, "MATCHED") :
      e \in { u \in Resolved(earlier) : \E l \in Resolved(later) : l.key = u.key } }

\* One earlier unit without its key on the other side: the one free later unit under
\* the same heading is its match; several make it ambiguous, and all are used up.
HeadingStep(done, e, free) ==
  LET alike == { l \in free : l.heading = e.heading }
      used == [done EXCEPT !.earlier = @ \cup {e.key}, !.later = @ \cup { l.key : l \in alike }]
  IN CASE alike = {} -> done
       [] Cardinality(alike) = 1 -> [used EXCEPT !.rows = @ \cup { UnitRow(e.key, l.key, "MATCHED") : l \in alike }]
       [] OTHER -> [used EXCEPT !.rows = @ \cup {UnitRow(e.key, None, "AMBIGUOUS")}]

\* The leftover earlier units one by one, in the order the database gave them.
HeadingRows(order, later, start) ==
  FoldLeft(LAMBDA done, e : HeadingStep(done, e, { l \in Resolved(later) : l.key \notin done.later }),
           start, order)

\* What is left of a key: nothing is called added or removed unless the run of the
\* other side was clean.
RestRow(es, ls, earlierClean, laterClean) ==
  LET e == IF es = {} THEN None ELSE (CHOOSE u \in es : TRUE).key
      l == IF ls = {} THEN None ELSE (CHOOSE u \in ls : TRUE).key
      unresolved == \E u \in es \cup ls : u.status = "UNRESOLVED"
  IN CASE unresolved -> UnitRow(e, l, "UNRESOLVED_UPSTREAM")
       [] ~unresolved /\ ls = {} -> UnitRow(e, None, IF laterClean THEN "REMOVED" ELSE "UNRESOLVED_UPSTREAM")
       [] OTHER -> UnitRow(None, l, IF earlierClean THEN "ADDED" ELSE "UNRESOLVED_UPSTREAM")

\* align_units
AlignedUnits(earlier, later, order) ==
  LET same == SameKeyRows(earlier.units, later.units)
      keys == { row.earlier : row \in same }
      done == HeadingRows(order, later.units, [rows |-> same, earlier |-> keys, later |-> keys])
      EarlierOf(key) == { u \in earlier.units : u.key = key } \ { u \in earlier.units : u.key \in done.earlier }
      LaterOf(key) == { u \in later.units : u.key = key } \ { u \in later.units : u.key \in done.later }
      rest == { key \in { u.key : u \in earlier.units \cup later.units } : EarlierOf(key) \cup LaterOf(key) # {} }
  IN done.rows \cup { RestRow(EarlierOf(key), LaterOf(key), earlier.clean, later.clean) : key \in rest }

-----------------------------------------------------------------------------
(* The job                                                                 *)

ChooseComparison == \E comparison \in Comparisons : Start("compared", comparison)

\* run_localization for both reports
LocalizeSchedule ==
  Follow("compared", "localized", [side \in DOMAIN input |-> Localized(input[side].pages)])

\* run_extraction for both reports; without an instance there is nothing to extract.
ExtractUnits ==
  /\ stage = "localized"
  /\ \A side \in DOMAIN input : found[side] # None
  /\ Follow("localized", "units", [side \in DOMAIN input |-> ExtractedUnits(input[side], found[side])])

\* run_alignment: the earlier units come in any order.
AlignUnits ==
  LET left == { u \in Resolved(found.earlier.units) : \A l \in Resolved(found.later.units) : l.key # u.key }
  IN /\ stage = "units"
     /\ \E order \in { o \in [1..Cardinality(left) -> left] : ToSet(o) = left } :
          Follow("units", "aligned",
                 found @@ [rows |-> AlignedUnits(found.earlier, found.later, order)])

UnitNext == ChooseComparison \/ LocalizeSchedule \/ ExtractUnits \/ AlignUnits

-----------------------------------------------------------------------------
(* Properties                                                              *)

\* The text of a unit is what the report prints under its heading, all of it and
\* nothing else: contents entries, picture labels, continuation headings, sentences
\* that use the heading's words and the pages of other sections do not disturb it;
\* of a heading wrapped over two lines the second line is part of the text. A unit
\* that is not printed has no text. Only sound printings are meant: a sentence that
\* opens with the heading's words and whose line ends with them looks like a wrapped
\* heading, and the code takes it for the unit's.
UnitsMatchOutline ==
  stage = "units" =>
    \A side \in {"earlier", "later"} :
      input[side].sound =>
        { <<u.key, u.text>> : u \in Resolved(found[side].units) }
          = { <<unit.key, input[side].outline[unit.key]>> :
                unit \in { c \in input[side].units : c.key \in DOMAIN input[side].outline } }

=============================================================================
