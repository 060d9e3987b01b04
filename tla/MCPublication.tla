--------------------------- MODULE MCPublication ---------------------------
(***************************************************************************)
(* Small research databases for Publication: two reports of one company,   *)
(* r1 with passage p1 and r2 with p2 (p3 once r2 is segmented anew), and   *)
(* the alignment a1 of p1 with p2 (a2 with p3).                            *)
(***************************************************************************)
EXTENDS Publication, TLC

CONSTANTS p1, p2, p3, r1, r2, a1, a2, c1, c2, m1, m2

MCReportOf == p1 :> r1 @@ p2 :> r2 @@ p3 :> r2

Row(s, earlier, later) ==
  [status |-> s, EARLIER |-> earlier, LATER |-> later, detail |-> 0]

OnlyAlignment(a, row) == [x \in Alignments |-> IF x = a THEN row ELSE None]

Embedded(m) == [p \in Passages |-> m]

CountedIn(categories) ==
  [x \in Alignments \X Sides \X Categories |->
     IF x[3] \in categories THEN "counted" ELSE "none"]

\* The dataset most publications are built from.
Base ==
  [passages |-> {p1, p2},
   kind |-> [p \in Passages |-> 0],
   model |-> Embedded(m1),
   align |-> OnlyAlignment(a1, Row("UNCHANGED", p1, p2)),
   hits |-> CountedIn({c1}),
   alignment_version |-> 1, signal_version |-> 1, chunking_version |-> 1,
   sound |-> TRUE]

\* The labelling and the classification code changed, their
\* ALIGNMENT_ARTIFACT_VERSION did not.
Relabelled == [Base EXCEPT !.align[a1].detail = 1, !.kind[p1] = 1]

\* Under a bumped signal version a new signal extraction finds c2; p2 has been
\* embedded again meanwhile, under another model.
Resignalled ==
  [Base EXCEPT !.hits = CountedIn({c1, c2}), !.signal_version = 2, !.model[p2] = m2]

\* Report r2 was extracted again: another passage and another alignment, by
\* code whose alignment version was bumped.
Resegmented ==
  [Base EXCEPT !.passages = {p1, p3},
               !.align = OnlyAlignment(a2, Row("LIGHTLY_MODIFIED", p1, p3)),
               !.alignment_version = 2]

\* p2 is new and p1 is on no published side (its alignment was excluded).
Unaligned ==
  [Base EXCEPT !.align = OnlyAlignment(a2, Row("NEW", None, p2)),
               !.hits = [x \in Alignments \X Sides \X Categories |-> "negated"]]

\* A dataset one of the other checks of validate_persisted rejects.
Unsound == [Base EXCEPT !.sound = FALSE]

\* p2 has not been embedded yet.
Unembedded == [Base EXCEPT !.model[p2] = None]

\* Every kind of dataset and of code.
AllSnapshots ==
  {Base, Relabelled, Resignalled, Resegmented, Unaligned, Unembedded, Unsound}

Symmetry == Permutations(Versions)
=============================================================================
