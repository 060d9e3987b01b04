---------------------------- MODULE MCDocuments ----------------------------
(***************************************************************************)
(* The algorithms over documents, each on its own inputs: a job of any of  *)
(* them runs from its input to its last stage.                             *)
(***************************************************************************)
EXTENDS PageText, Passages, PassageAlignment, UnitText, LanguageSignals, PublishedComparisons,
  EvidenceReview, MCTables, MCPages, MCBlocks, MCAlignments, MCUnits, MCSignals, MCPublished, MCReviews

MCPairs == MCMeasuredPairs(None)
MCReviewed == MCAskedReviews(None)

Init == Idle

Next ==
  \/ TextNext
  \/ PassagesNext
  \/ AlignmentNext
  \/ UnitNext
  \/ TablesNext
  \/ LanguageNext
  \/ PublishedNext
  \/ ReviewNext

Spec == Init /\ [][Next]_vars
=============================================================================
