--------------------------- MODULE MCResearchRuns ---------------------------
(* One pair of reports, of which the later one is extracted again and comes   *)
(* out unusable under the first configuration of the extractor.              *)
EXTENDS ResearchRuns

CONSTANTS r1, r2, lm, lm2

MCUsable == {<<r1, 0>>, <<r1, 1>>, <<r2, 0>>}

\* A deployment that leaves the model alone.
MCEmbeddingModel == [c \in 0 .. 1 |-> "model"]

MCFiles ==
  {[name |-> "custom", version |-> "1", source_hash |-> lm],
   [name |-> "custom", version |-> "2", source_hash |-> lm2]}

MCStarts ==
  LET first == <<[name |-> "custom", version |-> "1", source_hash |-> lm]>>
  IN {<<0, <<>>>>, <<4, <<>>>>, <<7, first>>}
=============================================================================
