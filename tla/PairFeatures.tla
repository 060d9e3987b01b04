---------------------------- MODULE PairFeatures ----------------------------
(***************************************************************************)
(* What one report pair is measured by: the document similarities and      *)
(* their quality, and the change score that sums the alignment rows up.    *)
(* Shares are fractions <<n, d>>, compared with percentages; a measure the  *)
(* code leaves NULL is None.                                               *)
(***************************************************************************)
EXTENDS Integers, Sequences, FiniteSets, FiniteSetsExt, DocumentJobs

CONSTANTS
  MeasuredPairs, \* the pairs a job may be given, see below
  Limits         \* the thresholds of the similarity, feature and language configurations

\* A pair: transition and gap in months; per side the words of its narrative, the
\* quality of its extraction, its passages in no alignment row (count, words) and
\* how many passages were embedded and skipped; the similarity of the two texts
\* in percent under each metric; the status of the alignment run; and the primary
\* alignment rows, each with a passage or None on either side.
Sides == {"earlier", "later"}

AlignmentStatuses ==
  {"UNCHANGED", "LIGHTLY_MODIFIED", "SUBSTANTIALLY_MODIFIED", "NEW", "REMOVED", "AMBIGUOUS"}

PassageTyped(passage) ==
  /\ Len(passage.sentences) \in Nat /\ DOMAIN passage.sentences = 1 .. Len(passage.sentences)
  /\ \A i \in DOMAIN passage.sentences :
       LET tokens == passage.sentences[i] IN Len(tokens) \in Nat /\ DOMAIN tokens = 1 .. Len(tokens)

\* The sides a row of a status has: of an AMBIGUOUS one there is either.
SidesOf(row) ==
  CASE row.status = "NEW" -> {"later"}
    [] row.status = "REMOVED" -> {"earlier"}
    [] row.status = "AMBIGUOUS" -> IF row.earlier # None THEN {"earlier"} ELSE {"later"}
    [] OTHER -> Sides

ASSUME PairsTyped ==
  \A x \in MeasuredPairs :
    /\ Len(x.rows) \in Nat /\ DOMAIN x.rows = 1 .. Len(x.rows)
    /\ \A i \in DOMAIN x.rows :
         LET row == x.rows[i]
         IN /\ row.status \in AlignmentStatuses
            /\ \A side \in Sides : IF side \in SidesOf(row) THEN PassageTyped(row[side]) ELSE row[side] = None

Ratio(n, d) == IF d > 0 THEN <<n, d>> ELSE None
Below(share, percent) == share # None /\ 100 * share[1] < percent * share[2]
Above(share, percent) == share # None /\ 100 * share[1] > percent * share[2]

\* Nothing is gained or lost by which report is read first, and only what did not
\* change weighs nothing.
ASSUME WeightsTyped ==
  /\ \A status \in AlignmentStatuses :
       /\ Limits.status_weight[status] \in Nat
       /\ Limits.status_weight[status] = 0 <=> status = "UNCHANGED"
  /\ Limits.status_weight["NEW"] = Limits.status_weight["REMOVED"]

WordCount(passage) == Total([i \in 1 .. Len(passage.sentences) |-> Len(passage.sentences[i])])
WordsOf(passage) == IF passage = None THEN 0 ELSE WordCount(passage)

IrregularGap == input.gap \notin Limits.primary_gap_months_min .. Limits.primary_gap_months_max

-----------------------------------------------------------------------------
(* compute_metrics and assess_similarity                                    *)

Skipped == \E side \in Sides : input.words[side] > Limits.diff_token_threshold

\* Both narratives have words; a bigram takes two, and texts too long are not diffed.
Metrics ==
  LET short == \A side \in Sides : input.words[side] < Limits.jaccard_shingle_size
  IN [input.similar EXCEPT !.jaccard = IF short THEN None ELSE @, !.diff = IF Skipped THEN None ELSE @]

DefinedMetrics == { Metrics[m] : m \in DOMAIN Metrics } \ {None}

SimilarityReasons ==
  LET lengths == { input.words[side] : side \in Sides }
  IN \/ \E m \in DOMAIN Metrics : Metrics[m] = None /\ ~(m = "diff" /\ Skipped)
     \/ Min(lengths) < Limits.min_words_for_review
     \/ Max(lengths) > Limits.max_length_ratio_for_review * Min(lengths)
     \/ \E side \in Sides : input.extraction[side] = "NEEDS_REVIEW"
     \/ input.gap > Limits.max_gap_months_for_review
     \/ Cardinality(DefinedMetrics) >= 2
          /\ Max(DefinedMetrics) - Min(DefinedMetrics) > Limits.metric_disagreement_threshold

DocumentQuality ==
  CASE DefinedMetrics = {} -> "FAILED"
    [] DefinedMetrics # {} /\ SimilarityReasons -> "NEEDS_REVIEW"
    [] OTHER -> IF \E side \in Sides : input.extraction[side] # "GOOD" THEN "USABLE" ELSE "GOOD"

Document ==
  [metrics |-> Metrics, quality |-> DocumentQuality,
   primary_eligible |-> DocumentQuality \in {"GOOD", "USABLE"} /\ ~input.transition,
   status |-> IF DocumentQuality = "GOOD" THEN "COMPLETED" ELSE "COMPLETED_WITH_WARNINGS"]

-----------------------------------------------------------------------------
(* feature_metrics                                                          *)

LowInformation(passage) == WordsOf(passage) < Limits.minimum_feature_passage_words

\* A side that is not there is no reason to leave the row out.
FeatureExcluded(passage) ==
  /\ passage # None
  /\ LowInformation(passage)
  /\ ~Limits.include_low_information_passages
  /\ ~(passage.type = "HEADING_WITH_BODY" /\ Limits.include_heading_only_passages)

RowEligible(row) == ~FeatureExcluded(row.earlier) /\ ~FeatureExcluded(row.later)

\* Whether every side that excludes the row is a heading.
ExclusionKind(row) ==
  IF \A side \in Sides : FeatureExcluded(row[side]) => row[side].type = "HEADING_WITH_BODY"
  THEN "heading_fragment" ELSE "low_information"

\* Mutant: an unmatched row always weighs what the later report has of it.
RowWeightMutant(row) ==
  IF row.status \in {"NEW", "REMOVED", "AMBIGUOUS"} THEN 2 * WordsOf(row.later)
  ELSE WordsOf(row.earlier) + WordsOf(row.later)

\* row_word_weight, twice over: the mean of the two sides of a match, the one
\* side of any other row.
RowWeight(row) ==
  CASE row.status = "NEW" -> 2 * WordsOf(row.later)
    [] row.status = "REMOVED" -> 2 * WordsOf(row.earlier)
    [] row.status = "AMBIGUOUS" -> 2 * (IF row.earlier # None THEN WordsOf(row.earlier) ELSE WordsOf(row.later))
    [] OTHER -> WordsOf(row.earlier) + WordsOf(row.later)

\* The weight of the rows at some places.
TotalWeight(rows, places) ==
  Total([i \in 1 .. Len(rows) |-> IF i \in places THEN RowWeight(rows[i]) ELSE 0])

OfStatus(rows, status) == { i \in DOMAIN rows : rows[i].status = status }

EligibleRows(rows) == { i \in DOMAIN rows : RowEligible(rows[i]) }

\* count_rates and word_rates of the eligible rows.
CountRates(rows) ==
  [status \in AlignmentStatuses |->
     Ratio(Cardinality(OfStatus(rows, status) \cap EligibleRows(rows)), Cardinality(EligibleRows(rows)))]
WordRates(rows) ==
  [status \in AlignmentStatuses |->
     Ratio(TotalWeight(rows, OfStatus(rows, status) \cap EligibleRows(rows)), TotalWeight(rows, EligibleRows(rows)))]

\* The score: the share of each status times its weight, summed.
Score(rows) ==
  LET points(i) == Limits.status_weight[rows[i].status] * RowWeight(rows[i])
  IN Ratio(Total([i \in 1 .. Len(rows) |-> IF i \in EligibleRows(rows) THEN points(i) ELSE 0]),
           100 * TotalWeight(rows, EligibleRows(rows)))

\* The passages of a side in alignment rows.
Covered(rows, side) == { i \in DOMAIN rows : rows[i][side] # None }

CoverageCount ==
  LET covered == Cardinality(Covered(input.rows, "earlier")) + Cardinality(Covered(input.rows, "later"))
  IN Ratio(covered, covered + input.outside.earlier[1] + input.outside.later[1])

CoverageWords ==
  LET words(side) == Total([i \in 1 .. Len(input.rows) |-> WordsOf(input.rows[i][side])])
      covered == words("earlier") + words("later")
  IN Ratio(covered, covered + input.outside.earlier[2] + input.outside.later[2])

EmbeddedCoverage(side) == Ratio(input.embedded[side][1], input.embedded[side][1] + input.embedded[side][2])

ConfidenceShare(confidences) ==
  Ratio(Cardinality({ i \in DOMAIN input.rows : input.rows[i].confidence \in confidences }), Len(input.rows))

Reaches(share, percent) == share # None /\ ~Below(share, percent)

\* A score over too little of the reports is withheld.
DisclosureChangeScore ==
  IF /\ Reaches(CoverageWords, Limits.minimum_alignment_coverage)
     /\ \A side \in Sides : Reaches(EmbeddedCoverage(side), Limits.minimum_embedding_coverage)
  THEN Score(input.rows) ELSE None

-----------------------------------------------------------------------------
(* assess_feature_quality and _run_feature_build                            *)

FeatureReasons ==
  \/ found.document.quality = "NEEDS_REVIEW"
  \/ IrregularGap /\ ~input.transition
  \/ Below(CoverageCount, Limits.minimum_alignment_coverage)
  \/ Below(CoverageWords, Limits.minimum_alignment_coverage)
  \/ \E side \in Sides : Below(EmbeddedCoverage(side), Limits.minimum_embedding_coverage)
  \/ Above(WordRates(input.rows)["AMBIGUOUS"], Limits.ambiguous_word_share_threshold)
  \/ Above(ConfidenceShare({"LOW", "NEEDS_REVIEW"}), Limits.low_confidence_share_threshold)

FeatureQuality ==
  CASE found.document.quality = "FAILED" -> "FAILED"
    [] found.document.quality # "FAILED" /\ FeatureReasons -> "NEEDS_REVIEW"
    [] OTHER -> IF input.alignment = "COMPLETED_WITH_WARNINGS" THEN "USABLE" ELSE "GOOD"

ExcludedRows(kinds) ==
  { i \in DOMAIN input.rows : ~RowEligible(input.rows[i]) /\ ExclusionKind(input.rows[i]) \in kinds }

Features ==
  [quality |-> FeatureQuality,
   score |-> DisclosureChangeScore,
   primary_eligible |-> FeatureQuality \in {"GOOD", "USABLE"} /\ ~input.transition /\ ~IrregularGap
                          /\ DisclosureChangeScore # None,
   raw_counts |-> [status \in AlignmentStatuses |-> Cardinality(OfStatus(input.rows, status))],
   rates |-> CountRates(input.rows), word_rates |-> WordRates(input.rows),
   coverage |-> <<CoverageCount, CoverageWords>>,
   excluded |-> [low_information |-> TotalWeight(input.rows, ExcludedRows({"low_information", "heading_fragment"})),
                 heading_fragment |-> TotalWeight(input.rows, ExcludedRows({"heading_fragment"}))],
   irregular_gap |-> IrregularGap,
   status |-> IF FeatureQuality = "GOOD" THEN "COMPLETED" ELSE "COMPLETED_WITH_WARNINGS"]

ChoosePair == \E x \in MeasuredPairs : Start("paired", x)

ScoreDocuments == Follow("paired", "scored_documents", [document |-> Document])

BuildFeatures == Follow("scored_documents", "featured", [document |-> found.document, features |-> Features])

FeaturesNext == ChoosePair \/ ScoreDocuments \/ BuildFeatures

-----------------------------------------------------------------------------
(* Properties                                                              *)

MirroredStatus == [status \in AlignmentStatuses |->
  CASE status = "NEW" -> "REMOVED" [] status = "REMOVED" -> "NEW" [] OTHER -> status]

Mirrored(rows) ==
  [i \in 1 .. Len(rows) |->
     [earlier |-> rows[i].later, later |-> rows[i].earlier, status |-> MirroredStatus[rows[i].status],
      confidence |-> rows[i].confidence, note |-> rows[i].note]]

\* How much a pair changed does not depend on which report is read first: with
\* the sides exchanged the score is the same share of the same words, and it is
\* zero only when every eligible row is UNCHANGED. A word counted on the wrong
\* side, or a row that weighs nothing, breaks this on uneven pairs only.
ScoreMirrors ==
  stage = "featured" =>
    LET score == Score(input.rows)
        row(i) == input.rows[i]
    IN /\ score = Score(Mirrored(input.rows))
       /\ score # None =>
            (score[1] = 0 <=> \A i \in EligibleRows(input.rows) : row(i).status = "UNCHANGED" \/ RowWeight(row(i)) = 0)
=============================================================================
