------------------------ MODULE PublishedComparisons ------------------------
(***************************************************************************)
(* What a publication says of each report pair: its measures, labelled by  *)
(* where they lie among all pairs; its findings; its place in the history  *)
(* of its company; and the ranked lists that readers discover it by.       *)
(* Measures are in hundredths of the code's unit. A job is one build's     *)
(* pass over the research snapshot, ended by the validation of the rows.   *)
(***************************************************************************)
EXTENDS Integers, Sequences, FiniteSets, FiniteSetsExt, DocumentJobs

CONSTANTS
  Corpora, \* the snapshots a build may find, see below
  TopK     \* the length of a ranked list

\* A snapshot has
\*   reports      for each company, the periods of its VALIDATED reports
\*   comparisons  a sequence, in the order the database returned the pairs, of
\*     [pair, company, earlier, later, feature, language, units, tables]:
\*     feature has the quality, eligible, score (or None), new_words and words;
\*     language is None, or has report_side and alignment_change [quality,
\*     eligible], values by metric (some None), counts, rates and hits by
\*     category, the words of unambiguous rows, and subcategory counts by topic;
\*     units and tables give the response for each one in the company's scope.

Pairs == DOMAIN input.comparisons
CompanyOf(i) == input.comparisons[i].company

Usable(quality) == quality \in {"GOOD", "USABLE"}
Size(v) == IF v < 0 THEN -v ELSE v

-----------------------------------------------------------------------------
(* The catalogue of metrics, and the pairs each is calibrated on            *)

ReportSideMetrics ==
  {"net_tone_change", "uncertainty_intensity_change", "governance_language_change",
   "financial_condition_language_change", "financial_condition_share_change",
   "financial_condition_topic_mix_change", "governance_share_change", "governance_topic_mix_change",
   "financial_condition_topic_change", "governance_topic_change", "uncertainty_topic_change"}
AlignmentChangeMetrics == {"risk_language_introduction", "risk_language_removal"}
FeatureMetrics == {"disclosure_change_score", "new_rate_words"}

MetricCatalog == ReportSideMetrics \union AlignmentChangeMetrics \union FeatureMetrics

\* Comparisons without a single eligible word have no share of new words.
NewRateWords(feature) == IF feature.words > 0 THEN (100 * feature.new_words) \div feature.words ELSE None

\* The gates of _gate_feature, _gate_report_side and _gate_alignment_change.
Gates(c) ==
  [feature |-> Usable(c.feature.quality) /\ c.feature.eligible,
   report_side |-> c.language # None /\ Usable(c.language.report_side.quality) /\ c.language.report_side.eligible,
   alignment_change |-> /\ c.language # None
                        /\ Usable(c.language.alignment_change.quality)
                        /\ c.language.alignment_change.eligible]

ComparisonMetrics(c) ==
  [m \in MetricCatalog |->
     CASE m = "disclosure_change_score" -> c.feature.score
       [] m = "new_rate_words" -> NewRateWords(c.feature)
       [] OTHER -> IF c.language = None THEN None ELSE c.language.values[m]]

\* A pair of too poor a quality to be shown any score.
ScoreDisplayed(feature) == feature.score # None /\ feature.quality # "FAILED"

\* Whether a pair's value of metric m is in the population m is calibrated on.
Calibrates(c, m) ==
  /\ ComparisonMetrics(c)[m] # None
  /\ CASE m = "disclosure_change_score" -> ScoreDisplayed(c.feature)
       [] m = "new_rate_words" -> Gates(c).feature
       [] m \in ReportSideMetrics -> Gates(c).report_side
       [] OTHER -> Gates(c).alignment_change

\* Nothing of poor quality is eligible, and two pairs are two.
ComparisonTyped(c) ==
  /\ c.earlier \in Int /\ c.later \in Int /\ c.earlier < c.later /\ c.pair \in Nat
  /\ \A m \in MetricCatalog : ComparisonMetrics(c)[m] \in Int \cup {None}
  /\ c.feature.eligible => Usable(c.feature.quality)
  /\ c.language # None =>
       \A scope \in {"report_side", "alignment_change"} :
         c.language[scope].eligible => Usable(c.language[scope].quality)

ASSUME CorporaTyped ==
  \A x \in Corpora :
    /\ Len(x.comparisons) \in Nat /\ DOMAIN x.comparisons = 1 .. Len(x.comparisons)
    /\ \A i \in DOMAIN x.comparisons : ComparisonTyped(x.comparisons[i])
    /\ \A i, j \in DOMAIN x.comparisons : x.comparisons[i].pair = x.comparisons[j].pair => i = j

ASSUME TopKTyped == TopK \in Nat

Population(m) == { i \in Pairs : Calibrates(input.comparisons[i], m) }
MagnitudeOf(i, m) == Size(ComparisonMetrics(input.comparisons[i])[m])

-----------------------------------------------------------------------------
(* Percentile bands and labels                                              *)

\* The k-th smallest magnitude, from zero.
Smallest(m, k) ==
  CHOOSE v \in { MagnitudeOf(i, m) : i \in Population(m) } :
    /\ Cardinality({ i \in Population(m) : MagnitudeOf(i, m) < v }) <= k
    /\ k < Cardinality({ i \in Population(m) : MagnitudeOf(i, m) <= v })

\* The p-th of the hundred inclusive quantiles, times a hundred.
Quantile(m, p) ==
  LET last == Cardinality(Population(m)) - 1
      j == (p * last) \div 100
      rest == (p * last) % 100
  IN IF last = 0 THEN 100 * Smallest(m, 0)
     ELSE Smallest(m, j) * (100 - rest) + (IF rest = 0 THEN 0 ELSE Smallest(m, j + 1) * rest)

BandNames == <<"Minimal", "Moderate", "Notable", "Substantial">>

\* The cuts are entries 49, 78 and 93 of a list that begins with the first percentile.
Cuts(m) == <<Quantile(m, 50), Quantile(m, 79), Quantile(m, 94)>>

\* No band at all without a population; the last has no upper end.
PercentileBands(m) ==
  IF Population(m) = {} THEN <<>>
  ELSE [b \in 1 .. 4 |-> [metric |-> m, order |-> b - 1, label |-> BandNames[b],
                          minimum |-> IF b = 1 THEN 0 ELSE Cuts(m)[b - 1],
                          maximum |-> IF b = 4 THEN None ELSE Cuts(m)[b]]]

\* The first band a magnitude lies in, both ends included.
BandOf(magnitude, bands) ==
  LET within == { b \in DOMAIN bands :
                    /\ bands[b].minimum <= 100 * magnitude
                    /\ bands[b].maximum = None \/ 100 * magnitude <= bands[b].maximum }
  IN bands[IF within = {} THEN 4 ELSE Min(within)].label

Direction(value) == CASE value > 0 -> "increase" [] value < 0 -> "decrease" [] OTHER -> "No change"

SignedLabel(value, bands) ==
  IF value = None \/ bands = <<>> THEN None
  ELSE IF value = 0 THEN <<"No change">> ELSE <<BandOf(Size(value), bands), Direction(value)>>

UnsignedLabel(value, bands) ==
  IF value = None \/ bands = <<>> THEN None ELSE <<BandOf(Size(value), bands), "change">>

\* How many of the population are no larger, of how many.
PercentileRank(value, m) ==
  IF value = None \/ Population(m) = {} THEN None
  ELSE <<Cardinality({ i \in Population(m) : MagnitudeOf(i, m) <= Size(value) }), Cardinality(Population(m))>>

QualityLabel(quality) ==
  CASE quality = "GOOD" -> "Analysis ready" [] quality = "USABLE" -> "Ready with caution"
    [] quality = "NEEDS_REVIEW" -> "Review recommended" [] quality = "FAILED" -> "Unavailable"

AttributionLabel(quality) ==
  CASE quality = "GOOD" -> "Strong attribution" [] quality = "USABLE" -> "Usable attribution"
    [] quality = "NEEDS_REVIEW" -> "Attribution uncertain" [] quality = "FAILED" -> "Attribution unavailable"

-----------------------------------------------------------------------------
(* Findings                                                                 *)

Candidates ==
  <<[key |-> "largest_uncertainty_increase", metric |-> "uncertainty_topic_change", epsilon |-> 75, sign |-> {1}],
    [key |-> "largest_negative_tone_shift", metric |-> "net_tone_change", epsilon |-> 225, sign |-> {-1}],
    [key |-> "largest_governance_shift", metric |-> "governance_topic_change", epsilon |-> 25, sign |-> {1, -1, 0}],
    [key |-> "largest_financial_condition_shift", metric |-> "financial_condition_topic_change", epsilon |-> 25,
     sign |-> {1, -1, 0}]>>

DisabledCandidates ==
  {"largest_overall_change", "largest_new_disclosure_share", "largest_risk_introduction", "largest_risk_removal"}

ASSUME NoneIsEnabled == None \notin DisabledCandidates

SignOf(v) == CASE v > 0 -> 1 [] v < 0 -> -1 [] OTHER -> 0

\* The candidates, by index, that pair c is a finding of.
EligibleCandidates(c) ==
  { k \in DOMAIN Candidates :
      LET value == ComparisonMetrics(c)[Candidates[k].metric]
      IN /\ Gates(c).report_side
         /\ value # None
         /\ SignOf(value) \in Candidates[k].sign
         /\ Size(value) >= Candidates[k].epsilon }

FindingValue(c, k) == ComparisonMetrics(c)[Candidates[k].metric]

\* Magnitudes are in multiples of each candidate's threshold.
Outweighs(c, k, l) ==
  LET left == Size(FindingValue(c, k)) * Candidates[l].epsilon
      right == Size(FindingValue(c, l)) * Candidates[k].epsilon
  IN left > right \/ (left = right /\ k < l)

\* The finding at place n of three, None when there are fewer.
SelectFinding(c, n) ==
  LET places == { k \in EligibleCandidates(c) :
                    Cardinality({ l \in EligibleCandidates(c) : l # k /\ Outweighs(c, l, k) }) = n - 1 }
  IN IF places = {} THEN None ELSE Candidates[CHOOSE k \in places : TRUE].key

-----------------------------------------------------------------------------
(* The rows of a build                                                      *)

PublishedReports ==
  UNION { { [company |-> company, period |-> period,
             chronological_index |-> Cardinality({ p \in input.reports[company] : p < period })]
            : period \in input.reports[company] } : company \in DOMAIN input.reports }

\* A company is published with its reports alone.
PublishedCompanies ==
  [company \in { c \in DOMAIN input.reports : input.reports[c] # {} } |->
     [first |-> Min(input.reports[company]), last |-> Max(input.reports[company]),
      report_count |-> Cardinality(input.reports[company]), comparison_count |-> 0, latest |-> None, peak |-> None]]

SignedLabels ==
  {"net_tone_change", "uncertainty_intensity_change", "risk_language_introduction", "risk_language_removal",
   "governance_language_change", "governance_share_change", "financial_condition_language_change",
   "financial_condition_share_change"}

\* Every figure is shown whatever its quality, except the score.
ComparisonRow(i, bands) ==
  LET c == input.comparisons[i]
      shown == IF ScoreDisplayed(c.feature) THEN c.feature.score ELSE None
      values == ComparisonMetrics(c)
      side(scope, label(_)) ==
        IF c.language = None THEN None
        ELSE [quality |-> c.language[scope].quality, eligible |-> c.language[scope].eligible,
              label |-> label(c.language[scope].quality)]
  IN [pair |-> c.pair, company |-> c.company, earlier |-> c.earlier, later |-> c.later,
      chronological_index |-> 0, is_latest |-> FALSE, is_peak |-> FALSE,
      feature |-> [quality |-> c.feature.quality, eligible |-> c.feature.eligible,
                   label |-> QualityLabel(c.feature.quality)],
      score |-> shown, score_label |-> UnsignedLabel(shown, bands["disclosure_change_score"]),
      score_percentile |-> PercentileRank(shown, "disclosure_change_score"),
      values |-> [m \in MetricCatalog \ FeatureMetrics |-> values[m]],
      labels |-> [m \in SignedLabels |-> SignedLabel(values[m], bands[m])],
      report_side |-> side("report_side", QualityLabel),
      alignment_change |-> side("alignment_change", AttributionLabel),
      finding_keys |-> [n \in 1 .. 3 |-> SelectFinding(c, n)],
      finding_payload |-> { [key |-> Candidates[k].key, value |-> FindingValue(c, k)] : k \in EligibleCandidates(c) },
      score_available |-> c.feature.score # None]

\* A pair whose reports are not both published is left out.
ReportPublished(company, period) == \E r \in PublishedReports : r.company = company /\ r.period = period

Published ==
  { i \in Pairs : LET c == input.comparisons[i]
                  IN ReportPublished(c.company, c.earlier) /\ ReportPublished(c.company, c.later) }

\* The unit and table comparisons of a row: those in scope that were not answered from the old pipeline.
NarrativeRows(c) == { [pair |-> c.pair, unit |-> u, response |-> c.units[u]] : u \in { v \in DOMAIN c.units : c.units[v] # "legacy" } }
TableRows(c) == { [pair |-> c.pair, table |-> t, response |-> c.tables[t]] : t \in { v \in DOMAIN c.tables : c.tables[v] # "legacy" } }

\* The bands of every metric are cut once, from all pairs.
BuildComparisons ==
  /\ stage = "snapshot"
  /\ LET bands == [m \in MetricCatalog |-> PercentileBands(m)]
     IN Follow("snapshot", "built_rows",
         [reports |-> PublishedReports, companies |-> PublishedCompanies,
          thresholds |-> UNION { { bands[m][b] : b \in DOMAIN bands[m] } : m \in MetricCatalog },
          comparisons |-> [i \in Published |-> ComparisonRow(i, bands)],
          units |-> UNION { NarrativeRows(input.comparisons[i]) : i \in Published },
          tables |-> UNION { TableRows(input.comparisons[i]) : i \in Published },
          language |-> {}, discovery |-> {}, failures |-> {}])

-----------------------------------------------------------------------------
(* The history of a company                                                 *)

\* Sorted by the later report alone; pairs that share it stay in the database's order.
Before(i, j) ==
  \/ input.comparisons[i].later < input.comparisons[j].later
  \/ input.comparisons[i].later = input.comparisons[j].later /\ i < j

History(i) == { j \in Published : CompanyOf(j) = CompanyOf(i) }

\* Mutant: the place among the periods, which pairs with the same later report share.
ChronologicalIndexMutant(i) ==
  Cardinality({ j \in History(i) : input.comparisons[j].later < input.comparisons[i].later })

ChronologicalIndex(i) == Cardinality({ j \in History(i) : Before(j, i) })

IsLatest(i) == \A j \in History(i) : j = i \/ Before(j, i)

PeakCandidate(i) ==
  LET c == input.comparisons[i] IN Gates(c).feature /\ c.feature.score # None

\* The greatest score; among equals the later report, then the first in the history.
IsPeak(i) ==
  /\ PeakCandidate(i)
  /\ \A j \in { k \in History(i) : PeakCandidate(k) } \ {i} :
       LET mine == input.comparisons[i]
           other == input.comparisons[j]
       IN \/ mine.feature.score > other.feature.score
          \/ mine.feature.score = other.feature.score
               /\ (mine.later > other.later \/ (mine.later = other.later /\ i < j))

OfCompany(company, test(_)) ==
  LET chosen == { i \in Published : CompanyOf(i) = company /\ test(i) }
  IN IF chosen = {} THEN None ELSE input.comparisons[CHOOSE i \in chosen : TRUE].pair

\* Companies without a comparison keep the counts they were built with.
AssignChronology ==
  Follow("built_rows", "chronicled",
         [found EXCEPT
            !.comparisons = [i \in Published |->
               [@[i] EXCEPT !.chronological_index = ChronologicalIndex(i), !.is_latest = IsLatest(i), !.is_peak = IsPeak(i)]],
            !.companies = [company \in DOMAIN @ |->
               [@[company] EXCEPT !.comparison_count = Cardinality({ i \in Published : CompanyOf(i) = company }),
                                  !.latest = OfCompany(company, IsLatest), !.peak = OfCompany(company, IsPeak)]]])

-----------------------------------------------------------------------------
(* Language metrics                                                         *)

MetricRow(c, scope, category) ==
  [pair |-> c.pair, scope |-> scope, population |-> "primary_narrative", category |-> category, subcategory |-> None,
   figures |-> None, side |-> IF scope = "report_side" THEN c.language.report_side ELSE c.language.alignment_change]

CoreRows(c) ==
  { [MetricRow(c, "report_side", category) EXCEPT !.figures = c.language.counts[category]]
    : category \in DOMAIN c.language.counts }

\* Introduced and removed hits, with their rates among the words of unambiguous rows.
AlignmentRows(c) ==
  LET words == c.language.unambiguous_words
  IN { [MetricRow(c, "alignment_change", category) EXCEPT
          !.population = "primary_narrative_excl_ambiguous",
          !.figures = [hits |-> c.language.hits[category], words |-> IF words = 0 THEN None ELSE words]]
       : category \in DOMAIN c.language.hits }

TaxonomyRows(c) ==
  { LET r == c.language.rates[category]
    IN [MetricRow(c, "report_side", category) EXCEPT
          !.population = "custom_taxonomy",
          !.figures = [earlier |-> r[1], later |-> r[2], change |-> IF None \in {r[1], r[2]} THEN None ELSE r[2] - r[1]]]
    : category \in DOMAIN c.language.rates }

SubcategoryRows(c, topic, movers) ==
  { [MetricRow(c, "report_side", topic) EXCEPT
       !.population = <<topic, "subcategory">>, !.subcategory = s, !.figures = c.language.subcategories[topic][s]]
    : s \in movers }

\* Sets of three subcategories that moved most; which of equal movers are taken is
\* up to the order a set of strings is walked in, and differs from process to process.
FinancialMovers(c) ==
  LET counts == c.language.subcategories["financial_condition"]
      move == [s \in DOMAIN counts |-> Size(counts[s][2] - counts[s][1])]
      size == Min({3, Cardinality(DOMAIN counts)})
  IN { movers \in kSubset(size, DOMAIN counts) : \A s \in movers : \A t \in DOMAIN counts \ movers : move[s] >= move[t] }

LanguageRows(c, movers) ==
  CoreRows(c) \union AlignmentRows(c) \union TaxonomyRows(c)
    \union SubcategoryRows(c, "financial_condition", movers)
    \union SubcategoryRows(c, "governance", DOMAIN c.language.subcategories["governance"])

WithLanguage == { i \in Published : input.comparisons[i].language # None }

BuildLanguageMetrics ==
  /\ stage = "chronicled"
  /\ \E movers \in [WithLanguage -> UNION { FinancialMovers(input.comparisons[i]) : i \in WithLanguage }] :
       /\ \A i \in WithLanguage : movers[i] \in FinancialMovers(input.comparisons[i])
       /\ Follow("chronicled", "measured",
                 [found EXCEPT !.language = UNION { LanguageRows(input.comparisons[i], movers[i]) : i \in WithLanguage }])

-----------------------------------------------------------------------------
(* Discovery                                                                *)

RankScopes == {"corpus", "company_history", "latest_comparisons"}

\* Mutant: the discovery's own copy of the findings' conditions leaves the direction out.
DiscoverableMutant(k) ==
  { i \in Published :
      LET value == FindingValue(input.comparisons[i], k)
      IN Gates(input.comparisons[i]).report_side /\ value # None /\ Size(value) >= Candidates[k].epsilon }

\* The pairs candidate k is ranked over: the discovery's own copy of the findings' conditions.
Discoverable(k) ==
  { i \in Published :
      LET value == FindingValue(input.comparisons[i], k)
      IN /\ Gates(input.comparisons[i]).report_side
         /\ value # None
         /\ SignOf(value) \in Candidates[k].sign
         /\ Size(value) >= Candidates[k].epsilon }

\* The pools of a scope: everything, the latest pairs, or one for each company.
Pools(scope, k) ==
  CASE scope = "corpus" -> {Discoverable(k)}
    [] scope = "latest_comparisons" -> {{ i \in Discoverable(k) : found.comparisons[i].is_latest }}
    [] scope = "company_history" -> { { j \in Discoverable(k) : CompanyOf(j) = CompanyOf(i) } : i \in Discoverable(k) }

\* Ties go by the identity of the published row, here the pair's number.
RankIn(pool, k, i) ==
  LET weight(j) == Size(FindingValue(input.comparisons[j], k))
  IN 1 + Cardinality({ j \in pool : \/ weight(j) > weight(i)
                                    \/ weight(j) = weight(i) /\ input.comparisons[j].pair < input.comparisons[i].pair })

\* A list ends at TopK; the percentile is the place in the whole pool.
Ranked(scope, k, pool) ==
  { [type |-> Candidates[k].key, scope |-> scope, pair |-> input.comparisons[i].pair, company |-> CompanyOf(i),
     rank |-> RankIn(pool, k, i), percentile |-> <<Cardinality(pool) - RankIn(pool, k, i) + 1, Cardinality(pool)>>,
     metric |-> Candidates[k].metric, value |-> FindingValue(input.comparisons[i], k),
     quality |-> found.comparisons[i].report_side.label]
    : i \in { j \in pool : RankIn(pool, k, j) <= TopK } }

DiscoveryItems ==
  UNION { UNION { UNION { Ranked(scope, k, pool) : pool \in Pools(scope, k) } : scope \in RankScopes }
          : k \in DOMAIN Candidates }

RankDiscovery == Follow("measured", "discovered", [found EXCEPT !.discovery = DiscoveryItems])

-----------------------------------------------------------------------------
(* The checks of validate_persisted on these rows                           *)

RowsOf(company) == { i \in DOMAIN found.comparisons : found.comparisons[i].company = company }

\* The items of one list.
ListOf(item) ==
  { other \in found.discovery :
      other.type = item.type /\ other.scope = item.scope /\ (item.scope = "company_history" => other.company = item.company) }

Contiguous(numbers, first, size) == numbers = first .. first + size - 1

RowFailures(row) ==
  LET check(name, holds) == IF holds THEN {} ELSE {name}
      of(period) == { r \in found.reports : r.company = row.company /\ r.period = period }
  IN UNION {
       check("comparison_reports_exist", of(row.earlier) # {} /\ of(row.later) # {}),
       check("comparison_period_order", row.earlier < row.later),
       check("report_side_primary_eligible_implies_ok_quality",
             row.report_side # None => (row.report_side.eligible => Usable(row.report_side.quality))),
       check("alignment_change_primary_eligible_implies_ok_quality",
             row.alignment_change # None => (row.alignment_change.eligible => Usable(row.alignment_change.quality))),
       check("disclosure_change_failed_quality_implies_no_displayed_score",
             row.feature.quality = "FAILED" => row.score = None),
       check("disclosure_change_primary_eligible_implies_ok_quality",
             row.feature.eligible => Usable(row.feature.quality)),
       check("disabled_discovery_type_not_a_finding",
             \A n \in 1 .. 3 : row.finding_keys[n] \notin DisabledCandidates) }

CompanyFailures(company) ==
  LET check(name, holds) == IF holds THEN {} ELSE {name}
      rows == RowsOf(company)
  IN UNION {
       check("company_has_report", \E r \in found.reports : r.company = company),
       check("chronological_index_contiguous",
             Contiguous({ found.comparisons[i].chronological_index : i \in rows }, 0, Cardinality(rows))),
       check("exactly_one_latest_per_company",
             rows # {} => Cardinality({ i \in rows : found.comparisons[i].is_latest }) = 1) }

ListFailures(item) ==
  LET check(name, holds) == IF holds THEN {} ELSE {name}
  IN UNION {
       check("discovery_rank_contiguous",
             Contiguous({ other.rank : other \in ListOf(item) }, 1, Cardinality(ListOf(item)))),
       check("metric_definition_exists_for_discovery", item.metric \in MetricCatalog),
       check("disabled_discovery_type_not_ranked", item.type \notin DisabledCandidates) }

ValidateComparisons ==
  Follow("discovered", "validated",
         [found EXCEPT !.failures = UNION { RowFailures(found.comparisons[i]) : i \in DOMAIN found.comparisons }
                           \union UNION { CompanyFailures(company) : company \in DOMAIN found.companies }
                           \union UNION { ListFailures(item) : item \in found.discovery }])

ChooseCorpus == \E corpus \in Corpora : Start("snapshot", corpus)

PublishedNext ==
  \/ ChooseCorpus
  \/ BuildComparisons
  \/ AssignChronology
  \/ BuildLanguageMetrics
  \/ RankDiscovery
  \/ ValidateComparisons

PublishedSpec == Idle /\ [][PublishedNext]_vars

-----------------------------------------------------------------------------
(* Properties                                                               *)

\* A build does not fail its own validation over the comparison rows: for every
\* snapshot, with pairs that skip a report, transitions, poor qualities and no
\* language run, each check on comparisons, histories and ranked lists passes.
\* A history numbered across companies, or a list cut before it is ranked, fails
\* every build of a corpus that has the wrong shape.
BuiltComparisonsValidate == stage = "validated" => found.failures = {}

\* Discovery and the comparison pages tell the same story, though each decides
\* for itself what is a finding: a ranked pair has that finding, with that value,
\* and a finding is missing from a list it belongs in only when the list is full
\* of pairs that changed at least as much.
DiscoveryMatchesFindings ==
  stage = "validated" =>
    LET row(i) == found.comparisons[i]
        has(i, item) == \E f \in row(i).finding_payload : f.key = item.type /\ f.value = item.value
        listed(f, i, scope) == \E item \in found.discovery : item.type = f.key /\ item.scope = scope /\ item.pair = row(i).pair
        fuller(f, i, scope) ==
          { item \in found.discovery :
              /\ item.type = f.key /\ item.scope = scope
              /\ scope = "company_history" => item.company = row(i).company
              /\ Size(item.value) >= Size(f.value) }
    IN /\ \A item \in found.discovery :
            \E i \in DOMAIN found.comparisons :
              /\ row(i).pair = item.pair /\ has(i, item)
              /\ item.scope = "latest_comparisons" => \A j \in RowsOf(item.company) : row(j).later <= row(i).later
       /\ \A i \in DOMAIN found.comparisons : \A f \in row(i).finding_payload : \A scope \in RankScopes :
            \/ listed(f, i, scope)
            \/ Cardinality(fuller(f, i, scope)) >= TopK
            \/ scope = "latest_comparisons" /\ ~row(i).is_latest

=============================================================================
