----------------------------- MODULE MCPublished -----------------------------
(* Two companies; the first has three reports, and a pair that skips the   *)
(* second of them, left from before it was validated. And one corpus with  *)
(* twenty-five companies of one pair each, for the percentiles.             *)
EXTENDS Integers, Sequences, TLC

CONSTANTS Absent, \* the None of the module it gives inputs to
  kuwa, zeda

MCTopK == 2

Side(quality, eligible) == [quality |-> quality, eligible |-> eligible]
MCFeature(quality, eligible, score) ==
  [quality |-> quality, eligible |-> eligible, score |-> score, new_words |-> 20, words |-> IF score = Absent THEN 0 ELSE 100]

MCValues(uncertainty, tone, governance, condition) ==
  [net_tone_change |-> tone, uncertainty_intensity_change |-> uncertainty, governance_language_change |-> governance,
   financial_condition_language_change |-> condition, financial_condition_share_change |-> Absent,
   financial_condition_topic_mix_change |-> 10, governance_share_change |-> governance,
   governance_topic_mix_change |-> Absent, financial_condition_topic_change |-> condition,
   governance_topic_change |-> governance, uncertainty_topic_change |-> uncertainty,
   risk_language_introduction |-> 40, risk_language_removal |-> Absent]

Language(report_side, alignment_change, values, words) ==
  [report_side |-> report_side, alignment_change |-> alignment_change, values |-> values,
   counts |-> [positive |-> <<4, 3>>], rates |-> [risk |-> <<10, 30>>, strategy |-> <<Absent, 5>>],
   hits |-> [positive |-> <<1, 0>>], unambiguous_words |-> words,
   subcategories |-> [financial_condition |-> [debt |-> <<1, 3>>, revenue |-> <<2, 1>>, cash |-> <<0, 1>>, tax |-> <<5, 5>>],
                      governance |-> [board |-> <<1, 2>>, audit |-> <<0, 0>>]]]

Good == Side("GOOD", TRUE)
Fair == Side("USABLE", TRUE)
Poor == Side("NEEDS_REVIEW", FALSE)

\* What a pair may have been measured to be: a feature row and a language row.
Profiles ==
  {<<MCFeature("GOOD", TRUE, 60), Language(Good, Fair, MCValues(80, -300, 30, -25), 100)>>,
   <<MCFeature("USABLE", TRUE, 60), Language(Fair, Poor, MCValues(-90, 300, -30, 60), 0)>>,
   <<MCFeature("NEEDS_REVIEW", FALSE, 70), Language(Poor, Good, MCValues(150, -400, 30, 0), 100)>>,
   <<MCFeature("FAILED", FALSE, 30), Absent>>,
   <<MCFeature("NEEDS_REVIEW", FALSE, Absent), Language(Good, Good, MCValues(Absent, -225, 24, 30), 100)>>}

MCComparison(pair, company, earlier, later, profile) ==
  [pair |-> pair, company |-> company, earlier |-> earlier, later |-> later,
   feature |-> profile[1], language |-> profile[2],
   units |-> IF company = kuwa THEN [remuneration |-> IF pair = 2 THEN "legacy" ELSE "COMPARED"] ELSE <<>>,
   tables |-> IF company = kuwa THEN [fees |-> "COMPARED"] ELSE <<>>]

\* The pairs in two of the orders a database may return them in.
MCOrders ==
  {<<<<3, kuwa, 1, 3>>, <<1, kuwa, 1, 2>>, <<2, kuwa, 2, 3>>, <<4, zeda, 1, 2>>>>,
   <<<<4, zeda, 1, 2>>, <<2, kuwa, 2, 3>>, <<1, kuwa, 1, 2>>, <<3, kuwa, 1, 3>>>>}

\* The second company's pair has three subcategories that moved alike, for two places.
MCTied ==
  <<MCFeature("GOOD", TRUE, 60),
    [Language(Good, Good, MCValues(150, -300, -30, 25), 50) EXCEPT
       !.subcategories.financial_condition = [debt |-> <<1, 3>>, revenue |-> <<2, 1>>, cash |-> <<0, 1>>, tax |-> <<5, 6>>]]>>

MCSmallCorpora ==
  { [reports |-> kuwa :> {1, 2, 3} @@ zeda :> {1, 2},
     comparisons |-> [i \in 1 .. 4 |->
       MCComparison(order[i][1], order[i][2], order[i][3], order[i][4],
                    IF order[i][2] = zeda THEN MCTied ELSE profiles[order[i][1]])]]
    : order \in MCOrders, profiles \in [1 .. 3 -> Profiles] }

MCLargeCorpus ==
  [reports |-> [company \in 1 .. 25 |-> {1, 2}],
   comparisons |-> [i \in 1 .. 25 |->
     [pair |-> i, company |-> i, earlier |-> 1, later |-> 2, feature |-> MCFeature("GOOD", TRUE, 4 * i),
      language |-> [Language(Good, Good, MCValues(10 * i, -10 * i, 5 * i, Absent), 100)
                      EXCEPT !.subcategories.financial_condition = [debt |-> <<1, 3>>]],
      units |-> <<>>, tables |-> <<>>]]]

MCCorpora == MCSmallCorpora \union {MCLargeCorpus}
=============================================================================
