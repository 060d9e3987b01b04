------------------------------ MODULE MCReviews ------------------------------
(* Four passages of two companies' reports, the first of them in two        *)
(* comparisons and its text repeated by the other company; questions of     *)
(* every type and scope, three retrievals and four gate strategies.         *)
EXTENDS Integers, Sequences, TLC

MCReviewConfig ==
  [rrfK |-> 60, floor |-> 71, strong_rank |-> 2, max_evidence |-> 3, min_topic_coverage |-> 50, min_margin |-> 2,
   max_redundancy |-> 30]

MCShipped ==
  [body_match |-> TRUE, generic_penalty |-> TRUE, type_conditions |-> TRUE, floor |-> 35, drives_ranking |-> FALSE,
   strict_partial |-> FALSE, safeguards |-> FALSE]
MCStrict == [MCShipped EXCEPT !.drives_ranking = TRUE, !.strict_partial = TRUE]

MCPresets ==
  [query_type_gate_generic_penalty |-> MCShipped,
   weighted_gate |-> [MCShipped EXCEPT !.body_match = FALSE, !.generic_penalty = FALSE, !.type_conditions = FALSE],
   full_gate_strict_partial |-> MCStrict,
   full_gate_restatement_safeguards |-> [MCStrict EXCEPT !.safeguards = TRUE]]

\* Questions, each a change to the plain one about growth.
MCClause(families) == [families |-> families, long |-> TRUE]
MCAboutGrowth ==
  [asks |-> {}, tickers |-> {"KUWA"}, years |-> {}, directions |-> {}, sides |-> {}, categories |-> {},
   subcategories |-> {}, statuses |-> {}, restates |-> FALSE, elements |-> <<MCClause({"growth"})>>]

MCQuestions ==
  {MCAboutGrowth, [MCAboutGrowth EXCEPT !.elements = <<MCClause({})>>],
   [MCAboutGrowth EXCEPT !.elements = <<MCClause({"growth"}), MCClause({"board"})>>],
   [MCAboutGrowth EXCEPT !.elements = <<MCClause({"growth"}), MCClause({})>>],
   [MCAboutGrowth EXCEPT !.asks = {"how_much"}], [MCAboutGrowth EXCEPT !.asks = {"why", "exists"}], [MCAboutGrowth EXCEPT !.asks = {"exists"}],
   [MCAboutGrowth EXCEPT !.directions = {"increased"}], [MCAboutGrowth EXCEPT !.directions = {"added"}, !.statuses = {"NEW"}],
   [MCAboutGrowth EXCEPT !.asks = {"compare"}], [MCAboutGrowth EXCEPT !.sides = {"EARLIER", "LATER"}],
   [MCAboutGrowth EXCEPT !.sides = {"EARLIER"}], [MCAboutGrowth EXCEPT !.sides = {"LATER"}, !.years = {2023}],
   [MCAboutGrowth EXCEPT !.years = {2023, 2024}], [MCAboutGrowth EXCEPT !.restates = TRUE],
   [MCAboutGrowth EXCEPT !.categories = {"strategy"}], [MCAboutGrowth EXCEPT !.subcategories = {"debt"}],
   [MCAboutGrowth EXCEPT !.tickers = {}], [MCAboutGrowth EXCEPT !.tickers = {}, !.asks = {"why"}],
   [MCAboutGrowth EXCEPT !.tickers = {}, !.directions = {"increased"}],
   [MCAboutGrowth EXCEPT !.tickers = {}, !.sides = {"LATER"}, !.elements = <<MCClause({"pensions"})>>],
   [MCAboutGrowth EXCEPT !.tickers = {"KUWA", "ZEDA"}, !.asks = {"compare"}]}

\* What the second passage may be; the others are fixed.
MCPassage(company, report, period, text) ==
  [company |-> company, report |-> report, period |-> period, page |-> 3, text |-> text, body |-> {"growth"},
   heading |-> {}, terms |-> 60, number |-> TRUE, because |-> FALSE, link |-> FALSE, restates |-> FALSE, bare |-> FALSE,
   factor |-> 100]

MCSecondPassages ==
  LET base == MCPassage("KUWA", 2, 2024, "b")
  IN {[base EXCEPT !.because = TRUE], [base EXCEPT !.body = {}, !.heading = {"growth"}, !.number = FALSE],
      [base EXCEPT !.body = {"board"}, !.factor = 50], [base EXCEPT !.restates = TRUE, !.link = TRUE],
      [base EXCEPT !.bare = TRUE, !.terms = 90], [base EXCEPT !.text = "a", !.because = TRUE], [base EXCEPT !.page = 9, !.bare = TRUE]}

MCPassagesWith(second) ==
  <<[MCPassage("KUWA", 1, 2023, "a") EXCEPT !.because = TRUE], second, MCPassage("ZEDA", 3, 2024, "a"),
    [MCPassage("KUWA", 2, 2024, "d") EXCEPT !.page = 4, !.body = {}, !.terms = 30, !.factor = 60]>>

\* The first passage is the later side of one comparison and the earlier side of
\* the next; its contexts' ids come in either order when a side is asked for.
MCContexts(None, flip) ==
  LET At(id, passage, side, status, categories, subcategories) ==
        [id |-> id, passage |-> passage, side |-> side, status |-> status, categories |-> categories,
         subcategories |-> subcategories]
  IN <<At(IF flip THEN 2 ELSE 1, 1, "EARLIER", "REMOVED", {"strategy"}, {}),
       At(IF flip THEN 1 ELSE 2, 1, "LATER", "LIGHTLY_MODIFIED", {"strategy"}, {}),
       At(3, 2, "LATER", "NEW", {"strategy", "risk"}, {"debt"}), At(4, 3, "LATER", "NEW", {}, {}),
       At(5, 4, None, None, {}, {})>>

MCSearches ==
  {[method |-> "quality_aware", keyword |-> <<1, 2>>, similar |-> <<<<1, 80>>, <<2, 75>>, <<3, 65>>, <<4, 60>>>>],
   [method |-> "baseline", keyword |-> <<3>>, similar |-> <<<<4, 73>>, <<2, 72>>, <<1, 60>>>>],
   [method |-> "concept_coverage", keyword |-> <<3, 4, 2, 1>>, similar |-> <<>>]}

MCAskedReviews(None) ==
  LET asked == [question : MCQuestions, second : MCSecondPassages, flip : BOOLEAN, search : MCSearches, preset : DOMAIN MCPresets]
  IN { a.search @@ [question |-> a.question, passages |-> MCPassagesWith(a.second), contexts |-> MCContexts(None, a.flip),
                    preset |-> a.preset]
         : a \in { x \in asked : x.flip => x.question.sides # {} } }
=============================================================================
