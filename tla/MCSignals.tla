----------------------------- MODULE MCSignals -----------------------------
(* Pairs of one to three rows of short passages; the thresholds of words   *)
(* are small enough for them, the shares are the program's.                 *)
EXTENDS Integers, Sequences, FiniteSets, TLC

CONSTANTS going, concern, doubt, realize, boardroom, plain

MCLimits ==
  [diff_token_threshold |-> 100000, jaccard_shingle_size |-> 2, min_words_for_review |-> 200,
   max_length_ratio_for_review |-> 3, max_gap_months_for_review |-> 18, metric_disagreement_threshold |-> 40,
   minimum_feature_passage_words |-> 2, include_low_information_passages |-> FALSE,
   include_heading_only_passages |-> FALSE,
   status_weight |-> "UNCHANGED" :> 0 @@ "LIGHTLY_MODIFIED" :> 25 @@ "SUBSTANTIALLY_MODIFIED" :> 65
                      @@ "NEW" :> 85 @@ "REMOVED" :> 85 @@ "AMBIGUOUS" :> 50,
   minimum_alignment_coverage |-> 80, minimum_embedding_coverage |-> 80, ambiguous_word_share_threshold |-> 15,
   low_confidence_share_threshold |-> 25, primary_gap_months_min |-> 9, primary_gap_months_max |-> 15,
   negation_window |-> 2, false_positive_min_words |-> 4, minimum_primary_narrative_word_coverage |-> 70,
   signal_ambiguous_word_share_threshold |-> 15, dictionary_match_rate_anomalous_threshold |-> 2,
   dictionary_match_rate_borderline_threshold |-> 5, collision_warning_threshold |-> 60,
   collision_needs_review_threshold |-> 85, unmatched_warning_threshold |-> 40]

Word(stem) == <<<<stem, "">>>>
Hyphenated == <<<<going, "">>, <<concern, "">>>>
Realise == <<<<realize, "ise">>>>
But == Word("but")
Not == Word("not")

MCNegators == {Not}
MCConjunctions == {But}
MCTopics == {"financial_condition", "governance"}

TermSpec(term, category) == [term |-> term, category |-> category]

\* A general dictionary and the taxonomy: phrases that begin or end with one another.
MCDictionarySpecs ==
  <<<<TermSpec(<<Word(doubt)>>, "negative"), TermSpec(<<<<<<realize, "ize">>>>>>, "positive")>>,
    <<TermSpec(<<Word(going), Word(concern)>>, "financial_condition"),
      TermSpec(<<Word(concern), Word(doubt)>>, "governance"),
      TermSpec(<<Hyphenated, Word(doubt)>>, "financial_condition"), TermSpec(<<Word(doubt)>>, "financial_condition"),
      TermSpec(<<Word(boardroom)>>, "governance")>>>>

NoMarks ==
  [bridged_groups |-> 0, tight_pairs |-> 0, paired_years |-> 0, vesting |-> 0, series |-> 0, dates |-> 0,
   repeated_phrases |-> 0, register |-> 0, attendance |-> 0, digit_pairs |-> 0, currency_codes |-> 0]

PassageOf(sentences) ==
  [sentences |-> sentences, type |-> "PARAGRAPH", two_char |-> FALSE, fragments |-> 0, contents |-> FALSE,
   caption |-> FALSE, digits |-> 0, punctuated |-> TRUE, marks |-> NoMarks, list_blocks |-> FALSE]

Tokens3 == {Word(going), Word(concern), Word(doubt), Hyphenated, Not, But}
Sentences3 == UNION { [1 .. n -> Tokens3] : n \in 1 .. 3 }

PlainWords(n) == [i \in 1 .. n |-> Word(plain)]

Unmarked(n) == PassageOf(<<PlainWords(n)>>)
Governed(n) == PassageOf(<<<<Word(boardroom)>> \o PlainWords(n)>>)

\* Texts that name a topic more or less often, in more or fewer words.
Topical ==
  {Unmarked(2), Unmarked(5), Governed(1), Governed(5),
   PassageOf(<<<<Word(boardroom), Word(boardroom)>> \o PlainWords(3), <<Not, Word(doubt)>>>>),
   PassageOf(<<<<Word(doubt)>>>>), PassageOf(<<<<Realise, Word(boardroom)>>>>)}

\* Passages of each audit category.
Audited ==
  LET long == <<<<Word(boardroom)>> \o PlainWords(9)>>
      t == PassageOf(long)
  IN {[PassageOf(<<<<Word(boardroom)>>>>) EXCEPT !.type = "HEADING_WITH_BODY", !.two_char = TRUE],
      [t EXCEPT !.type = "HEADING_WITH_BODY", !.two_char = TRUE],
      [t EXCEPT !.type = "HEADING_WITH_BODY", !.two_char = TRUE, !.punctuated = FALSE],
      [t EXCEPT !.type = "HEADING_WITH_BODY", !.two_char = TRUE, !.fragments = 60],
      [t EXCEPT !.fragments = 60], [t EXCEPT !.contents = TRUE], [t EXCEPT !.caption = TRUE],
      [t EXCEPT !.digits = 30], [t EXCEPT !.digits = 16], [t EXCEPT !.digits = 16, !.marks.paired_years = 2],
      [t EXCEPT !.type = "TABLE_CONTEXT", !.marks.currency_codes = 5],
      [t EXCEPT !.type = "TABLE_CONTEXT", !.punctuated = FALSE], [t EXCEPT !.type = "LIST"]}

Aligned(earlier, later, status, confidence, note) ==
  [earlier |-> earlier, later |-> later, status |-> status, confidence |-> confidence, note |-> note]

Added(None, p) == Aligned(None, p, "NEW", "HIGH", "none")
Removed(None, p) == Aligned(p, None, "REMOVED", "HIGH", "none")
Modified(p, q) == Aligned(p, q, "LIGHTLY_MODIFIED", "MEDIUM", "none")

Pair(rows) ==
  [transition |-> FALSE, gap |-> 12, words |-> [earlier |-> 4000, later |-> 5000],
   extraction |-> [earlier |-> "GOOD", later |-> "GOOD"],
   outside |-> [earlier |-> <<0, 0>>, later |-> <<0, 0>>], embedded |-> [earlier |-> <<5, 0>>, later |-> <<9, 1>>],
   similar |-> [cosine |-> 90, jaccard |-> 70, diff |-> 75, edit |-> 80], alignment |-> "COMPLETED", rows |-> rows]

MCMeasuredPairs(None) ==
  LET some == Modified(Governed(3), Governed(2))
      rows ==
        { <<Modified(p, q)>> : <<p, q>> \in Topical \X Topical }
        \cup { <<Modified(p, q), Added(None, r)>> : <<p, q, r>> \in Topical \X Topical \X Topical }
        \cup { <<Removed(None, p), Added(None, q)>> : <<p, q>> \in Topical \X Topical }
        \cup { <<Aligned(p, q, "SUBSTANTIALLY_MODIFIED", "LOW", "contested"), some>> : <<p, q>> \in Audited \X Topical }
        \cup { <<Aligned(p, None, "AMBIGUOUS", "NEEDS_REVIEW", "split"), Aligned(q, q, "UNCHANGED", "HIGH", "none")>> :
                 <<p, q>> \in Audited \X Topical }
      \* The facts about a pair that its quality depends on, one or two at a time.
      base == Pair(<<some, Added(None, Governed(2))>>)
      variants ==
        {base, Pair(<<Modified(Governed(29), Governed(30))>>),
         [base EXCEPT !.outside.later = <<1, 1>>], [base EXCEPT !.transition = TRUE],
         [base EXCEPT !.gap = 20], [base EXCEPT !.gap = 20, !.transition = TRUE],
         [base EXCEPT !.words.earlier = 100], [base EXCEPT !.words.later = 200000], [base EXCEPT !.words.later = 20000],
         [base EXCEPT !.extraction.later = "NEEDS_REVIEW"], [base EXCEPT !.extraction.earlier = "USABLE"],
         [base EXCEPT !.similar.edit = 20], [base EXCEPT !.words = [earlier |-> 1, later |-> 1]],
         [base EXCEPT !.outside.earlier = <<3, 9>>], [base EXCEPT !.embedded.later = <<1, 1>>],
         [base EXCEPT !.embedded.later = <<0, 0>>], [base EXCEPT !.alignment = "COMPLETED_WITH_WARNINGS"]}
  IN { Pair(r) : r \in rows } \cup variants
       \cup { Pair(<<Modified(PassageOf(<<tokens>>), PassageOf(<<PlainWords(2), tokens>>))>>) : tokens \in Sentences3 }
=============================================================================
