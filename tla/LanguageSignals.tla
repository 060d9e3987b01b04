--------------------------- MODULE LanguageSignals ---------------------------
(***************************************************************************)
(* The financial-language signals of a measured pair: dictionary import,   *)
(* the audit category of each passage, phrase matching with negation,      *)
(* the counts of each report side, the topic changes and their quality.    *)
(*                                                                         *)
(* A word is <<stem, ending>>; a token is the sequence of words a hyphen    *)
(* joins, most often of one; a sentence is a sequence of tokens.           *)
(***************************************************************************)
EXTENDS PairFeatures, Functions

CONSTANTS
  DictionarySpecs, \* the term specifications of each dictionary file, in file order
  Negators,        \* the tokens that open a negation
  Conjunctions,    \* the tokens that close its scope
  Topics           \* the categories with a topic-change measure

-----------------------------------------------------------------------------
(* Dictionary import                                                        *)

PluralEnding(ending) ==
  CASE ending = "y" -> "ies"
    [] ending = "ch" -> "ches"
    [] ending = "" -> "s"
    [] OTHER -> ending \o "s"

\* spelling_variants looks at the end of the word only.
SpellingVariants(word) ==
  CASE word[2] = "ize" -> {<<word[1], "ise">>}
    [] word[2] = "ization" -> {<<word[1], "isation">>}
    [] word[2] = "yze" -> {<<word[1], "yse">>}
    [] OTHER -> {}

\* expand_inflections_and_spellings: of a single unhyphenated word only.
Forms(term) ==
  IF Len(term) > 1 \/ Len(term[1]) > 1 THEN {term}
  ELSE LET word == term[1][1]
           variants == {<<word[1], PluralEnding(word[2])>>} \cup SpellingVariants(word)
       IN { <<<<w>>>> : w \in {word} \cup variants \cup UNION { SpellingVariants(v) : v \in variants } }

\* _insert_terms: the first specification of a form in a category is kept.
TermRecords(d, key) ==
  LET specs == DictionarySpecs[d]
      yields(i) == key \in Forms(specs[i].term)
  IN { <<d, i>> : i \in { j \in DOMAIN specs :
         yields(j) /\ \A k \in 1 .. j - 1 : ~(specs[k].category = specs[j].category /\ yields(k)) } }

Keys == UNION { Forms(spec.term) : spec \in UNION { Range(DictionarySpecs[d]) : d \in DOMAIN DictionarySpecs } }

\* build_term_index over all current dictionaries.
TermIndex == [key \in Keys |-> UNION { TermRecords(d, key) : d \in DOMAIN DictionarySpecs }]

-----------------------------------------------------------------------------
(* match_passage                                                            *)

LongestKey(tokens, i) ==
  LET lengths == { n \in 1 .. Len(tokens) - i + 1 : SubSeq(tokens, i, i + n - 1) \in Keys }
  IN IF lengths = {} THEN 0 ELSE Max(lengths)

\* A hyphenated token read as the phrase of its words.
HyphenKey(token) == [k \in DOMAIN token |-> <<token[k]>>]

Match(key, start, span) == [key |-> key, start |-> start, span |-> span]

\* A match is added and the scan goes on behind it; without one, behind the token.
Accept(acc, m) == [next |-> m.start + m.span, matches |-> acc.matches \cup {m}]
Pass(acc, i) == [next |-> i + 1, matches |-> acc.matches]

\* Mutant: a hyphenated token is read as its phrase before a longer key is tried.
MatchStepMutant(tokens, acc, i) ==
  LET n == LongestKey(tokens, i)
  IN CASE i < acc.next -> acc
       [] i >= acc.next /\ Len(tokens[i]) > 1 /\ HyphenKey(tokens[i]) \in Keys ->
            Accept(acc, Match(HyphenKey(tokens[i]), i, 1))
       [] OTHER -> IF n > 0 THEN Accept(acc, Match(SubSeq(tokens, i, i + n - 1), i, n)) ELSE Pass(acc, i)

\* The longest key at i, then the phrase a hyphenated token spells, then nothing.
MatchStep(tokens, acc, i) ==
  LET n == LongestKey(tokens, i)
  IN CASE i < acc.next -> acc
       [] i >= acc.next /\ n > 0 -> Accept(acc, Match(SubSeq(tokens, i, i + n - 1), i, n))
       [] OTHER -> IF Len(tokens[i]) > 1 /\ HyphenKey(tokens[i]) \in Keys
                   THEN Accept(acc, Match(HyphenKey(tokens[i]), i, 1)) ELSE Pass(acc, i)

\* match_phrases_and_unigrams.
Matches(tokens) ==
  LET acc[i \in 0 .. Len(tokens)] ==
        IF i = 0 THEN [next |-> 1, matches |-> {}] ELSE MatchStep(tokens, acc[i - 1], i)
  IN acc[Len(tokens)].matches

\* negated_token_positions.
Negated(tokens) ==
  { j \in DOMAIN tokens :
      \E i \in DOMAIN tokens :
        /\ i < j /\ j <= i + Limits.negation_window
        /\ tokens[i] \in Negators
        /\ \A k \in i + 1 .. j : tokens[k] \notin Conjunctions }

\* One hit for each record of each match, negated when any of its tokens is.
SentenceHits(tokens) ==
  LET negated(m) == \E k \in m.start .. m.start + m.span - 1 : k \in Negated(tokens)
      hit(m, record) == [start |-> m.start, record |-> record,
                         category |-> DictionarySpecs[record[1]][record[2]].category, negated |-> negated(m)]
  IN UNION { { hit(m, record) : record \in TermIndex[m.key] } : m \in Matches(tokens) }

Hits(passage) == UNION { {s} \X SentenceHits(passage.sentences[s]) : s \in DOMAIN passage.sentences }

-----------------------------------------------------------------------------
(* classify_passage                                                         *)

\* _rendered_table_evidence, from the counts of its patterns.
RenderedTable(marks) ==
  LET atLeast(mark, n) == marks[mark] >= n
  IN CASE \/ atLeast("bridged_groups", 7) \/ atLeast("tight_pairs", 2) \/ atLeast("paired_years", 2)
          \/ atLeast("vesting", 1)
               /\ (atLeast("series", 2) \/ atLeast("dates", 2) \/ atLeast("repeated_phrases", 1))
          \/ atLeast("register", 1)
          \/ atLeast("attendance", 1) /\ atLeast("digit_pairs", 3) -> "financial_table_rendered_as_prose"
       [] OTHER -> IF atLeast("currency_codes", 4) THEN "currency_exposure_table_mixed" ELSE None

\* Prose long and coherent enough to be rescued, unless it reads like a table.
Coherent(passage) ==
  /\ WordCount(passage) >= Limits.false_positive_min_words
  /\ passage.punctuated
  /\ passage.fragments < 30

Rescued(passage) ==
  IF RenderedTable(passage.marks) # None THEN RenderedTable(passage.marks) ELSE "ordinary_prose_false_positive"

\* _two_char_classification.
TwoCharCategory(passage) ==
  CASE WordCount(passage) = 1 -> "short_fragment_invalid"
    [] WordCount(passage) # 1 /\ passage.fragments > 50 -> "broken_fragment_sequence"
    [] OTHER -> IF passage.punctuated THEN "legitimate_short_abbreviation" ELSE "caption_or_label_like"

Category(passage) ==
  LET numeric == WordCount(passage) >= 5 /\ passage.digits >= 15
      first(rules) == rules[Min({ i \in DOMAIN rules : rules[i][1] })][2]
  IN first(<<
       <<passage.two_char /\ passage.type = "HEADING_WITH_BODY", TwoCharCategory(passage)>>,
       <<WordCount(passage) >= 10 /\ passage.fragments > 50, "broken_fragment_sequence">>,
       <<passage.contents, "contents_or_index_like">>,
       <<passage.caption, "caption_or_label_like">>,
       <<numeric /\ Coherent(passage) /\ passage.digits < 20, Rescued(passage)>>,
       <<numeric, "numeric_or_table_like_source">>,
       <<passage.type = "TABLE_CONTEXT" /\ Coherent(passage), Rescued(passage)>>,
       <<passage.type = "TABLE_CONTEXT", "table_context">>,
       <<passage.type = "LIST" \/ passage.list_blocks, "list_content">>,
       <<TRUE, None>> >>)

PrimaryNarrativeExcluded ==
  {"short_fragment_invalid", "broken_fragment_sequence", "numeric_or_table_like_source",
   "contents_or_index_like", "caption_or_label_like", "financial_table_rendered_as_prose"}

-----------------------------------------------------------------------------
(* _run_signal_build: one signal per side of each row                       *)

Signal(unit, side) ==
  LET row == input.rows[unit]
      passage == row[side]
  IN [unit |-> unit, side |-> side, status |-> row.status, confidence |-> row.confidence,
      collision |-> row.note \in {"contested", "duplicated_text", "duplicate_cluster"},
      words |-> WordCount(passage), category |-> Category(passage),
      feature_eligible |-> ~FeatureExcluded(passage), hits |-> Hits(passage)]

Signals ==
  LET present == { x \in (DOMAIN input.rows) \X Sides : input.rows[x[1]][x[2]] # None }
  IN { Signal(x[1], x[2]) : x \in present }

SignalWords(signals) == MapThenSumSet(LAMBDA s : s.words, signals)

HitsIn(signal, category) == Cardinality({ hit \in signal.hits : hit[2].category = category })

TotalHits(signals, category) == MapThenSumSet(LAMBDA s : HitsIn(s, category), signals)

AllHits(signals) == MapThenSumSet(LAMBDA s : Cardinality(s.hits), signals)

OnSide(signals, side) == { s \in signals : s.side = side }

PrimaryNarrative == { s \in found.signals : s.category \notin PrimaryNarrativeExcluded }
Analyzed == { s \in PrimaryNarrative : s.feature_eligible }

\* rate_per_1000_words and its change, without the factor of a thousand.
Rate(signals, category) == Ratio(TotalHits(signals, category), SignalWords(signals))

Minus(x, y) == IF None \in {x, y} THEN None ELSE <<x[1] * y[2] - y[1] * x[2], x[2] * y[2]>>

-----------------------------------------------------------------------------
(* compute_topic_change                                                     *)

Sign(n) == IF n > 0 THEN 1 ELSE IF n < 0 THEN -1 ELSE 0
Magnitude(n) == n * Sign(n)

AtMost(x, y) == Magnitude(x[1]) * y[2] <= Magnitude(y[1]) * x[2]

\* The change of the count per mean word.
CountChange(signals, category) ==
  LET h(side) == TotalHits(OnSide(signals, side), category)
      w(side) == SignalWords(OnSide(signals, side))
  IN Ratio(2 * (h("later") - h("earlier")), w("earlier") + w("later"))

\* The change of the count per word of its own report.
DensityChange(signals, category) ==
  Minus(Rate(OnSide(signals, "later"), category), Rate(OnSide(signals, "earlier"), category))

\* topic_change_conjunction.
Conjunction(count, density) ==
  CASE None \in {count, density} -> None
    [] None \notin {count, density} /\ Sign(count[1]) * Sign(density[1]) <= 0 -> <<0, 1>>
    [] OTHER -> IF AtMost(count, density) THEN count
                ELSE <<Sign(count[1]) * Magnitude(density[1]), density[2]>>

\* topic_unit_deltas: what each alignment row adds to the count.
UnitDelta(signals, unit, category) ==
  LET of(side) == TotalHits({ s \in signals : s.unit = unit /\ s.side = side }, category)
  IN of("later") - of("earlier")

TopicChange(signals, category) ==
  LET units == { s.unit : s \in signals }
      delta(unit) == UnitDelta(signals, unit, category)
      direction == Sign(MapThenSumSet(delta, units))
      gross(sign) == MapThenSumSet(LAMBDA unit : IF Sign(delta(unit)) = sign THEN Magnitude(delta(unit)) ELSE 0, units)
      churn == gross(1) + gross(-1)
  IN [count |-> CountChange(signals, category),
      density |-> DensityChange(signals, category),
      change |-> Conjunction(CountChange(signals, category), DensityChange(signals, category)),
      supporting |-> IF direction = 0 THEN 0 ELSE gross(direction),
      opposing |-> IF direction = 0 THEN 0 ELSE gross(-direction),
      consistency |-> IF churn > 0 THEN <<gross(1) - gross(-1), churn>> ELSE <<0, 1>>,
      largest_passage_share |->
        IF churn > 0 THEN <<Max({ Magnitude(delta(unit)) : unit \in units }), churn>> ELSE <<0, 1>>]

-----------------------------------------------------------------------------
(* Quality                                                                  *)

Assessment(reasons, informational) ==
  LET quality == IF reasons THEN "NEEDS_REVIEW" ELSE IF informational THEN "USABLE" ELSE "GOOD"
  IN [quality |-> quality,
      primary_eligible |-> quality # "NEEDS_REVIEW" /\ ~input.transition /\ ~found.features.irregular_gap]

UnexplainedGap == found.features.irregular_gap /\ ~input.transition

\* assess_report_side_quality.
ReportSideQuality ==
  LET coverage(side) == Ratio(SignalWords(OnSide(PrimaryNarrative, side)), SignalWords(OnSide(found.signals, side)))
      matchRate(side) == LET signals == OnSide(Analyzed, side) IN Ratio(AllHits(signals), SignalWords(signals))
  IN Assessment(
       \/ UnexplainedGap
       \/ \E side \in Sides :
            \/ Below(coverage(side), Limits.minimum_primary_narrative_word_coverage)
            \/ Below(matchRate(side), Limits.dictionary_match_rate_anomalous_threshold),
       \E side \in Sides : Below(matchRate(side), Limits.dictionary_match_rate_borderline_threshold))

AnalyzedShare(signals) == Ratio(SignalWords(signals), SignalWords(Analyzed))

\* assess_alignment_change_quality.
AlignmentChangeQuality ==
  LET ambiguous == AnalyzedShare({ s \in Analyzed : s.status = "AMBIGUOUS" })
      collision == AnalyzedShare({ s \in Analyzed : s.collision })
      unmatched == AnalyzedShare({ s \in Analyzed : s.status \in {"NEW", "REMOVED"} })
  IN IF found.features.quality = "FAILED" THEN [quality |-> "FAILED", primary_eligible |-> FALSE]
     ELSE Assessment(
            \/ UnexplainedGap
            \/ Above(ambiguous, Limits.signal_ambiguous_word_share_threshold)
            \/ Above(collision, Limits.collision_needs_review_threshold),
            \/ input.alignment = "COMPLETED_WITH_WARNINGS"
            \/ found.features.quality = "NEEDS_REVIEW"
            \/ Above(collision, Limits.collision_warning_threshold)
            \/ Above(unmatched, Limits.unmatched_warning_threshold))

Strictness == <<"FAILED", "NEEDS_REVIEW", "USABLE", "GOOD">>

\* combine_quality_for_deprecated_composite.
Composite(x, y) ==
  LET rank(a) == CHOOSE i \in DOMAIN Strictness : Strictness[i] = a.quality
  IN [quality |-> Strictness[Min({rank(x), rank(y)})], primary_eligible |-> x.primary_eligible /\ y.primary_eligible]

\* _aggregate_pair_features.
LanguageFeatures ==
  [topics |-> [category \in Topics |-> TopicChange(Analyzed, category)],
   introduced |-> [category \in Topics |-> Rate({ s \in Analyzed : s.status = "NEW" }, category)],
   removed |-> [category \in Topics |-> Rate({ s \in Analyzed : s.status = "REMOVED" }, category)],
   report_side |-> ReportSideQuality,
   alignment_change |-> AlignmentChangeQuality,
   composite |-> Composite(ReportSideQuality, AlignmentChangeQuality)]

MatchPassages ==
  Follow("featured", "signalled", [document |-> found.document, features |-> found.features, signals |-> Signals])

AggregateSignals ==
  Follow("signalled", "aggregated",
         [document |-> found.document, features |-> found.features, signals |-> found.signals,
          language |-> LanguageFeatures])

LanguageNext == FeaturesNext \/ MatchPassages \/ AggregateSignals

LanguageSpec == Idle /\ [][LanguageNext]_vars

-----------------------------------------------------------------------------
(* Properties                                                              *)

\* No phrase of the dictionary in a passage is missed, counted twice or counted
\* as one of its words: every occurrence overlaps a match, matches are disjoint,
\* and no longer phrase starts where a match does.
PhrasesMatchedOnce ==
  stage = "paired" =>
    \A row \in Range(input.rows) : \A side \in { s \in Sides : row[s] # None } :
      \A tokens \in Range(row[side].sentences) :
        LET matches == Matches(tokens)
            span(m) == m.start .. m.start + m.span - 1
        IN /\ \A m, n \in matches : m = n \/ span(m) \cap span(n) = {}
           /\ \A i \in DOMAIN tokens : \A n \in 1 .. Len(tokens) - i + 1 :
                SubSeq(tokens, i, i + n - 1) \in Keys =>
                  /\ \E m \in matches : span(m) \cap (i .. i + n - 1) # {}
                  /\ \A m \in matches : m.start = i => m.span >= n
=============================================================================
