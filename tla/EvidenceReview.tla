--------------------------- MODULE EvidenceReview ---------------------------
(***************************************************************************)
(* The evidence review of a question (runEvidencePipeline of the web       *)
(* application): what the question asks for, the passages that may answer  *)
(* it, the few that are kept as evidence, and whether they support an      *)
(* answer. A question is what its wording matches; a passage is what its   *)
(* text and its heading match. Shares and similarities are percentages.    *)
(***************************************************************************)
EXTENDS Integers, Sequences, FiniteSets, FiniteSetsExt, SequencesExt, DocumentJobs

CONSTANTS
  Reviews,      \* the reviews that may be asked for, see below
  ReviewConfig, \* QaConfig, the weak-match floor and the keyword ranks that are strong
  Presets       \* the gate strategies by name

\* A review has
\*   question   [asks, tickers, years, directions, sides, categories,
\*     subcategories, statuses: the sets of what it names; restates, and
\*     elements, a sequence of [families, long], one per clause of its own];
\*   passages   a sequence of [company, report, period, page, text, body,
\*     heading: the concept families named there; terms: the share of the
\*     question's words; number, because, link, restates, bare (figures without
\*     a verb), and factor, its quality when no language signal saves it];
\*   contexts   the current_retrieval_contexts, a sequence in the order of the
\*     database: [id, passage, side, status, categories, subcategories];
\*   keyword    the passages the full-text search finds, best first;
\*   similar    pairs <<passage, similarity>>, nearest first, none when the
\*     question could not be embedded;
\*   method and preset, the reranker and the gate strategy configured.

ASSUME QuestionsTyped ==
  \A x \in Reviews :
    LET q == x.question
    IN /\ IsFiniteSet(q.tickers) /\ None \notin q.tickers
       /\ IsFiniteSet(q.years) /\ q.years \subseteq Int
       /\ q.years # {} => None # <<Min(q.years), Max(q.years)>>
       /\ IsFiniteSet(q.subcategories)
       /\ IsList(q.elements) /\ \A i \in DOMAIN q.elements : IsFiniteSet(q.elements[i].families)

\* A row of the database has an id of its own, and what the full-text search
\* finds it finds with its comparisons.
ASSUME RetrievalsTyped ==
  \A x \in Reviews :
    /\ IsList(x.passages) /\ IsList(x.contexts) /\ IsList(x.keyword) /\ IsList(x.similar)
    /\ \A p \in DOMAIN x.passages :
         x.passages[p].terms \in Int /\ x.passages[p].factor \in Int /\ x.passages[p].period \in Int
    /\ \A i \in DOMAIN x.contexts : x.contexts[i].id \in Int /\ x.contexts[i].passage \in DOMAIN x.passages
    /\ \A i, j \in DOMAIN x.contexts : x.contexts[i].id = x.contexts[j].id => i = j
    /\ \A i \in DOMAIN x.keyword :
         /\ x.keyword[i] \in DOMAIN x.passages
         /\ \E j \in DOMAIN x.contexts : x.contexts[j].passage = x.keyword[i]
    /\ \A i \in DOMAIN x.similar : x.similar[i][1] \in DOMAIN x.passages /\ x.similar[i][2] \in Int

ASSUME ReviewConfigTyped ==
  ReviewConfig.floor \in Int /\ ReviewConfig.strong_rank \in Int /\ ReviewConfig.max_evidence \in Nat

Asked == input.question
PassageAt(c) == input.passages[c.passage]
Sole(S) == IF Cardinality(S) = 1 THEN CHOOSE x \in S : TRUE ELSE None

-----------------------------------------------------------------------------
(* What the question asks for                                               *)

Directions == <<"increased", "decreased", "added", "removed", "changed">>

ASSUME NoneIsNoDirection == \A i \in DOMAIN Directions : Directions[i] # None

ComparisonDirection(q) ==
  LET named == { i \in DOMAIN Directions : Directions[i] \in q.directions }
  IN IF named = {} THEN None ELSE Directions[Min(named)]

SpansMultipleYears(q) == Cardinality(q.years) > 1

QuestionType(q) ==
  IF "why" \in q.asks THEN "causal"
  ELSE IF "how_much" \in q.asks THEN "quantitative"
  ELSE IF ComparisonDirection(q) # None \/ "compare" \in q.asks THEN "comparative"
  ELSE IF "exists" \in q.asks THEN "existence_based"
  ELSE IF SpansMultipleYears(q) \/ "over_time" \in q.asks THEN "chronological"
  ELSE "descriptive"

RequestedScope(q) ==
  IF Cardinality(q.tickers) # 1 THEN "corpus_wide"
  ELSE IF ComparisonDirection(q) # None \/ SpansMultipleYears(q) THEN "single_comparison"
  ELSE "single_company"

Unresolved(q) ==
  { i \in DOMAIN q.elements : Len(q.elements) > 1 /\ q.elements[i].families = {} /\ q.elements[i].long }

AnalyzeQuestion(q) ==
  [type |-> QuestionType(q), scope |-> RequestedScope(q), direction |-> ComparisonDirection(q),
   range |-> IF q.years = {} THEN None ELSE <<Min(q.years), Max(q.years)>>,
   ticker |-> Sole(q.tickers), side |-> Sole(q.sides), category |-> Sole(q.categories),
   families |-> UNION { q.elements[i].families : i \in DOMAIN q.elements }, unresolved |-> Unresolved(q)]

Narrow(analysis) == analysis.scope # "corpus_wide"
Within(range, period) == range[1] <= period /\ period <= range[2]

-----------------------------------------------------------------------------
(* Candidates: one per context of a passage that either search found        *)

FitsCompany(analysis, p) == analysis.ticker # None => input.passages[p].company = analysis.ticker
FitsPeriod(analysis, p) == analysis.range # None => Within(analysis.range, input.passages[p].period)
FitsCategory(analysis, c) == analysis.category # None => analysis.category \in c.categories

ContextsOf(p) == { i \in DOMAIN input.contexts : input.contexts[i].passage = p }

\* The place of a passage in a list of hits.
PositionOf(hits, p) ==
  LET at == { i \in DOMAIN hits : hits[i] = p }
  IN IF at = {} THEN None ELSE Min(at)

\* searchLexicalCandidates gives a row for each comparison of a passage, and the
\* last of them counts.
LexicalCandidates(analysis) == Where(input.keyword, { p \in DOMAIN input.passages : FitsCompany(analysis, p) })
LexicalRank(hits, p) ==
  LET at == PositionOf(hits, p)
  IN IF at = None THEN None
     ELSE Cardinality({ row \in (1 .. at) \X DOMAIN input.contexts : row[2] \in ContextsOf(hits[row[1]]) })

\* A language signal spares a passage the penalty of its quality. The reranker of
\* /ask counts a context's categories and subcategories, semantic retrieval the
\* categories of any context of the passage, but no subcategory.
HasSignal(c) == c.categories # {} \/ c.subcategories # {}
QualityFactor(p, signalled) == IF signalled THEN 100 ELSE input.passages[p].factor

SemanticCandidates(analysis) ==
  LET hits == Where(input.similar,
                    { s \in ToSet(input.similar) : /\ FitsCompany(analysis, s[1]) /\ FitsPeriod(analysis, s[1])
                                                   /\ \E i \in ContextsOf(s[1]) : FitsCategory(analysis, input.contexts[i]) })
  IN [i \in DOMAIN hits |->
       LET p == hits[i][1]
           factor == QualityFactor(p, \E j \in ContextsOf(p) : input.contexts[j].categories # {})
       IN [passage |-> p, raw |-> 100 * hits[i][2], adjusted |-> factor * hits[i][2], factor |-> factor, rank |-> i]]

\* QualityAdjustedSemanticReranker: by adjusted score, then by nearness.
Adjusted(hits) ==
  InOrder(ToSet(hits), [hit \in ToSet(hits) |-> <<-hit.adjusted, hit.rank, 0>>])

\* Reciprocal rank fusion, as a fraction.
FusionOf(lexical, semantic) ==
  LET l == ReviewConfig.rrfK + lexical
      s == ReviewConfig.rrfK + semantic
  IN IF lexical = None THEN <<1, s>> ELSE IF semantic = None THEN <<1, l>> ELSE <<l + s, l * s>>

GenerateCandidates(analysis) ==
  LET words == LexicalCandidates(analysis)
      near == Adjusted(SemanticCandidates(analysis))
      At(p) == PositionOf([i \in DOMAIN near |-> near[i].passage], p)
      hit == ToSet(words) \cup { near[i].passage : i \in DOMAIN near }
      fused == [p \in hit |-> FusionOf(LexicalRank(words, p), At(p))]
      Ahead(p, q) == LET gap == fused[p][1] * fused[q][2] - fused[q][1] * fused[p][2] IN gap > 0 \/ (gap = 0 /\ p < q)
      Fits(c) == FitsCompany(analysis, c.passage) /\ FitsPeriod(analysis, c.passage) /\ FitsCategory(analysis, c)
      contexts == Where(input.contexts, { c \in ToSet(input.contexts) : c.passage \in hit /\ Fits(c) })
      Candidate(c, at) ==
        [id |-> c.id, passage |-> c.passage, side |-> c.side, status |-> c.status,
         categories |-> c.categories, subcategories |-> c.subcategories,
         lexical |-> LexicalRank(words, c.passage),
         raw |-> IF at = None THEN None ELSE near[at].raw,
         adjusted |-> IF at = None THEN None ELSE near[at].adjusted,
         factor |-> IF at = None THEN QualityFactor(c.passage, HasSignal(c)) ELSE near[at].factor,
         rrf |-> 1 + Cardinality({ q \in hit : Ahead(q, c.passage) })]
  IN [i \in DOMAIN contexts |-> Candidate(contexts[i], At(contexts[i].passage))]

-----------------------------------------------------------------------------
(* Reranking                                                                *)

\* Another candidate of the report within a page, which may be the same passage
\* in another comparison.
HasNearbyContext(c, candidates) ==
  \E other \in ToSet(candidates) :
    /\ other.id # c.id
    /\ PassageAt(other).report = PassageAt(c).report
    /\ PassageAt(other).page - PassageAt(c).page \in -1..1

NumericFragment(c, candidates) ==
  IF input.method # "quality_aware" \/ ~PassageAt(c).bare THEN "none"
  ELSE IF HasNearbyContext(c, candidates) THEN "with_context" ELSE "without_context"

RelevanceScore(c) ==
  CASE input.method = "baseline" -> -c.rrf
    [] input.method = "concept_coverage" -> PassageAt(c).terms
    [] OTHER -> PassageAt(c).terms * c.factor

\* stableSort
RelevanceOrder(candidates) == [c \in candidates |-> <<-RelevanceScore(c), c.rrf, c.id>>]

-----------------------------------------------------------------------------
(* Direct responsiveness                                                    *)

Strategy == Presets[input.preset]

InBody(c, analysis) == analysis.families \cap PassageAt(c).body
InHeading(c, analysis) == (analysis.families \cap PassageAt(c).heading) \ PassageAt(c).body
Optional(c) == Asked.subcategories \cap c.subcategories
OnTopic(c, analysis) == InBody(c, analysis) \cup InHeading(c, analysis) \cup Optional(c) # {}

\* A body match weighs 1, a heading alone 0.4; required families 0.8, optional 0.2.
ConceptCoverageScore(c, analysis) ==
  LET required == IF analysis.families = {} THEN 100
                  ELSE (100 * Cardinality(InBody(c, analysis)) + 40 * Cardinality(InHeading(c, analysis)))
                         \div Cardinality(analysis.families)
      optional == IF Asked.subcategories = {} THEN 0
                  ELSE (100 * Cardinality(Optional(c))) \div Cardinality(Asked.subcategories)
  IN (80 * required + 20 * optional) \div 100

DirectionalCoverage(c, analysis) ==
  CASE analysis.direction = "added" -> c.status = "NEW"
    [] analysis.direction = "removed" -> c.status = "REMOVED"
    [] analysis.direction = "changed" -> c.status # "UNCHANGED"
    [] OTHER -> OnTopic(c, analysis)

UnmetConditions(c, analysis) ==
  (IF analysis.type = "quantitative" /\ ~PassageAt(c).number THEN {"QUANTITATIVE_REQUIREMENT_UNMET"} ELSE {})
    \cup (IF analysis.type = "causal" /\ ~PassageAt(c).because THEN {"CAUSAL_REQUIREMENT_UNMET"} ELSE {})
    \cup (IF analysis.direction # None /\ ~DirectionalCoverage(c, analysis) THEN {"DIRECTIONAL_REQUIREMENT_UNMET"} ELSE {})

OffTopicReason(c, analysis) ==
  IF analysis.ticker # None /\ PassageAt(c).company = analysis.ticker THEN "COMPANY_ONLY_MATCH"
  ELSE IF \/ analysis.side # None /\ c.side = analysis.side
          \/ analysis.category # None /\ analysis.category \in c.categories THEN "SCOPE_ONLY_MATCH"
  ELSE "GENERIC_ONLY_MATCH"

IneligibilityReasons(c, analysis) ==
  (IF analysis.families # {} /\ InBody(c, analysis) \cup InHeading(c, analysis) = {} THEN {"REQUIRED_CONCEPT_MISSING"} ELSE {})
    \cup (IF Strategy.body_match /\ analysis.families # {} /\ InBody(c, analysis) = {} THEN {"BODY_SUPPORT_MISSING"} ELSE {})
    \cup (IF Strategy.generic_penalty /\ ~OnTopic(c, analysis) THEN {OffTopicReason(c, analysis)} ELSE {})
    \cup (IF Strategy.type_conditions THEN UnmetConditions(c, analysis) ELSE {})

DirectResponsivenessScore(c, analysis) ==
  LET score == ConceptCoverageScore(c, analysis)
  IN IF Strategy.type_conditions /\ UnmetConditions(c, analysis) # {} THEN 0
     ELSE IF Strategy.generic_penalty /\ ~OnTopic(c, analysis) THEN (30 * score) \div 100
     ELSE score

\* Mutant: what a passage lacks lowers its score and nothing else.
EligibleMutant(c, analysis) == DirectResponsivenessScore(c, analysis) >= Strategy.floor

Eligible(c, analysis) ==
  /\ DirectResponsivenessScore(c, analysis) >= Strategy.floor
  /\ IneligibilityReasons(c, analysis) = {}

\* The reranker, and then, when the strategy ranks by it, the responsiveness.
RankCandidates(candidates, analysis) ==
  LET S == ToSet(candidates)
      responsive == [c \in S |-> <<-DirectResponsivenessScore(c, analysis), c.id, 0>>]
      ranked == InOrder(S, IF Strategy.drives_ranking THEN responsive ELSE RelevanceOrder(S))
      Judged(c) ==
        [id |-> c.id, passage |-> c.passage, side |-> c.side, status |-> c.status,
         categories |-> c.categories, subcategories |-> c.subcategories,
         lexical |-> c.lexical, raw |-> c.raw, adjusted |-> c.adjusted,
         fragment |-> NumericFragment(c, candidates), eligible |-> Eligible(c, analysis),
         reasons |-> IneligibilityReasons(c, analysis)]
  IN [i \in DOMAIN ranked |-> Judged(ranked[i])]

-----------------------------------------------------------------------------
(* The evidence set                                                         *)

SamePassageOrText(a, b) == a.passage = b.passage \/ PassageAt(a).text = PassageAt(b).text

\* What is left when a passage, and a text, is taken at its first candidate only.
Deduplicated(ranked) ==
  LET kept[n \in 0 .. Len(ranked)] ==
        IF n = 0 THEN <<>>
        ELSE IF \E k \in ToSet(kept[n - 1]) : SamePassageOrText(k, ranked[n])
             THEN kept[n - 1] ELSE Append(kept[n - 1], ranked[n])
  IN kept[Len(ranked)]

BelowFloor(c) == c.lexical = None /\ c.raw < 100 * ReviewConfig.floor

InScope(c, analysis) ==
  /\ FitsCompany(analysis, c.passage)
  /\ analysis.side # None => c.side = analysis.side
  /\ FitsCategory(analysis, c)

CustomTaxonomy == {"risk", "financial_condition", "governance", "strategy"}

Facets(c) ==
  ({"category"} \X (c.categories \cap CustomTaxonomy)) \cup ({"subcategory"} \X c.subcategories)
    \cup ({"side"} \X ({c.side} \ {None})) \cup ({"alignment"} \X ({c.status} \cap Asked.statuses))

BothSides == {"EARLIER", "LATER"}
Compares(analysis) == analysis.type = "comparative" \/ Asked.sides = BothSides

RequiredFacets(analysis) ==
  ({"category"} \X ({analysis.category} \ {None})) \cup ({"subcategory"} \X Asked.subcategories)
    \cup ({"side"} \X (IF Compares(analysis) THEN BothSides ELSE {analysis.side} \ {None}))
    \cup ({"alignment"} \X Asked.statuses)

\* The greedy choice: the first two, and then what covers a facet not yet covered.
Pick(chosen, c) ==
  IF Len(chosen.selected) >= ReviewConfig.max_evidence THEN chosen
  ELSE IF Facets(c) \ chosen.covered # {} \/ Len(chosen.selected) < 2
       THEN [chosen EXCEPT !.selected = Append(@, c), !.covered = @ \cup Facets(c)]
  ELSE [chosen EXCEPT !.redundant = @ \cup {c.id}]

Chosen(examined) ==
  LET after[n \in 0 .. Len(examined)] ==
        IF n = 0 THEN [selected |-> <<>>, covered |-> {}, redundant |-> {}] ELSE Pick(after[n - 1], examined[n])
  IN after[Len(examined)]

BuildEvidenceSet(ranked, analysis) ==
  LET unique == Deduplicated(ranked)
      Ids(S) == { c.id : c \in S }
      above == Where(unique, { c \in ToSet(unique) : ~BelowFloor(c) })
      scoped == Where(above, { c \in ToSet(above) : InScope(c, analysis) })
      fit == IF Narrow(analysis) THEN Where(scoped, { c \in ToSet(scoped) : c.eligible }) ELSE scoped
      examined == SubSeq(fit, 1, Min({Len(fit), 4 * ReviewConfig.max_evidence}))
      chosen == Chosen(examined)
  IN [selected |-> chosen.selected, covered |-> chosen.covered,
      rejected |-> [DUPLICATE |-> Ids(ToSet(ranked)) \ Ids(ToSet(unique)),
                    BELOW_RELEVANCE_FLOOR |-> Ids(ToSet(unique)) \ Ids(ToSet(above)),
                    OUT_OF_SCOPE |-> Ids(ToSet(above)) \ Ids(ToSet(scoped)),
                    NOT_DIRECTLY_RESPONSIVE |-> Ids(ToSet(scoped)) \ Ids(ToSet(fit)),
                    REDUNDANT_NO_NEW_COVERAGE |-> chosen.redundant]]

Required(analysis, evidence) ==
  LET required == RequiredFacets(analysis) IN <<Cardinality(required \cap evidence.covered), Cardinality(required)>>

-----------------------------------------------------------------------------
(* Coherence of the selected evidence                                       *)

Flagged(c) == PassageAt(c).restates \/ c.status = "AMBIGUOUS"

\* Whether it is clear which of the restated figures is the current one: None
\* when nothing says that anything was restated.
RestatementClear(items) ==
  LET flagged == { c \in items : Flagged(c) }
      named == { c.side : c \in flagged } \ {None}
  IN IF flagged = {} /\ ~Asked.restates THEN None
     ELSE Cardinality(flagged) > 0 /\ Cardinality(named) = Cardinality(flagged)

\* Both sides answer, or None when the question compares nothing.
ComparisonSatisfied(items, analysis) ==
  IF ~Compares(analysis) THEN None
  ELSE BothSides \subseteq { c.side : c \in { i \in items : i.eligible } }

CheckCoherence(selected, analysis) ==
  LET items == ToSet(selected)
      periods == { PassageAt(c).period : c \in items }
      statuses == { c.status : c \in items }
  IN [conflicting |-> (analysis.scope = "single_comparison" \/ analysis.range # None) /\ Cardinality(periods) > 1,
      mixed |-> {"NEW", "REMOVED"} \subseteq statuses /\ \A c \in items : ~PassageAt(c).link,
      restatement_clear |-> RestatementClear(items),
      comparison_satisfied |-> ComparisonSatisfied(items, analysis),
      range_covered |-> IF analysis.range = None THEN None ELSE \E p \in periods : Within(analysis.range, p)]

-----------------------------------------------------------------------------
(* The groundedness gate                                                    *)

Strong(c) ==
  \/ c.lexical # None /\ c.lexical <= ReviewConfig.strong_rank
  \/ c.raw # None /\ c.raw >= 100 * ReviewConfig.floor

ElementSupported(element, items) ==
  \E c \in items :
    /\ c.eligible
    /\ element.families = {} \/ element.families \cap (PassageAt(c).body \cup PassageAt(c).heading) # {}

\* Nothing was selected.
EmptyReasons(evidence, analysis) ==
  LET scoped == evidence.rejected.OUT_OF_SCOPE # {}
      named ==
        (IF analysis.unresolved # {} THEN {"REQUIRED_CONCEPT_MISSING"} ELSE {})
          \cup (IF scoped /\ (analysis.ticker # None \/ analysis.category # None) THEN {"REQUIRED_SCOPE_NOT_COVERED"} ELSE {})
          \cup (IF scoped /\ analysis.side # None THEN {"MISSING_COMPARISON_SIDE"} ELSE {})
  IN IF named = {} THEN {"NO_DIRECT_EVIDENCE"} ELSE named

\* Nothing selected answers the question itself.
TopicReasons(items) ==
  LET reasons == UNION { c.reasons : c \in items }
  IN IF "COMPANY_ONLY_MATCH" \in reasons THEN {"COMPANY_ONLY_MATCH", "WRONG_TOPIC_RIGHT_COMPANY"}
     ELSE IF "SCOPE_ONLY_MATCH" \in reasons THEN {"SCOPE_ONLY_MATCH"}
     ELSE IF "GENERIC_ONLY_MATCH" \in reasons THEN {"GENERIC_ONLY_MATCH"}
     ELSE {"DIRECT_RESPONSIVENESS_BELOW_FLOOR"}

\* A side that is not there, or is there and does not answer.
ComparisonReasons(items) ==
  IF BothSides \subseteq { c.side : c \in items } THEN {"COMPARISON_TOPIC_MISMATCH"}
  ELSE {"COMPARISON_CONTEXT_MISSING", "REPORT_SIDE_MISMATCH"}

SoftReasons(evidence, analysis) ==
  LET top == Head(evidence.selected)
      facets == Required(analysis, evidence)
      repeated == Cardinality(evidence.rejected.REDUNDANT_NO_NEW_COVERAGE)
  IN (IF 100 * facets[1] < ReviewConfig.min_topic_coverage * facets[2] THEN {"INSUFFICIENT_TOPIC_COVERAGE"} ELSE {})
       \cup (IF top.adjusted # None /\ top.adjusted - 100 * ReviewConfig.floor < 100 * ReviewConfig.min_margin
             THEN {"LOW_RELEVANCE_MARGIN"} ELSE {})
       \cup (IF 100 * repeated > ReviewConfig.max_redundancy * (Len(evidence.selected) + repeated)
             THEN {"EVIDENCE_REDUNDANT"} ELSE {})
       \cup (IF \E c \in ToSet(evidence.selected) : c.fragment = "without_context"
             THEN {"NUMERIC_FRAGMENT_WITHOUT_CONTEXT"} ELSE {})

Decision(status, reasons) == [status |-> status, reasons |-> reasons]
SupportedBy(items) ==
  Decision("SUPPORTED", { IF Cardinality(items) = 1 THEN "SUPPORTED_BY_SINGLE_PASSAGE" ELSE "SUPPORTED_BY_MULTIPLE_PASSAGES" })

\* Two clauses or more, each judged by itself.
SeparableDecision(items) ==
  LET unsupported == { i \in DOMAIN Asked.elements : ~ElementSupported(Asked.elements[i], items) }
  IN IF unsupported = {} THEN SupportedBy(items)
     ELSE Decision(IF unsupported = DOMAIN Asked.elements THEN "INSUFFICIENT_EVIDENCE" ELSE "PARTIALLY_SUPPORTED",
                   {"INSUFFICIENT_TOPIC_COVERAGE"})

SoftDecision(evidence, analysis) ==
  LET soft == SoftReasons(evidence, analysis)
      inseparable == IF Strategy.strict_partial THEN {"PARTIAL_SUPPORT_NOT_SEPARABLE"} ELSE {}
      status == IF soft = {} THEN "SUPPORTED"
                ELSE IF Strategy.strict_partial THEN "INSUFFICIENT_EVIDENCE" ELSE "PARTIALLY_SUPPORTED"
      by == IF soft = {} THEN SupportedBy(ToSet(evidence.selected)).reasons ELSE {}
  IN Decision(status, inseparable \cup soft \cup by)

\* What the safeguards add to an answer they let through.
Caution(decision, coherence, analysis) ==
  IF ~Strategy.safeguards \/ decision.status \notin {"SUPPORTED", "PARTIALLY_SUPPORTED"} THEN decision
  ELSE [decision EXCEPT !.reasons = @
         \cup (IF analysis.direction \in {"increased", "decreased"} THEN {"DIRECTION_NOT_VERIFIED"} ELSE {})
         \cup (IF coherence.restatement_clear = TRUE THEN {"ORIGINAL_AND_RESTATED_VALUES_PRESENT", "RESTATEMENT_CHRONOLOGY_CLEAR"}
               ELSE {})]

\* The tiers in their order: an earlier one hides the later ones. Every citation
\* is complete, its columns are NOT NULL.
EvaluateGroundedness(evidence, coherence, analysis) ==
  LET items == ToSet(evidence.selected)
      guarded == Strategy.safeguards
      Weak(reasons) == Decision("INSUFFICIENT_EVIDENCE", reasons)
      Unclear(reasons) == Decision("AMBIGUOUS_OR_CONFLICTING", reasons)
  IN IF items = {} THEN Weak(EmptyReasons(evidence, analysis))
     ELSE IF \A c \in items : ~Strong(c) THEN Weak({"ONLY_WEAK_INDIRECT_EVIDENCE"})
     ELSE IF \A c \in items : c.fragment = "without_context" THEN Weak({"NUMERIC_FRAGMENT_WITHOUT_CONTEXT"})
     ELSE IF Strategy.generic_penalty /\ \A c \in items : ~c.eligible THEN Weak(TopicReasons(items))
     ELSE IF guarded /\ coherence.restatement_clear = FALSE
          THEN Unclear({"RESTATEMENT_DETECTED", "RESTATEMENT_AMBIGUITY", "RESTATEMENT_CHRONOLOGY_AMBIGUOUS"})
     ELSE IF guarded /\ analysis.type = "comparative" /\ coherence.comparison_satisfied = FALSE
          THEN Unclear(ComparisonReasons(items))
     ELSE IF guarded /\ analysis.type = "chronological" /\ coherence.range_covered = FALSE
          THEN Weak({"DATE_RANGE_NOT_COVERED", "CHRONOLOGY_INCOMPLETE"})
     ELSE IF coherence.conflicting \/ coherence.mixed THEN Unclear({"CONFLICTING_EVIDENCE"})
     ELSE Caution(IF Strategy.strict_partial /\ Len(Asked.elements) > 1
                  THEN SeparableDecision(items) ELSE SoftDecision(evidence, analysis), coherence, analysis)

-----------------------------------------------------------------------------
(* The pipeline: runEvidencePipeline                                        *)

AskQuestion == \E x \in Reviews : Start("asked", x)

Analyze == Follow("asked", "understood", [analysis |-> AnalyzeQuestion(Asked)])

\* Every stage keeps what the earlier ones found.
GatherCandidates ==
  Follow("understood", "candidates_gathered",
         [analysis |-> found.analysis, candidates |-> GenerateCandidates(found.analysis)])

Rerank ==
  Follow("candidates_gathered", "reranked",
         [analysis |-> found.analysis, ranked |-> RankCandidates(found.candidates, found.analysis)])

SelectEvidence ==
  Follow("reranked", "kept",
         [analysis |-> found.analysis, ranked |-> found.ranked,
          evidence |-> BuildEvidenceSet(found.ranked, found.analysis)])

CheckEvidence ==
  Follow("kept", "reconsidered",
         [analysis |-> found.analysis, evidence |-> found.evidence,
          coherence |-> CheckCoherence(found.evidence.selected, found.analysis)])

Gate ==
  Follow("reconsidered", "gated",
         [analysis |-> found.analysis, evidence |-> found.evidence,
          decision |-> EvaluateGroundedness(found.evidence, found.coherence, found.analysis)])

ReviewNext ==
  \/ AskQuestion
  \/ Analyze
  \/ GatherCandidates
  \/ Rerank
  \/ SelectEvidence
  \/ CheckEvidence
  \/ Gate

ReviewSpec == Idle /\ [][ReviewNext]_vars

-----------------------------------------------------------------------------
(* Properties                                                              *)

Selected == ToSet(found.evidence.selected)
Says(c) == PassageAt(c).body \cup PassageAt(c).heading

AskedOf(p) == input.passages[p].company \in Asked.tickers

\* What a passage has to say to answer a question about one company, under
\* the strategies that ask for it.
Answers(c) ==
  LET families == UNION { Asked.elements[i].families : i \in DOMAIN Asked.elements }
  IN /\ AskedOf(c.passage)
     /\ Asked.years # {} => PassageAt(c).period \in Min(Asked.years) .. Max(Asked.years)
     /\ Strategy.body_match /\ families # {} => PassageAt(c).body \cap families # {}
     /\ Strategy.type_conditions /\ "why" \in Asked.asks => PassageAt(c).because
     /\ Strategy.type_conditions /\ Asked.asks = {"how_much"} => PassageAt(c).number
     /\ Strategy.type_conditions /\ Asked.directions = {"added"} => c.status = "NEW"

\* A question about one company that is called supported is supported by every
\* passage shown for it, each another text, found by a search that is strong
\* enough for one of them, and each saying in its body what was asked in the
\* way it was asked; of two clauses each is answered, and a comparison has both
\* its sides, where the strategy promises so. It says what the verdict means in
\* terms of the question and the texts, past the four stages that decide it.
GroundedSupport ==
  stage = "gated" /\ found.decision.status \in {"SUPPORTED", "PARTIALLY_SUPPORTED"} /\ Cardinality(Asked.tickers) = 1 =>
    /\ Selected # {} /\ \A c \in Selected : Answers(c)
    /\ \A c, d \in Selected : c # d => PassageAt(c).text # PassageAt(d).text
    /\ \E c \in Selected :
         \/ \E i \in DOMAIN input.keyword :
              /\ input.keyword[i] = c.passage
              /\ Cardinality({ j \in 1 .. i : AskedOf(input.keyword[j]) }) <= ReviewConfig.strong_rank
         \/ \E s \in ToSet(input.similar) : s[1] = c.passage /\ s[2] >= ReviewConfig.floor
    /\ Strategy.strict_partial /\ Len(Asked.elements) > 1 /\ found.decision.status = "SUPPORTED" =>
         \A i \in DOMAIN Asked.elements :
           Asked.elements[i].families = {} \/ \E c \in Selected : Asked.elements[i].families \cap Says(c) # {}
    /\ Strategy.safeguards /\ found.analysis.type = "comparative" => BothSides \subseteq { c.side : c \in Selected }

\* A passage of two comparisons keeps the context the question asks for: no
\* context within the scope is given up for another of the same passage that is
\* then rejected as outside it ("the evidence-set builder's scope/coherence
\* checks need that distinction preserved", candidate-generation.ts).
ScopeIdentityKept ==
  stage = "kept" =>
    \A c, d \in ToSet(found.ranked) :
      /\ c.passage = d.passage
      /\ InScope(c, found.analysis)
      /\ c.id \in found.evidence.rejected.DUPLICATE
      => d.id \notin found.evidence.rejected.OUT_OF_SCOPE
=============================================================================
