-------------------------- MODULE PassageAlignment --------------------------
(***************************************************************************)
(* How one alignment run matches the passages of an earlier report with    *)
(* those of the later one: candidate retrieval, scoring, greedy claims,    *)
(* local exchange, split/merge and collision flags, exact-hash             *)
(* reconciliation, classification and confidence.                          *)
(*                                                                         *)
(* Similarities are percentages; scores carry the weights and the position *)
(* denominators as integer factors instead of being divided by them.       *)
(***************************************************************************)
EXTENDS Integers, Sequences, FiniteSets, FiniteSetsExt, Functions, DocumentJobs

CONSTANTS
  AlignmentInputs, \* what alignment runs are given, see Embedding
  AlignmentConfig  \* thresholds in percent

\* What the stages have found so far.
candidates == found.candidates \* the scored candidates of each later passage
accepted == found.accepted     \* the one-to-one assignment, from later to earlier passages
result == found.result         \* the rows and counts of the run

\* An input holds the eligible passages of both sides, in order, each with its
\* passage_index, its content_hash and whether it was embedded whole
\* ("canonical"), in retrieval chunks, or not at all; the comparison of any two
\* texts, later first: the cosines of their vectors, one per chunk, and the
\* lexical composite, heading similarity and length ratio; and whether extraction
\* quality, transition or reporting gap are reasons for a review of the pair.
Embedding == {"canonical", "chunks", "none"}

Earliers == DOMAIN input.earlier
Laters == DOMAIN input.later

Comparison(l, e) == input.compare[<<input.later[l].hash, input.earlier[e].hash>>]

Index(side, i) == side[i].index

PairCompared(c) ==
  /\ IsFiniteSet(c.cosines) /\ c.cosines # {} /\ c.cosines \subseteq Int
  /\ c.lexical \in Int /\ c.heading \in Int

\* No two passages of a segmentation have one passage_index.
ASSUME InputsTyped ==
  \A x \in AlignmentInputs :
    /\ \A side \in {x.earlier, x.later} :
         /\ Len(side) \in Nat /\ DOMAIN side = 1 .. Len(side)
         /\ \A i \in DOMAIN side : Index(side, i) \in Nat
         /\ \A i, j \in DOMAIN side : Index(side, i) = Index(side, j) => i = j
    /\ \A e \in DOMAIN x.earlier, l \in DOMAIN x.later :
         PairCompared(x.compare[<<x.later[l].hash, x.earlier[e].hash>>])

ASSUME ConfigTyped ==
  /\ \A weight \in {"weight_semantic", "weight_lexical", "weight_heading", "weight_position"} :
       AlignmentConfig[weight] \in Int
  /\ AlignmentConfig.local_exchange_max_passes \in Nat

ASSUME NoneIsNoPassage == None \notin Nat

Abs(n) == IF n < 0 THEN -n ELSE n

\* Pairs claimed in their order: each unless one of its ends is taken.
Claimed(order) ==
  LET claims[n \in 0 .. Len(order)] ==
        IF n = 0 THEN {}
        ELSE LET taken == claims[n - 1]
             IN IF \E q \in taken : q[1] = order[n][1] \/ q[2] = order[n][2]
                THEN taken ELSE taken \cup {order[n]}
  IN claims[Len(order)]

-----------------------------------------------------------------------------
(* get_semantic_candidates                                                 *)

\* The best cosine of one earlier passage's vectors.
Similarity(l, e) == Max(Comparison(l, e).cosines)

FirstK(es, l) ==
  LET order == InOrder(es, [e \in es |-> <<-Similarity(l, e), Index(input.earlier, e)>>])
  IN Range(SubSeq(order, 1, IF Len(order) < AlignmentConfig.top_k THEN Len(order) ELSE AlignmentConfig.top_k))

Kind(kind) == { e \in Earliers : input.earlier[e].embedding = kind }

\* The nearest canonical embeddings and the nearest chunked passages, merged.
\* A later passage without a vector of its own has none.
Retrieved(l) ==
  IF input.later[l].embedding # "canonical" THEN {}
  ELSE LET merged == FirstK(Kind("canonical"), l) \cup FirstK(Kind("chunks"), l)
       IN FirstK({ e \in merged : Similarity(l, e) >= AlignmentConfig.min_semantic_similarity }, l)

-----------------------------------------------------------------------------
(* Scores of a candidate                                                    *)

Span(side) == IF Len(side) > 1 THEN Len(side) - 1 ELSE 1

\* compute_position_difference, times Scale.
Scale == Span(input.earlier) * Span(input.later)

PositionDifference(l, e) ==
  LET at(side, i, factor) == IF Len(side) > 1 THEN Index(side, i) * factor ELSE 0
  IN Abs(at(input.earlier, e, Span(input.later)) - at(input.later, l, Span(input.earlier)))

Weighted(l, e) ==
  LET c == Comparison(l, e)
  IN AlignmentConfig.weight_semantic * Similarity(l, e) + AlignmentConfig.weight_lexical * c.lexical
       + AlignmentConfig.weight_heading * c.heading

\* compute_content_score >= min_content_score_for_acceptance.
ClearsGate(l, e) ==
  Weighted(l, e) >= AlignmentConfig.min_content_score_for_acceptance
                      * (AlignmentConfig.weight_semantic + AlignmentConfig.weight_lexical + AlignmentConfig.weight_heading)

\* compute_combined_score, times 100 * Scale.
Combined(l, e) ==
  Weighted(l, e) * Scale + AlignmentConfig.weight_position * 100 * (Scale - PositionDifference(l, e))

Clears(l, e, threshold) == Combined(l, e) >= threshold * 100 * Scale

\* score_candidates: best combined score first.
Scored(l) ==
  InOrder(candidates[l], [e \in candidates[l] |-> <<-Combined(l, e), Index(input.earlier, e)>>])

-----------------------------------------------------------------------------
(* The one-to-one assignment                                                *)

Proposals == { p \in Laters \X Earliers : p[2] \in candidates[p[1]] /\ ClearsGate(p[1], p[2]) }

\* Proposals are claimed in one global order.
Greedy ==
  LET rank == [p \in Proposals |-> <<-Combined(p[1], p[2]), Index(input.later, p[1]), Index(input.earlier, p[2])>>]
      won == Claimed(InOrder(Proposals, rank))
  IN [l \in { p[1] : p \in won } |-> CHOOSE e \in Earliers : <<l, e>> \in won]

Swapped(acc, l, m) == [acc EXCEPT ![l] = acc[m], ![m] = acc[l]]

\* The later passage m holds a candidate of l, and l one of m, and the two
\* scores together rise when they are exchanged.
Improves(acc, l, m) ==
  /\ l # m
  /\ acc[m] \in candidates[l] /\ acc[l] \in candidates[m]
  /\ Combined(l, acc[m]) + Combined(m, acc[l])
       > Combined(l, acc[l]) + Combined(m, acc[m])

\* One sweep: the first improving exchange, by the earlier index of l and then
\* in the order of l's own candidates.
Sweep(acc) ==
  LET swaps == { x \in (DOMAIN acc) \X (DOMAIN acc) : Improves(acc, x[1], x[2]) }
      rank == [x \in swaps |-> <<Index(input.earlier, acc[x[1]]),
                                 -Combined(x[1], acc[x[2]]), Index(input.earlier, acc[x[2]])>>]
      first == InOrder(swaps, rank)[1]
  IN IF swaps = {} THEN acc ELSE Swapped(acc, first[1], first[2])

\* improve_by_local_exchange.
Exchanged ==
  LET passes == AlignmentConfig.local_exchange_max_passes
      after[n \in 0 .. passes] == IF n = 0 THEN accepted ELSE Sweep(after[n - 1])
  IN after[passes]

-----------------------------------------------------------------------------
(* Flags                                                                    *)

UnmatchedLater == Laters \ DOMAIN accepted
UnmatchedEarlier == Earliers \ Range(accepted)

\* A candidate that is near must clear a lower bar than one far away.
ClearsBar(l, e, gap) ==
  Clears(l, e, IF gap <= AlignmentConfig.split_merge_adjacent_window
               THEN AlignmentConfig.split_merge_candidate_min_score
               ELSE AlignmentConfig.split_merge_far_candidate_min_score)

Gap(side, i, j) == Abs(Index(side, i) - Index(side, j))

\* An unmatched later passage whose candidate another one was given.
Splits ==
  { l \in UnmatchedLater :
      \E m \in DOMAIN accepted :
        accepted[m] \in candidates[l] /\ ClearsBar(l, accepted[m], Gap(input.later, l, m)) }

\* An unmatched earlier passage that was a candidate of a matched later one.
Merges ==
  { e \in UnmatchedEarlier :
      \E m \in DOMAIN accepted :
        e \in candidates[m] /\ ClearsBar(m, e, Gap(input.earlier, e, accepted[m])) }

\* Matches that content alone cannot tell apart.
Collisions ==
  { l \in DOMAIN accepted :
      \/ \E m \in Laters \ {l} : <<m, accepted[l]>> \in Proposals
      \/ \E e \in Earliers \ {accepted[l]} :
           input.earlier[e].hash = input.earlier[accepted[l]].hash }

-----------------------------------------------------------------------------
(* reconcile_exact_hash_duplicates                                          *)

\* _predicted_later_position, as <<numerator, denominator>>: interpolated between
\* the matches around it, shifted by the one on its only side, or in proportion.
Predicted(e) ==
  LET anchors == { <<Index(input.earlier, accepted[l]), Index(input.later, l)>> : l \in DOMAIN accepted }
      at == Index(input.earlier, e)
      before == { a \in anchors : a[1] < at }
      after == { a \in anchors : a[1] >= at }
      prev == CHOOSE a \in before : \A b \in before : b[1] <= a[1]
      next == CHOOSE a \in after : \A b \in after : a[1] <= b[1]
  IN CASE before # {} /\ after # {} ->
            <<prev[2] * (next[1] - prev[1]) + (at - prev[1]) * (next[2] - prev[2]), next[1] - prev[1]>>
       [] before # {} /\ after = {} -> <<prev[2] + at - prev[1], 1>>
       [] before = {} /\ after # {} -> <<next[2] - (next[1] - at), 1>>
       [] OTHER -> IF Len(input.earlier) > 1 /\ Len(input.later) > 1
                   THEN <<at * Span(input.later), Span(input.earlier)>> ELSE <<0, 1>>

\* The distance of a pair from its prediction, times a common denominator.
Off(p) ==
  LET f == Predicted(p[1])
      others[n \in 0 .. Len(input.earlier)] ==
        IF n = 0 THEN 1 ELSE others[n - 1] * (IF n = p[1] THEN 1 ELSE Predicted(n)[2])
  IN Abs(f[1] - Index(input.later, p[2]) * f[2]) * others[Len(input.earlier)]

\* Mutant: a text that is repeated on either side is left unmatched.
PoolMutant(hash) ==
  LET same(side, S) == { i \in S : side[i].hash = hash }
      earlier == same(input.earlier, UnmatchedEarlier \ Merges)
      later == same(input.later, UnmatchedLater \ Splits)
  IN IF Cardinality(earlier) = 1 /\ Cardinality(later) = 1
     THEN [earlier |-> earlier, later |-> later] ELSE [earlier |-> {}, later |-> {}]

\* The passages still unmatched and unflagged, by text.
Pool(hash) ==
  [earlier |-> { e \in UnmatchedEarlier \ Merges : input.earlier[e].hash = hash },
   later |-> { l \in UnmatchedLater \ Splits : input.later[l].hash = hash }]

\* The pairs to reconcile of one text, nearest to their predicted position first.
Nearest(hash) ==
  LET pairs == Pool(hash).earlier \X Pool(hash).later
  IN InOrder(pairs, [p \in pairs |-> <<Off(p), Index(input.earlier, p[1]), Index(input.later, p[2])>>])

\* Mutant: each earlier passage takes the nearest later one, claimed or not.
ReconciledOfMutant(hash) ==
  { p \in Range(Nearest(hash)) :
      \E i \in DOMAIN Nearest(hash) : /\ Nearest(hash)[i] = p
                                      /\ \A j \in 1 .. i - 1 : Nearest(hash)[j][1] # p[1] }

ReconciledOf(hash) == Claimed(Nearest(hash))

Texts == { input.earlier[e].hash : e \in Earliers } \cup { input.later[l].hash : l \in Laters }

Reconciled == UNION { ReconciledOf(hash) : hash \in Texts }

-----------------------------------------------------------------------------
(* Classification and confidence                                            *)

\* classify_alignment.
Classified(l, e) ==
  LET c == Comparison(l, e)
  IN CASE /\ Similarity(l, e) >= AlignmentConfig.unchanged_semantic_threshold
          /\ c.lexical >= AlignmentConfig.unchanged_lexical_threshold
          /\ c.length_ratio >= AlignmentConfig.unchanged_length_ratio_min -> "UNCHANGED"
       [] OTHER -> IF Similarity(l, e) >= AlignmentConfig.lightly_modified_semantic_threshold
                   THEN "LIGHTLY_MODIFIED" ELSE "SUBSTANTIALLY_MODIFIED"

\* detect_disagreement.
Disagrees(l, e) ==
  LET lexical == Comparison(l, e).lexical
  IN \/ /\ Similarity(l, e) >= AlignmentConfig.disagreement_high_semantic_threshold
        /\ lexical <= AlignmentConfig.disagreement_low_lexical_threshold
     \/ /\ Similarity(l, e) <= AlignmentConfig.disagreement_low_semantic_threshold
        /\ lexical >= AlignmentConfig.disagreement_high_lexical_threshold

\* Distance to the next candidate in l's own list; 100 when there is none.
Margin(l, e) ==
  LET own == Scored(l)
      at == CHOOSE i \in DOMAIN own : own[i] = e
  IN IF at < Len(own) THEN Combined(l, e) - Combined(l, own[at + 1]) ELSE 100 * 100 * Scale

\* assess_confidence.
Confidence(margin, conflict) ==
  CASE conflict -> "NEEDS_REVIEW"
    [] OTHER -> IF margin < AlignmentConfig.low_margin_threshold * 100 * Scale THEN "LOW"
                ELSE IF margin < AlignmentConfig.medium_margin_threshold * 100 * Scale \/ input.reasons
                     THEN "MEDIUM" ELSE "HIGH"

-----------------------------------------------------------------------------
(* _run_alignment                                                           *)

Row(e, l, status, confidence, source) ==
  [earlier |-> e, later |-> l, status |-> status, confidence |-> confidence, source |-> source]

\* A passage with no counterpart.
Lone(e, l, flagged, status) ==
  Row(e, l, IF flagged THEN "AMBIGUOUS" ELSE status, Confidence(100 * 100 * Scale, flagged), "PRIMARY")

Rows ==
  LET collisions == Collisions
      reconciled == Reconciled
      unique(p) == LET pool == Pool(input.earlier[p[1]].hash)
                   IN Cardinality(pool.earlier) = 1 /\ Cardinality(pool.later) = 1
  IN { Row(accepted[l], l, Classified(l, accepted[l]),
           Confidence(Margin(l, accepted[l]), l \in collisions \/ Disagrees(l, accepted[l])),
           "PRIMARY") : l \in DOMAIN accepted }
     \cup { Row(p[1], p[2], "UNCHANGED", IF unique(p) THEN "HIGH" ELSE "MEDIUM",
                IF unique(p) THEN "UNIQUE" ELSE "DUPLICATE_CLUSTER") : p \in reconciled }
     \cup { Lone(None, l, l \in Splits, "NEW") :
              l \in UnmatchedLater \ { p[2] : p \in reconciled } }
     \cup { Lone(e, None, e \in Merges, "REMOVED") :
              e \in UnmatchedEarlier \ { p[1] : p \in reconciled } }

RunResult ==
  [rows |-> Rows,
   matched_count |-> Cardinality(DOMAIN accepted) + Cardinality(Reconciled),
   status |-> IF input.reasons \/ \E row \in Rows : row.status = "AMBIGUOUS"
              THEN "COMPLETED_WITH_WARNINGS" ELSE "COMPLETED"]

SelectSource == \E x \in AlignmentInputs : Start("selected", x)

RetrieveCandidates == Follow("selected", "scored", [candidates |-> [l \in Laters |-> Retrieved(l)]])

ClaimProposals == Follow("scored", "claimed", [candidates |-> candidates, accepted |-> Greedy])

ExchangeLocally == Follow("claimed", "matched", [candidates |-> candidates, accepted |-> Exchanged])

RecordRows ==
  Follow("matched", "completed", [candidates |-> candidates, accepted |-> accepted, result |-> RunResult])

AlignmentNext ==
  \/ SelectSource
  \/ RetrieveCandidates
  \/ ClaimProposals
  \/ ExchangeLocally
  \/ RecordRows

AlignmentSpec == Idle /\ [][AlignmentNext]_vars

-----------------------------------------------------------------------------
(* Properties                                                              *)

\* Every eligible passage of either report is in exactly one row, whatever was
\* claimed, exchanged, flagged or reconciled, and matched_count with the lone
\* rows accounts for all of them: the two partial unique indexes of
\* passage_alignments are never run into and no passage is lost.
RowsPartitionPassages ==
  stage = "completed" =>
    LET count(P(_)) == Cardinality({ row \in result.rows : P(row) })
    IN /\ \A e \in Earliers : count(LAMBDA row : row.earlier = e) = 1
       /\ \A l \in Laters : count(LAMBDA row : row.later = l) = 1
       /\ result.matched_count = count(LAMBDA row : None \notin {row.earlier, row.later})
       /\ result.matched_count + count(LAMBDA row : row.earlier = None) = Cardinality(Laters)

\* No text is reported as removed from one report and new in the other, and a
\* match that reconciliation made is of one text.
NoTextRemovedAndNew ==
  stage = "completed" =>
    /\ \A x, y \in result.rows :
         x.status = "REMOVED" /\ y.status = "NEW" =>
           input.earlier[x.earlier].hash # input.later[y.later].hash
    /\ \A row \in result.rows : row.source # "PRIMARY" =>
         input.earlier[row.earlier].hash = input.later[row.later].hash

=============================================================================
