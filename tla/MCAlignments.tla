------------------------- MODULE MCAlignments ------------------------
(* Two or three passages a side. The thresholds are the program's, but for  *)
(* top_k and the window of split and merge detection, made small enough to  *)
(* bind on reports of this size.                                            *)
EXTENDS Integers, Sequences, FiniteSets, TLC

CONSTANTS textA, textB, textC, textD, textE

MCAlignmentConfig ==
  [top_k |-> 2, min_semantic_similarity |-> 50, weight_semantic |-> 50, weight_lexical |-> 30,
   weight_heading |-> 10, weight_position |-> 10, min_content_score_for_acceptance |-> 45,
   unchanged_semantic_threshold |-> 95, unchanged_lexical_threshold |-> 90,
   unchanged_length_ratio_min |-> 85, lightly_modified_semantic_threshold |-> 85,
   disagreement_high_semantic_threshold |-> 85, disagreement_low_lexical_threshold |-> 40,
   disagreement_low_semantic_threshold |-> 55, disagreement_high_lexical_threshold |-> 75,
   split_merge_candidate_min_score |-> 35, split_merge_far_candidate_min_score |-> 65,
   split_merge_adjacent_window |-> 1, low_margin_threshold |-> 3, medium_margin_threshold |-> 8,
   local_exchange_max_passes |-> 3]

Compared(cosines, lexical, heading, length_ratio) ==
  [cosines |-> cosines, lexical |-> lexical, heading |-> heading, length_ratio |-> length_ratio]

\* Another text: unrelated, below and just above the content gate, a paraphrase,
\* and a near copy.
OtherTexts ==
  {Compared({40}, 10, 0, 50), Compared({58}, 35, 0, 60), Compared({60}, 36, 0, 60),
   Compared({30, 90}, 30, 0, 70), Compared({96}, 92, 50, 90)}

\* Fewer of them where six comparisons are chosen.
FewOtherTexts == {Compared({58}, 35, 0, 60), Compared({60}, 36, 0, 60), Compared({96}, 92, 50, 90)}

SameText == Compared({100}, 100, 100, 100)

PassageRows(texts, indices, embeddings) ==
  [i \in DOMAIN texts |-> [index |-> indices[i], hash |-> texts[i], embedding |-> embeddings[i]]]

Whole == <<"canonical", "canonical", "canonical">>

\* <<earlier, later>> sides: all texts distinct; excluded passages in between;
\* repeated texts, some of them not embedded.
AlignmentLayouts ==
  {<<PassageRows(<<textA, textB>>, <<0, 1>>, Whole), PassageRows(<<textC, textD>>, <<0, 1>>, Whole)>>,
   <<PassageRows(<<textA, textB>>, <<0, 3>>, <<"canonical", "chunks">>), PassageRows(<<textC, textD>>, <<1, 4>>, Whole)>>,
   <<PassageRows(<<textA, textA, textB>>, <<0, 1, 2>>, Whole), PassageRows(<<textA, textC>>, <<0, 1>>, Whole)>>,
   <<PassageRows(<<textA, textB, textA>>, <<0, 2, 3>>, <<"none", "canonical", "none">>),
     PassageRows(<<textB, textA, textA>>, <<0, 1, 4>>, <<"canonical", "none", "canonical">>)>>,
   <<PassageRows(<<textA, textC, textA>>, <<0, 1, 2>>, <<"none", "canonical", "canonical">>),
     PassageRows(<<textA, textA, textD>>, <<0, 1, 2>>, <<"none", "canonical", "canonical">>)>>,
   <<PassageRows(<<textA, textB, textE>>, <<0, 1, 2>>, Whole), PassageRows(<<textC, textD>>, <<0, 1>>, Whole)>>,
   <<PassageRows(<<textA, textB>>, <<0, 1>>, Whole), PassageRows(<<textC, textD, textE>>, <<0, 1, 2>>, Whole)>>}

TextsOf(side) == { side[i].hash : i \in DOMAIN side }

ComparisonsOf(layout) ==
  LET pairs == TextsOf(layout[2]) \X TextsOf(layout[1])
      others == IF Cardinality(pairs) > 4 THEN FewOtherTexts ELSE OtherTexts
  IN { [p \in pairs |-> IF p[1] = p[2] THEN SameText ELSE g[p]] :
         g \in [{ p \in pairs : p[1] # p[2] } -> others] }

MCAlignmentInputs ==
  UNION { { [earlier |-> layout[1], later |-> layout[2], compare |-> compare,
             reasons |-> Len(layout[1]) = 2] : compare \in ComparisonsOf(layout) } : layout \in AlignmentLayouts }
=============================================================================
