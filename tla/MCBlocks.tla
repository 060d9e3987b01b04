------------------------------ MODULE MCBlocks ------------------------------
(***************************************************************************)
(* Lists of blocks for Passages, with every size of the code scaled down   *)
(* in proportion: passages of at most 6 words where the code has 400.      *)
(***************************************************************************)
EXTENDS Integers, Sequences

MCSizes ==
  [max_words |-> 6, target_words |-> 4, min_words |-> 3, floor_words |-> 2, density_words |-> 2, density |-> 35,
   model_tokens |-> 9, chunk_tokens |-> 8, batch |-> 2, qa_target |-> 6, qa_overlap |-> 3, qa_tolerance |-> 1]

Plain == [tokens |-> 1, ends |-> FALSE, encodable |-> TRUE]
End == [Plain EXCEPT !.ends = TRUE]
Heavy == [Plain EXCEPT !.tokens = 2]
Vast == [Plain EXCEPT !.tokens = 7]
Odd == [Plain EXCEPT !.encodable = FALSE]

Block(type, words) == [type |-> type, excluded |-> FALSE, numeric |-> FALSE, words |-> words]

MCBlockKinds ==
  { Block("HEADING_CANDIDATE", <<Plain>>),
    Block("PARAGRAPH", <<Plain, End>>),
    Block("PARAGRAPH", <<Odd, Plain, End>>),
    Block("PARAGRAPH", <<Heavy, Heavy, Plain, Vast, Heavy>>),
    Block("PARAGRAPH", <<Plain, End, Plain, Plain, Plain, End, Plain>>),
    Block("PARAGRAPH", [w \in 1..8 |-> IF w = 8 THEN End ELSE Plain]),
    [Block("LIST_ITEM", <<Plain, Plain, Plain>>) EXCEPT !.numeric = TRUE],
    [Block("TABLE_LIKE", <<Plain>>) EXCEPT !.excluded = TRUE] }

MCBlockLists == UNION { [1..n -> MCBlockKinds] : n \in 1..3 }

MCEncoders == { [batch_fails |-> FALSE, wrong_length |-> FALSE],
                [batch_fails |-> TRUE, wrong_length |-> FALSE],
                [batch_fails |-> FALSE, wrong_length |-> TRUE] }
=============================================================================
