--------------------------- MODULE MCWebRequests ---------------------------
(* Two releases that hold different passages and chunks on the same question: *)
(* passage 2 is in both, ranked differently and, by words, found twice (it is *)
(* in two comparisons); chunks 1 and 2 of the first release overlap.          *)
EXTENDS WebRequests, TLC

Chunk(report, index, first, last, members, similarity) ==
  [report |-> report, index |-> index, first |-> first, last |-> last,
   members |-> members, similarity |-> similarity]

MCContentOf ==
  <<[meaning |-> <<1, 2>>, words |-> <<2, 2, 3>>, similarity |-> <<80, 75>>,
     factor |-> <<50, 100>>, plain_factor |-> <<50, 60>>, shown |-> {1, 2, 3},
     chunks |-> <<1, 2>>, chunk_words |-> <<2>>,
     chunk |-> <<Chunk(1, 0, 1, 2, {1, 2}, 80), Chunk(1, 4, 7, 8, {2, 3}, 60)>>],
    [meaning |-> <<2, 4>>, words |-> <<2>>, similarity |-> <<0, 90, 0, 85>>,
     factor |-> <<0, 100, 0, 100>>, plain_factor |-> <<0, 100, 0, 60>>, shown |-> {2},
     chunks |-> <<1>>, chunk_words |-> <<1>>,
     chunk |-> <<Chunk(1, 0, 1, 1, {2, 4}, 75)>>]>>
\* Requests and texts are only told apart by what is chosen for them.
Interchangeable == Permutations(Requests) \cup Permutations(Texts)
=============================================================================
