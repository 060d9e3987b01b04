------------------------------ MODULE Passages ------------------------------
(***************************************************************************)
(* From the classified blocks of a report to its passages                  *)
(* (passage_segmentation.py), their embeddings (passage_embedding.py,      *)
(* retrieval_chunking.py) and the chunks questions are answered from       *)
(* (publishing/qa_chunking.py).                                            *)
(*                                                                         *)
(* A text is a sequence of words; a word has a weight in tokens and may    *)
(* end a sentence. Positions count words where the code counts characters. *)
(***************************************************************************)
EXTENDS Integers, Sequences, FiniteSets, SequencesExt, FiniteSetsExt, DocumentJobs

CONSTANTS
  BlockLists, \* lists of blocks: a type, whether kept, whether numeric, its words
  Encoders,   \* how the model answers: what it cannot encode, whether a batch fails
  Sizes       \* PassageConfig, EmbeddingConfig, RetrievalChunkConfig, QA targets

\* What the block classifier takes for a heading has few words, far fewer than a
\* passage may have.
ASSUME BlocksTyped ==
  \A blocks \in BlockLists :
    /\ IsList(blocks)
    /\ \A b \in DOMAIN blocks :
         /\ blocks[b].words \in Seq([tokens : Nat, ends : BOOLEAN, encodable : BOOLEAN])
         /\ blocks[b].type = "HEADING_CANDIDATE" => Len(blocks[b].words) <= Sizes.max_words

ASSUME SizesTyped ==
  /\ Sizes.max_words \in Nat \ {0} /\ Sizes.min_words \in Nat /\ Sizes.target_words \in Nat
  /\ Sizes.chunk_tokens \in Nat /\ Sizes.model_tokens \in Nat /\ Sizes.chunk_tokens <= Sizes.model_tokens
  /\ Sizes.qa_target \in Nat /\ Sizes.qa_overlap \in Nat

\* cumulative of build_qa_chunks; the tokens of the words from one to another, and of all.
Cumulative(words) ==
  LET upTo[n \in 0 .. Len(words)] == IF n = 0 THEN 0 ELSE upTo[n - 1] + words[n].tokens
  IN upTo
TokensIn(words, from, to) == Cumulative(words)[to] - Cumulative(words)[from - 1]
Weight(words) == TokensIn(words, 1, Len(words))

-----------------------------------------------------------------------------
(* Splitting a text too long for one piece                                 *)

\* _sentence_spans and _word_spans
SentenceSpans(words) ==
  LET last == Increasing({ i \in DOMAIN words : words[i].ends \/ i = Len(words) })
  IN [i \in DOMAIN last |-> <<IF i = 1 THEN 1 ELSE last[i - 1] + 1, last[i]>>]
WordSpans(span) == [i \in 1 .. span[2] - span[1] + 1 |-> <<span[1] + i - 1, span[1] + i - 1>>]

Words(text, span) == SubSeq(text, span[1], span[2])

\* What a loop has packed: what is closed, and what still may grow.
Nothing == [done |-> <<>>, open |-> <<>>]
Closed(acc) == IF acc.open = <<>> THEN acc.done ELSE Append(acc.done, acc.open)

\* One more span joins the open piece if the two fit. A span that alone does not
\* fit is cut as `finer` says, if it says anything.
PackSpan(acc, span, size, limit, finer) ==
  IF size[span] > limit /\ span \in DOMAIN finer THEN [done |-> Closed(acc) \o finer[span], open |-> <<>>]
  ELSE IF acc.open = <<>> THEN [acc EXCEPT !.open = span]
  ELSE IF size[<<acc.open[1], span[2]>>] <= limit THEN [acc EXCEPT !.open = <<@[1], span[2]>>]
  ELSE [done |-> Append(acc.done, acc.open), open |-> span]

\* _pack_spans
PackSpans(spans, size, limit, finer) ==
  LET after[n \in 0 .. Len(spans)] ==
        IF n = 0 THEN Nothing ELSE PackSpan(after[n - 1], spans[n], size, limit, finer)
  IN Closed(after[Len(spans)])

\* Whole sentences first, single words where a sentence does not fit.
Pack(words, size, limit) ==
  LET sentences == SentenceSpans(words)
      ByWord == [span \in ToSet(sentences) |-> PackSpans(WordSpans(span), size, limit, <<>>)]
  IN PackSpans(sentences, size, limit, ByWord)

\* _split_oversized_block_text counts words, split_into_retrieval_chunks counts
\* tokens, two special ones included.
SpansOf(words) == (DOMAIN words) \X (DOMAIN words)
SplitBlock(words) == Pack(words, [span \in SpansOf(words) |-> span[2] - span[1] + 1], Sizes.max_words)
RetrievalChunks(words) ==
  Pack(words, [span \in SpansOf(words) |-> TokensIn(words, span[1], span[2]) + 2], Sizes.chunk_tokens)

-----------------------------------------------------------------------------
(* Segmentation                                                            *)

\* The included blocks, and the runs a heading starts.
Included(blocks) == { b \in DOMAIN blocks : ~blocks[b].excluded /\ blocks[b].words # <<>> }
HeadingRuns(blocks) ==
  LET starts == { b \in Included(blocks) : blocks[b].type = "HEADING_CANDIDATE" \/ b = Min(Included(blocks)) }
      first == Increasing(starts)
  IN [r \in DOMAIN first |-> { b \in Included(blocks) : b >= first[r] /\ \A t \in starts : t > first[r] => b < t }]

PieceWords(piece) == piece.to - piece.from + 1
GroupWords(group) == Total([i \in DOMAIN group |-> PieceWords(group[i])])

\* One block of a run: it joins the open group, or starts the next; a block too long
\* closes the open group and makes groups of its own.
PackBlock(blocks, acc, b) ==
  LET size == Len(blocks[b].words)
      whole == [block |-> b, from |-> 1, to |-> size]
      joined == Append(acc.open, whole)
      spans == SplitBlock(blocks[b].words)
  IN IF size > Sizes.max_words
     THEN [done |-> Closed(acc) \o [i \in DOMAIN spans |-> <<[block |-> b, from |-> spans[i][1], to |-> spans[i][2]]>>],
           open |-> <<>>]
     ELSE IF acc.open # <<>> /\ GroupWords(joined) > Sizes.max_words
     THEN [done |-> Append(acc.done, acc.open), open |-> <<whole>>]
     ELSE IF GroupWords(joined) >= Sizes.target_words
     THEN [done |-> Append(acc.done, joined), open |-> <<>>]
     ELSE [acc EXCEPT !.open = joined]

\* Mutant: the last group joins whatever the two come to.
MergeTrailingMutant(groups) ==
  LET n == Len(groups)
  IN IF n > 1 /\ GroupWords(groups[n]) < Sizes.min_words
     THEN Append(SubSeq(groups, 1, n - 2), groups[n - 1] \o groups[n])
     ELSE groups

\* A small last group of a run joins the one before it.
MergeTrailing(groups) ==
  LET n == Len(groups)
  IN IF /\ n > 1 /\ GroupWords(groups[n]) < Sizes.min_words
        /\ GroupWords(groups[n - 1]) + GroupWords(groups[n]) <= Sizes.max_words
     THEN Append(SubSeq(groups, 1, n - 2), groups[n - 1] \o groups[n])
     ELSE groups

\* _find_table_adjacent_ids: the kept blocks next to a table.
TableAdjacent(blocks) ==
  LET Kept(S) == { b \in S : ~blocks[b].excluded }
      Table(t) == (IF Kept(1..(t - 1)) = {} THEN {} ELSE { Max(Kept(1..(t - 1))) })
                  \cup (IF Kept((t + 1)..Len(blocks)) = {} THEN {} ELSE { Min(Kept((t + 1)..Len(blocks))) })
  IN UNION { Table(t) : t \in { b \in DOMAIN blocks : blocks[b].type = "TABLE_LIKE" } }

\* _finalize_group and the word floor of segment_blocks.
Passage(blocks, group, headed) ==
  LET types == { blocks[group[i].block].type : i \in DOMAIN group }
      numeric == Where(group, { piece \in ToSet(group) : blocks[piece.block].numeric })
      nextToTable == \E i \in DOMAIN group : group[i].block \in TableAdjacent(blocks)
      dense == /\ GroupWords(group) >= Sizes.density_words
               /\ 100 * GroupWords(numeric) >= Sizes.density * GroupWords(group)
      text == FlattenSeq([i \in DOMAIN group |->
                            SubSeq(blocks[group[i].block].words, group[i].from, group[i].to)])
  IN [pieces |-> group,
      text |-> text,
      headed |-> headed,
      type |-> CASE headed -> "HEADING_WITH_BODY"
                 [] ~headed /\ types = {"LIST_ITEM"} -> "LIST"
                 [] ~headed /\ types # {"LIST_ITEM"} /\ nextToTable -> "TABLE_CONTEXT"
                 [] OTHER -> IF Len(group) > 1 THEN "MULTI_PARAGRAPH" ELSE "PARAGRAPH",
      excluded |-> dense \/ (~headed /\ GroupWords(group) < Sizes.floor_words)]

\* _pack_run_into_passages
RunGroups(blocks, run) ==
  LET order == Increasing(run)
      after[n \in 0 .. Len(order)] == IF n = 0 THEN Nothing ELSE PackBlock(blocks, after[n - 1], order[n])
  IN MergeTrailing(Closed(after[Len(order)]))

RunPassages(blocks, run) ==
  LET groups == RunGroups(blocks, run)
      heading == blocks[Min(run)].type = "HEADING_CANDIDATE"
  IN [i \in DOMAIN groups |-> Passage(blocks, groups[i], heading /\ i = 1)]

\* segment_blocks
Segment(blocks) ==
  LET runs == HeadingRuns(blocks)
  IN IF Included(blocks) = {} THEN <<>> ELSE FlattenSeq([r \in DOMAIN runs |-> RunPassages(blocks, runs[r])])

-----------------------------------------------------------------------------
(* Embeddings                                                              *)

Encodable(words) == \A i \in DOMAIN words : words[i].encodable

\* Mutant: a batch that raises is given up.
EncodedMutant(texts, encoder) ==
  { t \in DOMAIN texts : /\ ~encoder.batch_fails /\ ~encoder.wrong_length
                         /\ \A u \in DOMAIN texts : Encodable(texts[u]) }

\* encode_batch on all the texts, and one by one when that raises: which get a
\* vector of the right length.
Encoded(texts, encoder) ==
  LET whole == ~encoder.batch_fails /\ \A t \in DOMAIN texts : Encodable(texts[t])
  IN { t \in DOMAIN texts : (whole \/ Encodable(texts[t])) /\ ~encoder.wrong_length }

\* _embed_oversized_passage_as_retrieval_chunks: the chunks that got a vector.
Chunks(text, encoder) ==
  LET spans == RetrievalChunks(text)
  IN { spans[c] : c \in Encoded([d \in DOMAIN spans |-> Words(text, spans[d])], encoder) }

\* _run_embedding: passages the model can take in batches, the others as chunks.
Embed(passages, encoder) ==
  LET eligible == { p \in DOMAIN passages : ~passages[p].excluded }
      long == { p \in eligible : Weight(passages[p].text) + 2 > Sizes.model_tokens }
      BatchOf(p) == Cardinality({ q \in eligible \ long : q < p }) \div Sizes.batch
      Batch(p) == [q \in { r \in eligible \ long : BatchOf(r) = BatchOf(p) } |-> passages[q].text]
      stored == { p \in eligible \ long : p \in Encoded(Batch(p), encoder) }
      chunks == [p \in long |-> Chunks(passages[p].text, encoder)]
      chunked == { p \in long : chunks[p] # {} }
      skipped == Cardinality(eligible \ (stored \cup chunked))
  IN [vectors |-> stored,
      chunks |-> chunks,
      skipped |-> skipped,
      status |-> IF eligible = {} THEN "INELIGIBLE"
                 ELSE IF skipped = 0 /\ chunked = {} THEN "COMPLETED" ELSE "COMPLETED_WITH_WARNINGS"]

-----------------------------------------------------------------------------
(* Chunks for answering questions                                          *)

\* One window of build_qa_chunks from word `first` on: up to the target, then cut at
\* the last sentence end it holds or the next word makes.
QaWindow(text, first) ==
  LET reach == { k \in first..Len(text) : TokensIn(text, first, k) >= Sizes.qa_target }
      raw == Min(reach \cup {Len(text)})
      hard == Min({raw + 1, Len(text)})
      sentences == { k \in first..hard : text[k].ends }
  IN [from |-> first, raw |-> raw, to |-> IF sentences = {} THEN raw ELSE Max(sentences)]

\* Mutant: the next window starts where this one was to end.
QaNextMutant(text, window) == window.raw + 1

\* The first word of the next window, about the overlap before the end of this one.
QaNext(text, window) ==
  LET far == { k \in window.from..window.raw :
                 k = window.from \/ TokensIn(text, k, window.raw) >= Sizes.qa_overlap }
  IN Max({Max(far), window.from + 1})

\* build_qa_chunks. Windows stay far below what the model takes.
QaStep(text, windows) ==
  LET window == windows[Len(windows)]
  IN IF window.raw = Len(text) THEN windows ELSE Append(windows, QaWindow(text, QaNext(text, window)))

QaWindows(text) ==
  LET after[n \in 0 .. Len(text)] == IF n = 0 THEN <<QaWindow(text, 1)>> ELSE QaStep(text, after[n - 1])
  IN IF text = <<>> THEN <<>> ELSE after[Len(text)]

-----------------------------------------------------------------------------
(* The job                                                                 *)

ChooseBlocks == \E blocks \in BlockLists, encoder \in Encoders :
                   Start("classified", [blocks |-> blocks, encoder |-> encoder])

\* _run_segmentation
RunSegmentation == Follow("classified", "segmented", Segment(input.blocks))

RunEmbedding == Follow("segmented", "embedded", [passages |-> found, embedding |-> Embed(found, input.encoder)])

\* The publisher, with no passage classed as an artifact.
BuildQaChunks ==
  LET text == FlattenSeq([p \in DOMAIN found.passages |-> found.passages[p].text])
  IN Follow("embedded", "chunked", [text |-> text, windows |-> QaWindows(text)])

PassagesNext == ChooseBlocks \/ RunSegmentation \/ RunEmbedding \/ BuildQaChunks

PassagesSpec == Idle /\ [][PassagesNext]_vars

-----------------------------------------------------------------------------
(* Properties                                                              *)

Precedes(x, y) == x.block < y.block \/ (x.block = y.block /\ x.to < y.from)

\* The pieces of the groups, one after the other, are the words of these blocks in
\* their order, none lost or twice.
Tile(groups, blocks, S) ==
  /\ \A p \in DOMAIN groups : \A i \in DOMAIN groups[p] :
       LET piece == groups[p][i]
       IN piece.block \in S /\ 1 <= piece.from /\ piece.from <= piece.to /\ piece.to <= Len(blocks[piece.block].words)
  /\ \A p, q \in DOMAIN groups : \A i \in DOMAIN groups[p], j \in DOMAIN groups[q] :
       p < q \/ (p = q /\ i < j) => Precedes(groups[p][i], groups[q][j])
  /\ \A b \in S : \A w \in DOMAIN blocks[b].words :
       \E p \in DOMAIN groups : \E i \in DOMAIN groups[p] :
         groups[p][i].block = b /\ w \in groups[p][i].from .. groups[p][i].to

\* Passages tile the narrative: their pieces in order are the words of the included
\* blocks in order, none lost or twice, no passage is longer than the maximum, and a
\* heading only ever opens one.
PassagesTile ==
  stage = "segmented" =>
    /\ Tile([p \in DOMAIN found |-> found[p].pieces], input.blocks, Included(input.blocks))
    /\ \A p \in DOMAIN found :
         /\ Len(found[p].text) <= Sizes.max_words
         /\ \A i \in DOMAIN found[p].pieces :
              input.blocks[found[p].pieces[i].block].type = "HEADING_CANDIDATE" => i = 1

\* A passage that is eligible gets its vector, or, when the model cannot take it
\* whole, chunks that leave out no word, unless a text of its own cannot be encoded:
\* never because another text of its batch failed. What is missing is counted, and
\* only a run in which every passage has its own vector is COMPLETED. A chunk fits
\* the model, unless it is a single word, which nothing divides.
EmbeddingAccounts ==
  stage = "embedded" =>
    LET passages == found.passages
        run == found.embedding
        eligible == { p \in DOMAIN passages : ~passages[p].excluded }
        Covered(p) == UNION { c[1]..c[2] : c \in run.chunks[p] }
        has == run.vectors \cup { p \in DOMAIN run.chunks : run.chunks[p] # {} }
    IN /\ run.vectors \cap DOMAIN run.chunks = {}
       /\ run.skipped = Cardinality(eligible \ has)
       /\ run.status = "COMPLETED" => run.vectors = eligible
       /\ \A p \in eligible : Encodable(passages[p].text) /\ ~input.encoder.wrong_length =>
            IF p \in DOMAIN run.chunks THEN Covered(p) = DOMAIN passages[p].text ELSE p \in run.vectors
       /\ \A p \in DOMAIN run.chunks : \A c \in run.chunks[p] :
            c[1] < c[2] => TokensIn(passages[p].text, c[1], c[2]) + 2 <= Sizes.model_tokens

\* Words that are in a chunk built for questions.
InQaChunks == UNION { found.windows[w].from..found.windows[w].to : w \in DOMAIN found.windows }

\* Text written in sentences no longer than the overlap is quotable as a whole.
PunctuatedTextCovered ==
  stage = "chunked" =>
    LET Loose(a, b) == a <= b /\ \A k \in a..b : ~found.text[k].ends
        punctuated == \A a, b \in DOMAIN found.text :
                        Loose(a, b) => TokensIn(found.text, a, b) < Sizes.qa_overlap /\ b < Len(found.text)
    IN punctuated => InQaChunks = DOMAIN found.text

\* What qa_chunking.py says of the cut: at a sentence end near the boundary the target
\* sets, and at the boundary itself when there is none near. At least, a window cut
\* further back leaves its other words to another chunk.
QaCutNearBoundary ==
  stage = "chunked" =>
    \A w \in DOMAIN found.windows :
      LET window == found.windows[w]
      IN window.raw - window.to > Sizes.qa_tolerance => (window.to + 1)..window.raw \subseteq InQaChunks

=============================================================================
