---------------------------- MODULE WebRequests ----------------------------
(***************************************************************************)
(* Requests of the web application, each a sequence of awaits: semantic    *)
(* and hybrid passage search, and the question answering of /ask.  Every   *)
(* database statement reads whichever release is live when it is sent,     *)
(* requests share the process's query-embedding cache and the daily quota  *)
(* counters, and the embedding and generation services may fail.           *)
(*                                                                         *)
(* What they read is the abstract register of releases that Publication    *)
(* implements; its operators go on promoting while requests run.           *)
(***************************************************************************)
EXTENDS Integers, Sequences, FiniteSets, Functions

CONSTANTS
  Versions,            \* releases, numbered
  None,                \* no release, no client cookie
  ContentOf,           \* what each release holds on the question, see Content
  Requests,
  Pages,               \* the pages asked for
  Texts,               \* search texts and questions
  Clients,             \* browsers, None for one that has no cookie yet
  CacheMax,            \* QUERY_EMBEDDING_CACHE_MAX_ENTRIES
  EmbedRetries,        \* 1 for the Cloudflare provider, 0 for the local one
  MaxRetries,          \* GEMINI_MAX_RETRIES
  PerClientLimit, GlobalLimit,
  FailOpen,            \* QA_QUOTA_FAILURE_MODE = open
  LexicalFusion,       \* QA_CHUNK_LEXICAL_FUSION_ENABLED
  CandidateLimit,      \* semanticCandidateLimit and lexicalCandidateLimit
  ResultLimit,         \* maxResults, maxEvidenceChunks
  MinimumSimilarity, RrfK,
  LastDay,             \* bound: the days that pass
  RetentionDays        \* how long counters are kept

ASSUME LimitsPositive ==
  /\ {CacheMax, PerClientLimit, GlobalLimit, CandidateLimit, ResultLimit, LastDay, RrfK} \subseteq Nat \ {0}
  /\ {EmbedRetries, MaxRetries, RetentionDays} \subseteq Nat
  /\ {FailOpen, LexicalFusion} \subseteq BOOLEAN

ASSUME PagesKnown == Pages \subseteq {"semantic", "hybrid", "ask"}

ASSUME RequestsFinite == IsFiniteSet(Requests)

\* One counter is kept for all clients, under a key of its own.
ASSUME NamesDistinct == None \notin Versions /\ "global" \notin Clients

ASSUME ContentTyped ==
  \A v \in Versions :
    {ContentOf[v].meaning, ContentOf[v].words, ContentOf[v].chunks, ContentOf[v].chunk_words} \subseteq Seq(Nat)

VARIABLES
  release, live, spent, rejected, \* the register of releases
  cache,    \* the texts whose embedding is cached, oldest first
  day,      \* CURRENT_DATE
  counters, \* qa_quota.counters, by key and day
  req       \* each request: where it waits and what it has read so far

Register == INSTANCE ReleaseRegister

releases == <<release, live, spent, rejected>>
quota == <<day, counters>>
vars == <<releases, cache, quota, req>>

-----------------------------------------------------------------------------
(* What a statement sees.  The rows of a release are numbered; their ids    *)
(* are derived from the version as well, so <<version, number>>.            *)

\* The passages a release ranks for the question by meaning and by words (one row
\* for each comparison a passage is in), with their similarity and the quality
\* factor with and without what their contexts say of language signals, and the
\* ones with a context under the page's filters; its Q&A chunks likewise.
NoContent ==
  [meaning |-> <<>>, words |-> <<>>, similarity |-> <<>>, factor |-> <<>>, plain_factor |-> <<>>,
   shown |-> {}, chunks |-> <<>>, chunk_words |-> <<>>, chunk |-> <<>>]

Content == IF live = None THEN NoContent ELSE release[live]

\* The ids of rows of the live release.
Ids(rows) == [i \in DOMAIN rows |-> <<live, rows[i]>>]

\* Mutant: later statements look rows up by the research id, which releases share.
ReadFromMutant(id) == live

\* The release whose row a statement finds under an id, None if there is none.
ReadFrom(id) == IF id[1] = live THEN live ELSE None

First(rows, n) == IF Len(rows) > n THEN SubSeq(rows, 1, n) ELSE rows

\* The rows in S, in their order.
Kept(rows, S) ==
  LET places == { i \in DOMAIN rows : rows[i] \in S }
  IN [k \in 1 .. Cardinality(places) |->
        rows[CHOOSE i \in places : Cardinality({ j \in places : j <= i }) = k]]

\* S best first; no two of S are equally good.
BestFirst(S, better(_, _)) ==
  [i \in 1 .. Cardinality(S) |->
     CHOOSE x \in S : Cardinality({ y \in S : better(y, x) }) = i - 1]

Place(rows, id) == CHOOSE i \in DOMAIN rows : rows[i] = id

\* Ids compared as the program does, as strings.
Earlier(a, b) == a[1] < b[1] \/ (a[1] = b[1] /\ a[2] < b[2])

-----------------------------------------------------------------------------
(* Ranking                                                                  *)

\* QualityAdjustedSemanticReranker.rerank: by adjusted score, then original place.
Reranked(rows, score) ==
  BestFirst(Range(rows), LAMBDA a, b :
    \/ score[a] > score[b]
    \/ score[a] = score[b] /\ Place(rows, a) < Place(rows, b))

\* A list's share of the fused score as a fraction: the Map the ranks go through
\* keeps the last of several.
Share(rows, id) ==
  IF id \notin Range(rows) THEN <<0, 1>>
  ELSE <<1, RrfK + (CHOOSE i \in DOMAIN rows : rows[i] = id /\ \A j \in DOMAIN rows : rows[j] = id => j <= i)>>

FusedScore(lexical, semantic, id) ==
  LET s == Share(lexical, id)
      t == Share(semantic, id)
  IN <<s[1] * t[2] + t[1] * s[2], s[2] * t[2]>>

\* reciprocalRankFusion.
Fused(lexical, semantic) ==
  LET score == [id \in Range(lexical) \cup Range(semantic) |-> FusedScore(lexical, semantic, id)]
      Gap(a, b) == score[a][1] * score[b][2] - score[b][1] * score[a][2]
  IN BestFirst(DOMAIN score, LAMBDA a, b : Gap(a, b) > 0 \/ (Gap(a, b) = 0 /\ Earlier(a, b)))

\* isDuplicateOf: of one report, and with a common member, neighbouring indices
\* or pages that touch.
Overlap(a, b, members) ==
  LET x == release[a[1]].chunk[a[2]]
      y == release[b[1]].chunk[b[2]]
  IN /\ a[1] = b[1] /\ x.report = y.report
     /\ \/ members[a] \cap members[b] # {}
        \/ x.index - y.index \in -1 .. 1
        \/ x.first - 1 <= y.last /\ y.first - 1 <= x.last

\* deduplicateQaChunkCandidates: best first, each that overlaps none kept before,
\* until there are enough.
Distinct(rows, members) ==
  LET Before(i, K) == { j \in 1 .. i - 1 : rows[j] \in K }
      Keeps(i, K) == /\ Cardinality(Before(i, K)) < ResultLimit
                     /\ \A j \in Before(i, K) : ~Overlap(rows[i], rows[j], members)
  IN Kept(rows, CHOOSE K \in SUBSET Range(rows) : \A i \in DOMAIN rows : rows[i] \in K <=> Keeps(i, K))

-----------------------------------------------------------------------------
(* Requests                                                                 *)

\* A request that has not come, and what one starts with.
Absent == [at |-> "absent"]

Arrived(page, text, client, scoped) ==
  [at |-> IF page = "hybrid" THEN "lexical" ELSE "lookup",
   page |-> page, text |-> text, client |-> client, scoped |-> scoped,
   attempt |-> 0, lexical |-> <<>>, semantic |-> <<>>, found |-> <<>>, named |-> <<>>,
   calls |-> 0, charged |-> <<>>]

\* A request goes on with r; nothing else changes.
Goes(q, r) ==
  /\ req' = [req EXCEPT ![q] = r]
  /\ UNCHANGED <<releases, cache, quota>>

\* What is left of a request that was answered.
Answered(r, outcome, shown) ==
  [at |-> "done", page |-> r.page, client |-> r.client, calls |-> r.calls,
   charged |-> r.charged, outcome |-> outcome, shown |-> shown]

\* What is listed: the rows, with the releases their contexts or citations are of and
\* the ones the citations name: a search's by its publicationId, a chunk's by the
\* passages it gives as the chunk's members.
Shown(rows, found, named) ==
  [i \in DOMAIN rows |-> [id |-> rows[i], cited |-> found[rows[i]], named |-> named[rows[i]]]]

Arrive(q) ==
  /\ req[q].at = "absent"
  /\ \E page \in Pages, text \in Texts :
       \/ page # "ask" /\ Goes(q, Arrived(page, text, None, FALSE))
       \/ page = "ask" /\ \E client \in Clients, scoped \in BOOLEAN :
                            Goes(q, Arrived(page, text, client, scoped))

-----------------------------------------------------------------------------
(* embedQuery behind the process's cache                                    *)

\* Mutant: room is made only once the bound has been passed.
CachedMutant(text) ==
  LET room == IF Len(cache) > CacheMax THEN Tail(cache) ELSE cache
  IN IF text \in Range(room) THEN room ELSE Append(room, text)

\* The cache after text was embedded: the oldest entry makes room, if it must.
Cached(text) ==
  LET room == IF Len(cache) >= CacheMax THEN Tail(cache) ELSE cache
  IN IF text \in Range(room) THEN room ELSE Append(room, text)

\* A hit becomes the newest entry; a miss waits for the embedding service.
LookUp(q) ==
  LET text == req[q].text
      hit == text \in Range(cache)
  IN /\ req[q].at = "lookup"
     /\ cache' = IF hit THEN Append(Kept(cache, Range(cache) \ {text}), text) ELSE cache
     /\ req' = [req EXCEPT ![q].at = IF hit THEN "candidates" ELSE "embedding"]
     /\ UNCHANGED <<releases, quota>>

Embedded(q) ==
  /\ req[q].at = "embedding"
  /\ cache' = Cached(req[q].text)
  /\ req' = [req EXCEPT ![q].at = "candidates", ![q].attempt = 0]
  /\ UNCHANGED <<releases, quota>>

\* A transient failure is tried again.
RetryEmbedding(q) ==
  /\ req[q].at = "embedding" /\ req[q].attempt < EmbedRetries
  /\ Goes(q, [req[q] EXCEPT !.attempt = @ + 1])

\* Any other, or the last one, leaves semantic search with no result,
SemanticUnavailable(q) ==
  /\ req[q].at = "embedding" /\ req[q].page = "semantic"
  /\ Goes(q, Answered(req[q], "unavailable", <<>>))

\* hybrid search with what its words found, if anything,
WordsOnly(q) ==
  LET r == req[q]
  IN /\ r.at = "embedding" /\ r.page = "hybrid"
     /\ Goes(q, IF r.lexical = <<>> THEN Answered(r, "unavailable", <<>>)
                ELSE [r EXCEPT !.at = "contexts", !.attempt = 0])

\* and a question with no evidence.
NoEvidence(q) ==
  /\ req[q].at = "embedding" /\ req[q].page = "ask"
  /\ Goes(q, [req[q] EXCEPT !.at = "client", !.attempt = 0])

\* A statement fails, or a body cannot be parsed: the page shows its error.
RequestFails(q) ==
  /\ req[q].at \in {"lexical", "embedding", "candidates", "rerank", "contexts",
                    "publication", "members", "citations", "citation_members"}
  /\ Goes(q, Answered(req[q], "error", <<>>))

-----------------------------------------------------------------------------
(* searchSemantic, searchHybrid, retrieveQaEvidence                         *)

\* searchLexicalCandidates of the passages.
SearchPassageWords(q) ==
  /\ req[q].at = "lexical" /\ req[q].page = "hybrid"
  /\ Goes(q, [req[q] EXCEPT !.at = "lookup",
                            !.lexical = Ids(First(Content.words, CandidateLimit))])

\* searchSemanticCandidates of the passages.
SearchPassages(q) ==
  LET r == req[q]
      near == Ids(First(Content.meaning, CandidateLimit))
  IN /\ r.at = "candidates" /\ r.page # "ask"
     /\ Goes(q, IF near = <<>> /\ r.page = "semantic" THEN Answered(r, "empty", <<>>)
                ELSE [r EXCEPT !.at = "rerank", !.semantic = near])

\* What follows on the candidates of a question: none of them is no evidence.
AfterRanking(ranked) == IF ranked = <<>> THEN "client" ELSE "members"

\* searchSemanticCandidates of the chunks: an unscoped question drops what is
\* hardly similar.
SearchChunks(q) ==
  LET r == req[q]
      nearest == Ids(First(Content.chunks, CandidateLimit))
      near == Kept(nearest, { id \in Range(nearest) :
                r.scoped \/ Content.chunk[id[2]].similarity >= MinimumSimilarity })
  IN /\ r.at = "candidates" /\ r.page = "ask"
     /\ Goes(q, [r EXCEPT !.semantic = near,
                          !.at = IF LexicalFusion THEN "lexical" ELSE AfterRanking(near)])

\* searchLexicalCandidates of the chunks, fused with the ones before.
SearchChunkWords(q) ==
  LET r == req[q]
      ranked == Fused(Ids(First(Content.chunk_words, CandidateLimit)), r.semantic)
  IN /\ r.at = "lexical" /\ r.page = "ask"
     /\ Goes(q, [r EXCEPT !.semantic = ranked, !.at = AfterRanking(ranked)])

\* The language signals that decide a candidate's quality factor are read after the
\* candidates, by their ids.
AdjustedScore(id) ==
  LET row(field) == release[id[1]][field][id[2]]
  IN row("similarity") * row(IF ReadFrom(id) # None THEN "factor" ELSE "plain_factor")

Rerank(q) ==
  LET r == req[q]
      reranked == Reranked(r.semantic, [id \in Range(r.semantic) |-> AdjustedScore(id)])
  IN /\ r.at = "rerank"
     /\ Goes(q, [r EXCEPT !.at = "contexts",
                          !.semantic = IF r.page = "hybrid" THEN Fused(r.lexical, reranked) ELSE reranked])

\* expandRetrievalContexts: the candidates that have a context now. A degraded hybrid
\* search goes through its lexical rows, so that a passage of two comparisons
\* comes twice. (At most three times the candidate limit are expanded, which the
\* two lists together do not reach.)
ExpandContexts(q) ==
  LET r == req[q]
      candidates == IF r.semantic = <<>> THEN r.lexical ELSE r.semantic
      shown == { id \in Range(candidates) : ReadFrom(id) # None /\ id[2] \in Content.shown }
  IN /\ r.at = "contexts"
     /\ Goes(q, [r EXCEPT !.at = "publication", !.semantic = candidates,
                          !.found = [id \in shown |-> ReadFrom(id)]])

\* getActivePublicationId, which every citation of the page is given.
CitePublication(q) ==
  LET r == req[q]
      results == First(Kept(r.semantic, DOMAIN r.found), ResultLimit)
  IN /\ r.at = "publication"
     /\ Goes(q, Answered(r, "results", Shown(results, r.found, [id \in DOMAIN r.found |-> live])))

\* resolveMemberPassageIds and the deduplication: chunks that are no longer served
\* have no members.
ResolveMembers(q) ==
  LET r == req[q]
      members == [id \in Range(r.semantic) |->
                    IF ReadFrom(id) # None THEN release[id[1]].chunk[id[2]].members ELSE {}]
  IN /\ r.at = "members"
     /\ Goes(q, [r EXCEPT !.at = "citations", !.semantic = Distinct(r.semantic, members)])

\* resolveCitations: a chunk without one is dropped.
ResolveCitations(q) ==
  LET r == req[q]
      cited == { id \in Range(r.semantic) : ReadFrom(id) # None }
  IN /\ r.at = "citations"
     /\ Goes(q, [r EXCEPT !.at = "citation_members", !.semantic = Kept(r.semantic, cited),
                          !.found = [id \in cited |-> ReadFrom(id)]])

\* The citations' memberPassageIds, by a statement of their own: none for a chunk that
\* is no longer served.
ResolveCitationMembers(q) ==
  LET r == req[q]
  IN /\ r.at = "citation_members"
     /\ Goes(q, [r EXCEPT !.at = "client", !.named = [id \in DOMAIN r.found |-> ReadFrom(id)]])

-----------------------------------------------------------------------------
(* checkAndIncrementQuota                                                   *)

Count(key) == IF <<key, day>> \in DOMAIN counters THEN counters[<<key, day>>] ELSE 0

\* Mutant: the count before the increment is compared with the limit.
WithinMutant(key, limit) == Count(key) <= limit

\* increment_and_check allows a call whose own increment stays within the limit.
Within(key, limit) == Count(key) + 1 <= limit

\* Its effect: old counters are pruned and today's goes up, allowed or not.
Incremented(key) ==
  LET recent == { x \in DOMAIN counters : x[2] >= day - RetentionDays }
  IN [x \in recent \cup {<<key, day>>} |-> IF x = <<key, day>> THEN Count(key) + 1 ELSE counters[x]]

\* The request goes on with r, the counter of key went up.
Counted(q, key, r) ==
  /\ counters' = Incremented(key)
  /\ req' = [req EXCEPT ![q] = r]
  /\ UNCHANGED <<releases, cache, day>>

Refused(r) == Answered(r, "refused", Shown(r.semantic, r.found, r.named))

\* The client's counter; a browser without a cookie is not counted at all.
CheckClient(q) ==
  LET r == req[q]
  IN /\ r.at = "client"
     /\ \/ r.client = None /\ Goes(q, [r EXCEPT !.at = "generate"])
        \/ /\ r.client # None
           /\ Counted(q, r.client,
                      IF Within(r.client, PerClientLimit)
                      THEN [r EXCEPT !.at = "global", !.charged = <<day>>] ELSE Refused(r))

CheckGlobal(q) ==
  LET r == req[q]
  IN /\ r.at = "global"
     /\ Counted(q, "global",
                IF Within("global", GlobalLimit)
                THEN [r EXCEPT !.at = "generate", !.charged = Append(@, day)]
                ELSE Refused([r EXCEPT !.charged = <<>>]))

\* The quota database cannot be reached, or its answer is lost after it counted.
QuotaFails(q) ==
  LET r == req[q]
      next == IF FailOpen THEN [r EXCEPT !.at = "generate", !.charged = <<>>] ELSE Refused([r EXCEPT !.charged = <<>>])
  IN /\ r.at \in {"client", "global"} /\ r.client # None
     /\ \/ Goes(q, next)
        \/ Counted(q, IF r.at = "client" THEN r.client ELSE "global", next)

-----------------------------------------------------------------------------
(* generateQaAnswer                                                         *)

\* The provider is asked for an answer to the evidence, and again after a failure;
\* without evidence it is not asked.
Generate(q) ==
  LET r == req[q]
      called == [r EXCEPT !.calls = @ + 1, !.attempt = @ + 1]
      evidence == Shown(r.semantic, r.found, r.named)
  IN /\ r.at = "generate"
     /\ \/ evidence = <<>> /\ Goes(q, Answered(r, "insufficient", <<>>))
        \/ evidence # <<>> /\ Goes(q, Answered(called, "answered", evidence))
        \/ /\ evidence # <<>>
           /\ Goes(q, IF r.attempt < MaxRetries THEN called ELSE Answered(called, "provider_unavailable", evidence))

-----------------------------------------------------------------------------
(* The world around them                                                    *)

\* A build records a release, which a promotion makes live.
Record(v) ==
  /\ v \notin DOMAIN release
  /\ release' = [w \in DOMAIN release \cup {v} |-> IF w = v THEN ContentOf[v] ELSE release[w]]
  /\ Register!Add(v)
  /\ UNCHANGED <<cache, quota, req>>

Promote(v) == Register!GoLive(v) /\ UNCHANGED <<cache, quota, req>>

NextDay ==
  /\ day < LastDay
  /\ day' = day + 1
  /\ UNCHANGED <<releases, cache, counters, req>>

Init ==
  /\ release = <<>> /\ Register!Init
  /\ cache = <<>>
  /\ day = 1
  /\ counters = <<>>
  /\ req = [q \in Requests |-> Absent]

RequestStep(q) ==
  \/ LookUp(q) \/ Embedded(q) \/ RetryEmbedding(q) \/ SemanticUnavailable(q)
  \/ WordsOnly(q) \/ NoEvidence(q) \/ RequestFails(q)
  \/ SearchPassageWords(q) \/ SearchPassages(q) \/ SearchChunks(q) \/ SearchChunkWords(q) \/ Rerank(q) \/ ExpandContexts(q) \/ CitePublication(q)
  \/ ResolveMembers(q) \/ ResolveCitations(q) \/ ResolveCitationMembers(q)
  \/ CheckClient(q) \/ CheckGlobal(q) \/ QuotaFails(q) \/ Generate(q)

Next ==
  \/ \E q \in Requests : Arrive(q) \/ RequestStep(q)
  \/ \E v \in Versions : Record(v) \/ Promote(v)
  \/ NextDay

Spec == Init /\ [][Next]_vars

-----------------------------------------------------------------------------
(* Properties                                                               *)

Done == { q \in Requests : req[q].at = "done" }

\* A release that was live and is not any more.
Superseded(v) == v \in spent /\ v # live

\* Whatever is promoted between its statements, a page lists rows of one release
\* only, and each with the text, pages and label of that same release: a text of
\* one publication never appears under the source of another. What the citations
\* name beyond that is read by a later statement, so it need not be of that
\* release: a search's publicationId may be that of the publication promoted in
\* between (never an empty one), a chunk's citation may have lost its member
\* passages; but only if the rows' own release was superseded, and the citations
\* of a page then agree.
OneReleasePerPage ==
  \A q \in Done : \A i, j \in DOMAIN req[q].shown :
    LET x == req[q].shown[i]
        y == req[q].shown[j]
    IN /\ x.cited = x.id[1] /\ x.cited = y.cited
       /\ x.named = x.cited \/ Superseded(x.cited)
       /\ x.named = y.named
       /\ req[q].page # "ask" => x.named \in spent

\* Generation is only paid for with evidence, at most 1 + MaxRetries times for a
\* request; of one client's requests at most PerClientLimit, and of all of them at
\* most GlobalLimit, are let through on one day, however they overlap, fail half
\* way or run into the next day. The ones let through unmetered have no cookie,
\* or were let through because the quota database failed and the mode is open.
AnswersWithinLimits ==
  LET charged(i, d) == { q \in Requests : /\ req[q].at \in {"generate", "done"}
                                          /\ Len(req[q].charged) = 2 /\ req[q].charged[i] = d }
  IN /\ \A d \in 1 .. LastDay :
          /\ Cardinality(charged(2, d)) <= GlobalLimit
          /\ \A c \in Clients \ {None} : Cardinality({ q \in charged(1, d) : req[q].client = c }) <= PerClientLimit
     /\ \A q \in Done : req[q].calls > 0 =>
          /\ req[q].shown # <<>> /\ req[q].calls <= 1 + MaxRetries
          /\ Len(req[q].charged) = 2 \/ req[q].client = None \/ FailOpen

\* Two requests that miss at once, both inserting after their await, neither let
\* the cache outgrow its bound nor enter a text twice.
CacheBounded ==
  /\ Len(cache) <= CacheMax
  /\ \A i, j \in DOMAIN cache : cache[i] = cache[j] => i = j
=============================================================================
