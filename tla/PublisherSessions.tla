------------------------- MODULE PublisherSessions -------------------------
(***************************************************************************)
(* The publish commands as concurrent transactions.                        *)
(*                                                                         *)
(* Each command runs in an app_session_scope: a READ COMMITTED transaction *)
(* whose SELECTs see what is committed when they are sent, whose writes    *)
(* wait for conflicting uncommitted ones and apply to whatever row they    *)
(* then find, and become visible together at commit.  Publication has the  *)
(* same commands as single steps; here their content is reduced to the     *)
(* passages they use, for each of which there is one text, one embedding   *)
(* and one artifact row.                                                   *)
(***************************************************************************)
EXTENDS Naturals, FiniteSets, Sequences, SequencesExt

CONSTANTS
  Sessions,  \* operators' commands under way
  Versions,  \* publications, numbered in the order of their ids
  Passages,  \* research passages, numbered in the order builds write them
  Rank,      \* the order of the ids, which are hashes, of their shared rows
  Commands,  \* the commands that are in use
  Keeps,     \* values of cleanup's --keep
  None       \* no publication

AllCommands == {"build", "promote", "cleanup", "gc-corpus", "gc-artifacts"}

ASSUME RowsAreNumbers == Versions \cup Passages \subseteq Nat /\ None \notin Versions

ASSUME RankOrders ==
  /\ Rank \in [Passages -> Nat]
  /\ \A p, q \in Passages : Rank[p] = Rank[q] => p = q

ASSUME PassagesFinite == IsFiniteSet(Passages)

ASSUME KeepsAreNaturals == Keeps \subseteq Nat

ASSUME CommandsKnown == Commands \subseteq AllCommands

VARIABLES
  status,     \* publications.status as committed
  after,      \* the order of publications.completed_at, latest first
  pointer,    \* application_state.active_publication_id, None before the row exists
  uses,       \* the passages whose shared rows a publication's thin rows name
  text,       \* app_corpus.passages
  embedding,  \* app_corpus.passage_embeddings
  artifact,   \* app_artifacts
  cmd,        \* the command a session runs
  pc,         \* the statement a session is about to send
  target,     \* the publication a build or a promotion is about
  prior,      \* the publication a promotion found ACTIVE
  wants,      \* the passages a build's snapshot has, or whose embeddings a
              \* collection found orphaned
  verdict,    \* the status a build ends with
  queue,      \* the writes a session's current flush still has to send
  held,       \* the writes it has made, and so the row locks it holds
  overlap,    \* history: did a promotion, or a corpus collection, commit during this
              \* promotion, or build?
  raced,      \* history: has a promotion committed that another one overlapped?
  collected   \* history: publications whose build a corpus collection overlapped

database == <<status, after, pointer, uses, text, embedding, artifact>>
local == <<cmd, pc, target, prior, wants, verdict, queue, held>>
history == <<overlap, raced, collected>>
vars == <<database, local, history>>

-----------------------------------------------------------------------------
(* Writes, and the locks they take                                         *)

Op(mode, table, key) == [mode |-> mode, table |-> table, key |-> key]

\* Row-level locks of PostgreSQL: the KEY SHARE lock of a foreign key check
\* is compatible with itself and with an UPDATE of other columns.
Compatible(m, n) == "SHARE" \in {m, n} /\ {m, n} \subseteq {"SHARE", "UPDATE"}

Conflict(o, h) ==
  o.table = h.table /\ o.key = h.key /\ ~Compatible(o.mode, h.mode)

\* A set in the order a relation puts it in.
Listed(set, precedes) ==
  CHOOSE s \in SetToSeqs(set) : \A i, j \in DOMAIN s : i < j => <<s[i], s[j]>> \in precedes

ById(set) == Listed(set, { x \in set \X set : x[1] < x[2] })

ByHash(passages) == Listed(passages, { x \in passages \X passages : Rank[x[1]] < Rank[x[2]] })

\* One statement for each of the listed keys.
Statements(mode, table, keys) == [i \in DOMAIN keys |-> Op(mode, table, keys[i])]

Writes(s, mode, table) ==
  { o.key : o \in { o \in held[s] : o.mode = mode /\ o.table = table } }

Present(v) == status[v] # "ABSENT"

\* The committed rows a write or a foreign key check looks for.
Exists(o) ==
  CASE o.table = "publications" -> Present(o.key)
    [] o.table = "application_state" -> pointer # None
    [] o.table = "text" -> o.key \in text
    [] o.table = "embedding" -> o.key \in embedding
    [] o.table = "artifact" -> o.key \in artifact

\* Mutant: application_state and the thin rows have no foreign key.
ReferencedMutant(o) == FALSE

\* Rows that name the row through a foreign key that does not cascade.  The
\* corpus tables have none.
Referenced(o) ==
  CASE o.table = "publications" -> pointer = o.key
    [] o.table = "artifact" -> \E v \in Versions : o.key \in uses[v]
    [] OTHER -> FALSE

\* IntegrityError of an INSERT, StaleDataError of an UPDATE, or a foreign key
\* violation.  A DELETE that finds no row is no error.
Fails(o) ==
  CASE o.mode = "INSERT" -> Exists(o)
    [] o.mode = "DELETE" -> Referenced(o)
    [] o.mode = "SHARE" -> ~Exists(o)
    [] o.mode = "UPDATE" -> o.table = "publications" /\ ~Exists(o)

\* A build reads the stored embeddings before it flushes the new texts.
Flushing(s) == queue[s] # <<>> /\ pc[s] # "read_embedding"
At(s, label) == pc[s] = label /\ ~Flushing(s)

WaitsFor(s, t) ==
  /\ s # t
  /\ Flushing(s)
  /\ \E h \in held[t] : Conflict(Head(queue[s]), h)

Blocked(s) == \E t \in Sessions : WaitsFor(s, t)

\* Sessions each of which waits for one of them.
Deadlocked(s) ==
  \E ring \in SUBSET Sessions :
    /\ s \in ring
    /\ \A t \in ring : \E u \in ring : WaitsFor(t, u)

-----------------------------------------------------------------------------
(* The steps every transaction has                                         *)

Init ==
  /\ status = [v \in Versions |-> "ABSENT"]
  /\ after = {}
  /\ pointer = None
  /\ uses = [v \in Versions |-> {}]
  /\ text = {} /\ embedding = {} /\ artifact = {}
  /\ cmd = [s \in Sessions |-> "none"]
  /\ pc = [s \in Sessions |-> "idle"]
  /\ target = [s \in Sessions |-> None]
  /\ prior = [s \in Sessions |-> None]
  /\ wants = [s \in Sessions |-> {}]
  /\ verdict = [s \in Sessions |-> "FAILED"]
  /\ queue = [s \in Sessions |-> <<>>]
  /\ held = [s \in Sessions |-> {}]
  /\ overlap = [s \in Sessions |-> FALSE]
  /\ raced = FALSE
  /\ collected = {}

\* Mutant: the session is left open.
ReleasedMutant(s) == held

Released(s) == [held EXCEPT ![s] = {}]

\* The session leaves its transaction and releases its locks.
End(s) ==
  /\ cmd' = [cmd EXCEPT ![s] = "none"]
  /\ pc' = [pc EXCEPT ![s] = "idle"]
  /\ target' = [target EXCEPT ![s] = None]
  /\ prior' = [prior EXCEPT ![s] = None]
  /\ wants' = [wants EXCEPT ![s] = {}]
  /\ verdict' = [verdict EXCEPT ![s] = "FAILED"]
  /\ queue' = [queue EXCEPT ![s] = <<>>]
  /\ held' = Released(s)

Rollback(s) ==
  /\ End(s)
  /\ overlap' = [overlap EXCEPT ![s] = FALSE]
  /\ UNCHANGED <<database, raced, collected>>

Write(s) ==
  /\ Flushing(s)
  /\ ~Blocked(s)
  /\ ~Fails(Head(queue[s]))
  /\ held' = [held EXCEPT ![s] = @ \cup {Head(queue[s])}]
  /\ queue' = [queue EXCEPT ![s] = Tail(@)]
  /\ UNCHANGED <<database, cmd, pc, target, prior, wants, verdict, history>>

WriteFails(s) ==
  /\ Flushing(s)
  /\ ~Blocked(s)
  /\ Fails(Head(queue[s]))
  /\ Rollback(s)

\* The server ends one transaction of a deadlock.
Victim(s) == Deadlocked(s) /\ Rollback(s)

\* The session begins a command and its first flush.
Start(s, command, label, v, passages, ops) ==
  /\ pc[s] = "idle"
  /\ command \in Commands
  /\ cmd' = [cmd EXCEPT ![s] = command]
  /\ pc' = [pc EXCEPT ![s] = label]
  /\ target' = [target EXCEPT ![s] = v]
  /\ wants' = [wants EXCEPT ![s] = passages]
  /\ queue' = [queue EXCEPT ![s] = ops]
  /\ UNCHANGED <<database, prior, verdict, held, history>>

\* A SELECT; the writes it gives rise to join those still to be flushed.
Select(s, label, next, ops) ==
  /\ At(s, label)
  /\ pc' = [pc EXCEPT ![s] = next]
  /\ queue' = [queue EXCEPT ![s] = @ \o ops]
  /\ UNCHANGED <<database, cmd, target, wants, held, history>>

\* What the transaction wrote becomes visible at once.
Commit(s) ==
  LET built == Writes(s, "INSERT", "publications")
      deleted == Writes(s, "DELETE", "publications")
      updated == Writes(s, "UPDATE", "publications")
      promotes == cmd[s] = "promote"
      collects == cmd[s] = "gc-corpus"
  IN
  /\ At(s, "commit")
  /\ status' = [v \in Versions |->
                  CASE v \in deleted -> "ABSENT"
                    [] v \in built -> verdict[s]
                    [] v \in updated -> IF v = target[s] THEN "ACTIVE" ELSE "SUPERSEDED"
                    [] OTHER -> status[v]]
  /\ after' = { x \in after : x[1] \notin deleted /\ x[2] \notin deleted }
              \cup { x \in built \X Versions : Present(x[2]) }
  /\ uses' = [v \in Versions |-> CASE v \in deleted -> {}
                                   [] v \in built -> wants[s]
                                   [] OTHER -> uses[v]]
  /\ pointer' = IF Writes(s, "UPDATE", "application_state") # {} THEN target[s] ELSE pointer
  /\ text' = (text \cup Writes(s, "INSERT", "text")) \ Writes(s, "DELETE", "text")
  /\ embedding' = (embedding \cup Writes(s, "INSERT", "embedding"))
                    \ Writes(s, "DELETE", "embedding")
  /\ artifact' = (artifact \cup Writes(s, "INSERT", "artifact")) \ Writes(s, "DELETE", "artifact")
  /\ overlap' = [t \in Sessions |->
                   /\ t # s
                   /\ \/ overlap[t]
                      \/ promotes /\ cmd[t] = "promote"
                      \/ collects /\ cmd[t] = "build"]
  /\ raced' = (raced \/ (promotes /\ overlap[s]))
  /\ collected' = (collected \ deleted)
                    \cup { v \in built : \/ overlap[s]
                                         \/ \E t \in Sessions : cmd[t] = "gc-corpus" }
  /\ End(s)

-----------------------------------------------------------------------------
(* build                                                                   *)

Inserts(table, passages) == Statements("INSERT", table, ById(passages))

\* The publications row is flushed first.
BuildStart(s) ==
  \E v \in Versions, passages \in SUBSET Passages \ {{}} :
    Start(s, "build", "read_text", v, passages, <<Op("INSERT", "publications", v)>>)

BuildReadText(s) ==
  /\ Select(s, "read_text", "read_embedding", Inserts("text", wants[s] \ text))
  /\ UNCHANGED <<prior, verdict>>

BuildReadEmbedding(s) ==
  /\ Select(s, "read_embedding", "read_artifact", Inserts("embedding", wants[s] \ embedding))
  /\ UNCHANGED <<prior, verdict>>

\* Missing artifacts are inserted; the thin rows, inserted with them, check
\* their foreign key to those that were found.
BuildReadArtifact(s) ==
  /\ Select(s, "read_artifact", "validate",
            Inserts("artifact", wants[s] \ artifact)
              \o Statements("SHARE", "artifact", ById(wants[s] \cap artifact)))
  /\ UNCHANGED <<prior, verdict>>

\* validate_persisted reads the corpus again: every passage needs its text
\* (search_vectors_populated) and every context its embedding.  `sound` says
\* that the dataset passes the checks that look at nothing shared.
BuildValidate(s) ==
  \E sound \in BOOLEAN :
  /\ Select(s, "validate", "commit", <<>>)
  /\ verdict' = [verdict EXCEPT ![s] =
                   IF /\ sound
                      /\ wants[s] \subseteq text \cup Writes(s, "INSERT", "text")
                      /\ wants[s] \subseteq embedding \cup Writes(s, "INSERT", "embedding")
                   THEN "READY" ELSE "FAILED"]
  /\ UNCHANGED prior

-----------------------------------------------------------------------------
(* promote                                                                 *)

\* The target's status is read once, and never again.
PromoteStart(s) ==
  \E v \in Versions :
    /\ status[v] = "READY"
    /\ Start(s, "promote", "state", v, {}, <<>>)

\* The first promotion of all inserts the application_state row.
PromoteReadState(s) ==
  /\ IF pointer = None
     THEN Select(s, "state", "activate", <<Op("INSERT", "application_state", "active")>>)
     ELSE Select(s, "state", "activate", <<>>)
  /\ prior' = [prior EXCEPT ![s] = pointer]
  /\ UNCHANGED verdict

\* Mutant: the prior publication is left as it is.
SupersededMutant(s) == {}

Superseded(s) == { v \in Versions \ {target[s]} : v = prior[s] /\ status[v] = "ACTIVE" }

\* get() of the prior publication: another one is superseded if it is ACTIVE
\* now; the target itself is already loaded, with the status it had, and then
\* application_state has no change to flush.  The flush writes
\* application_state (whose foreign key checks the target) before
\* publications, and those in the order of their ids.
PromoteActivate(s) ==
  LET known == prior[s] = target[s]
      moves == << Op("UPDATE", "application_state", "active"),
                  Op("SHARE", "publications", target[s]) >>
  IN
  /\ Select(s, "activate", "commit",
            (IF known THEN <<>> ELSE moves)
              \o Statements("UPDATE", "publications", ById({target[s]} \cup Superseded(s))))
  /\ UNCHANGED <<prior, verdict>>

-----------------------------------------------------------------------------
(* cleanup, gc-corpus, gc-artifacts                                        *)

Successful == {"READY", "ACTIVE", "SUPERSEDED"}

Latest(keep) ==
  { v \in Versions :
      /\ status[v] \in Successful
      /\ Cardinality({ w \in Versions : status[w] \in Successful /\ <<w, v>> \in after }) < keep }

Doomed(keep) ==
  { v \in Versions : Present(v) /\ v \notin Latest(keep) /\ status[v] # "ACTIVE" }

\* One DELETE for each doomed publication, the latest first.
CleanupStart(s) ==
  \E keep \in Keeps :
    Start(s, "cleanup", "commit", None, {},
          Statements("DELETE", "publications", Listed(Doomed(keep), after)))

\* Mutant: only what is served counts as a reference.
OrphansMutant(stored) ==
  { p \in stored : \A v \in Versions : status[v] = "ACTIVE" => p \notin uses[v] }

Orphans(stored) == { p \in stored : \A v \in Versions : p \notin uses[v] }

\* A flush deletes in the order of the ids.
Deletes(table, passages) == Statements("DELETE", table, ByHash(passages))

\* Both SELECTs come before the flush, which deletes texts before embeddings
\* (mappers in the order of their class names).
GcCorpusStart(s) ==
  Start(s, "gc-corpus", "orphan_texts", None, Orphans(embedding), <<>>)

GcCorpusReadTexts(s) ==
  /\ Select(s, "orphan_texts", "commit",
            Deletes("text", Orphans(text)) \o Deletes("embedding", wants[s]))
  /\ UNCHANGED <<prior, verdict>>

GcArtifactsStart(s) ==
  Start(s, "gc-artifacts", "commit", None, {}, Deletes("artifact", Orphans(artifact)))

-----------------------------------------------------------------------------

Starts(s) ==
  \/ BuildStart(s)
  \/ PromoteStart(s)
  \/ CleanupStart(s)
  \/ GcCorpusStart(s)
  \/ GcArtifactsStart(s)

Continues(s) ==
  \/ BuildReadText(s)
  \/ BuildReadEmbedding(s)
  \/ BuildReadArtifact(s)
  \/ BuildValidate(s)
  \/ PromoteReadState(s)
  \/ PromoteActivate(s)
  \/ GcCorpusReadTexts(s)
  \/ Write(s)
  \/ WriteFails(s)
  \/ Victim(s)
  \/ Commit(s)

Next == \E s \in Sessions : Starts(s) \/ Continues(s)

Spec == Init /\ [][Next]_vars

\* PostgreSQL grants a row lock to its waiters in turn, so a command that is
\* ready to go on again and again does go on.
Fairness == \A s \in Sessions : SF_vars(Continues(s))

FairSpec == Spec /\ Fairness

-----------------------------------------------------------------------------
(* Properties                                                              *)

\* Whatever promotions and cleanups run at once, readers have a publication
\* once they had one: the pointer's row is there and it is ACTIVE, although a
\* promotion decides on statuses it read several statements earlier.
PointerIsServed == pointer # None => status[pointer] = "ACTIVE"

\* Two ACTIVE publications are the work of overlapping promotions only.
SerialPromotionsKeepOne ==
  ~raced => \A v \in Versions : status[v] = "ACTIVE" => pointer = v

\* Every artifact a committed publication names exists, also when artifacts
\* are collected while a build that found them is still under way: their
\* foreign key stops the one that comes second.
ArtifactsResolve == \A v \in Versions : uses[v] \subseteq artifact

\* The corpus tables have no such foreign key, yet a publication whose build
\* no corpus collection overlapped, and which passed its validation, keeps
\* every text and embedding.
OnlyOverlapLosesCorpus ==
  \A v \in Versions :
    status[v] \in Successful /\ v \notin collected => uses[v] \subseteq text \cap embedding

\* Every command ends, by committing, failing or as a deadlock's victim.
CommandsEnd == \A s \in Sessions : pc[s] # "idle" ~> pc[s] = "idle"

-----------------------------------------------------------------------------
(* Claims of the documents that overlapping commands refute                *)

\* The docstring of gc_orphaned_corpus_rows: it only removes a row "once
\* NOTHING references it any more" and is "Safe to call any time".
CorpusResolves ==
  \A v \in Versions : status[v] \in Successful => uses[v] \subseteq text \cap embedding

=============================================================================
