----------------------------- MODULE MemoryStore -----------------------------
(***************************************************************************)
(* Long-term memory: the record table with its three indexes (by kind, by  *)
(* owner, by expiry), each write one transaction behind one queue; the     *)
(* embedding call a write makes before it queues; the expiry sweep, which  *)
(* removes what is due in batches; and the four tools an agent reaches it  *)
(* through, which carry the trust of what was stored back to whoever       *)
(* recalls it.  A call whose context is cancelled or late is refused       *)
(* before it touches anything (ensure_live), so it is no step here.        *)
(***************************************************************************)
EXTENDS Integers, Sequences, FiniteSets, SequencesExt

CONSTANTS
  MoIds,        \* record ids, ordered (naturals)
  MoKinds, MoClients,   \* callers: [id, on_behalf_of]
  MoReaders,    \* those of them that also fetch pages
  MoTtls,       \* lifetimes a put may ask for, MoNone included
  MoVectors,    \* what an embedding model may answer: sequences of integers
  MoQueries,    \* [kinds, text, embedding, trust, limit, min_score]
  MoBatch, MoDefaultResults, MoMaxResults,
  MoMaxTime, MoMaxCalls, MoMaxPuts, MoMaxBoots,   \* bounds
  MoNone

VARIABLES
  mo_now,
  mo_records,   \* RECORDS: id -> record, or MoNone
  mo_kind, mo_owner, mo_expiry,   \* the indexes: sets of <<key, id>>
  mo_semantic,  \* whether the store was opened with an embedder
  mo_calls,     \* calls awaiting the embedding model
  mo_sweep,     \* the time the sweep under way was given, or MoNone
  mo_tainted,   \* clients whose conversation has read something untrusted
  mo_heard,     \* history: clients this process handed something untrusted
  mo_washed,    \* history: clients handed it by an earlier process, or words of such a client
  mo_puts, mo_boots    \* history, for the bounds

moTables == <<mo_records, mo_kind, mo_owner, mo_expiry>>
moVars == <<mo_now, moTables, mo_semantic, mo_calls, mo_sweep, mo_tainted, mo_heard, mo_washed, mo_puts, mo_boots>>

---------------------------------------------------------------------------
(* Who may touch what, and what is still live *)

acts_for(c, owner) == owner \in {c.id, c.on_behalf_of}
accessible_owners(c) ==
  IF c.on_behalf_of \in {MoNone, c.id} THEN <<c.id>> ELSE <<c.id, c.on_behalf_of>>
is_live(expires_at, now) == expires_at = MoNone \/ expires_at > now
Stored == {id \in MoIds : mo_records[id] # MoNone}

StampedTrusted(c) == "trusted"     \* a slip: the arguments' own word for it

\* stamp_trust: from the context the registry annotated, never from the arguments.
stamp_trust(c) == IF c \in mo_tainted THEN "untrusted" ELSE "trusted"
record_trust(r) == r.trust

MemoryRecord(c, kind, ttl) ==
  [owner |-> "system", kind |-> kind, created_at |-> mo_now,
   expires_at |-> IF ttl = MoNone THEN MoNone ELSE mo_now + ttl,
   embedding |-> MoNone, trust |-> stamp_trust(c),
   words |-> IF c \in mo_heard THEN "theirs" ELSE IF c \in mo_washed THEN "washed" ELSE "ours"]
   \* words is history: whose these are, and whether the process that knew has ended

---------------------------------------------------------------------------
(* Answering a query *)

Dot(a, b) == FoldLeftDomain(LAMBDA sum, i : sum + a[i] * b[i], 0, a)

\* Ranking by cosine is ranking by its signed square, in hundredths.
cosine(a, b) ==
  LET norms == Dot(a, a) * Dot(b, b) IN
  IF Len(a) # Len(b) \/ Len(a) = 0 \/ norms = 0 THEN MoNone
  ELSE LET d == Dot(a, b) IN ((IF d < 0 THEN -1 ELSE 1) * d * d * 100) \div norms

resolve_mode(q) ==
  CASE q.embedding # MoNone /\ q.text # MoNone -> "invalid"
    [] q.embedding = <<>> -> "invalid"
    [] q.embedding = MoNone /\ q.text # MoNone /\ ~mo_semantic -> "unsupported"
    [] q.embedding = MoNone /\ q.text = MoNone /\ q.min_score # MoNone -> "unsupported"
    [] OTHER -> "ok"

\* MemoryQueryTool::check_semantic: the shape first, then whether the store can.
check_semantic(q) ==
  CASE q.text \in {"blank", "too long"} -> "invalid"
    [] q.min_score # MoNone /\ (q.text = MoNone \/ q.min_score \notin -100..100) -> "invalid"
    [] (q.text # MoNone \/ q.min_score # MoNone) /\ ~mo_semantic -> "invalid"
    [] OTHER -> "ok"

\* MemoryQueryTool::limit, of a call that passed; zero is refused.
result_limit(requested) ==
  LET asked == IF requested = MoNone THEN MoDefaultResults ELSE requested IN
  IF asked > MoMaxResults THEN MoMaxResults ELSE asked

\* A hit is a key that was looked up and an id found under it; an answer is a sequence of ids.
IdsOf(hits) == {h[2] : h \in hits}

\* Sorted: each id as often as it was hit, and none behind one it goes before.
InOrderOf(answer, hits, before) ==
  /\ \A id \in IdsOf(hits) :
       Cardinality({n \in DOMAIN answer : answer[n] = id}) = Cardinality({h \in hits : h[2] = id})
  /\ \A m, n \in DOMAIN answer : m < n => <<answer[n], answer[m]>> \notin before
Ordered(hits, before) ==
  CHOOSE answer \in [1 .. Cardinality(hits) -> IdsOf(hits)] : InOrderOf(answer, hits, before)

NewerFirst(i, j) ==
  \/ mo_records[i].created_at > mo_records[j].created_at
  \/ mo_records[i].created_at = mo_records[j].created_at /\ i > j
rank(hits) == Ordered(hits, {p \in IdsOf(hits) \X IdsOf(hits) : NewerFirst(p[1], p[2])})

score_of(vector, id) ==
  IF mo_records[id].embedding = MoNone THEN MoNone ELSE cosine(vector, mo_records[id].embedding)
Closer(vector, i, j) ==
  \/ score_of(vector, i) > score_of(vector, j)
  \/ score_of(vector, i) = score_of(vector, j) /\ NewerFirst(i, j)
rank_by_similarity(hits, vector, min_score) ==
  LET scored == {h \in hits : /\ score_of(vector, h[2]) # MoNone
                              /\ min_score = MoNone \/ score_of(vector, h[2]) >= min_score}
  IN  Ordered(scored, {p \in IdsOf(scored) \X IdsOf(scored) : Closer(vector, p[1], p[2])})

Truncated(ranked, most) == SubSeq(ranked, 1, IF most = MoNone \/ most > Len(ranked) THEN Len(ranked) ELSE most)
rank_for(q, vector, hits) ==
  Truncated(IF vector = MoNone THEN rank(hits) ELSE rank_by_similarity(hits, vector, q.min_score), q.limit)

Eligible(q, c, id) ==
  /\ acts_for(c, mo_records[id].owner)
  /\ is_live(mo_records[id].expires_at, mo_now)
  /\ q.trust \in {MoNone, mo_records[id].trust}     \* matches_metadata

requested_kinds(q) == SetToSeq(ToSet(q.kinds))
scan_index(index, keys) == {h \in (DOMAIN keys) \X MoIds : <<keys[h[1]], h[2]>> \in index}

candidates(q, c) ==
  IF q.kinds = <<>> THEN scan_index(mo_owner, accessible_owners(c)) ELSE scan_index(mo_kind, requested_kinds(q))

query_indexes(q, vector, c) == rank_for(q, vector, {h \in candidates(q, c) : Eligible(q, c, h[2])})

\* InMemoryMemoryStore::query, the reference: every record there is, filtered.
query_all(q, vector, c) ==
  rank_for(q, vector,
    {1} \X {id \in Stored : /\ Eligible(q, c, id)
                            /\ q.kinds = <<>> \/ mo_records[id].kind \in ToSet(q.kinds)})

---------------------------------------------------------------------------
(* Writing *)

WithoutOwnerEntry(id, r) == mo_owner     \* a slip: the owner index forgotten
OwnerEntryRemoved(id, r) == mo_owner \ {<<r.owner, id>>}

Unindexed(id, r) ==
  /\ mo_kind' = mo_kind \ {<<r.kind, id>>}
  /\ mo_owner' = OwnerEntryRemoved(id, r)
  /\ mo_expiry' = mo_expiry \ {<<r.expires_at, id>>}

put_blocking(c, id, record) ==
  LET previous == mo_records[id]
      stored == [record EXCEPT !.owner = IF previous = MoNone THEN c.id ELSE previous.owner] IN
  /\ previous # MoNone => acts_for(c, previous.owner)
  /\ mo_records' = [mo_records EXCEPT ![id] = stored]
  /\ mo_owner' = IF previous = MoNone THEN mo_owner \cup {<<stored.owner, id>>} ELSE mo_owner
  /\ mo_kind' = (IF previous = MoNone THEN mo_kind ELSE mo_kind \ {<<previous.kind, id>>})
                  \cup {<<stored.kind, id>>}
  /\ mo_expiry' = (IF previous = MoNone THEN mo_expiry ELSE mo_expiry \ {<<previous.expires_at, id>>})
                  \cup (IF stored.expires_at = MoNone THEN {} ELSE {<<stored.expires_at, id>>})

delete_blocking(c, id) ==
  /\ mo_records[id] # MoNone
  /\ acts_for(c, mo_records[id].owner)
  /\ mo_records' = [mo_records EXCEPT ![id] = MoNone]
  /\ Unindexed(id, mo_records[id])

---------------------------------------------------------------------------
(* The tools *)

Calling(c) == \E call \in mo_calls : call.client = c
Await(call) ==
  /\ Cardinality(mo_calls) < MoMaxCalls
  /\ mo_calls' = mo_calls \cup {call}

\* MemoryPutTool: stamped, built, and stored at once by a store without an embedder.
MemoryPut(c, id, kind, ttl) ==
  /\ ~Calling(c)
  /\ mo_puts < MoMaxPuts /\ mo_puts' = mo_puts + 1
  /\ IF mo_semantic
     THEN /\ Await([client |-> c, op |-> "put", id |-> id, record |-> MemoryRecord(c, kind, ttl)])
          /\ UNCHANGED moTables
     ELSE put_blocking(c, id, MemoryRecord(c, kind, ttl)) /\ UNCHANGED mo_calls
  /\ UNCHANGED <<mo_now, mo_semantic, mo_sweep, mo_tainted, mo_heard, mo_washed, mo_boots>>

\* The model answers, and the put queues for the writer with what it answered.
PutEmbedded(call, vector) ==
  /\ call.op = "put"
  /\ put_blocking(call.client, call.id, [call.record EXCEPT !.embedding = vector])
  /\ mo_calls' = mo_calls \ {call}
  /\ UNCHANGED <<mo_now, mo_semantic, mo_sweep, mo_tainted, mo_heard, mo_washed, mo_puts, mo_boots>>

\* The model fails, or the write is refused: the call ends with nothing stored.
EmbedFailed(call) ==
  /\ mo_calls' = mo_calls \ {call}
  /\ UNCHANGED <<mo_now, moTables, mo_semantic, mo_sweep, mo_tainted, mo_heard, mo_washed, mo_puts, mo_boots>>

\* One untrusted record makes the result untrusted, and the result's trust the conversation's.
Recalled(c, ids) ==
  /\ mo_tainted' = IF \E id \in ids : record_trust(mo_records[id]) = "untrusted"
                   THEN mo_tainted \cup {c} ELSE mo_tainted
  /\ mo_heard' = IF \E id \in ids : mo_records[id].words = "theirs"
                 THEN mo_heard \cup {c} ELSE mo_heard
  /\ mo_washed' = IF \E id \in ids : mo_records[id].words = "washed"
                  THEN mo_washed \cup {c} ELSE mo_washed

\* The records an answer carries.
Shown(answer) == {id \in Stored : \E n \in DOMAIN answer : answer[n] = id}

\* MemoryGetTool, by id: no expiry filter.
MemoryGet(c, id) ==
  /\ ~Calling(c)
  /\ mo_records[id] # MoNone /\ acts_for(c, mo_records[id].owner)
  /\ Recalled(c, {id})
  /\ UNCHANGED <<mo_now, moTables, mo_semantic, mo_calls, mo_sweep, mo_puts, mo_boots>>

MemoryDelete(c, id) ==
  /\ ~Calling(c)
  /\ delete_blocking(c, id)
  /\ UNCHANGED <<mo_now, mo_semantic, mo_calls, mo_sweep, mo_tainted, mo_heard, mo_washed, mo_puts, mo_boots>>

\* MemoryQueryTool passes no embedding of its own, and its own limit.
ToolQuery(q) == [q EXCEPT !.limit = result_limit(q.limit)]
MayQuery(c, q) ==
  /\ ~Calling(c)
  /\ q.embedding = MoNone /\ q.limit # 0
  /\ check_semantic(q) = "ok" /\ resolve_mode(q) = "ok"

MemoryQuery(c, q) ==
  /\ MayQuery(c, q) /\ q.text = MoNone
  /\ Recalled(c, Shown(query_indexes(ToolQuery(q), MoNone, c)))
  /\ UNCHANGED <<mo_now, moTables, mo_semantic, mo_calls, mo_sweep, mo_puts, mo_boots>>

MemoryQueryText(c, q) ==
  /\ MayQuery(c, q) /\ q.text # MoNone
  /\ Await([client |-> c, op |-> "query", query |-> ToolQuery(q)])
  /\ UNCHANGED <<mo_now, moTables, mo_semantic, mo_sweep, mo_tainted, mo_heard, mo_washed, mo_puts, mo_boots>>

QueryEmbedded(call, vector) ==
  /\ call.op = "query"
  /\ Recalled(call.client, Shown(query_indexes(call.query, vector, call.client)))
  /\ mo_calls' = mo_calls \ {call}
  /\ UNCHANGED <<mo_now, moTables, mo_semantic, mo_sweep, mo_puts, mo_boots>>

\* The rest of a conversation: it fetches a page somebody else wrote.
ReadElsewhere(c) ==
  /\ mo_tainted' = mo_tainted \cup {c} /\ mo_heard' = mo_heard \cup {c}
  /\ UNCHANGED <<mo_now, moTables, mo_semantic, mo_calls, mo_sweep, mo_washed, mo_puts, mo_boots>>

---------------------------------------------------------------------------
(* The sweep, the clock and the process *)

MemorySweep ==
  /\ mo_sweep = MoNone
  /\ mo_sweep' = mo_now
  /\ UNCHANGED <<mo_now, moTables, mo_semantic, mo_calls, mo_tainted, mo_heard, mo_washed, mo_puts, mo_boots>>

\* The oldest due entries, at most a batch of them; a short batch ends the sweep.
Due(at) == {e \in mo_expiry : e[1] <= at}
DueFirst(at) ==
  {e \in Due(at) :
     Cardinality({d \in Due(at) : d[1] < e[1] \/ (d[1] = e[1] /\ d[2] < e[2])}) < MoBatch}

sweep_batch_blocking ==
  LET due == DueFirst(mo_sweep)
      gone == {e[2] : e \in due} IN
  /\ mo_sweep # MoNone
  /\ mo_records' = [id \in MoIds |-> IF id \in gone THEN MoNone ELSE mo_records[id]]
  /\ mo_kind' = mo_kind \ {<<mo_records[id].kind, id>> : id \in gone}
  /\ mo_owner' = mo_owner \ {<<mo_records[id].owner, id>> : id \in gone}
  /\ mo_expiry' = mo_expiry \ due
  /\ mo_sweep' = IF Cardinality(due) < MoBatch THEN MoNone ELSE mo_sweep
  /\ UNCHANGED <<mo_now, mo_semantic, mo_calls, mo_tainted, mo_heard, mo_washed, mo_puts, mo_boots>>

\* The scope is cancelled: a sweep is abandoned between two batches.
AbandonSweep ==
  /\ mo_sweep # MoNone
  /\ mo_sweep' = MoNone
  /\ UNCHANGED <<mo_now, moTables, mo_semantic, mo_calls, mo_tainted, mo_heard, mo_washed, mo_puts, mo_boots>>

MemoryTick ==
  /\ mo_now < MoMaxTime
  /\ mo_now' = mo_now + 1
  /\ UNCHANGED <<moTables, mo_semantic, mo_calls, mo_sweep, mo_tainted, mo_heard, mo_washed, mo_puts, mo_boots>>

\* The process ends, and calls and the taint of every conversation go with it; the tables and
\* the transcripts do not, so a conversation goes on with what it had heard.
MemoryRestart(semantic) ==
  /\ mo_boots < MoMaxBoots
  /\ mo_boots' = mo_boots + 1
  /\ mo_semantic' = semantic
  /\ mo_calls' = {} /\ mo_sweep' = MoNone
  /\ mo_tainted' = {}
  /\ mo_heard' = {} /\ mo_washed' = mo_washed \cup mo_heard
  /\ UNCHANGED <<mo_now, moTables, mo_puts>>

MemoryInit ==
  /\ mo_now = 0
  /\ mo_records = [id \in MoIds |-> MoNone]
  /\ mo_kind = {} /\ mo_owner = {} /\ mo_expiry = {}
  /\ mo_semantic = FALSE /\ mo_calls = {} /\ mo_sweep = MoNone
  /\ mo_tainted = {} /\ mo_heard = {} /\ mo_washed = {} /\ mo_puts = 0 /\ mo_boots = 0

MemoryNext ==
  \/ \E c \in MoClients, id \in MoIds, kind \in MoKinds, ttl \in MoTtls : MemoryPut(c, id, kind, ttl)
  \/ \E call \in mo_calls : \/ \E vector \in MoVectors : PutEmbedded(call, vector) \/ QueryEmbedded(call, vector)
                            \/ EmbedFailed(call)
  \/ \E c \in MoClients, id \in MoIds : MemoryGet(c, id) \/ MemoryDelete(c, id)
  \/ \E c \in MoClients, q \in MoQueries : MemoryQuery(c, q) \/ MemoryQueryText(c, q)
  \/ \E c \in MoReaders : ReadElsewhere(c)
  \/ MemorySweep \/ sweep_batch_blocking \/ AbandonSweep \/ MemoryTick
  \/ \E semantic \in BOOLEAN : MemoryRestart(semantic)

MemorySpec == MemoryInit /\ [][MemoryNext]_moVars

\* What may be stored.
MoRecords ==
  [owner : {c.id : c \in MoClients} \cup {"system"}, kind : MoKinds, created_at : Nat,
   expires_at : Nat \cup {MoNone}, embedding : MoVectors \cup {MoNone},
   trust : {"trusted", "untrusted"}, words : {"ours", "washed", "theirs"}]

\* Ids have a width; lifetimes are numbers; the absent value is no record and nobody's name;
\* a query lists its kinds.
MemoryConstants ==
  /\ MoIds \subseteq Nat /\ IsFiniteSet(MoIds)
  /\ MoTtls \subseteq Nat \cup {MoNone} /\ MoNone \notin MoRecords
  /\ \A c \in MoClients : c.id # MoNone
  /\ \A q \in MoQueries : q.kinds \in Seq(Range(q.kinds))

---------------------------------------------------------------------------
(* Properties *)

\* The indexed store answers every query of every caller as the store that scans everything does,
\* whatever was replaced, deleted or swept before, and no index names a record that is gone
\* (query_blocking and the sweep would answer such an entry with an error), so that an empty memory
\* has nothing to answer.
MemoryAnswersAlike ==
  /\ {e[2] : e \in mo_kind} \cup {e[2] : e \in mo_owner} \cup {e[2] : e \in mo_expiry} \subseteq Stored
  /\ Stored # {} => \A q \in MoQueries, c \in MoClients :
       resolve_mode(q) = "ok" /\ q.text = MoNone =>
         query_indexes(q, q.embedding, c) = query_all(q, q.embedding, c)

\* Memory does not launder: a record written by a conversation after it heard an untrusted
\* source in that process is marked untrusted, whoever recalled or rewrote what since and however
\* often the process restarted, and who is handed one is a conversation the registry knows is
\* tainted.  The promise ends where the ledger's does (tools/trust.rs): taint is
\* lost with the process though the transcript is not, so what a conversation writes after a
\* restart of what it heard before it ("washed") is marked trusted.
RecallKeepsProvenance ==
  /\ \A id \in Stored : mo_records[id].words = "theirs" => record_trust(mo_records[id]) = "untrusted"
  /\ mo_heard \subseteq mo_tainted

\* Both: the persistent memory answers as the one that scans, and a recall never loses where its
\* words came from while the process that heard them lives, nor what was marked by then
\* (memory persistent.rs, tools/mod.rs).
MemoryIsHonest == MemoryAnswersAlike /\ RecallKeepsProvenance
=============================================================================
