---------------------------- MODULE ContextStore ----------------------------
(***************************************************************************)
(* RedbContextStore: transcripts in five tables of the shared database.    *)
(* Every operation is one transaction, taken in turn; what is not atomic   *)
(* is what precedes the queue for the writer: append reads the clock, and  *)
(* a sweep computes its cutoff, before they wait.  A crash loses the calls *)
(* in flight and no committed row; reopening reconciles the two indexes.   *)
(***************************************************************************)
EXTENDS Plan

CONSTANTS
  Sessions, Principals, MayActFor, Entries, MaxRecords, NoSession,
  Writers,      \* callers with an append of their own under way
  Batch,        \* retention_batch
  Retention,    \* ContextComponent::retention
  MaxTime, MaxIds   \* bounds on the clock and on the records ever written

\* What a session's header and one of its rows are.
Kinds == {"text", "blank", "call", "result", "other"}
Calls == {"none"} \cup {e.call : e \in Entries}
Entry == [kind : Kinds, call : Calls, pinned : BOOLEAN, tokens : Nat]
Header == [owner : Principals, created : Nat, updated : Nat,
           next : Nat, records : Nat, tokens : Nat]
Row == [kind : Kinds, call : Calls, pinned : BOOLEAN, tokens : Nat,
        id : Nat, seq : Nat, by : Principals, at : Nat]

ASSUME ContextAssumption ==
  /\ MaxRecords \in Nat \ {0} /\ Batch \in Nat \ {0} /\ Retention \in Nat
  /\ MaxTime \in Nat \ {0} /\ MaxIds \in Nat
  /\ IsFiniteSet(Sessions) /\ Nothing \notin Sessions
  /\ \A p \in Principals : p \in MayActFor[p]
  /\ Entries \subseteq Entry
  /\ NoSession \notin Header
  /\ NoSession \notin [owner : Principals, created : Nat, updated : Nat, next : Nat,
                       tokens : Nat, records : Seq(Row)]

VARIABLES
  now, open,
  sessions,    \* SESSIONS: session -> header, or NoSession
  records,     \* RECORDS: session -> its rows in key order (append order)
  ids,         \* RECORD_IDS: <<session, id, sequence>>
  by_owner,    \* BY_OWNER: <<owner, session>>
  by_updated,  \* BY_UPDATED: <<updated, session>>
  used,        \* ids drawn so far
  call,        \* the append of each writer that waits for the database
  sweep        \* the cutoff of the sweep under way, or Nothing

tables == <<sessions, records, ids, by_owner, by_updated>>
storeVars == <<now, open, sessions, records, ids, by_owner, by_updated, used, call, sweep>>

SessionHeader(p, at) ==
  [owner |-> p, created |-> at, updated |-> at, next |-> 0, records |-> 0, tokens |-> 0]

StoredRecord(e, id, seq, p, at) ==
  [kind |-> e.kind, call |-> e.call, pinned |-> e.pinned, tokens |-> e.tokens,
   id |-> id, seq |-> seq, by |-> p, at |-> at]

\* session.rs: the principal may act for the session's owner.
authorize(s, p) == sessions[s].owner \in MayActFor[p]

---------------------------------------------------------------------------
(* Reads: one read transaction each *)

read_session(s) == records[s]

\* A record by id: absent, found, or an index entry that names no row.
get(s, id) ==
  LET hit == {x \in ids : x[1] = s /\ x[2] = id} IN
  IF sessions[s] = NoSession \/ hit = {} THEN "none"
  ELSE IF \E i \in DOMAIN records[s], x \in hit : records[s][i].seq = x[3] THEN "found"
  ELSE "corrupt"

stats(s) == [records |-> sessions[s].records, tokens |-> sessions[s].tokens]

\* The sessions a principal is shown, found through the owner index; Nothing marks an
\* index entry that names no session, which the code answers with an error.
sessions_listed(p) ==
  {IF sessions[x[2]] = NoSession THEN Nothing ELSE x[2] :
     x \in {y \in by_owner : y[1] \in MayActFor[p]
            /\ (sessions[y[2]] = NoSession \/ authorize(y[2], p))}}

---------------------------------------------------------------------------
(* Writes: one write transaction each, in turn *)

HeaderFor(s, p, at) == IF sessions[s] = NoSession THEN SessionHeader(p, at) ELSE sessions[s]

MayAppend(s, p) ==
  LET h == HeaderFor(s, p, 0) IN h.owner \in MayActFor[p] /\ h.records < MaxRecords

\* Mutant: the index keeps the entry of the previous update.
KeepsOldEntry(s, h, at) == by_updated \cup {<<at, s>>}

Reindexed(s, h, at) ==
  (IF sessions[s] # NoSession /\ h.updated # at THEN by_updated \ {<<h.updated, s>>}
   ELSE by_updated) \cup {<<at, s>>}

append_blocking(s, p, e, at) ==
  LET h == HeaderFor(s, p, at)
      id == used + 1 IN
  /\ MayAppend(s, p)
  /\ records' = [records EXCEPT ![s] = Append(@, StoredRecord(e, id, h.next, p, at))]
  /\ ids' = ids \cup {<<s, id, h.next>>}
  /\ sessions' = [sessions EXCEPT ![s] =
       [h EXCEPT !.next = @ + 1, !.records = @ + 1, !.tokens = @ + e.tokens, !.updated = at]]
  /\ by_owner' = IF sessions[s] = NoSession THEN by_owner \cup {<<h.owner, s>>} ELSE by_owner
  /\ by_updated' = Reindexed(s, h, at)
  /\ used' = id

remove_session_rows(gone) ==
  /\ records' = [s \in Sessions |-> IF s \in gone THEN <<>> ELSE records[s]]
  /\ ids' = {x \in ids : x[1] \notin gone}
  /\ by_owner' = {x \in by_owner : ~ (x[2] \in gone /\ x[1] = sessions[x[2]].owner)}
  /\ by_updated' = {x \in by_updated : ~ (x[2] \in gone /\ x[1] = sessions[x[2]].updated)}
  /\ sessions' = [s \in Sessions |-> IF s \in gone THEN NoSession ELSE sessions[s]]

\* Where the newest `keep` unpinned rows begin.
compaction_boundary(rows, keep) ==
  LET last == {i \in Unpinned(rows) : Cardinality({j \in Unpinned(rows) : j > i}) >= keep}
  IN  IF last = {} THEN 0 ELSE Max(last)

Doomed(s, keep) ==
  LET rows == read_session(s)
      b == compaction_boundary(rows, keep)
  IN  {rows[i] : i \in {j \in DOMAIN rows : j <= b /\ ~rows[j].pinned}}

Reclaimed(doomed) == MapThenSumSet(LAMBDA r : r.tokens, doomed)

\* Mutant: a session that was compacted numbers its records from its new length.
RenumberedHeader(h, doomed) ==
  [h EXCEPT !.records = @ - Cardinality(doomed), !.tokens = @ - Reclaimed(doomed),
            !.next = h.records - Cardinality(doomed)]

CompactedHeader(h, doomed) ==
  [h EXCEPT !.records = @ - Cardinality(doomed), !.tokens = @ - Reclaimed(doomed)]

compact_blocking(s, keep) ==
  LET doomed == Doomed(s, keep) IN
  /\ records' = [records EXCEPT ![s] = InOrder(@, {i \in DOMAIN @ : @[i] \notin doomed})]
  /\ ids' = ids \ {<<s, r.id, r.seq>> : r \in doomed}
  /\ sessions' = [sessions EXCEPT ![s] = CompactedHeader(@, doomed)]
  /\ UNCHANGED <<by_owner, by_updated>>

---------------------------------------------------------------------------
(* The operations *)

\* The clock is read here, before the queue for the writer.
AppendBegin(w, s, p, e) ==
  /\ open /\ call[w] = Nothing /\ used < MaxIds
  /\ call' = [call EXCEPT ![w] = [s |-> s, p |-> p, e |-> e, at |-> now]]
  /\ UNCHANGED <<tables, now, open, used, sweep>>

\* One transaction, which refuses a stranger and a full session.
AppendCommit(w) ==
  /\ call[w] # Nothing
  /\ LET c == call[w] IN
       IF MayAppend(c.s, c.p) THEN used < MaxIds /\ append_blocking(c.s, c.p, c.e, c.at)
       ELSE UNCHANGED <<tables, used>>
  /\ call' = [call EXCEPT ![w] = Nothing]
  /\ UNCHANGED <<now, open, sweep>>

Clear(s, p) ==
  /\ open /\ sessions[s] # NoSession /\ authorize(s, p)
  /\ remove_session_rows({s})
  /\ UNCHANGED <<now, open, used, call, sweep>>

\* compact(): nothing to do where there is no session, and a stranger is refused.
compact(s, p, keep) ==
  IF sessions[s] = NoSession \/ ~authorize(s, p) THEN UNCHANGED tables
  ELSE compact_blocking(s, keep)

retention_cutoff == IF now < Retention THEN 0 ELSE now - Retention

SweepBegin ==
  /\ open /\ sweep = Nothing
  /\ sweep' = retention_cutoff
  /\ UNCHANGED <<tables, now, open, used, call>>

\* The oldest entries of the index at or below the cutoff, at most a batch of them.
DueBatches(cutoff) ==
  LET due == {x \in by_updated : x[1] <= cutoff} IN
  {d \in SUBSET due : /\ Cardinality(d) = Min({Batch, Cardinality(due)})
                      /\ \A x \in d, y \in due \ d : x[1] <= y[1]}

\* Mutant: any batch that removed something is taken to be the last.
StopsEarly(n) == TRUE

\* A short batch ran out of due sessions; a full one may have left some.
LastBatch(n) == n < Batch

\* An index entry that names no session fails the whole batch.
SweepBatch ==
  /\ sweep # Nothing
  /\ \E d \in DueBatches(sweep) :
       IF \E x \in d : sessions[x[2]] = NoSession
       THEN sweep' = Nothing /\ UNCHANGED tables
       ELSE /\ remove_session_rows({x[2] : x \in d})
            /\ sweep' = IF LastBatch(Cardinality(d)) THEN Nothing ELSE sweep
  /\ UNCHANGED <<now, open, used, call>>

\* The process dies, or the sweep's task is cancelled with the component.
StoreCrash ==
  /\ open' = FALSE
  /\ call' = [w \in DOMAIN call |-> Nothing] /\ sweep' = Nothing
  /\ UNCHANGED <<tables, now, used>>

\* Mutant: the tables are created and the indexes left as they were found.
TrustsIndexes == UNCHANGED <<by_owner, by_updated>>

reconcile_indexes ==
  LET held == {s \in Sessions : sessions[s] # NoSession} IN
  /\ by_owner' = {<<sessions[s].owner, s>> : s \in held}
  /\ by_updated' = {<<sessions[s].updated, s>> : s \in held}

\* RedbContextStore::new -> open_tables, before anything is served.
Open ==
  /\ ~open /\ open' = TRUE
  /\ reconcile_indexes
  /\ UNCHANGED <<sessions, records, ids, now, used, call, sweep>>

Tick ==
  /\ now < MaxTime /\ now' = now + 1
  /\ UNCHANGED <<tables, open, used, call, sweep>>

\* A new file, or one written before the two indexes existed.
LegacyHeader(p) == [SessionHeader(p, 0) EXCEPT !.next = 1, !.records = 1, !.tokens = 1]
LegacyRecord(p) ==
  StoredRecord([kind |-> "text", call |-> "none", pinned |-> FALSE, tokens |-> 1], 1, 0, p, 0)

StoreInit(callers) ==
  /\ now = 1 /\ open = FALSE /\ sweep = Nothing
  /\ call = [w \in callers |-> Nothing]
  /\ by_owner = {} /\ by_updated = {}
  /\ \E old \in SUBSET Sessions, p \in Principals :
       /\ Cardinality(old) <= 1 /\ used = Cardinality(old)
       /\ sessions = [s \in Sessions |-> IF s \in old THEN LegacyHeader(p) ELSE NoSession]
       /\ records = [s \in Sessions |->
                       IF s \in old THEN <<LegacyRecord(p)>> ELSE <<>>]
       /\ ids = {<<s, 1, 0>> : s \in old}

StoreNext ==
  \/ \E w \in Writers, s \in Sessions, p \in Principals, e \in Entries : AppendBegin(w, s, p, e)
  \/ \E w \in Writers : AppendCommit(w)
  \/ \E s \in Sessions, p \in Principals : Clear(s, p)
  \/ SweepBegin \/ SweepBatch \/ Tick

---------------------------------------------------------------------------
(* Properties *)

HeldSessions == {s \in Sessions : sessions[s] # NoSession}

SumTokens(rows) == MapThenSumSet(LAMBDA i : rows[i].tokens, DOMAIN rows)

\* The five tables say the same: a header's totals are those of its rows, every row is
\* indexed by its id and nothing else is, and the owner and idle indexes name exactly the
\* sessions there are.  So get, sessions and sweep_stale never meet their "index names what
\* is not stored" errors, whatever was interleaved, cut short or written by an older build.
TablesAgree ==
  /\ open => /\ by_owner = {<<sessions[s].owner, s>> : s \in HeldSessions}
             /\ by_updated = {<<sessions[s].updated, s>> : s \in HeldSessions}
  /\ ids = UNION {{<<s, records[s][i].id, records[s][i].seq>> : i \in DOMAIN records[s]} :
                 s \in Sessions}
  /\ \A s \in HeldSessions :
       /\ sessions[s].records = Len(records[s])
       /\ sessions[s].tokens = SumTokens(records[s])
       /\ \A i \in DOMAIN records[s] : records[s][i].seq < sessions[s].next
       /\ \A i, j \in DOMAIN records[s] : i < j => records[s][i].seq < records[s][j].seq
       /\ sessions[s].records <= MaxRecords
  /\ \A s \in Sessions \ HeldSessions : records[s] = <<>>
  /\ \A s \in Sessions, x \in ids : get(s, x[2]) # "corrupt"
  /\ open => \A p \in Principals : Nothing \notin sessions_listed(p)

\* A sweep that returns because its last batch was short has left no session that was due
\* at its cutoff, although it let appends, clears and compactions in between its batches.
SweepLeavesNothingDue ==
  [][(sweep # Nothing /\ sweep' = Nothing /\ open')
       => \A s \in Sessions : sessions'[s] # NoSession => sessions'[s].updated > sweep]_storeVars
=============================================================================
