----------------------------- MODULE AuditTrail -----------------------------
(***************************************************************************)
(* The audit log: a sink task that reads two event streams (decisions and  *)
(* invocations, each a bounded broadcast that drops its oldest event and   *)
(* reports how many were missed), a store with a record table, a sequence  *)
(* counter and three indexes, written one transaction at a time, and the   *)
(* retention sweep, which removes old records in batches and writes down,  *)
(* in the batch's own transaction, how many.                               *)
(***************************************************************************)
EXTENDS Naturals, Sequences, FiniteSets, FiniteSetsExt

CONSTANTS
  AuEvents,      \* what is published: [kind, principal, behalf, corr, tool, refusal]
  AuQueries,     \* what is asked: [principal, corr, tool, kinds, since, until, refusals, limit]
  AuReaders,     \* who asks: [id, behalf]
  AuCapacity,    \* events a subscriber may be behind
  AuBatch, AuRetention,
  AuMaxTime, AuMaxEvents, AuMaxSweeps, AuMaxBoots,   \* bounds
  AuNone

VARIABLES
  au_now, au_up,
  au_stream,     \* kind -> [q: the events held, lag: how many were dropped before them]
  au_sink,       \* "select", "drain", or "done"
  au_hand,       \* the entry being appended, or AuNone
  au_stopping,   \* the component's token
  au_failures, au_missed,    \* AuditSink's counters
  au_records,    \* RECORDS: the set of records, each with its sequence number
  au_time, au_principal, au_corr,  \* the three indexes: <<key, sequence>>
  au_issued,     \* META: the last sequence number given out
  au_sweep,      \* the cutoff of the sweep under way, or AuNone
  au_published,  \* history: events published
  au_unwritten,  \* history: events of the appends that failed in this process
  au_lost,       \* history: events that were in a process's memory alone when it ended
  au_sweeps, au_boots   \* history, for the bounds

auStore == <<au_records, au_time, au_principal, au_corr, au_issued>>
auSinkVars == <<au_stream, au_sink, au_hand, au_stopping, au_failures, au_missed>>
auHistory == <<au_published, au_unwritten, au_lost, au_sweeps, au_boots>>
auVars == <<au_now, au_up, auStore, auSinkVars, au_sweep, auHistory>>

AuKinds == {"authorization", "invocation"}
is_about_the_trail(r) == r.kind \in {"gap", "retention"}

---------------------------------------------------------------------------
(* Entries, and who may see which *)

AuditEntry(e, at) ==
  [kind |-> e.kind, principal |-> e.principal, behalf |-> e.behalf, corr |-> e.corr,
   tool |-> e.tool, refusal |-> e.refusal, time |-> at, count |-> 0]

\* A record about the trail belongs to the system, and to no operation and no tool.
AuditGap(missed, at) ==
  [kind |-> "gap", principal |-> "system", behalf |-> AuNone, corr |-> AuNone,
   tool |-> AuNone, refusal |-> FALSE, time |-> at, count |-> missed]

RetentionApplied(removed, at) == [AuditGap(removed, at) EXCEPT !.kind = "retention"]

visible_to(r, reader) ==
  \/ is_about_the_trail(r)
  \/ r.principal \in {reader.id, reader.behalf}
  \/ r.behalf = reader.id

concerns(r, principal) == is_about_the_trail(r) \/ principal \in {r.principal, r.behalf}

matches(q, r) ==
  /\ q.principal # AuNone => concerns(r, q.principal)
  /\ q.corr # AuNone => r.corr = q.corr
  /\ q.tool # AuNone => r.tool = q.tool
  /\ q.kinds # {} => r.kind \in q.kinds
  /\ q.since # AuNone => r.time >= q.since
  /\ q.until # AuNone => r.time <= q.until
  /\ q.refusals => r.refusal

---------------------------------------------------------------------------
(* The store *)

indexed_principals(r) == {r.principal} \cup ({r.behalf} \ {AuNone})

auRecord(e, n) == [kind |-> e.kind, principal |-> e.principal, behalf |-> e.behalf, corr |-> e.corr,
                   tool |-> e.tool, refusal |-> e.refusal, time |-> e.time, count |-> e.count, seq |-> n]

\* What the four tables and the counter hold after appending e to what `kept` leaves.
auAppended(e, kept) ==
  LET n == au_issued + 1 IN
  /\ au_records' = {r \in au_records : r.seq \in kept} \cup {auRecord(e, n)}
  /\ au_time' = {x \in au_time : x[2] \in kept} \cup {<<e.time, n>>}
  /\ au_principal' = {x \in au_principal : x[2] \in kept} \cup {<<p, n>> : p \in indexed_principals(e)}
  /\ au_corr' = {x \in au_corr : x[2] \in kept} \cup {<<e.corr, n>>}
  /\ au_issued' = n

auSequences == {r.seq : r \in au_records}
auAt(n) == CHOOSE r \in au_records : r.seq = n

scanned_principals(p) == {p, "system"}

\* The newest `limit` members of an index range, in key order, that the reader may see.
collect_second(range, q, reader) ==
  LET hits == {x \in range : /\ \E r \in au_records : r.seq = x[2]
                             /\ visible_to(auAt(x[2]), reader) /\ matches(q, auAt(x[2]))}
      Newer(x, y) == x[1] > y[1] \/ (x[1] = y[1] /\ x[2] > y[2])
  IN  {x[2] : x \in {y \in hits : q.limit = AuNone
                       \/ Cardinality({z \in hits : Newer(z, y)}) < q.limit}}

\* Which index answers a query; keys of one range are alike, so only the sequence orders it.
query_found(q, reader) ==
  IF q.corr # AuNone
  THEN collect_second({<<0, x[2]>> : x \in {y \in au_corr : y[1] = q.corr}}, q, reader)
  ELSE IF q.principal # AuNone
       THEN UNION {collect_second({<<0, x[2]>> : x \in {y \in au_principal : y[1] = p}}, q, reader) :
                     p \in scanned_principals(q.principal)}
  ELSE collect_second({x \in au_time : /\ q.since # AuNone => x[1] >= q.since
                                       /\ q.until # AuNone => x[1] <= q.until}, q, reader)

\* The sequences returned: the newest `limit` of what the ranges gave.
query_blocking(q, reader) ==
  LET found == query_found(q, reader) IN
  {n \in found : q.limit = AuNone \/ Cardinality({m \in found : m > n}) < q.limit}

\* A scan of the whole trail, and the newest of it: in the order written, or, for a query that
\* names neither operation nor principal, in the order of the timestamps.
query_scan(q, reader) ==
  {r.seq : r \in {x \in au_records : visible_to(x, reader) /\ matches(q, x)}}

query_newest(q, reader) ==
  LET want == query_scan(q, reader)
      Newer(m, n) == IF q.corr # AuNone \/ q.principal # AuNone THEN m > n
                     ELSE \/ auAt(m).time > auAt(n).time
                          \/ auAt(m).time = auAt(n).time /\ m > n
  IN  {n \in want : q.limit = AuNone \/ Cardinality({m \in want : Newer(m, n)}) < q.limit}

survives_retention(r, cutoff) == r.time > cutoff \/ is_about_the_trail(r)

\* What a sweep at this cutoff would remove in all (the dry run's count).
count_due(cutoff) ==
  {x \in au_time : x[1] <= cutoff /\ ~survives_retention(auAt(x[2]), cutoff)}

\* The oldest of it, at most a batch.
auDue(cutoff) ==
  LET due == count_due(cutoff)
      Older(x, y) == x[1] < y[1] \/ (x[1] = y[1] /\ x[2] < y[2])
  IN  {x[2] : x \in {y \in due : Cardinality({z \in due : Older(z, y)}) < AuBatch}}

---------------------------------------------------------------------------
(* The bus and the sink *)

\* A publisher never waits: a subscriber that is full loses its oldest event.
auPushed(s, e) ==
  IF Len(s.q) < AuCapacity THEN [s EXCEPT !.q = Append(@, e)]
  ELSE [q |-> Append(Tail(s.q), e), lag |-> s.lag + 1]

AuPublish(e) ==
  /\ au_up /\ au_sink # "done" /\ au_published < AuMaxEvents
  /\ au_stream' = [au_stream EXCEPT ![e.kind] = auPushed(@, AuditEntry(e, au_now))]
  /\ au_published' = au_published + 1
  /\ UNCHANGED <<au_now, au_up, auStore, au_sink, au_hand, au_stopping, au_failures, au_missed,
                 au_sweep, au_unwritten, au_lost, au_sweeps, au_boots>>

\* accept(): a lag is recorded as a gap before anything else of the stream.
accept(k) ==
  LET s == au_stream[k] IN
  IF s.lag > 0
  THEN /\ au_hand' = AuditGap(s.lag, au_now)
       /\ au_stream' = [au_stream EXCEPT ![k].lag = 0]
       /\ au_missed' = au_missed + s.lag
  ELSE /\ au_hand' = Head(s.q)
       /\ au_stream' = [au_stream EXCEPT ![k].q = Tail(@)]
       /\ UNCHANGED au_missed

auWaiting(k) == au_stream[k].lag > 0 \/ au_stream[k].q # <<>>

\* Selecting takes either stream; draining takes the decisions first.
AuReceive(k) ==
  /\ au_up /\ au_hand = AuNone /\ auWaiting(k)
  /\ au_sink = "select" \/ (au_sink = "drain" /\ (k = "authorization" \/ ~auWaiting("authorization")))
  /\ accept(k)
  /\ UNCHANGED <<au_now, au_up, auStore, au_sink, au_stopping, au_failures, au_sweep, auHistory>>

\* What an entry accounts for: itself, or as many events as it says were missed.
auAccounts(e) == IF is_about_the_trail(e) THEN e.count ELSE 1

\* record(): the append commits, or fails and is counted, a gap's like any other.
AuRecord ==
  /\ au_hand # AuNone
  /\ \/ auAppended(au_hand, auSequences) /\ UNCHANGED <<au_failures, au_unwritten>>
     \/ /\ au_failures' = au_failures + 1
        /\ au_unwritten' = au_unwritten + auAccounts(au_hand)
        /\ UNCHANGED auStore
  /\ au_hand' = AuNone
  /\ UNCHANGED <<au_now, au_up, au_stream, au_sink, au_stopping, au_missed, au_sweep,
                 au_published, au_lost, au_sweeps, au_boots>>

AuStop ==
  /\ au_up /\ ~au_stopping /\ au_stopping' = TRUE
  /\ UNCHANGED <<au_now, au_up, auStore, au_stream, au_sink, au_hand, au_failures, au_missed,
                 au_sweep, auHistory>>

\* The loop leaves on the token; it is over when both streams have been found empty.
AuDrain ==
  /\ au_up /\ au_stopping /\ au_hand = AuNone
  /\ \/ au_sink = "select" /\ au_sink' = "drain"
     \/ au_sink = "drain" /\ (\A k \in AuKinds : ~auWaiting(k)) /\ au_sink' = "done"
  /\ UNCHANGED <<au_now, au_up, auStore, au_stream, au_hand, au_stopping, au_failures, au_missed,
                 au_sweep, auHistory>>

---------------------------------------------------------------------------
(* Retention, and the process *)

AuSweepBegin ==
  /\ au_up /\ ~au_stopping /\ au_sweep = AuNone /\ au_sweeps < AuMaxSweeps
  /\ au_sweep' = IF au_now < AuRetention THEN 0 ELSE au_now - AuRetention
  /\ au_sweeps' = au_sweeps + 1
  /\ UNCHANGED <<au_now, au_up, auStore, auSinkVars, au_published, au_unwritten, au_lost, au_boots>>

\* Mutant: the marker is left to a transaction of its own.
SweptUnmarked(gone) ==
  /\ au_records' = {r \in au_records : r.seq \notin gone}
  /\ au_time' = {x \in au_time : x[2] \notin gone}
  /\ au_principal' = {x \in au_principal : x[2] \notin gone}
  /\ au_corr' = {x \in au_corr : x[2] \notin gone}
  /\ UNCHANGED au_issued

\* One batch and the marker that accounts for it, in one transaction.
auSwept(gone) ==
  auAppended(RetentionApplied(Cardinality(gone), au_now), auSequences \ gone)

\* An empty batch writes nothing; a short one is the last.
AuSweepBatch ==
  /\ au_sweep # AuNone
  /\ LET gone == auDue(au_sweep) IN
     /\ IF gone = {} THEN UNCHANGED auStore ELSE auSwept(gone)
     /\ au_sweep' = IF Cardinality(gone) < AuBatch THEN AuNone ELSE au_sweep
  /\ UNCHANGED <<au_now, au_up, auSinkVars, auHistory>>

auFresh ==
  /\ au_stream' = [k \in AuKinds |-> [q |-> <<>>, lag |-> 0]]
  /\ au_sink' = "select" /\ au_hand' = AuNone /\ au_stopping' = FALSE
  /\ au_failures' = 0 /\ au_missed' = 0

\* What only the process knows of: the entry in hand, and what a stream holds or has dropped.
auInHand == IF au_hand = AuNone THEN 0 ELSE auAccounts(au_hand)
auOnItsWay(k) == au_stream[k].lag + Len(au_stream[k].q)

\* The process ends: the streams, the entry in hand and the counters go with it.
AuCrash ==
  /\ au_up /\ au_up' = FALSE /\ au_sweep' = AuNone
  /\ auFresh
  /\ au_lost' = au_lost + au_unwritten + auInHand + auOnItsWay("authorization") + auOnItsWay("invocation")
  /\ au_unwritten' = 0
  /\ UNCHANGED <<au_now, auStore, au_published, au_sweeps, au_boots>>

\* Wiring::init subscribes, start spawns the sink.
AuStart ==
  /\ ~au_up /\ au_up' = TRUE /\ au_boots < AuMaxBoots /\ au_boots' = au_boots + 1
  /\ UNCHANGED <<au_now, auStore, auSinkVars, au_sweep, au_published, au_unwritten, au_lost, au_sweeps>>

AuTick ==
  /\ au_now < AuMaxTime /\ au_now' = au_now + 1
  /\ UNCHANGED <<au_up, auStore, auSinkVars, au_sweep, auHistory>>

AuditInit ==
  /\ au_now = 0 /\ au_up = FALSE /\ au_sweep = AuNone
  /\ au_stream = [k \in AuKinds |-> [q |-> <<>>, lag |-> 0]]
  /\ au_sink = "select" /\ au_hand = AuNone /\ au_stopping = FALSE
  /\ au_failures = 0 /\ au_missed = 0
  /\ au_records = {} /\ au_time = {} /\ au_principal = {} /\ au_corr = {} /\ au_issued = 0
  /\ au_published = 0 /\ au_unwritten = 0 /\ au_lost = 0 /\ au_sweeps = 0 /\ au_boots = 0

AuditNext ==
  \/ \E e \in AuEvents : AuPublish(e)
  \/ \E k \in AuKinds : AuReceive(k)
  \/ AuRecord \/ AuStop \/ AuDrain
  \/ AuSweepBegin \/ AuSweepBatch \/ AuCrash \/ AuStart \/ AuTick

AuditSpec == AuditInit /\ [][AuditNext]_auVars

\* What the sink may have in hand.
AuEntries ==
  [kind : AuKinds \cup {"gap", "retention"}, principal : {e.principal : e \in AuEvents} \cup {"system"},
   behalf : {e.behalf : e \in AuEvents} \cup {AuNone}, corr : {e.corr : e \in AuEvents} \cup {AuNone},
   tool : {e.tool : e \in AuEvents} \cup {AuNone}, refusal : BOOLEAN, time : Nat, count : Nat]

\* Times and limits are numbers and the absent value is none of them, nor an entry; a
\* subscriber holds an event at least (the broadcast channel refuses a capacity of zero).
AuditConstants ==
  /\ AuNone \notin Nat /\ AuNone \notin AuEntries
  /\ AuCapacity \in Nat \ {0}
  /\ \A e \in AuEvents : e.kind \in AuKinds /\ e.refusal \in BOOLEAN
  /\ \A q \in AuQueries : {q.limit, q.since, q.until} \subseteq Nat \cup {AuNone}

---------------------------------------------------------------------------
(* Properties *)

auSum(S) == MapThenSumSet(LAMBDA r : r.count, S)

\* Nothing goes missing unaccounted for.  In the store, what was ever numbered is what is
\* still there plus what the retention markers say was removed, through crashes between the
\* batches of a sweep.  Of the events, the trail shows each: by its record, by the marker of the
\* sweep that removed it or by the gap that counts it.  The others are those on their way, those
\* of a failed append, which the sink counts (a failed gap's included), and those that were in
\* the memory of a process when it ended, which no record tells of.
NothingVanishes ==
  /\ au_issued = Cardinality(au_records) + auSum({r \in au_records : r.kind = "retention"})
  /\ au_published = Cardinality({r \in au_records : ~is_about_the_trail(r)})
                    + auSum({r \in au_records : is_about_the_trail(r)})
                    + auInHand + auOnItsWay("authorization") + auOnItsWay("invocation")
                    + au_unwritten + au_lost
  /\ au_failures = 0 => au_unwritten = 0

\* Whichever index answers, a query returns exactly the newest `limit` of what scanning the whole
\* trail finds.  For an operation or a principal the newest are those written last, as the
\* in-memory store takes them (store.rs); where only times narrow the query they are those
\* stamped last, which is another order when an event is written after a younger one, so there
\* the two stores may differ under a limit.
QueriesAnswerAlike ==
  \A q \in AuQueries, reader \in AuReaders :
    query_blocking(q, reader) = query_newest(q, reader)

\* Both: the trail accounts for every decision, through lag, failed writes, sweeps and restarts,
\* but for what a crash takes from memory, and a query is answered as a scan would, whichever
\* index answers (sink.rs, persistent.rs).
AuditIsComplete == NothingVanishes /\ QueriesAnswerAlike
=============================================================================
