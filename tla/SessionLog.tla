----------------------------- MODULE SessionLog -----------------------------
(***************************************************************************)
(* What a context store promises, as the in-memory store keeps it: one map *)
(* of sessions behind a mutex, each a transcript in append order with its  *)
(* owner and its totals.  ContextStore (the persistent store) is shown to  *)
(* implement this specification.                                           *)
(***************************************************************************)
EXTENDS Naturals, Sequences, FiniteSets, FiniteSetsExt

CONSTANTS
  Sessions, Principals,
  MayActFor,    \* principal -> the owners it may act for (itself, its delegator)
  Entries,      \* what is appended: [kind, call, pinned, tokens]
  MaxRecords,   \* DEFAULT_MAX_RECORDS_PER_SESSION, in the small
  Ids,          \* record ids, never reused
  Times, NoSession

VARIABLE log    \* session -> its state, or NoSession

NewSession(p, at) ==
  [owner |-> p, created |-> at, updated |-> at, next |-> 0, tokens |-> 0, records |-> <<>>]

Record(e, id, seq, p, at) ==
  [kind |-> e.kind, call |-> e.call, pinned |-> e.pinned, tokens |-> e.tokens,
   id |-> id, seq |-> seq, by |-> p, at |-> at]

authorize(s, p) == log[s].owner \in MayActFor[p]

AppendRecord(s, p, e, id, at) ==
  LET was == IF log[s] = NoSession THEN NewSession(p, at) ELSE log[s] IN
  /\ was.owner \in MayActFor[p]
  /\ Len(was.records) < MaxRecords
  /\ log' = [log EXCEPT ![s] =
       [was EXCEPT !.next = @ + 1, !.updated = at, !.tokens = @ + e.tokens,
                   !.records = Append(@, Record(e, id, was.next, p, at))]]

ClearSession(s, p) ==
  /\ log[s] # NoSession /\ authorize(s, p)
  /\ log' = [log EXCEPT ![s] = NoSession]

\* Positions of the unpinned records of a transcript.
Unpinned(records) == {i \in DOMAIN records : ~records[i].pinned}

\* Where the newest `keep` unpinned records begin: everything unpinned up to here goes.
compaction_boundary(records, keep) ==
  LET last == {i \in Unpinned(records) : Cardinality({j \in Unpinned(records) : j > i}) >= keep}
  IN  IF last = {} THEN 0 ELSE Max(last)

\* The records, in order, whose position is in keep.
At(records, keep) ==
  [i \in 1..Cardinality(keep) |->
     records[CHOOSE n \in keep : Cardinality({m \in keep : m < n}) = i - 1]]

SumTokens(records) == MapThenSumSet(LAMBDA i : records[i].tokens, DOMAIN records)

CompactSession(s, p, keep) ==
  /\ log[s] # NoSession /\ authorize(s, p)
  /\ LET records == log[s].records
         b == compaction_boundary(records, keep)
         left == At(records, {i \in DOMAIN records : i > b \/ records[i].pinned})
     IN  log' = [log EXCEPT ![s].records = left, ![s].tokens = SumTokens(left)]

\* Whole sessions, and only ones nobody has added to since the cutoff; how many at a time
\* is the store's own choice.
SweepStale(cutoff, gone) ==
  /\ \A s \in gone : log[s] # NoSession /\ log[s].updated <= cutoff
  /\ log' = [s \in Sessions |-> IF s \in gone THEN NoSession ELSE log[s]]

\* A store that is opened holds whatever transcripts it held before (in memory: none).
LogInit ==
  \A s \in Sessions : log[s] # NoSession =>
    /\ log[s].tokens = SumTokens(log[s].records)
    /\ \A i \in DOMAIN log[s].records : log[s].records[i].seq < log[s].next

\* Which kind of step it was shows in the session: it got longer, went, or got shorter.
Length(l, s) == IF l[s] = NoSession THEN 0 ELSE Len(l[s].records)

LogNext ==
  \/ \E s \in Sessions :
       /\ Length(log', s) = Length(log, s) + 1
       /\ \E at \in Times : log'[s].updated = at
            /\ \E p \in Principals, e \in Entries, id \in Ids : AppendRecord(s, p, e, id, at)
  \/ \E s \in Sessions :
       /\ log'[s] # log[s] /\ Length(log', s) <= Length(log, s)
       /\ \E p \in Principals :
            ClearSession(s, p) \/ \E keep \in 0..MaxRecords : CompactSession(s, p, keep)
  \/ \E gone \in SUBSET Sessions, cutoff \in Times : SweepStale(cutoff, gone)

LogSpec == LogInit /\ [][LogNext]_log
=============================================================================
