----------------------------- MODULE Summariser -----------------------------
(***************************************************************************)
(* The compactor: a round reads a session's transcript, plans which of its *)
(* oldest unpinned records to summarise, asks a model for a recap, appends *)
(* the recap, counts the session and asks the store to keep the newest of  *)
(* it.  Each of those is a call of its own to the store, so other writers  *)
(* and other rounds run in between.  The window assembly the transcript is *)
(* read through, and the planning, are pure (Window, Plan).                *)
(***************************************************************************)
EXTENDS ContextStore

CONSTANTS
  Rounds,          \* rounds of compaction that may run at once
  Budgets,         \* [max_records, max_tokens, max_part_tokens], a member Nothing or a number
  RecapTokens

ASSUME SummariserAssumption ==
  /\ RecapTokens \in Nat
  /\ Budgets \subseteq [max_records : Nat \cup {Nothing}, max_tokens : Nat \cup {Nothing},
                         max_part_tokens : Nat \cup {Nothing}]

VARIABLE round     \* where each round is, and what it has read so far

allVars == <<storeVars, round>>

---------------------------------------------------------------------------
(* summariser.rs: one action per call to the store or the model *)

Idle == [phase |-> "idle"]

\* What a round does next with what is read and what is left to read: read on, or plan.
Onward(q, left, rows) ==
  IF left # <<>> THEN [phase |-> "listed", s |-> q.s, p |-> q.p, budget |-> q.budget, ids |-> left, rows |-> rows]
  ELSE LET todo == plan(rows, q.budget) IN
       IF todo = Nothing THEN Idle ELSE [phase |-> "planned", s |-> q.s, p |-> q.p, plan |-> todo]

\* transcript(): the ids an unlimited window names, oldest first; nothing for a session that is
\* not there.
RoundList(r, s, p, budget) ==
  /\ open /\ round[r] = Idle
  /\ sessions[s] # NoSession /\ authorize(s, p)
  /\ LET window == InOrder(read_session(s), assemble(read_session(s), Unlimited)) IN
     round' = [round EXCEPT ![r] = Onward([s |-> s, p |-> p, budget |-> budget],
                                          [i \in DOMAIN window |-> window[i].id], <<>>)]
  /\ UNCHANGED storeVars

\* transcript(): each of them is then read by id, one call each, and one that has gone is passed
\* over.  A session that now belongs to somebody else refuses the read.  After the last the round
\* plans.
RoundPlan(r) ==
  LET q == round[r]
      session == read_session(q.s)
      found == InOrder(session, {i \in DOMAIN session : session[i].id = Head(q.ids)}) IN
  /\ q.phase = "listed"
  /\ round' = [round EXCEPT ![r] =
       IF sessions[q.s] # NoSession /\ ~authorize(q.s, q.p) THEN Idle
       ELSE Onward(q, Tail(q.ids), q.rows \o found)]
  /\ UNCHANGED storeVars

\* write_summary(): an error, a cancellation or an empty answer ends the round with nothing
\* touched; otherwise the recap is handed to append, which reads the clock.
RoundWrite(r) ==
  /\ round[r].phase = "planned"
  /\ \E answer \in {Idle, [phase |-> "written", s |-> round[r].s, p |-> round[r].p,
                           plan |-> round[r].plan, at |-> now]} :
       round' = [round EXCEPT ![r] = answer]
  /\ UNCHANGED storeVars

Recap == [kind |-> "text", call |-> "none", pinned |-> FALSE, tokens |-> RecapTokens]

\* The recap is appended before anything is removed; a full session ends the round here.
RoundRecap(r) ==
  LET q == round[r] IN
  /\ q.phase = "written"
  /\ IF MayAppend(q.s, q.p)
     THEN /\ used < MaxIds /\ append_blocking(q.s, q.p, Recap, q.at)
          /\ round' = [round EXCEPT ![r] =
               [phase |-> "recapped", s |-> q.s, p |-> q.p, plan |-> q.plan]]
     ELSE UNCHANGED <<tables, used>> /\ round' = [round EXCEPT ![r] = Idle]
  /\ UNCHANGED <<now, open, call, sweep>>

\* Mutant: the removal counts from the whole session, pinned records included.
KeepsTooFew(s, todo) == Left(Left(stats(s).records, 2 * todo.pinned), todo.n + 1)

\* reclaim(): how many unpinned records to keep, from what the session holds now.
keep_count(s, todo) == Left(Left(stats(s).records, todo.pinned), todo.n)

UnpinnedIds(s) == {records[s][i].id : i \in Unpinned(records[s])}

RoundCount(r) ==
  LET q == round[r] IN
  /\ q.phase = "recapped"
  /\ round' = [round EXCEPT ![r] =
       IF sessions[q.s] = NoSession \/ ~authorize(q.s, q.p) THEN Idle
       ELSE [phase |-> "counted", s |-> q.s, p |-> q.p, plan |-> q.plan,
             keep |-> keep_count(q.s, q.plan), held |-> UnpinnedIds(q.s)]]
  /\ UNCHANGED storeVars

RoundReclaim(r) ==
  LET q == round[r] IN
  /\ q.phase = "counted"
  /\ compact(q.s, q.p, q.keep)
  /\ round' = [round EXCEPT ![r] = Idle]
  /\ UNCHANGED <<now, open, used, call, sweep>>

Init == StoreInit(Writers) /\ round = [r \in Rounds |-> Idle]

Next ==
  \/ StoreCrash /\ round' = [r \in Rounds |-> Idle]
  \/ (StoreNext \/ Open) /\ UNCHANGED round
  \/ \E r \in Rounds : \/ \E s \in Sessions, p \in Principals, b \in Budgets : RoundList(r, s, p, b)
                       \/ RoundPlan(r) \/ RoundWrite(r) \/ RoundRecap(r)
                       \/ RoundCount(r) \/ RoundReclaim(r)

Spec == Init /\ [][Next]_allVars

---------------------------------------------------------------------------
(* Properties *)

\* What the step of a round that reclaims removed although no recap covers it: a stranded
\* tool result, which has nothing to recap, is not counted.
Lost(r) ==
  LET q == round[r]
      rows == read_session(q.s)
      gone == {rows[i].id : i \in {j \in DOMAIN rows : (\A k \in DOMAIN records'[q.s] : records'[q.s][k] # rows[j])
                                     /\ ~drop_orphan_results(rows, DOMAIN rows, j)}}
  IN  gone \ q.plan.ids

\* Appended since the round counted, and removed by somebody else since it planned.
Raced(r) == UnpinnedIds(round[r].s) \ round[r].held
Taken(r) ==
  LET q == round[r] IN
  (q.plan.ids \cup q.plan.pins) \ {records[q.s][i].id : i \in DOMAIN records[q.s]}

Reclaims(r) == round[r].phase = "counted" /\ round'[r] = Idle /\ open'

\* plan.rs: a round "must never remove more than it summarised".  Whatever runs in between,
\* a round loses at most one turn for each record appended between its count and its
\* compaction, and for each record of its plan that somebody else removed meanwhile.
LossIsBounded ==
  [][\A r \in Rounds : Reclaims(r) =>
       Cardinality(Lost(r)) <= Cardinality(Raced(r)) + Cardinality(Taken(r))]_allVars

\* summariser.rs, reclaim(): "what is removed stays the oldest `summarised_records` - never
\* a turn nobody has summarised", also when turns were appended meanwhile.
NothingLostUnsummarised ==
  [][\A r \in Rounds : Reclaims(r) /\ Taken(r) = {} => Lost(r) = {}]_allVars

\* The persistent store is a context store: each of its transactions is a step of the
\* in-memory store, whose whole state is what the header and the rows spell out.
Log == INSTANCE SessionLog WITH
  Entries <- Entries \cup {Recap}, Times <- 0..MaxTime, Ids <- 1..MaxIds,
  log <- [s \in Sessions |->
            IF sessions[s] = NoSession THEN NoSession
            ELSE [owner |-> sessions[s].owner, created |-> sessions[s].created,
                  updated |-> sessions[s].updated, next |-> sessions[s].next,
                  tokens |-> sessions[s].tokens, records |-> read_session(s)]]

ImplementsSessionLog == Log!LogSpec
=============================================================================
