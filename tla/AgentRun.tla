------------------------------ MODULE AgentRun ------------------------------
(***************************************************************************)
(* The agent loop (Run in run.rs): turns of a model, tool calls between    *)
(* them, a budget asked before each turn and charged after it.  Runs of    *)
(* several callers go on at the same time; they share the model provider   *)
(* (module Resilience) and the usage ledger behind LimitedQuotaGuard.      *)
(*                                                                         *)
(* Every run has a session of its own.  The k-th tool call a run's         *)
(* transcript records is the number k.                                     *)
(***************************************************************************)
EXTENDS Resilience, Sequences

CONSTANTS
  Principals,
  Subjects,       \* run -> whom its usage is charged to: the actor, then its owner
  Costs,          \* what a turn may cost
  MaxTurns, MaxToolCalls,   \* run -> AgentLoopSettings of its agent
  Replies,        \* how many tool calls a reply may hold
  Windows,        \* bound: the quota windows are 0..Windows
  Settings        \* the deployments looked at: [compactor, ceiling, last], with whether a
                  \* ContextCompactor is wired, the maximum of the counted dimension in
                  \* a window, and the last window reached (a bound)

\* subjects() lists nobody twice, and a document with a ceiling of zero is refused.
ASSUME AgentAssumption ==
  /\ Subjects \in [Clients -> Seq(Principals) \ {<<>>}]
  /\ \A r \in Clients : \A i, k \in DOMAIN Subjects[r] : Subjects[r][i] = Subjects[r][k] => i = k
  /\ Costs \subseteq Nat /\ Replies \subseteq Nat /\ Windows \in Nat
  /\ MaxTurns \in [Clients -> Nat] /\ MaxToolCalls \in [Clients -> Nat]
  /\ Settings \subseteq [compactor : BOOLEAN, ceiling : Nat \ {0}, last : 0..Windows]

VARIABLES
  setup,    \* the deployment's settings, fixed when it is wired
  run,      \* per run, see NewRun
  ledger,   \* UsageLedger: principal, window -> what was used
  window,   \* the quota window the clock is in
  charged,  \* history: what record() was told was added, per principal and window
  broke     \* history: runs that began with a principal at its ceiling

agentVars == <<setup, run, ledger, window, charged, broke>>
vars == <<client, circuit, failures, cooled, free, stopped, overdue, streak,
          setup, run, ledger, window, charged, broke>>

NewRun ==
  [pc |-> "idle",
   turns |-> 0, tool_calls |-> 0,
   pending |-> <<>>, running |-> 0, hand |-> 0,   \* calls to announce, to make, being made
   compacting |-> TRUE,
   row |-> 0, win |-> 0, cost |-> 0,   \* check() and record(): row at hand, window, charge
   asked |-> 0, answers |-> <<>>,      \* the transcript's calls and results
   lost |-> FALSE]                     \* history: the context store refused a result

Over == {"finished", "failed", "dropped"}
Begun(r) == run[r].pc \notin {"idle"} \cup Over
Become(r, S) == \E e \in S : run' = [run EXCEPT ![r] = e]
\* Of a run that is over only its transcript is left.
Ended(e, pc) ==
  [NewRun EXCEPT !.pc = pc, !.asked = e.asked, !.answers = e.answers, !.lost = e.lost]

---------------------------------------------------------------------------
(* run.rs: stopping *)

guard(r) == r \notin stopped \cup overdue

\* Mutant: only the calls not yet announced are closed off.
OutstandingPending(e) == e.pending
Outstanding(e) == (IF e.running = 0 THEN <<>> ELSE <<e.running>>) \o e.pending

\* Answers are appended one after the other; one the store refuses is left out.
Recorded(calls, kept) ==
  LET upTo[k \in 0..Len(calls)] ==
        IF k = 0 THEN <<>>
        ELSE IF calls[k] \in kept THEN Append(upTo[k - 1], calls[k]) ELSE upTo[k - 1]
  IN  upTo[Len(calls)]

\* advance() on an error: abandon_outstanding_calls() answers what will never be made.
Stopped(e) ==
  LET calls == {Outstanding(e)[k] : k \in 1..Len(Outstanding(e))}
  IN  {[Ended(e, "failed") EXCEPT !.answers = @ \o Recorded(Outstanding(e), kept),
                                  !.lost = @ \/ kept # calls] : kept \in SUBSET calls}

---------------------------------------------------------------------------
(* quota: guard.rs, ledger.rs *)

Last(r) == Len(Subjects[r])
Row(r) == Subjects[r][run[r].row]

\* Mutant: a ceiling that is just reached is not exhausted.
ExhaustedOver(used) == used > setup.ceiling
Exhausted(used) == used >= setup.ceiling

\* Mutant: a charge drops every window but its own.
KeptOwn(v, w) == v = w
\* A charge drops the windows before its own, and only those.
Kept(v, w) == v >= w

add(row, w, cost) ==
  [v \in 0..Windows |-> IF ~Kept(v, w) THEN 0 ELSE IF v = w THEN row[v] + cost ELSE row[v]]

---------------------------------------------------------------------------
(* run.rs: the loop *)

\* make_room(): is the window losing records, and does the compactor call the model?
Asks(e) == setup.compactor /\ e.compacting
\* ... or does it find nothing to compact?
NothingToDo(e) == {e} \cup (IF Asks(e) THEN {[e EXCEPT !.compacting = FALSE]} ELSE {})

\* turn(), up to the quota's first await.
Turn(r, e) ==
  IF e.turns >= MaxTurns[r] THEN Stopped(e)
  ELSE {[e EXCEPT !.pc = "check", !.row = 1, !.win = window]}

\* The first step: tools, system prompt, compaction, the input, and on to the first turn
\* without asking the guard again; any of the services may fail.
Prepare(r) ==
  LET e == run[r]
  IN  /\ e.pc = "idle"
      /\ broke' = IF \E k \in 1..Last(r) : Exhausted(ledger[Subjects[r][k]][window])
                  THEN broke \cup {r} ELSE broke
      /\ \/ Become(r, Stopped(e)) /\ UNCHANGED client
         \/ guard(r) /\ Become(r, UNION {Turn(r, f) : f \in NothingToDo(e)}) /\ UNCHANGED client
         \/ guard(r) /\ Asks(e) /\ Become(r, {[e EXCEPT !.pc = "room0"]}) /\ Complete(r)
      /\ UNCHANGED <<circuit, failures, cooled, free, stopped, overdue, streak>>
      /\ UNCHANGED <<setup, ledger, window, charged>>

\* The compactor's model call has ended.  Only a cancelled or expired one stops the run;
\* any other failure turns compaction off.  Then the first turn begins, or the turn goes on.
RoomMade(r) ==
  LET e    == run[r]
      o    == client[r].pc
      off  == [e EXCEPT !.compacting = FALSE]
      left == (IF o = "ok" THEN {e} ELSE {})
              \cup (IF o \in {"ok", "terminal", "transient"} THEN {off} ELSE {})
  IN  /\ e.pc \in {"room0", "room"} /\ o \in Outcomes
      /\ \/ /\ Become(r, IF e.pc = "room" THEN {[f EXCEPT !.pc = "model"] : f \in left}
                         ELSE UNION {Turn(r, f) : f \in left})
            /\ IF e.pc = "room" THEN Complete(r) ELSE client' = [client EXCEPT ![r] = Idle]
         \/ Become(r, Stopped(e)) /\ client' = [client EXCEPT ![r] = Idle]
      /\ UNCHANGED <<circuit, failures, cooled, free, stopped, overdue, streak>>
      /\ UNCHANGED <<setup, ledger, window, charged, broke>>

\* step(): the guard, then the announced call, the next announcement, or a turn.  A call
\* over the limit is put back, to be closed off with the rest.
Step(r) ==
  LET e == run[r]
      announced == [e EXCEPT !.running = Head(e.pending), !.pending = Tail(@),
                             !.tool_calls = @ + 1]
      next == IF e.running # 0 THEN {[e EXCEPT !.pc = "tool", !.hand = e.running, !.running = 0]}
              ELSE IF e.pending # <<>>
              THEN IF e.tool_calls >= MaxToolCalls[r] THEN Stopped(e) ELSE {announced}
              ELSE Turn(r, e)
  IN  /\ e.pc = "ready"
      /\ Become(r, IF guard(r) THEN next ELSE Stopped(e))
      /\ UNCHANGED resilienceVars
      /\ UNCHANGED <<setup, ledger, window, charged, broke>>

\* call_tool(): what the tool returned is recorded, an error too; an error while the run is
\* being stopped ends it, and so does a store that refuses the result.
ToolReturns(r) ==
  LET e == run[r]
      back == [e EXCEPT !.pc = "ready", !.answers = Append(@, e.hand), !.hand = 0]
  IN  /\ e.pc = "tool"
      /\ Become(r, {back} \cup (IF guard(r) THEN {} ELSE Stopped(back))
                          \cup Stopped([e EXCEPT !.lost = TRUE]))
      /\ UNCHANGED resilienceVars
      /\ UNCHANGED <<setup, ledger, window, charged, broke>>

\* check(), one row per subject; after the last the window is assembled, perhaps with a
\* round of compaction, and the request is sent.  The ledger and the store may fail.
Check(r) ==
  LET e == run[r]
  IN  /\ e.pc = "check"
      /\ \/ Become(r, Stopped(e)) /\ UNCHANGED client
         \/ /\ ~Exhausted(ledger[Row(r)][e.win])
            /\ IF e.row < Last(r) THEN Become(r, {[e EXCEPT !.row = @ + 1]}) /\ UNCHANGED client
               ELSE /\ Become(r, NothingToDo([e EXCEPT !.pc = "model", !.row = 0, !.win = 0])
                                 \cup (IF Asks(e) THEN {[e EXCEPT !.pc = "room", !.row = 0, !.win = 0]} ELSE {}))
                    /\ Complete(r)
      /\ UNCHANGED <<circuit, failures, cooled, free, stopped, overdue, streak>>
      /\ UNCHANGED <<setup, ledger, window, charged, broke>>

\* The model has answered, or the call failed for good.
ModelAnswers(r) ==
  LET e == run[r]
      taken(cost) == [e EXCEPT !.pc = "charge", !.turns = @ + 1, !.cost = cost,
                               !.row = 1, !.win = window]
  IN  /\ e.pc = "model" /\ client[r].pc \in Outcomes
      /\ Become(r, IF client[r].pc = "ok" THEN {taken(cost) : cost \in Costs} ELSE Stopped(e))
      /\ client' = [client EXCEPT ![r] = Idle]
      /\ UNCHANGED <<circuit, failures, cooled, free, stopped, overdue, streak>>
      /\ UNCHANGED <<setup, ledger, window, charged, broke>>

\* record(), one row per subject; a ledger that fails ends the run.
Charge(r) ==
  LET e == run[r]
      s == Row(r)
  IN  /\ e.pc = "charge"
      /\ \/ Become(r, Stopped(e)) /\ UNCHANGED <<ledger, charged>>
         \/ /\ ledger' = [ledger EXCEPT ![s] = add(@, e.win, e.cost)]
            /\ charged' = [charged EXCEPT ![s][e.win] = @ + e.cost]
            /\ Become(r, {IF e.row < Last(r) THEN [e EXCEPT !.row = @ + 1]
                          ELSE [e EXCEPT !.pc = "reply", !.row = 0, !.cost = 0, !.win = 0]})
      /\ UNCHANGED resilienceVars
      /\ UNCHANGED <<setup, window, broke>>

\* The reply is recorded before any of its calls is made; one without calls ends the run.
\* A reply cut short by cancellation, or a store that refuses it, ends it too.
Reply(r) ==
  LET e == run[r]
      recorded(n) ==
        IF n = 0 THEN Ended(e, "finished")
        ELSE [e EXCEPT !.pc = "ready", !.asked = @ + n, !.pending = [k \in 1..n |-> e.asked + k]]
  IN  /\ e.pc = "reply"
      /\ Become(r, {recorded(n) : n \in Replies} \cup Stopped(e))
      /\ UNCHANGED resilienceVars
      /\ UNCHANGED <<setup, ledger, window, charged, broke>>

\* Whoever consumes the run's stream drops it: nothing is closed off.
DropRun(r) ==
  /\ Begun(r)
  /\ Become(r, {Ended(run[r], "dropped")})
  /\ DropCall(r)
  /\ UNCHANGED <<setup, ledger, window, charged, broke>>

---------------------------------------------------------------------------
NextWindow ==
  /\ window < setup.last /\ window' = window + 1
  /\ UNCHANGED resilienceVars
  /\ UNCHANGED <<setup, run, ledger, charged, broke>>

Provider ==
  /\ \/ \E r \in Clients : Advance(r) \/ Service(r) \/ (Begun(r) /\ World(r))
     \/ Cool
  /\ UNCHANGED agentVars

Loop(r) ==
  RoomMade(r) \/ Step(r) \/ Check(r) \/ ModelAnswers(r) \/ Charge(r) \/ Reply(r)

Init ==
  /\ ResilienceInit
  /\ setup \in Settings
  /\ run = [r \in Clients |-> NewRun]
  /\ ledger = [p \in Principals |-> [w \in 0..Windows |-> 0]]
  /\ charged = ledger
  /\ window = 0 /\ broke = {}

Next ==
  \/ \E r \in Clients : Prepare(r) \/ Loop(r) \/ ToolReturns(r) \/ DropRun(r)
  \/ Provider \/ NextWindow

Spec == Init /\ [][Next]_vars

\* What happens once a run is cancelled or expired: its task is polled, its timers fire, and
\* a service or a tool returns, as ModelProvider and Tool ask of their implementations.
\* Before that nothing need happen.
WindUp(r) ==
  /\ ~guard(r)
  /\ \/ Loop(r) \/ ToolReturns(r)
     \/ (Advance(r) \/ FailTerminally(r)) /\ UNCHANGED agentVars

FairSpec == Spec /\ \A r \in Clients : WF_vars(WindUp(r))

---------------------------------------------------------------------------
(* Properties *)

\* Every variable holds values of its kind, and a run stays within its limits.
TypeOK ==
  /\ ResilienceTypeOK
  /\ setup \in Settings
  /\ \A r \in Clients :
       /\ run[r].pc \in {"idle", "room0", "ready", "tool", "check", "room", "model", "charge",
                         "reply"} \cup Over
       /\ run[r].turns \in 0..MaxTurns[r] /\ run[r].tool_calls \in 0..MaxToolCalls[r]
       /\ run[r].pending \in Seq(Nat) /\ run[r].answers \in Seq(Nat)
  /\ ledger \in [Principals -> [0..Windows -> Nat]]
  /\ window \in 0..Windows

\* The transcript a run leaves behind can be resumed: however it ended, each tool call that
\* was recorded has exactly one result and nothing else has one, unless the store refused a
\* result.
TranscriptClosed ==
  \A r \in Clients :
    LET e == run[r]
    IN  /\ \A i, k \in DOMAIN e.answers : e.answers[i] = e.answers[k] => i = k
        /\ \A i \in DOMAIN e.answers : e.answers[i] \in 1..e.asked
        /\ e.pc \in {"finished", "failed"} /\ ~e.lost => Len(e.answers) = e.asked

\* A principal ends a window at most one turn per concurrent run over its ceiling, although
\* check() and record() are separated by the whole turn.
OvershootBounded ==
  \A p \in Principals, w \in 0..Windows, c \in Costs :
    LET spenders == {r \in Clients : \E k \in 1..Last(r) : Subjects[r][k] = p}
    IN  (\A d \in Costs : d <= c) /\ spenders # {}
          => ledger[p][w] < setup.ceiling + c * Cardinality(spenders)

\* What was spent in the window that is open is what its row says: no charge is lost, not
\* even to one that arrives late from a window already closed.
LiveWindowComplete ==
  \A p \in Principals, w \in 0..Windows : w >= window => ledger[p][w] = charged[p][w]

\* However its runs end, a session can be resumed and its window's spending is on record
\* (run.rs abandon_outstanding_calls(), charge()).
AgentInv == TypeOK /\ TranscriptClosed /\ LiveWindowComplete

\* A run that is cancelled or expired ends, although other runs may hold every slot of the
\* provider for ever.
StoppedRunEnds == \A r \in Clients : (Begun(r) /\ ~guard(r)) ~> ~Begun(r)

\* "An exhausted budget costs nothing at all - not a window assembly, not a compaction, not
\* a token": a run that begins with nothing left makes no call to the provider.
ExhaustedCostsNothing == \A r \in broke : client[r] = Idle
=============================================================================
