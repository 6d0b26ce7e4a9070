----------------------------- MODULE LocalSession -----------------------------
(***************************************************************************)
(* `aik` with a kernel of its own: the conversation of                     *)
(* crates/cli/src/session.rs, its totals and its recorder, fed by the      *)
(* event bus of crates/core/src/event.                                     *)
(*                                                                         *)
(* A channel of the bus is the number of events it has carried: the events *)
(* of a type are 1, 2, ... and a subscription is the number of the last    *)
(* one it took or was told it had missed.  The agent, the policy and the   *)
(* tools publish while the turn's updates are on their way; the terminal   *)
(* looks at the bus only between updates.  A transcript is the number of   *)
(* its records.                                                            *)
(***************************************************************************)
EXTENDS Naturals, Sequences

CONSTANTS
  LsTypes,          \* the event types the terminal subscribes to
  LsCapacity,       \* what a channel of the bus holds
  LsCompactKeep,    \* DEFAULT_COMPACT_KEEP
  LsMaxEvents,      \* bound: events of a type
  LsMaxUpdates,     \* bound: updates not yet looked at
  LsMaxTurns,       \* bound: prompts
  LsMaxQuestions    \* bound: questions of the broker

VARIABLES
  lsMode,           \* "starting", "typing", "turn", "asking" or "left"
  lsOneShot,        \* whether the prompt came from the command line
  lsApprovals,      \* whether the terminal holds an approval stream
  lsQuestions,      \* questions in that stream
  lsAsked,          \* questions so far, for the bound
  lsUpdates,        \* the turn's stream: "update", "error", then "end"
  lsAgent,          \* whether the agent is at work on the turn
  lsCancelled,      \* whether the turn's context is cancelled
  lsInterrupted,    \* whether Ctrl-C was taken in this turn
  lsSession,        \* the conversation
  lsStore,          \* records by conversation
  lsTail,           \* events published, by type
  lsNext,           \* where each subscription is
  lsFile,           \* the recording: events by type, in the order written
  lsRecorder,       \* "none", "on" or "disabled"
  lsTotals,         \* SessionStats: events counted, by type
  lsLagged,         \* history: the types that overflowed a subscription
  lsTurns

lsVars == <<lsMode, lsOneShot, lsApprovals, lsQuestions, lsAsked, lsUpdates, lsAgent,
            lsCancelled, lsInterrupted, lsSession, lsStore, lsTail, lsNext, lsFile,
            lsRecorder, lsTotals, lsLagged, lsTurns>>

Sessions == 0 .. LsMaxTurns
Books == <<lsNext, lsFile, lsRecorder, lsTotals, lsLagged>>
Talk  == <<lsOneShot, lsApprovals, lsQuestions, lsAsked, lsSession, lsTurns>>
-----------------------------------------------------------------------------
(***************************************************************************)
(* The bus.                                                                *)
(***************************************************************************)
\* EventBus::publish: the typed channel grows whoever listens; nothing waits.
publish(type) == lsTail' = [lsTail EXCEPT ![type] = @ + 1]

\* EventStream::try_recv: nothing, the oldest event still held, or the news of a lag, which
\* moves the subscription up to that event.
try_recv(type) ==
  LET behind == lsTail[type] - lsNext[type]
  IN  CASE behind = 0          -> "empty"
        [] behind > LsCapacity -> "lagged"
        [] OTHER               -> "event"
-----------------------------------------------------------------------------
(***************************************************************************)
(* drain(): each channel in turn until it is empty or has lagged; what is  *)
(* taken is counted and recorded.                                          *)
(***************************************************************************)
Taken(type) ==
  IF try_recv(type) # "event" THEN <<>>
  ELSE [i \in 1 .. (lsTail[type] - lsNext[type]) |-> lsNext[type] + i]

\* Recorder::write: the first failure ends recording for this run.
records(taken) ==
  \/ /\ lsRecorder = "on"
     /\ lsFile' = [type \in LsTypes |-> lsFile[type] \o taken[type]]
     /\ UNCHANGED lsRecorder
  \/ /\ lsRecorder = "on" /\ \E type \in LsTypes : taken[type] # <<>>
     /\ lsRecorder' = "disabled"
     /\ UNCHANGED lsFile
  \/ /\ lsRecorder # "on"
     /\ UNCHANGED <<lsFile, lsRecorder>>

\* TurnStats and SessionStats: what was taken, added to the totals.
counts(taken) == lsTotals' = [type \in LsTypes |-> lsTotals[type] + Len(taken[type])]

\* A plausible slip: one event of each channel at a time.
drain_one ==
  LET first(type) == IF Taken(type) = <<>> THEN <<>> ELSE <<Head(Taken(type))>>
  IN  /\ lsNext' = [type \in LsTypes |->
                      IF try_recv(type) = "lagged" THEN lsTail[type] - LsCapacity
                      ELSE lsNext[type] + Len(first(type))]
      /\ counts([type \in LsTypes |-> first(type)])
      /\ lsLagged' = lsLagged \cup {type \in LsTypes : try_recv(type) = "lagged"}
      /\ records([type \in LsTypes |-> first(type)])

drain ==
  /\ lsNext' = [type \in LsTypes |->
                  IF try_recv(type) = "lagged" THEN lsTail[type] - LsCapacity
                  ELSE lsTail[type]]
  /\ counts([type \in LsTypes |-> Taken(type)])
  /\ lsLagged' = lsLagged \cup {type \in LsTypes : try_recv(type) = "lagged"}
  /\ records([type \in LsTypes |-> Taken(type)])
-----------------------------------------------------------------------------
(***************************************************************************)
(* Starting and the prompt.                                                *)
(***************************************************************************)
\* resume(): a conversation that was named has to exist and be ours, or the run ends.
resume ==
  /\ lsMode = "starting"
  /\ \/ /\ lsSession = 0 \/ lsStore[lsSession] > 0
        /\ lsMode' = "typing"
     \/ /\ lsSession # 0
        /\ lsMode' = "left"
  /\ UNCHANGED <<lsUpdates, lsAgent, lsCancelled, lsInterrupted, lsStore, lsTail>>
  /\ UNCHANGED Books /\ UNCHANGED Talk

\* /quit, Ctrl-C at the prompt or the end of the input.
quit ==
  /\ lsMode = "typing" /\ ~lsOneShot
  /\ lsMode' = "left"
  /\ UNCHANGED <<lsUpdates, lsAgent, lsCancelled, lsInterrupted, lsStore, lsTail>>
  /\ UNCHANGED Books /\ UNCHANGED Talk

\* /new walks away from the conversation; /clear removes its records; /compact keeps the
\* newest, and refuses an argument that is no number.  A refusal changes nothing.
lifecycle ==
  /\ lsMode = "typing" /\ ~lsOneShot
  /\ \/ /\ lsSession' = lsTurns
        /\ lsSession' # lsSession
        /\ UNCHANGED lsStore
     \/ /\ lsStore[lsSession] > 0
        /\ lsStore' = [lsStore EXCEPT ![lsSession] = 0]
        /\ UNCHANGED lsSession
     \/ /\ lsStore[lsSession] > LsCompactKeep
        /\ lsStore' = [lsStore EXCEPT ![lsSession] = LsCompactKeep]
        /\ UNCHANGED lsSession
  /\ UNCHANGED <<lsMode, lsOneShot, lsApprovals, lsQuestions, lsAsked, lsUpdates, lsAgent,
                 lsCancelled, lsInterrupted, lsTail, lsTurns>>
  /\ UNCHANGED Books

\* turn() begins; the agent may refuse the request outright.
prompt ==
  /\ lsMode = "typing" /\ lsTurns < LsMaxTurns
  /\ lsTurns' = lsTurns + 1
  /\ lsCancelled' = FALSE /\ lsInterrupted' = FALSE
  /\ \/ /\ lsMode' = "turn" /\ lsAgent' = TRUE /\ lsUpdates' = <<>>
        /\ lsStore' = [lsStore EXCEPT ![lsSession] = @ + 1]
     \/ /\ lsMode' = IF lsOneShot THEN "left" ELSE "typing"
        /\ UNCHANGED <<lsAgent, lsUpdates, lsStore>>
  /\ UNCHANGED <<lsOneShot, lsApprovals, lsQuestions, lsAsked, lsSession, lsTail>>
  /\ UNCHANGED Books
-----------------------------------------------------------------------------
(***************************************************************************)
(* The loop of turn(), biased: a question, then Ctrl-C, then an update.    *)
(***************************************************************************)
takes_question ==
  /\ lsMode = "turn" /\ lsApprovals = "open" /\ lsQuestions > 0
  /\ lsMode' = "asking"
  /\ lsQuestions' = lsQuestions - 1
  /\ UNCHANGED <<lsOneShot, lsApprovals, lsAsked, lsUpdates, lsAgent, lsCancelled,
                 lsInterrupted, lsSession, lsStore, lsTail, lsTurns>>
  /\ UNCHANGED Books

\* approval::answer: whatever the person says, and also when the question has expired, the
\* turn goes on.
answers_question ==
  /\ lsMode = "asking"
  /\ lsMode' = "turn"
  /\ UNCHANGED <<lsUpdates, lsAgent, lsCancelled, lsInterrupted, lsStore, lsTail>>
  /\ UNCHANGED Books /\ UNCHANGED Talk

\* The broker is gone: no question can come any more.
loses_broker ==
  /\ lsMode = "turn" /\ lsApprovals = "closed" /\ lsQuestions = 0
  /\ lsApprovals' = "none"
  /\ UNCHANGED <<lsMode, lsOneShot, lsQuestions, lsAsked, lsUpdates, lsAgent, lsCancelled,
                 lsInterrupted, lsSession, lsStore, lsTail, lsTurns>>
  /\ UNCHANGED Books

interrupt ==
  /\ lsMode = "turn" /\ ~lsInterrupted
  /\ lsInterrupted' = TRUE /\ lsCancelled' = TRUE
  /\ UNCHANGED <<lsMode, lsUpdates, lsAgent, lsStore, lsTail>>
  /\ UNCHANGED Books /\ UNCHANGED Talk

\* Nothing that goes before an update in the loop is ready.
NoQuestion == lsApprovals = "none" \/ (lsApprovals = "open" /\ lsQuestions = 0)

takes_update ==
  /\ lsMode = "turn" /\ NoQuestion /\ lsUpdates # <<>> /\ Head(lsUpdates) # "end"
  /\ drain
  /\ lsUpdates' = Tail(lsUpdates)
  /\ IF Head(lsUpdates) = "error"
     THEN lsMode' = (IF lsOneShot THEN "left" ELSE "typing") /\ lsAgent' = FALSE
     ELSE UNCHANGED <<lsMode, lsAgent>>
  /\ UNCHANGED <<lsCancelled, lsInterrupted, lsStore, lsTail>>
  /\ UNCHANGED Talk

ends_turn ==
  /\ lsMode = "turn" /\ NoQuestion /\ lsUpdates = <<"end">>
  /\ drain
  /\ lsUpdates' = <<>>
  /\ lsMode' = IF lsOneShot THEN "left" ELSE "typing"
  /\ UNCHANGED <<lsAgent, lsCancelled, lsInterrupted, lsStore, lsTail>>
  /\ UNCHANGED Talk
-----------------------------------------------------------------------------
(***************************************************************************)
(* The kernel behind the terminal: what the agent, the policy engine and   *)
(* the tools publish, and the updates of the turn.                         *)
(***************************************************************************)
AgentOnly == UNCHANGED <<lsMode, lsCancelled, lsInterrupted, lsStore>>

agent_publishes ==
  /\ lsAgent
  /\ \E type \in LsTypes : lsTail[type] < LsMaxEvents /\ publish(type)
  /\ UNCHANGED <<lsUpdates, lsAgent>>
  /\ AgentOnly /\ UNCHANGED Books /\ UNCHANGED Talk

\* The stream's last word: the run is over, or it failed; a cancelled one ends too.
agent_updates ==
  /\ lsAgent /\ Len(lsUpdates) < LsMaxUpdates
  /\ \/ ~lsCancelled /\ lsUpdates' = Append(lsUpdates, "update") /\ UNCHANGED lsAgent
     \/ lsUpdates' = Append(lsUpdates, "end") /\ lsAgent' = FALSE
     \/ lsUpdates' = Append(lsUpdates, "error") /\ lsAgent' = FALSE
  /\ UNCHANGED lsTail
  /\ AgentOnly /\ UNCHANGED Books /\ UNCHANGED Talk

broker_asks ==
  /\ lsAgent /\ lsApprovals = "open" /\ lsAsked < LsMaxQuestions
  /\ lsAsked' = lsAsked + 1 /\ lsQuestions' = lsQuestions + 1
  /\ UNCHANGED <<lsUpdates, lsAgent, lsTail, lsOneShot, lsApprovals, lsSession, lsTurns>>
  /\ AgentOnly /\ UNCHANGED Books

broker_closes ==
  /\ lsApprovals = "open" /\ lsQuestions = 0 /\ lsMode = "turn"
  /\ lsApprovals' = "closed"
  /\ UNCHANGED <<lsUpdates, lsAgent, lsTail, lsOneShot, lsQuestions, lsAsked, lsSession, lsTurns>>
  /\ AgentOnly /\ UNCHANGED Books
-----------------------------------------------------------------------------
\* converse(): the recorder is opened before anything runs, an approval stream is held only
\* by an interactive run, and the subscriptions start with nothing.
LocalInit ==
  /\ lsMode = "starting" /\ lsOneShot \in BOOLEAN
  /\ lsApprovals = IF lsOneShot THEN "none" ELSE "open"
  /\ lsQuestions = 0 /\ lsAsked = 0
  /\ lsUpdates = <<>> /\ lsAgent = FALSE /\ lsCancelled = FALSE /\ lsInterrupted = FALSE
  /\ lsSession \in {0, LsMaxTurns}
  /\ lsStore \in {[s \in Sessions |-> 0], [s \in Sessions |-> IF s = LsMaxTurns THEN 1 ELSE 0]}
  /\ lsTail = [type \in LsTypes |-> 0] /\ lsNext = [type \in LsTypes |-> 0]
  /\ lsFile = [type \in LsTypes |-> <<>>]
  /\ lsRecorder \in {"none", "on"}
  /\ lsTotals = [type \in LsTypes |-> 0]
  /\ lsLagged = {} /\ lsTurns = 0

LocalNext ==
  \/ resume \/ quit \/ lifecycle \/ prompt
  \/ takes_question \/ answers_question \/ loses_broker \/ interrupt
  \/ takes_update \/ ends_turn
  \/ agent_publishes \/ agent_updates \/ broker_asks \/ broker_closes

LocalSpec == LocalInit /\ [][LocalNext]_lsVars

\* A channel holds a number of events.
LocalConstants == LsCapacity \in Nat
-----------------------------------------------------------------------------
(***************************************************************************)
(* Properties.                                                             *)
(***************************************************************************)
(***************************************************************************)
(* However a turn ended - finished, failed, interrupted, over questions -  *)
(* the terminal is back at the prompt with everything the turn published   *)
(* counted and on file, once and in order, unless a channel overflowed or  *)
(* the file could not be written; what is on file is then still in order   *)
(* and without repetition, and the totals never count what was not         *)
(* published.                                                              *)
(***************************************************************************)
TurnIsAccounted ==
  \A type \in LsTypes :
    /\ lsTotals[type] <= lsTail[type]
    /\ \A i, j \in DOMAIN lsFile[type] : i < j => lsFile[type][i] < lsFile[type][j]
    /\ (lsMode \in {"typing", "left"} /\ type \notin lsLagged) =>
          /\ lsTotals[type] = lsTail[type]
          /\ lsRecorder = "on" => Len(lsFile[type]) = lsTail[type]
=============================================================================
