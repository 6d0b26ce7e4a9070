--------------------------- MODULE ApprovalBroker ---------------------------
(***************************************************************************)
(* The rendezvous between an authorization check and a human: the asking   *)
(* half (ApprovalBroker::request_approval, a task per question) and the    *)
(* answering half (ApprovalGate, one handle per frontend).  They share a   *)
(* map of parked questions behind a mutex; an answer travels over a        *)
(* oneshot channel.  Nothing here is held across an await, but the two     *)
(* halves run on different threads, so withdraw-then-send in answer() and  *)
(* check-then-enqueue in request_approval() are separate steps.            *)
(***************************************************************************)
EXTENDS Naturals, FiniteSets

CONSTANTS
  Requests,     \* questions (ApprovalIds are never reused)
  Responders,   \* frontends that may hold a gate
  MaxPending,   \* ApprovalSettings::max_pending
  NoHand

ASSUME BrokerAssumption ==
  MaxPending \in Nat /\ NoHand \notin Requests \X {"granted", "denied"}

VARIABLES
  req,       \* where each request_approval() call is, or what it returned
  waiting,   \* Shared::waiting, the parked questions
  chan,      \* the oneshot channel of each question
  attached,  \* responders holding a gate
  hand,      \* the waiter a responder has withdrawn and not yet answered
  closed,    \* Shared::closed
  stopped,   \* requests whose context is cancelled
  overdue,   \* requests whose expiry has passed
  told       \* history: answers approve() and deny() returned Ok(()) for

brokerVars == <<req, waiting, chan, attached, hand, closed, stopped, overdue, told>>

Results == {"granted", "denied", "cancelled", "timeout", "refused"}

---------------------------------------------------------------------------
(* The asking half *)

\* The checks before anything is parked.
Checked(r) ==
  IF closed \/ r \in stopped THEN "cancelled"
  ELSE IF attached = {} THEN "refused"
  ELSE IF r \in overdue THEN "timeout"
  ELSE "checked"

\* A request that has returned keeps no channel and no timer, and no longer looks at its
\* context.
Forget(r) ==
  /\ chan' = [chan EXCEPT ![r] = "empty"]
  /\ stopped' = stopped \ {r} /\ overdue' = overdue \ {r}

Ask(r) ==
  /\ req[r] = "idle"
  /\ req' = [req EXCEPT ![r] = Checked(r)]
  /\ IF Checked(r) = "checked" THEN UNCHANGED <<chan, stopped, overdue>> ELSE Forget(r)
  /\ UNCHANGED <<waiting, attached, hand, closed, told>>

\* Mutant: the check before the lock is trusted.
EnqueuedUnchecked(r) ==
  IF Cardinality(waiting) >= MaxPending THEN "refused" ELSE "parked"
\* Mutant: one question too many.
EnqueuedOffByOne(r) ==
  IF closed THEN "cancelled"
  ELSE IF Cardinality(waiting) > MaxPending THEN "refused" ELSE "parked"

\* enqueue(), under the lock: `closed' is looked at again.
Enqueued(r) ==
  IF closed THEN "cancelled"
  ELSE IF Cardinality(waiting) >= MaxPending THEN "refused" ELSE "parked"

Enqueue(r) ==
  /\ req[r] = "checked"
  /\ req' = [req EXCEPT ![r] = Enqueued(r)]
  /\ IF Enqueued(r) = "parked"
     THEN waiting' = waiting \cup {r} /\ UNCHANGED <<chan, stopped, overdue>>
     ELSE Forget(r) /\ UNCHANGED waiting
  /\ UNCHANGED <<attached, hand, closed, told>>

\* Mutant: a dropped channel is read as an answer.
OutcomeDroppedGrants(r) ==
  IF r \in stopped THEN "cancelled"
  ELSE IF r \in overdue THEN "timeout"
  ELSE IF chan[r] \in {"dropped", "granted"} THEN "granted" ELSE "denied"

\* Mutant: whatever the channel holds is the answer.
OutcomeRaw(r) ==
  IF r \in stopped THEN "cancelled" ELSE IF r \in overdue THEN "timeout" ELSE chan[r]

\* select! with `biased': cancellation, then expiry, then the channel.
Outcome(r) ==
  IF r \in stopped THEN "cancelled"
  ELSE IF r \in overdue THEN "timeout"
  ELSE IF chan[r] = "dropped" THEN "refused" ELSE chan[r]

\* Mutant: no Withdrawal guard.
KeepParked(r) == waiting
\* Withdrawal's drop.
Withdraw(r) == waiting \ {r}

\* Mutant: the wait has no timer.
WokenUntimed(r) == r \in stopped \/ chan[r] # "empty"
\* What ends the wait.
Woken(r) == r \in stopped \/ r \in overdue \/ chan[r] # "empty"

Settle(r) ==
  /\ req[r] = "parked" /\ Woken(r)
  /\ req' = [req EXCEPT ![r] = Outcome(r)]
  /\ waiting' = Withdraw(r)
  /\ Forget(r)
  /\ UNCHANGED <<attached, hand, closed, told>>

\* The caller drops the request's future, which awaits nothing before it is parked.
Abandon(r) ==
  /\ req[r] = "parked"
  /\ req' = [req EXCEPT ![r] = "abandoned"]
  /\ waiting' = Withdraw(r)
  /\ Forget(r)
  /\ UNCHANGED <<attached, hand, closed, told>>

\* The operation the question belongs to is cancelled; its expiry passes.
CancelContext(r) ==
  /\ req[r] \in {"idle", "checked", "parked"} /\ r \notin stopped
  /\ stopped' = stopped \cup {r}
  /\ UNCHANGED <<req, waiting, chan, attached, hand, closed, overdue, told>>

Expire(r) ==
  /\ req[r] \in {"idle", "checked", "parked"} /\ r \notin overdue
  /\ overdue' = overdue \cup {r}
  /\ UNCHANGED <<req, waiting, chan, attached, hand, closed, stopped, told>>

---------------------------------------------------------------------------
(* The answering half *)

Attach(g) ==
  /\ g \notin attached
  /\ attached' = attached \cup {g}
  /\ UNCHANGED <<req, waiting, chan, hand, closed, stopped, overdue, told>>

Detach(g) ==
  /\ g \in attached /\ hand[g] = NoHand
  /\ attached' = attached \ {g}
  /\ UNCHANGED <<req, waiting, chan, hand, closed, stopped, overdue, told>>

\* Mutant: answer() looks the waiter up and leaves it in the map.
PeekWaiter(r) == waiting
\* answer() takes the waiter out of the map ...
TakeWaiter(r) == waiting \ {r}

TakeUp(g, r, verdict) ==
  /\ g \in attached /\ hand[g] = NoHand
  /\ r \in waiting
  /\ waiting' = TakeWaiter(r)
  /\ hand' = [hand EXCEPT ![g] = <<r, verdict>>]
  /\ UNCHANGED <<req, chan, attached, closed, stopped, overdue, told>>

\* ... and sends: Ok(()) if the receiver still exists, NotFound if it does not.
Send(g) ==
  LET r == hand[g][1]
      v == hand[g][2]
  IN  /\ hand[g] # NoHand
      /\ hand' = [hand EXCEPT ![g] = NoHand]
      /\ \/ /\ req[r] = "parked"
            /\ chan' = [chan EXCEPT ![r] = v]
            /\ told' = told \cup {<<g, r, v>>}
         \/ /\ req[r] # "parked"
            /\ UNCHANGED <<chan, told>>
      /\ UNCHANGED <<req, waiting, attached, closed, stopped, overdue>>

\* close(): under the lock, refuse the parked questions and every future one.
Close ==
  /\ ~closed
  /\ closed' = TRUE
  /\ chan' = [r \in Requests |-> IF r \in waiting THEN "dropped" ELSE chan[r]]
  /\ waiting' = {}
  /\ UNCHANGED <<req, attached, hand, stopped, overdue, told>>

---------------------------------------------------------------------------
BrokerInit ==
  /\ req = [r \in Requests |-> "idle"]
  /\ chan = [r \in Requests |-> "empty"]
  /\ waiting = {} /\ attached = {} /\ closed = FALSE
  /\ hand = [g \in Responders |-> NoHand]
  /\ stopped = {} /\ overdue = {} /\ told = {}

\* Steps of a request once it is asked, and of the frontends and the component.
Requester(r) == Enqueue(r) \/ Settle(r) \/ CancelContext(r) \/ Expire(r)
Frontend(g) ==
  \/ Attach(g) \/ Detach(g) \/ Send(g)
  \/ \E r \in Requests, v \in {"granted", "denied"} : TakeUp(g, r, v)

BrokerNext ==
  \/ \E r \in Requests : Ask(r) \/ Requester(r) \/ Abandon(r)
  \/ \E g \in Responders : Frontend(g)
  \/ Close

BrokerSpec == BrokerInit /\ [][BrokerNext]_brokerVars

---------------------------------------------------------------------------
(* Properties *)

\* Every variable holds values of its kind.
BrokerTypeOK ==
  /\ req \in [Requests -> {"idle", "checked", "parked", "abandoned"} \cup Results]
  /\ waiting \subseteq Requests
  /\ chan \in [Requests -> {"empty", "granted", "denied", "dropped"}]
  /\ attached \subseteq Responders
  /\ hand \in [Responders -> (Requests \X {"granted", "denied"}) \cup {NoHand}]
  /\ closed \in BOOLEAN /\ stopped \subseteq Requests /\ overdue \subseteq Requests
  /\ told \subseteq Responders \X Requests \X {"granted", "denied"}

\* request_approval() returns Ok(true) only if a responder approved that very question
\* and was told so: no timeout, cancellation, close or lost channel reads as a grant.
GrantIsHuman == \A r \in Requests : req[r] = "granted" => \E g \in Responders : <<g, r, "granted">> \in told

\* A question nobody waits on any more is not shown to a frontend, however its request
\* ended, and none is parked behind close()'s drain.
NoOrphanQuestion ==
  /\ \A r \in waiting : req[r] = "parked"
  /\ closed => waiting = {}

\* Never more questions in front of a human than max_pending.
PendingBounded == Cardinality(waiting) <= MaxPending

\* Of several frontends answering the same question at most one is told Ok(()).
AnsweredOnce == \A x, y \in told : x[2] = y[2] => x = y

\* A question is answered by a human, once, in time or not at all: only a frontend's yes
\* that the frontend was told of reads as a grant, a question whose asker is gone is shown
\* to nobody, and no more than max_pending are (broker.rs, gate.rs).
AnswersAreHuman == GrantIsHuman /\ AnsweredOnce /\ NoOrphanQuestion /\ PendingBounded
============================================================================
