--------------------------- MODULE ToolGateProofs ---------------------------
(* Theorems about ApprovalBroker and ToolGate, for any calls, conversations, tools and
   settings: what the broker promises; the registry uses the broker only as the broker allows,
   so that what is proved of the broker holds in the composition, and with it no tool runs that
   was not allowed to.  And about AuditTrail, which keeps what the gate decided: the log
   accounts for every event it was told of. *)
EXTENDS ToolGate, AuditTrail, Induction, FiniteSetTheorems, SequenceTheorems, TLAPS

-----------------------------------------------------------------------------
(* The broker, for any questions, responders and bound *)

Verdicts == {"granted", "denied"}

\* The question a responder has withdrawn and not yet answered.
Holding(g, r) == hand[g] # NoHand /\ hand[g][1] = r

\* A question that cannot be parked (again): it has been.
PastParking(r) == req[r] \notin {"idle", "checked"}

\* A question is in at most one place: in the map, with nothing in its channel yet, ...
InTheMap == \A r \in waiting : req[r] = "parked" /\ chan[r] = "empty"

\* ... in the hand of one responder, ...
InOneHand ==
  /\ \A g \in Responders, r \in Requests : Holding(g, r) => r \notin waiting /\ PastParking(r)
  /\ \A g, h \in Responders, r \in Requests : Holding(g, r) /\ Holding(h, r) => g = h

\* ... or answered, for good.
OutOfHands ==
  \A x \in told : /\ x[2] \notin waiting /\ PastParking(x[2])
                  /\ \A g \in Responders : ~Holding(g, x[2])

\* What a channel carries was acknowledged to the responder that sent it.
SentIsTold ==
  \A r \in Requests :
    chan[r] \in Verdicts => \E g \in Responders : <<g, r, chan[r]>> \in told

\* A question that was never parked has an untouched channel.
Unsent == \A r \in Requests : ~PastParking(r) => chan[r] = "empty"

DrainedByClose == closed => waiting = {}

Finite == IsFiniteSet(waiting)

BrokerInv ==
  /\ BrokerTypeOK /\ InTheMap /\ InOneHand /\ OutOfHands /\ SentIsTold /\ Unsent /\ DrainedByClose
  /\ GrantIsHuman /\ AnsweredOnce /\ Finite /\ PendingBounded

(* The asking half's checks and the channel's answer are results. *)
LEMMA OutcomeTypes ==
  ASSUME BrokerTypeOK, NEW r \in Requests
  PROVE  /\ Checked(r) \in {"checked", "cancelled", "refused", "timeout"}
         /\ Enqueued(r) \in {"parked", "cancelled", "refused"}
         /\ Woken(r) => Outcome(r) \in Results
<1>1. chan[r] \in {"empty", "granted", "denied", "dropped"}
  BY DEF BrokerTypeOK
<1> QED
  BY <1>1 DEF Checked, Enqueued, Woken, Outcome, Results

(* Every step of the broker keeps every variable of its kind. *)
LEMMA TypesStep ==
  ASSUME BrokerTypeOK, BrokerNext
  PROVE  BrokerTypeOK'
<1> USE DEF BrokerTypeOK
<1>1. ASSUME NEW r \in Requests, Ask(r) PROVE BrokerTypeOK'
  BY <1>1, OutcomeTypes DEF Ask, Forget, Results
<1>2. ASSUME NEW r \in Requests, Enqueue(r) PROVE BrokerTypeOK'
  BY <1>2, OutcomeTypes DEF Enqueue, Forget, Results
<1>3. ASSUME NEW r \in Requests, Settle(r) PROVE BrokerTypeOK'
  BY <1>3, OutcomeTypes DEF Settle, Forget, Withdraw
<1>4. ASSUME NEW r \in Requests, Abandon(r) PROVE BrokerTypeOK'
  BY <1>4 DEF Abandon, Forget, Withdraw
<1>5. ASSUME NEW r \in Requests, CancelContext(r) \/ Expire(r) PROVE BrokerTypeOK'
  BY <1>5 DEF CancelContext, Expire
<1>6. ASSUME NEW g \in Responders, Attach(g) \/ Detach(g) PROVE BrokerTypeOK'
  BY <1>6 DEF Attach, Detach
<1>7. ASSUME NEW g \in Responders, NEW r \in Requests, NEW v \in Verdicts, TakeUp(g, r, v)
      PROVE  BrokerTypeOK'
  BY <1>7 DEF TakeUp, TakeWaiter, Verdicts
<1>8. ASSUME NEW g \in Responders, Send(g) PROVE BrokerTypeOK'
  <2>1. PICK r \in Requests, v \in Verdicts : hand[g] = <<r, v>>
    BY <1>8 DEF Send, Verdicts
  <2> QED
    BY <1>8, <2>1 DEF Send, Verdicts
<1>9. CASE Close
  BY <1>9 DEF Close
<1> QED
  BY <1>1, <1>2, <1>3, <1>4, <1>5, <1>6, <1>7, <1>8, <1>9
  DEF BrokerNext, Requester, Frontend, Verdicts

(* Parking one more question below the bound, and taking questions away, keep the bound. *)
LEMMA BoundStep ==
  ASSUME BrokerTypeOK, Finite, PendingBounded, BrokerNext
  PROVE  Finite' /\ PendingBounded'
<1>1. CASE waiting' \subseteq waiting
  <2>1. Finite' /\ Cardinality(waiting') <= Cardinality(waiting)
    BY <1>1, FS_Subset DEF Finite
  <2>2. Cardinality(waiting') \in Nat /\ Cardinality(waiting) \in Nat
    BY <2>1, FS_CardinalityType DEF Finite
  <2> QED
    BY <2>1, <2>2, BrokerAssumption DEF PendingBounded
<1>2. ASSUME NEW r \in Requests, Enqueue(r), Enqueued(r) = "parked"
      PROVE  Finite' /\ PendingBounded'
  <2>1. waiting' = waiting \cup {r} /\ ~(Cardinality(waiting) >= MaxPending)
    BY <1>2 DEF Enqueue, Enqueued
  <2>2. Cardinality(waiting) \in Nat
    BY FS_CardinalityType DEF Finite
  <2>3. IsFiniteSet(waiting') /\ Cardinality(waiting') \in {Cardinality(waiting), Cardinality(waiting) + 1}
    BY <2>1, <2>2, FS_AddElement DEF Finite
  <2> QED
    BY <2>1, <2>2, <2>3, BrokerAssumption DEF Finite, PendingBounded
<1>3. \/ waiting' \subseteq waiting
      \/ \E r \in Requests : Enqueue(r) /\ Enqueued(r) = "parked"
  BY DEF BrokerNext, Requester, Frontend, Ask, Enqueue, Settle, Abandon, CancelContext, Expire,
         Attach, Detach, TakeUp, Send, Close, Withdraw, TakeWaiter
<1> QED
  BY <1>1, <1>2, <1>3

(* A step of a question that is not being answered: it returns, or is parked for the first
   time, and no answer is sent. *)
LEMMA RequestStep ==
  ASSUME BrokerInv, NEW r \in Requests, Ask(r) \/ Requester(r) \/ Abandon(r)
  PROVE  InTheMap' /\ InOneHand' /\ OutOfHands' /\ SentIsTold' /\ Unsent' /\ DrainedByClose'
<1> USE DEF BrokerInv, BrokerTypeOK, InTheMap, InOneHand, OutOfHands, SentIsTold,
            Unsent, DrainedByClose, PastParking, Verdicts
<1>1. UNCHANGED <<hand, told>>
  BY DEF Requester, Ask, Enqueue, Settle, Abandon, CancelContext, Expire
<1>2. \A g \in Responders, q \in Requests : Holding(g, q)' <=> Holding(g, q)
  BY <1>1 DEF Holding
<1>3. CASE UNCHANGED <<req, waiting, chan, closed>>
  BY <1>1, <1>2, <1>3
<1>4. CASE Ask(r)
  <2>1. /\ req[r] = "idle" /\ req' = [req EXCEPT ![r] = Checked(r)]
        /\ chan' \in {chan, [chan EXCEPT ![r] = "empty"]}
        /\ UNCHANGED <<waiting, closed>>
    BY <1>4 DEF Ask, Forget
  <2>2. Checked(r) # "idle"
    BY OutcomeTypes
  <2>3. InTheMap' /\ InOneHand' /\ DrainedByClose'
    BY <1>1, <1>2, <2>1, <2>2
  <2>4. OutOfHands'
    BY <1>1, <1>2, <2>1, <2>2
  <2> QED
    BY <1>1, <2>1, <2>3, <2>4, ZenonT(60)
<1>5. CASE Enqueue(r)
  <2>1. /\ req[r] = "checked" /\ chan[r] = "empty" /\ req' = [req EXCEPT ![r] = Enqueued(r)]
        /\ \A q \in Requests : chan'[q] = chan[q]
        /\ UNCHANGED closed
    BY <1>5 DEF Enqueue, Forget
  <2>2. \/ Enqueued(r) = "parked" /\ waiting' = waiting \cup {r} /\ ~closed
        \/ Enqueued(r) \notin {"idle", "checked", "parked"} /\ waiting' = waiting
    BY <1>5 DEF Enqueue, Enqueued
  <2>3. InTheMap' /\ DrainedByClose'
    BY <2>1, <2>2
  <2>4. InOneHand'
    BY <1>1, <1>2, <2>1, <2>2
  <2>5. OutOfHands'
    BY <1>1, <1>2, <2>1, <2>2
  <2> QED
    BY <1>1, <2>1, <2>2, <2>3, <2>4, <2>5
<1>6. CASE Settle(r) \/ Abandon(r)
  <2>1. /\ req[r] = "parked" /\ chan' = [chan EXCEPT ![r] = "empty"]
        /\ waiting' = waiting \ {r} /\ UNCHANGED closed
    BY <1>6 DEF Settle, Abandon, Forget, Withdraw
  <2>2. \E a \in Results \cup {"abandoned"} : req' = [req EXCEPT ![r] = a]
    BY <1>6, OutcomeTypes DEF Settle, Abandon
  <2>3. InTheMap' /\ InOneHand' /\ OutOfHands'
    BY <1>1, <1>2, <2>1, <2>2 DEF Results
  <2> QED
    BY <1>1, <2>1, <2>2, <2>3, ZenonT(60) DEF Results
<1> QED
  BY <1>3, <1>4, <1>5, <1>6 DEF Requester, CancelContext, Expire

(* A frontend takes one question out of the map, or sends what it took; close() empties
   the map. *)
LEMMA AnswerStep ==
  ASSUME BrokerInv, (\E g \in Responders : Frontend(g)) \/ Close
  PROVE  InTheMap' /\ InOneHand' /\ OutOfHands' /\ SentIsTold' /\ Unsent' /\ DrainedByClose'
<1> USE DEF BrokerInv, BrokerTypeOK, InTheMap, InOneHand, OutOfHands, SentIsTold, Unsent,
            DrainedByClose, PastParking, Holding, Verdicts
<1>1. CASE \E g \in Responders : Attach(g) \/ Detach(g)
  <2>1. UNCHANGED <<req, waiting, chan, hand, closed, told>>
    BY <1>1 DEF Attach, Detach
  <2>2. \A g \in Responders, q \in Requests : Holding(g, q)' <=> Holding(g, q)
    BY <2>1
  <2> HIDE DEF Holding
  <2> QED
    BY <2>1, <2>2
<1>2. ASSUME NEW g \in Responders, NEW r \in Requests, NEW v \in Verdicts, TakeUp(g, r, v)
      PROVE  InTheMap' /\ InOneHand' /\ OutOfHands' /\ SentIsTold' /\ Unsent' /\ DrainedByClose'
  <2>1. InTheMap' /\ SentIsTold' /\ Unsent' /\ DrainedByClose'
    BY <1>2 DEF TakeUp, TakeWaiter
  <2>2. \A h \in Responders : ~Holding(h, r)
    BY <1>2 DEF TakeUp
  <2>3. \A h \in Responders, q \in Requests : Holding(h, q)' <=> (Holding(h, q) /\ h # g) \/ (h = g /\ q = r)
    BY <1>2, BrokerAssumption DEF TakeUp
  <2> HIDE DEF Holding
  <2>4. InOneHand'
    BY <1>2, <2>2, <2>3 DEF TakeUp, TakeWaiter
  <2>5. OutOfHands'
    BY <1>2, <2>3 DEF TakeUp, TakeWaiter
  <2> QED
    BY <2>1, <2>4, <2>5
<1>3. ASSUME NEW g \in Responders, Send(g)
      PROVE  InTheMap' /\ InOneHand' /\ OutOfHands' /\ SentIsTold' /\ Unsent' /\ DrainedByClose'
  <2>1. PICK r \in Requests, v \in Verdicts : hand[g] = <<r, v>> /\ Holding(g, r)
    BY <1>3 DEF Send
  <2>2. \A h \in Responders, q \in Requests : Holding(h, q)' <=> Holding(h, q) /\ h # g
    BY <1>3 DEF Send
  <2>3. \/ req[r] = "parked" /\ chan' = [chan EXCEPT ![r] = v] /\ told' = told \cup {<<g, r, v>>}
        \/ req[r] # "parked" /\ UNCHANGED <<chan, told>>
    BY <1>3, <2>1 DEF Send
  <2>4. UNCHANGED <<req, waiting, closed>>
    BY <1>3 DEF Send
  <2>5. r \notin waiting /\ \A h \in Responders : Holding(h, r) => h = g
    BY <2>1
  <2> HIDE DEF Holding
  <2>6. InTheMap' /\ InOneHand' /\ Unsent' /\ DrainedByClose'
    BY <2>2, <2>3, <2>4, <2>5
  <2>7. OutOfHands'
    BY <2>1, <2>2, <2>3, <2>4, <2>5
  <2>8. SentIsTold'
    BY <2>3
  <2> QED
    BY <2>6, <2>7, <2>8
<1>4. CASE Close
  BY <1>4 DEF Close
<1> QED
  BY <1>1, <1>2, <1>3, <1>4 DEF Frontend

(* Only a channel's yes is returned as a grant, and only an acknowledged yes is in one. *)
LEMMA GrantStep ==
  ASSUME BrokerInv, BrokerNext
  PROVE  GrantIsHuman'
<1> USE DEF BrokerInv, GrantIsHuman
<1>1. told \subseteq told'
  BY DEF BrokerNext, Requester, Frontend, Ask, Enqueue, Settle, Abandon, CancelContext, Expire,
         Attach, Detach, TakeUp, Send, Close
<1>2. ASSUME NEW r \in Requests, req'[r] = "granted", req[r] # "granted"
      PROVE  Settle(r) /\ Outcome(r) = "granted"
  BY <1>2, OutcomeTypes
  DEF BrokerTypeOK, BrokerNext, Requester, Frontend, Ask, Enqueue, Settle, Abandon, CancelContext,
      Expire, Attach, Detach, TakeUp, Send, Close
<1>3. ASSUME NEW r \in Requests, Settle(r), Outcome(r) = "granted"
      PROVE  \E g \in Responders : <<g, r, "granted">> \in told
  BY <1>3 DEF Outcome, SentIsTold, Verdicts
<1> QED
  BY <1>1, <1>2, <1>3

(* A second answer to a question finds nothing to send to. *)
LEMMA OnceStep ==
  ASSUME BrokerInv, BrokerNext
  PROVE  AnsweredOnce'
<1>1. told' = told \/ \E g \in Responders : Send(g)
  BY DEF BrokerNext, Requester, Frontend, Ask, Enqueue, Settle, Abandon, CancelContext, Expire,
         Attach, Detach, TakeUp, Close
<1>2. CASE told' = told
  BY <1>2 DEF BrokerInv, AnsweredOnce
<1>3. ASSUME NEW g \in Responders, Send(g) PROVE AnsweredOnce'
  <2>1. PICK r \in Requests, v \in Verdicts : hand[g] = <<r, v>> /\ Holding(g, r)
    BY <1>3 DEF Send, BrokerInv, BrokerTypeOK, Holding, Verdicts
  <2>2. told' \subseteq told \cup {<<g, r, v>>}
    BY <1>3, <2>1 DEF Send
  <2>3. \A x \in told : x[2] # r
    BY <2>1 DEF BrokerInv, OutOfHands
  <2> QED
    BY <2>2, <2>3 DEF BrokerInv, AnsweredOnce
<1> QED
  BY <1>1, <1>2, <1>3

(* The inductive invariant: it holds when the broker starts and every step keeps it. *)
LEMMA BrokerInvInit == BrokerInit => BrokerInv
<1> SUFFICES ASSUME BrokerInit PROVE BrokerInv
  OBVIOUS
<1>1. Cardinality(waiting) = 0 /\ IsFiniteSet(waiting)
  BY FS_EmptySet DEF BrokerInit
<1>2. BrokerTypeOK /\ Finite /\ PendingBounded
  <2>1. BrokerTypeOK
    BY DEF BrokerInit, BrokerTypeOK
  <2> QED
    BY <1>1, <2>1, BrokerAssumption DEF Finite, PendingBounded
<1>3. InTheMap /\ InOneHand /\ OutOfHands /\ SentIsTold /\ Unsent /\ DrainedByClose
  BY DEF BrokerInit, InTheMap, InOneHand, OutOfHands, SentIsTold, Unsent, DrainedByClose,
         Holding, Verdicts
<1> QED
  BY <1>2, <1>3 DEF BrokerInit, BrokerInv, GrantIsHuman, AnsweredOnce

LEMMA BrokerInvStep == BrokerInv /\ [BrokerNext]_brokerVars => BrokerInv'
<1>1. ASSUME BrokerInv, BrokerNext PROVE BrokerInv'
  <2>1. InTheMap' /\ InOneHand' /\ OutOfHands' /\ SentIsTold' /\ Unsent' /\ DrainedByClose'
    BY <1>1, RequestStep, AnswerStep DEF BrokerNext
  <2>2. BrokerTypeOK' /\ Finite' /\ PendingBounded'
    BY <1>1, TypesStep, BoundStep DEF BrokerInv
  <2> QED
    BY <1>1, <2>1, <2>2, GrantStep, OnceStep DEF BrokerInv
<1>2. ASSUME BrokerInv, UNCHANGED brokerVars PROVE BrokerInv'
  BY <1>2
  DEF brokerVars, BrokerInv, BrokerTypeOK, InTheMap, InOneHand, OutOfHands, SentIsTold, Unsent,
      DrainedByClose, GrantIsHuman, AnsweredOnce, Finite, PendingBounded, Holding, PastParking
<1> QED
  BY <1>1, <1>2

(* What the inductive invariant is for. *)
LEMMA BrokerInvSuffices == BrokerInv => AnswersAreHuman
BY DEF BrokerInv, AnswersAreHuman, NoOrphanQuestion, InTheMap, DrainedByClose

(* request_approval() answers yes only for a yes that a human gave to that question and was
   told of; of all the frontends that answer a question at most one is told so; no question
   is shown once its asker is gone or the broker is closed; and never more than max_pending
   are.  For any number of questions and frontends, with cancellation, expiry, close() and
   dropped requests at any point between taking a question up and sending its answer. *)
THEOREM AnswersHuman == BrokerSpec => []AnswersAreHuman
<1>1. BrokerSpec => []BrokerInv
  BY BrokerInvInit, BrokerInvStep, PTL DEF BrokerSpec
<1> QED
  BY <1>1, BrokerInvSuffices, PTL

-----------------------------------------------------------------------------
(* The registry over it *)

\* A call that is on its way through the gate or running.
Active(c) == call[c].pc \in {"decide", "ask", "run"}

\* The questions before the one at hand were answered with yes, and a tool that runs is past
\* all of them.
YesSoFar ==
  \A c \in Calls : Active(c) =>
    /\ call[c].q \in 1..MaxQuestion
    /\ call[c].pc = "run" => call[c].q >= TrustQ(c)
    /\ \A q \in 1..Tool[c].n : q < call[c].q => Yes(c, q)

\* A call that began after a taint knows it, and is past the trust question only with a yes.
TaintSoFar ==
  \A c \in Calls : Active(c) /\ call[c].late =>
    /\ call[c].trust = "untrusted"
    /\ (call[c].pc = "run" \/ call[c].q > TrustQ(c)) /\ Tool[c].reach # "contained"
         => Yes(c, TrustQ(c))

ToolInv == BrokerInv /\ TypeOK /\ YesSoFar /\ TaintSoFar /\ TaintIsRemembered

(* The arithmetic of questions. *)
LEMMA Questions ==
  ASSUME TypeOK, NEW c \in Calls
  PROVE  /\ Tool[c].scope \in Scopes /\ Tool[c].n \in Nat
         /\ Tool[c].last \in 1..MaxQuestion /\ MaxQuestion \in Nat
         /\ TrustQ(c) \in 1..MaxQuestion /\ TrustQ(c) = Tool[c].n + 1
         /\ call[c].q \in 1..MaxQuestion
         /\ Request(c) \in Requests
<1>1. /\ Tool[c].scope \in Scopes /\ Tool[c].n \in 0..(MaxQuestion - 1) /\ Tool[c].last \in 1..MaxQuestion
      /\ MaxQuestion \in Nat \ {0}
  BY ToolAssumption
<1>2. call[c].q \in 1..MaxQuestion
  BY DEF TypeOK
<1>3. Request(c) \in Requests
  BY <1>2, ToolAssumption DEF Request
<1>4. TrustQ(c) \in 1..MaxQuestion /\ TrustQ(c) = Tool[c].n + 1 /\ Tool[c].n \in Nat
  BY <1>1 DEF TrustQ
<1> QED
  BY <1>1, <1>2, <1>3, <1>4

(* Every step of the composition is a step of the broker, or leaves the broker alone. *)
LEMMA BrokerSimulated ==
  ASSUME TypeOK, [Next]_vars
  PROVE  [BrokerNext]_brokerVars
<1>1. CASE UNCHANGED vars
  BY <1>1 DEF vars, brokerVars
<1>2. CASE Broker
  BY <1>2, Questions DEF Broker, BrokerNext
<1>3. ASSUME NEW c \in Calls, Registry(c) \/ Running(c)
      PROVE  [BrokerNext]_brokerVars
  <2>1. CASE AskBroker(c)
    BY <2>1, Questions DEF AskBroker, BrokerNext
  <2>2. CASE DropCall(c)
    BY <2>2, Questions DEF DropCall, BrokerNext
  <2>3. CASE Begin(c) \/ Decide(c) \/ EnforceTrust(c) \/ Answered(c) \/ Discover(c) \/ Return(c)
    BY <2>3 DEF Begin, Decide, EnforceTrust, Answered, Discover, Return
  <2> QED
    BY <1>3, <2>1, <2>2, <2>3 DEF Registry, Running
<1> QED
  BY <1>1, <1>2, <1>3 DEF Next

(* Records and acknowledged answers are never taken back, so a yes stays a yes. *)
LEMMA YesStays ==
  ASSUME TypeOK, [Next]_vars
  PROVE  /\ told \subseteq told' /\ decisions \subseteq decisions'
         /\ \A c \in Calls, q \in 1..MaxQuestion : Yes(c, q) => Yes(c, q)'
<1>1. told \subseteq told'
  <2>1. BrokerNext \/ UNCHANGED brokerVars
    BY BrokerSimulated
  <2> QED
    BY <2>1 DEF BrokerNext, Requester, Frontend, Ask, Enqueue, Settle, Abandon, CancelContext,
                Expire, Attach, Detach, TakeUp, Send, Close, brokerVars
<1>2. decisions \subseteq decisions'
  BY DEF Next, Broker, Registry, Running, Begin, Decide, EnforceTrust, AskBroker, Answered,
         Discover, Return, DropCall, Decided, gateVars, vars
<1> QED
  BY <1>1, <1>2 DEF Yes

CallRecord ==
  [pc : {"idle", "decide", "ask", "run", "dropped", "not_found", "denied", "failed", "succeeded"},
   q : 1..MaxQuestion, trust : {"trusted", "untrusted"}, late : BOOLEAN]

\* After this step the question has its yes.
NowYes(c, q) == \/ <<c, q, "allowed">> \in decisions'
                \/ /\ <<c, q, "approval_granted">> \in decisions'
                   /\ \E g \in Responders : <<g, <<c, q>>, "granted">> \in told'

\* What a step of call c that is past Begin makes of its record: the call is over, or asks, or
\* goes on after a yes, or runs, or finds a resource.
Moved(c, k) ==
  /\ Active(c) /\ k.trust = call[c].trust /\ k.late = call[c].late
  /\ \/ k.pc \in {"dropped", "denied", "failed", "succeeded"} /\ k.q = call[c].q
     \/ k.pc = "ask" /\ call[c].pc \in {"ask", "decide"} /\ k.q = call[c].q
     \/ /\ k.pc = "decide" /\ call[c].pc \in {"decide", "ask"}
        /\ call[c].q < TrustQ(c)
        /\ k.q = call[c].q + 1 /\ NowYes(c, call[c].q)
     \/ /\ k.pc = "run" /\ call[c].pc \in {"decide", "ask"} /\ k.q = call[c].q
        /\ \/ k.q > TrustQ(c)
           \/ k.q = TrustQ(c) /\ (TrustMatters(c) => NowYes(c, TrustQ(c)))
     \/ k.pc = "decide" /\ call[c].pc = "run" /\ k.q = call[c].q + 1

(* The steps of a call that is past Begin. *)
LEMMA CallMoves ==
  ASSUME ToolInv, NEW c \in Calls, Registry(c) \/ Running(c), ~Begin(c)
  PROVE  \E k \in CallRecord : Moved(c, k) /\ call' = [call EXCEPT ![c] = k]
<1>1. call \in [Calls -> CallRecord] /\ call[c] \in CallRecord
  BY DEF TypeOK, CallRecord, ToolInv
<1>2. /\ TrustQ(c) \in 1..MaxQuestion /\ MaxQuestion \in Nat /\ Tool[c].last \in 1..MaxQuestion
      /\ call[c].q \in 1..MaxQuestion /\ Request(c) \in Requests
  BY Questions DEF ToolInv
<1>3. ASSUME NEW pc \in {"decide", "ask", "run", "dropped", "denied", "failed", "succeeded"},
             Goto(c, pc)
      PROVE  \E k \in CallRecord :
               /\ call' = [call EXCEPT ![c] = k]
               /\ k.pc = pc /\ k.q = call[c].q /\ k.trust = call[c].trust /\ k.late = call[c].late
  <2> DEFINE k == [call[c] EXCEPT !.pc = pc]
  <2>1. k \in CallRecord /\ k.pc = pc /\ k.q = call[c].q /\ k.trust = call[c].trust /\ k.late = call[c].late
    BY <1>1 DEF CallRecord
  <2>2. call' = [call EXCEPT ![c] = k]
    BY <1>3 DEF Goto
  <2> QED
    BY <2>1, <2>2
<1>4. ASSUME Proceed(c), NowYes(c, call[c].q), call[c].pc \in {"decide", "ask"}
      PROVE  \E k \in CallRecord : Moved(c, k) /\ call' = [call EXCEPT ![c] = k]
  <2>1. CASE call[c].q >= TrustQ(c)
    <3>1. PICK k \in CallRecord :
               /\ call' = [call EXCEPT ![c] = k]
               /\ k.pc = "run" /\ k.q = call[c].q /\ k.trust = call[c].trust /\ k.late = call[c].late
      BY <1>3, <1>4, <2>1 DEF Proceed
    <3>2. k.q > TrustQ(c) \/ k.q = TrustQ(c)
      BY <1>2, <2>1, <3>1
    <3>3. Moved(c, k)
      BY <1>4, <2>1, <3>1, <3>2 DEF Moved, Active
    <3> QED
      BY <3>1, <3>3
  <2>2. CASE ~(call[c].q >= TrustQ(c))
    <3> DEFINE k == [call[c] EXCEPT !.pc = "decide", !.q = @ + 1]
    <3>2. call[c].q + 1 \in 1..MaxQuestion /\ call[c].q < TrustQ(c)
      BY <1>2, <2>2
    <3>3. /\ k \in CallRecord /\ k.pc = "decide" /\ k.q = call[c].q + 1
          /\ k.trust = call[c].trust /\ k.late = call[c].late
      BY <1>1, <3>2 DEF CallRecord
    <3>4. call' = [call EXCEPT ![c] = k]
      BY <1>4, <2>2 DEF Proceed
    <3>5. Moved(c, k)
      BY <1>4, <2>2, <3>2, <3>3 DEF Moved, Active
    <3> QED
      BY <3>3, <3>4, <3>5
  <2> QED
    BY <2>1, <2>2
<1>5. ASSUME Refuse(c), call[c].pc \in {"decide", "ask"}
      PROVE  \E k \in CallRecord : Moved(c, k) /\ call' = [call EXCEPT ![c] = k]
  BY <1>3, <1>5 DEF Refuse, Moved, Active
<1>6. ASSUME Goto(c, "ask"), call[c].pc = "decide"
      PROVE  \E k \in CallRecord : Moved(c, k) /\ call' = [call EXCEPT ![c] = k]
  BY <1>3, <1>6 DEF Moved, Active
<1>7. CASE Decide(c)
  BY <1>4, <1>5, <1>6, <1>7 DEF Decide, Decided, NowYes
<1>8. CASE EnforceTrust(c)
  <2>1. CASE TrustMatters(c)
    BY <1>4, <1>5, <1>6, <1>8, <2>1 DEF EnforceTrust, Decided, NowYes
  <2>2. CASE ~TrustMatters(c)
    <3>1. call[c].pc = "decide" /\ call[c].q = TrustQ(c) /\ Goto(c, "run")
      BY <1>8, <2>2 DEF EnforceTrust
    <3> QED
      BY <1>3, <2>2, <3>1 DEF Moved, Active
  <2> QED
    BY <2>1, <2>2
<1>9. CASE Answered(c)
  <2>1. CASE Granted(req[Request(c)])
    <3>1. \E g \in Responders : <<g, Request(c), "granted">> \in told
      BY <1>2, <2>1 DEF Granted, ToolInv, BrokerInv, GrantIsHuman
    <3>2. NowYes(c, call[c].q)
      BY <1>9, <2>1, <3>1 DEF Answered, Decided, NowYes, Request, brokerVars
    <3> QED
      BY <1>4, <1>9, <2>1, <3>2 DEF Answered
  <2>2. CASE ~Granted(req[Request(c)])
    BY <1>5, <1>9, <2>2 DEF Answered
  <2> QED
    BY <2>1, <2>2
<1>10. CASE Discover(c)
  <2> DEFINE k == [call[c] EXCEPT !.pc = "decide", !.q = @ + 1]
  <2>0. call[c].q + 1 \in 1..MaxQuestion
    BY <1>2, <1>10 DEF Discover
  <2>1. /\ k \in CallRecord /\ k.pc = "decide" /\ k.q = call[c].q + 1
        /\ k.trust = call[c].trust /\ k.late = call[c].late
    BY <1>1, <2>0 DEF CallRecord
  <2>2. call' = [call EXCEPT ![c] = k]
    BY <1>10 DEF Discover
  <2>3. Moved(c, k)
    BY <1>10, <2>1 DEF Moved, Active, Discover
  <2> QED
    BY <2>1, <2>2, <2>3
<1>11. CASE Return(c) \/ DropCall(c)
  <2>1. PICK pc \in {"dropped", "denied", "failed", "succeeded"} : Goto(c, pc)
    BY <1>11 DEF Return, DropCall
  <2>2. Active(c)
    BY <1>11 DEF Active, Return, DropCall, Awaiting
  <2> QED
    BY <1>3, <2>1, <2>2 DEF Moved
<1>12. CASE AskBroker(c)
  <2>1. call' = [call EXCEPT ![c] = call[c]] /\ call[c].pc = "ask"
    BY <1>1, <1>12 DEF AskBroker, gateVars
  <2> QED
    BY <1>1, <2>1 DEF Moved, Active
<1> QED
  BY <1>7, <1>8, <1>9, <1>10, <1>11, <1>12 DEF Registry, Running

(* A yes given in this step counts after it. *)
LEMMA NowYesIsYes ==
  ASSUME NEW c, NEW q, NowYes(c, q)
  PROVE  Yes(c, q)'
BY DEF NowYes, Yes

(* The ledger forgets no conversation: a full one stops telling them apart. *)
LEMMA LedgerStep ==
  ASSUME TypeOK, TaintIsRemembered, [Next]_vars
  PROVE  /\ TaintIsRemembered'
         /\ setup' \in Settings
         /\ tainted' \subseteq Scopes /\ saturated' \in BOOLEAN /\ delivered' \subseteq Scopes
<1> USE DEF TaintIsRemembered, trust_of, TypeOK
<1>1. CASE UNCHANGED <<setup, tainted, saturated, delivered>>
  BY <1>1
<1>2. ASSUME NEW c \in Calls, NEW t \in {"trusted", "untrusted"}, ReturnRecorded(c, t), UNCHANGED setup
      PROVE  /\ TaintIsRemembered'
             /\ setup' \in Settings
             /\ tainted' \subseteq Scopes /\ saturated' \in BOOLEAN /\ delivered' \subseteq Scopes
  <2>1. Tool[c].scope \in Scopes
    BY Questions
  <2> QED
    BY <1>2, <2>1 DEF ReturnRecorded, observe
<1>3. \/ UNCHANGED <<setup, tainted, saturated, delivered>>
      \/ \E c \in Calls, t \in {"trusted", "untrusted"} : ReturnRecorded(c, t) /\ UNCHANGED setup
  <2>1. ASSUME NEW c \in Calls, Return(c)
        PROVE  \/ UNCHANGED <<setup, tainted, saturated, delivered>>
               \/ \E t \in {"trusted", "untrusted"} : ReturnRecorded(c, t) /\ UNCHANGED setup
    <3>1. Tool[c].output \in {"trusted", "untrusted"}
      BY ToolAssumption
    <3> QED
      BY <2>1, <3>1 DEF Return
  <2> QED
    BY <2>1 DEF Next, Broker, Registry, Running, Begin, Decide, EnforceTrust, AskBroker, Answered,
                Discover, DropCall, gateVars, vars
<1> QED
  BY <1>1, <1>2, <1>3

(* Steps of the calls keep what is known of the questions. *)
LEMMA CallsStep ==
  ASSUME ToolInv, [Next]_vars
  PROVE  call' \in [Calls -> CallRecord] /\ YesSoFar' /\ TaintSoFar'
<1>1. call \in [Calls -> CallRecord]
  BY DEF ToolInv, TypeOK, CallRecord
<1>2. \A c \in Calls, q \in 1..MaxQuestion : Yes(c, q) => Yes(c, q)'
  BY YesStays DEF ToolInv
<1>3. /\ MaxQuestion \in Nat \ {0}
      /\ \A c \in Calls : /\ Tool[c].n \in Nat /\ TrustQ(c) \in 1..MaxQuestion
                          /\ TrustQ(c) = Tool[c].n + 1
  BY Questions, ToolAssumption DEF ToolInv
<1> DEFINE YesOf(c) ==
             Active(c) =>
               /\ call[c].q \in 1..MaxQuestion
               /\ call[c].pc = "run" => call[c].q >= TrustQ(c)
               /\ \A q \in 1..Tool[c].n : q < call[c].q => Yes(c, q)
           TaintOf(c) ==
             Active(c) /\ call[c].late =>
               /\ call[c].trust = "untrusted"
               /\ (call[c].pc = "run" \/ call[c].q > TrustQ(c)) /\ Tool[c].reach # "contained"
                    => Yes(c, TrustQ(c))
<1>4. \A c \in Calls : YesOf(c) /\ TaintOf(c)
  BY DEF ToolInv, YesSoFar, TaintSoFar
<1>5. ASSUME NEW c \in Calls, call'[c] = call[c]
      PROVE  YesOf(c)' /\ TaintOf(c)'
  <2>1. \A q \in 1..Tool[c].n : q \in 1..MaxQuestion
    BY <1>3
  <2> QED
    BY <1>2, <1>3, <1>4, <1>5, <2>1 DEF Active
<1>6. ASSUME NEW c \in Calls, NEW k \in CallRecord, Moved(c, k), call' = [call EXCEPT ![c] = k]
      PROVE  YesOf(c)' /\ TaintOf(c)'
  <2>1. call'[c] = k
    BY <1>1, <1>6
  <2>2. /\ call[c].q \in 1..MaxQuestion /\ k.q \in 1..MaxQuestion
        /\ call[c].pc = "run" => call[c].q >= TrustQ(c)
        /\ \A q \in 1..Tool[c].n : q < call[c].q => Yes(c, q)'
    BY <1>2, <1>3, <1>4, <1>6 DEF Moved, CallRecord
  <2>3. YesOf(c)'
    BY <1>3, <1>6, <2>1, <2>2, NowYesIsYes DEF Moved, Active
  <2>4. TaintOf(c)'
    <3> SUFFICES ASSUME Active(c)', call'[c].late
                 PROVE  /\ call'[c].trust = "untrusted"
                        /\ (call'[c].pc = "run" \/ call'[c].q > TrustQ(c)) /\ Tool[c].reach # "contained"
                             => Yes(c, TrustQ(c))'
      OBVIOUS
    <3>1. Active(c) /\ call[c].late /\ call'[c].trust = call[c].trust
      BY <1>6, <2>1 DEF Moved
    <3>2. call[c].trust = "untrusted"
      BY <1>4, <3>1
    <3>3. (call[c].pc = "run" \/ call[c].q > TrustQ(c)) /\ Tool[c].reach # "contained" => Yes(c, TrustQ(c))'
      BY <1>2, <1>3, <1>4, <3>1
    <3>4. TrustMatters(c) <=> Tool[c].reach # "contained"
      BY <3>2 DEF TrustMatters
    <3> QED
      BY <1>3, <1>6, <2>1, <2>2, <3>1, <3>2, <3>3, <3>4, NowYesIsYes DEF Moved, Active
  <2> QED
    BY <2>3, <2>4
<1>7. ASSUME NEW c \in Calls, Begin(c)
      PROVE  call' \in [Calls -> CallRecord] /\ YesOf(c)' /\ TaintOf(c)'
  <2>1. CASE \E outcome \in {"not_found", "denied", "failed"} : Goto(c, outcome)
    BY <1>1, <2>1 DEF Goto, CallRecord, Active
  <2>2. CASE call' = [call EXCEPT ![c] = [pc |-> "decide", q |-> 1, trust |-> trust_of(Tool[c].scope),
                                          late |-> Tool[c].scope \in delivered]]
    <3>1. trust_of(Tool[c].scope) \in {"trusted", "untrusted"}
      BY DEF trust_of
    <3>2. Tool[c].scope \in delivered => trust_of(Tool[c].scope) = "untrusted"
      BY DEF ToolInv, TaintIsRemembered
    <3>3. call' \in [Calls -> CallRecord]
      BY <1>1, <1>3, <2>2, <3>1 DEF CallRecord
    <3>4. /\ call'[c].q = 1 /\ call'[c].pc = "decide" /\ call'[c].trust = trust_of(Tool[c].scope)
          /\ call'[c].late = (Tool[c].scope \in delivered)
      BY <1>1, <2>2
    <3>5. ~(1 > TrustQ(c)) /\ 1 \in 1..MaxQuestion /\ \A q \in 1..Tool[c].n : ~(q < 1)
      BY <1>3
    <3> QED
      BY <3>2, <3>3, <3>4, <3>5
  <2> QED
    BY <1>7, <2>1, <2>2 DEF Begin
<1>8. ASSUME NEW c \in Calls, Registry(c) \/ Running(c)
      PROVE  /\ call' \in [Calls -> CallRecord] /\ YesOf(c)' /\ TaintOf(c)'
             /\ \A d \in Calls \ {c} : call'[d] = call[d]
  <2>1. CASE Begin(c)
    BY <1>1, <1>7, <2>1 DEF Begin, Goto
  <2>2. CASE ~Begin(c)
    <3>1. PICK k \in CallRecord : Moved(c, k) /\ call' = [call EXCEPT ![c] = k]
      BY <1>8, <2>2, CallMoves
    <3> QED
      BY <1>1, <1>6, <3>1
  <2> QED
    BY <2>1, <2>2
<1>9. CASE \E c \in Calls : Registry(c) \/ Running(c)
  <2>1. call' \in [Calls -> CallRecord] /\ \A c \in Calls : YesOf(c)' /\ TaintOf(c)'
    BY <1>5, <1>8, <1>9
  <2> QED
    BY <2>1 DEF YesSoFar, TaintSoFar
<1>10. CASE UNCHANGED call
  <2>1. call' \in [Calls -> CallRecord] /\ \A c \in Calls : YesOf(c)' /\ TaintOf(c)'
    BY <1>1, <1>5, <1>10
  <2> QED
    BY <2>1 DEF YesSoFar, TaintSoFar
<1> QED
  BY <1>9, <1>10 DEF Next, Broker, gateVars, vars

(* The inductive invariant holds at the start and every step of the composition keeps it. *)
LEMMA ToolInvInit == Init => ToolInv
<1> SUFFICES ASSUME Init PROVE ToolInv
  OBVIOUS
<1>1. BrokerInv
  BY BrokerInvInit DEF Init
<1>2. call \in [Calls -> CallRecord] /\ \A c \in Calls : call[c].pc = "idle"
  BY ToolAssumption DEF Init, CallRecord
<1>3. TypeOK /\ TaintIsRemembered
  BY <1>1, <1>2 DEF Init, TypeOK, CallRecord, BrokerInv, TaintIsRemembered
<1>4. YesSoFar /\ TaintSoFar
  BY <1>2 DEF YesSoFar, TaintSoFar, Active
<1> QED
  BY <1>1, <1>3, <1>4 DEF ToolInv

LEMMA ToolInvStep == ToolInv /\ [Next]_vars => ToolInv'
<1> SUFFICES ASSUME ToolInv, [Next]_vars PROVE ToolInv'
  OBVIOUS
<1>1. BrokerInv'
  BY BrokerSimulated, BrokerInvStep DEF ToolInv
<1>2. call' \in [Calls -> CallRecord] /\ YesSoFar' /\ TaintSoFar'
  BY CallsStep
<1>3. /\ TaintIsRemembered' /\ setup' \in Settings
      /\ tainted' \subseteq Scopes /\ saturated' \in BOOLEAN /\ delivered' \subseteq Scopes
  BY LedgerStep DEF ToolInv
<1>4. TypeOK'
  BY <1>1, <1>2, <1>3 DEF TypeOK, BrokerInv, CallRecord
<1> QED
  BY <1>1, <1>2, <1>3, <1>4 DEF ToolInv

LEMMA ToolInvSuffices == ToolInv => GateInv
<1> SUFFICES ASSUME ToolInv PROVE GateInv
  OBVIOUS
<1>1. \A c \in Calls : call[c].pc = "run" => \A q \in 1..Tool[c].n : q < call[c].q
  <2> SUFFICES ASSUME NEW c \in Calls, call[c].pc = "run", NEW q \in 1..Tool[c].n
               PROVE  q < call[c].q
    OBVIOUS
  <2>1. call[c].q >= TrustQ(c)
    BY DEF ToolInv, YesSoFar, Active
  <2> QED
    BY <2>1, Questions DEF ToolInv, TrustQ
<1>2. RunsOnlyIfAllowed
  BY <1>1 DEF ToolInv, YesSoFar, Active, RunsOnlyIfAllowed
<1>3. TaintedCallsAreGated
  BY DEF ToolInv, TaintSoFar, Active, TaintedCallsAreGated
<1> QED
  BY <1>2, <1>3 DEF ToolInv, GateInv

(* Whatever the policy, the humans, the ledger and the tools do, and however many permissions and
   resources a call names, its tool runs only after a recorded yes to each of them, and a call that began after its conversation was
   handed untrusted content changes state only with a yes to the trust question. *)
THEOREM GateHolds == Spec => []GateInv
<1>1. Spec => []ToolInv
  BY ToolInvInit, ToolInvStep, PTL DEF Spec
<1> QED
  BY <1>1, ToolInvSuffices, PTL

(* A conversation that was handed untrusted content is reported untrusted from then on, for
   every capacity of the ledger. *)
THEOREM TaintRemembered == Spec => []TaintIsRemembered
<1>1. Spec => []ToolInv
  BY ToolInvInit, ToolInvStep, PTL DEF Spec
<1>2. ToolInv => TaintIsRemembered
  BY DEF ToolInv
<1> QED
  BY <1>1, <1>2, PTL

(* The composition implements the broker's specification: the registry asks, waits for and
   drops questions only as request_approval() allows, so each behaviour of the registry is,
   for the broker's variables, a behaviour of the broker by itself. *)
THEOREM GateImplementsBroker == Spec => BrokerSpec
<1>1. Init => BrokerInit
  BY DEF Init
<1>2. Spec => []ToolInv
  BY ToolInvInit, ToolInvStep, PTL DEF Spec
<1>3. ToolInv /\ [Next]_vars => [BrokerNext]_brokerVars
  BY BrokerSimulated DEF ToolInv
<1> QED
  BY <1>1, <1>2, <1>3, PTL DEF Spec, BrokerSpec

(* What the broker promises holds in the composition too. *)
THEOREM GateAnswersHuman == Spec => []AnswersAreHuman
BY GateImplementsBroker, AnswersHuman, PTL

-----------------------------------------------------------------------------
(* The audit trail: AuditTrail *)

\* R is a strict order of S, and the elements with fewer than k others above them.
Orders(R, S) ==
  /\ \A x \in S : <<x, x>> \notin R
  /\ \A x, y, z \in S : <<x, y>> \in R /\ <<y, z>> \in R => <<x, z>> \in R
  /\ \A x, y \in S : x # y => <<x, y>> \in R \/ <<y, x>> \in R
Topmost(k, R, S) == {x \in S : Cardinality({y \in S : <<y, x>> \in R}) < k}

(* Of a finite set in a strict order, the topmost k are k, or all there are: what a query with
   a limit returns. *)
LEMMA TopOf ==
  ASSUME NEW S, IsFiniteSet(S), NEW R, Orders(R, S), NEW k \in Nat,
         NEW top, top = Topmost(k, R, S)
  PROVE  /\ IsFiniteSet(top) /\ Cardinality(S) \in Nat
         /\ Cardinality(top) = IF k < Cardinality(S) THEN k ELSE Cardinality(S)
<1> DEFINE n == Cardinality(S)
           Above(x) == {y \in S : <<y, x>> \in R}
           place == [x \in S |-> Cardinality(Above(x))]
           m == IF k < n THEN k ELSE n
           part == [x \in top |-> place[x]]
<1>14. /\ \A x \in S : <<x, x>> \notin R
       /\ \A x, y, z \in S : <<x, y>> \in R /\ <<y, z>> \in R => <<x, z>> \in R
       /\ \A x, y \in S : x # y => <<x, y>> \in R \/ <<y, x>> \in R
  BY DEF Orders
<1>1. n \in Nat /\ n - 1 \in Int
  BY FS_CardinalityType
<1>0. \A x \in S : place[x] = Cardinality(Above(x))
  OBVIOUS
<1>2. ASSUME NEW x \in S
      PROVE  IsFiniteSet(Above(x)) /\ place[x] \in Nat /\ place[x] < n
  <2>1. Above(x) \in SUBSET (S \ {x})
    BY <1>14
  <2>2. IsFiniteSet(S \ {x}) /\ Cardinality(S \ {x}) = n - 1
    BY FS_RemoveElement
  <2>3. IsFiniteSet(Above(x)) /\ Cardinality(Above(x)) <= n - 1
    <3> HIDE DEF Above, n
    <3> QED
      BY <2>1, <2>2, FS_Subset
  <2>4. Cardinality(Above(x)) \in Nat
    <3> HIDE DEF Above
    <3> QED
      BY <2>3, FS_CardinalityType
  <2> HIDE DEF Above, place, n
  <2> QED
    BY <1>0, <1>1, <2>3, <2>4
<1>3. ASSUME NEW x \in S, NEW y \in S, <<x, y>> \in R
      PROVE  place[x] < place[y]
  <2>1. Above(x) \in SUBSET Above(y) /\ x \in Above(y) /\ x \notin Above(x)
    BY <1>3, <1>14
  <2>2. IsFiniteSet(Above(y)) /\ Above(x) # Above(y)
    BY <1>2, <2>1
  <2> HIDE DEF Above, place, n
  <2>3. /\ Cardinality(Above(x)) <= Cardinality(Above(y))
        /\ Cardinality(Above(x)) = Cardinality(Above(y)) => Above(x) = Above(y)
    BY <2>1, <2>2, FS_Subset
  <2>4. place[x] \in Nat /\ place[y] \in Nat
    BY <1>2
  <2>5. place[x] = Cardinality(Above(x)) /\ place[y] = Cardinality(Above(y))
    BY <1>0
  <2> QED
    BY <2>2, <2>3, <2>4, <2>5
<1>4. place \in Injection(S, 0 .. n - 1)
  <2>1. place \in [S -> 0 .. n - 1]
    <3>1. \A x \in S : place[x] \in 0 .. n - 1
      <4> SUFFICES ASSUME NEW x \in S PROVE place[x] \in 0 .. n - 1
        OBVIOUS
      <4>1. place[x] \in Nat /\ place[x] < n
        BY <1>2
      <4> HIDE DEF place, n
      <4> QED
        BY <1>1, <4>1
    <3> QED
      BY <3>1
  <2>2. \A x, y \in S : x # y => place[x] # place[y]
    <3> SUFFICES ASSUME NEW x \in S, NEW y \in S, x # y PROVE place[x] # place[y]
      OBVIOUS
    <3>1. place[x] \in Nat /\ place[y] \in Nat
      BY <1>2
    <3> HIDE DEF place, n
    <3>2. CASE <<x, y>> \in R
      <4>1. place[x] < place[y]
        BY <1>3, <3>2
      <4> QED
        BY <3>1, <4>1
    <3>3. CASE <<y, x>> \in R
      <4>1. place[y] < place[x]
        BY <1>3, <3>3
      <4> QED
        BY <3>1, <4>1
    <3> QED
      BY <1>14, <3>2, <3>3
  <2> HIDE DEF place, n
  <2> QED
    BY <2>1, <2>2 DEF Injection, IsInjective
<1>5. IsFiniteSet(0 .. n - 1) /\ Cardinality(0 .. n - 1) = n
  <2> HIDE DEF n
  <2>1. 0 \in Int /\ IsFiniteSet(0 .. n - 1)
    BY <1>1, FS_Interval
  <2>2. Cardinality(0 .. n - 1) = IF 0 > n - 1 THEN 0 ELSE (n - 1) - 0 + 1
    BY <1>1, FS_Interval
  <2> QED
    BY <1>1, <2>1, <2>2
<1>6. place \in Surjection(S, 0 .. n - 1)
  <2>1. Cardinality(S) = Cardinality(0 .. n - 1)
    BY <1>5
  <2> HIDE DEF place, n
  <2> QED
    BY <1>4, <1>5, <2>1, FS_Injection
<1>7. top = {x \in S : place[x] < k}
  BY DEF Topmost
<1>8. part \in Bijection(top, 0 .. m - 1)
  <2> HIDE DEF place
  <2>1. \A x \in top : place[x] \in 0 .. m - 1
    <3> SUFFICES ASSUME NEW x \in top PROVE place[x] \in 0 .. m - 1
      OBVIOUS
    <3>1. x \in S /\ place[x] < k
      BY <1>7
    <3>2. place[x] \in Nat /\ place[x] < n
      BY <1>2, <3>1
    <3> HIDE DEF n
    <3> QED
      BY <1>1, <3>1, <3>2
  <2>2. part \in Injection(top, 0 .. m - 1)
    BY <1>4, <1>7, <2>1 DEF Injection, IsInjective
  <2>3. ASSUME NEW i \in 0 .. m - 1 PROVE \E x \in top : part[x] = i
    <3>1. i \in 0 .. n - 1 /\ i < k
      BY <1>1
    <3>2. PICK x \in S : place[x] = i
      BY <1>6, <3>1 DEF Surjection
    <3> QED
      BY <1>7, <3>1, <3>2
  <2>4. part \in Surjection(top, 0 .. m - 1)
    BY <2>1, <2>3 DEF Surjection
  <2> QED
    BY <2>2, <2>4 DEF Bijection
<1>9. IsFiniteSet(top)
  BY <1>7, FS_Subset
<1>10. Cardinality(0 .. m - 1) = m
  <2>1. m \in Nat /\ m - 1 \in Int
    <3> HIDE DEF n
    <3> QED
      BY <1>1
  <2> HIDE DEF m
  <2>2. Cardinality(0 .. m - 1) = IF 0 > m - 1 THEN 0 ELSE (m - 1) - 0 + 1
    BY <2>1, FS_Interval
  <2> QED
    BY <2>1, <2>2
<1>11. Cardinality(top) = m
  <2> HIDE DEF m, part
  <2>1. ExistsBijection(top, 0 .. m - 1)
    BY <1>8 DEF ExistsBijection
  <2> QED
    BY <1>9, <1>10, <2>1, FS_Bijection
<1> QED
  BY <1>1, <1>9, <1>11

(* The topmost k of two parts, put together, hold the topmost k of the whole. *)
LEMMA TopJoined ==
  ASSUME NEW S, IsFiniteSet(S), NEW R, Orders(R, S), NEW k \in Nat,
         NEW A, NEW B, S = A \cup B,
         NEW one, one = Topmost(k, R, A), NEW two, two = Topmost(k, R, B)
  PROVE  Topmost(k, R, one \cup two) = Topmost(k, R, S)
<1> DEFINE T == one \cup two
           Above(x, U) == {y \in U : <<y, x>> \in R}
<1>0. /\ \A x \in S : <<x, x>> \notin R
      /\ \A x, y, z \in S : <<x, y>> \in R /\ <<y, z>> \in R => <<x, z>> \in R
      /\ \A x, y \in S : x # y => <<x, y>> \in R \/ <<y, x>> \in R
  BY DEF Orders
<1>1. T \in SUBSET S
  BY DEF Topmost
<1>2. ASSUME NEW x, NEW U \in SUBSET S, NEW V \in SUBSET U
      PROVE  /\ Cardinality(Above(x, U)) \in Nat /\ Cardinality(Above(x, V)) \in Nat
             /\ Cardinality(Above(x, V)) <= Cardinality(Above(x, U))
  <2>1. IsFiniteSet(Above(x, U)) /\ Above(x, V) \in SUBSET Above(x, U)
    <3>1. Above(x, U) \in SUBSET S
      OBVIOUS
    <3> HIDE DEF Above
    <3>2. IsFiniteSet(Above(x, U))
      BY <3>1, FS_Subset
    <3> QED
      BY <3>2 DEF Above
  <2> HIDE DEF Above
  <2> QED
    BY <2>1, FS_Subset, FS_CardinalityType
<1>3. \A x, U : x \in Topmost(k, R, U) <=> x \in U /\ Cardinality(Above(x, U)) < k
  BY DEF Topmost
<1> HIDE DEF Above
<1>4. ASSUME NEW x \in Topmost(k, R, S) PROVE x \in Topmost(k, R, T)
  <2>1. x \in S /\ Cardinality(Above(x, S)) < k
    BY <1>3, <1>4
  <2>2. ASSUME NEW U \in SUBSET S PROVE Cardinality(Above(x, U)) < k
    <3>1. S \in SUBSET S
      OBVIOUS
    <3>2. /\ Cardinality(Above(x, S)) \in Nat /\ Cardinality(Above(x, U)) \in Nat
          /\ Cardinality(Above(x, U)) <= Cardinality(Above(x, S))
      BY <1>2, <2>2, <3>1
    <3> QED
      BY <2>1, <3>2
  <2>3. A \in SUBSET S /\ B \in SUBSET S
    OBVIOUS
  <2>4. x \in T
    BY <1>3, <2>1, <2>2, <2>3
  <2> QED
    BY <1>1, <1>3, <2>2, <2>4
<1>5. ASSUME NEW x \in Topmost(k, R, T), NEW y \in S, <<y, x>> \in R,
             NEW U \in SUBSET S, y \in U, Topmost(k, R, U) \in SUBSET T
      PROVE  y \in Topmost(k, R, U)
  <2> SUFFICES ASSUME y \notin Topmost(k, R, U) PROVE FALSE
    OBVIOUS
  <2> DEFINE top == Topmost(k, R, U)
  <2>1. x \in T /\ x \in S /\ Cardinality(Above(x, T)) < k
    BY <1>1, <1>3, <1>5
  <2>2. IsFiniteSet(U) /\ Orders(R, U)
    BY <1>0, FS_Subset DEF Orders
  <2>3. /\ IsFiniteSet(top) /\ Cardinality(U) \in Nat
        /\ Cardinality(top) = IF k < Cardinality(U) THEN k ELSE Cardinality(U)
    <3>1. top = Topmost(k, R, U)
      OBVIOUS
    <3> HIDE DEF top
    <3> QED
      BY <2>2, <3>1, TopOf
  <2>4. Cardinality(Above(y, U)) \in Nat /\ ~(Cardinality(Above(y, U)) < k)
    <3>1. U \in SUBSET U
      OBVIOUS
    <3> QED
      BY <1>2, <1>3, <1>5, <3>1
  <2>5. Cardinality(Above(y, U)) <= Cardinality(U)
    <3>1. Above(y, U) \in SUBSET U
      BY DEF Above
    <3> QED
      BY <2>2, <3>1, FS_Subset
  <2>6. Cardinality(top) = k
    <3> HIDE DEF top
    <3> QED
      BY <2>3, <2>4, <2>5
  <2>7. ASSUME NEW t \in top PROVE <<t, x>> \in R
    <3>1. t \in U /\ t \in S /\ Cardinality(Above(t, U)) < k /\ t # y
      BY <1>3, <2>7
    <3>2. ASSUME <<y, t>> \in R PROVE FALSE
      <4>1. Above(y, U) \in SUBSET Above(t, U)
        BY <1>0, <1>5, <3>1, <3>2 DEF Above
      <4>2. IsFiniteSet(Above(t, U)) /\ Cardinality(Above(t, U)) \in Nat
        <5>1. Above(t, U) \in SUBSET U
          BY DEF Above
        <5> QED
          BY <2>2, <5>1, FS_Subset, FS_CardinalityType
      <4>3. Cardinality(Above(y, U)) <= Cardinality(Above(t, U))
        BY <4>1, <4>2, FS_Subset
      <4> QED
        BY <2>4, <3>1, <4>2, <4>3
    <3>3. <<t, y>> \in R
      BY <1>0, <1>5, <3>1, <3>2
    <3> QED
      BY <1>0, <1>5, <2>1, <3>1, <3>3
  <2>8. top \in SUBSET Above(x, T)
    BY <1>5, <2>7 DEF Above
  <2>9. IsFiniteSet(Above(x, T)) /\ Cardinality(Above(x, T)) \in Nat
    <3>1. Above(x, T) \in SUBSET S
      BY <1>1 DEF Above
    <3> QED
      BY <3>1, FS_Subset, FS_CardinalityType
  <2> HIDE DEF top
  <2>10. Cardinality(top) <= Cardinality(Above(x, T))
    BY <2>8, <2>9, FS_Subset
  <2> QED
    BY <2>1, <2>6, <2>9, <2>10
<1>6. ASSUME NEW x \in Topmost(k, R, T) PROVE x \in Topmost(k, R, S)
  <2>1. x \in T /\ x \in S /\ Cardinality(Above(x, T)) < k
    BY <1>1, <1>3, <1>6
  <2>2. ASSUME NEW y \in S, <<y, x>> \in R PROVE y \in T
    <3>1. /\ A \in SUBSET S /\ B \in SUBSET S /\ Topmost(k, R, A) \in SUBSET T /\ Topmost(k, R, B) \in SUBSET T
          /\ (y \in A \/ y \in B)
      OBVIOUS
    <3> QED
      BY <1>5, <1>6, <2>2, <3>1
  <2>3. Above(x, S) = Above(x, T)
    BY <1>1, <2>2 DEF Above
  <2> QED
    BY <1>3, <2>1, <2>3
<1> QED
  BY <1>4, <1>6

(* Of no more than k, the topmost k are all. *)
LEMMA TopOfFew ==
  ASSUME NEW S, IsFiniteSet(S), NEW R, Orders(R, S), NEW k \in Nat, Cardinality(S) <= k
  PROVE  Topmost(k, R, S) = S
<1> SUFFICES ASSUME NEW x \in S PROVE Cardinality({y \in S : <<y, x>> \in R}) < k
  BY DEF Topmost
<1> DEFINE above == {y \in S : <<y, x>> \in R}
<1>1. above \in SUBSET (S \ {x})
  BY DEF Orders
<1>2. IsFiniteSet(S \ {x}) /\ Cardinality(S \ {x}) = Cardinality(S) - 1 /\ Cardinality(S) \in Nat
  BY FS_RemoveElement, FS_CardinalityType
<1> HIDE DEF above
<1>3. Cardinality(above) <= Cardinality(S) - 1 /\ Cardinality(above) \in Nat
  BY <1>1, <1>2, FS_Subset, FS_CardinalityType
<1>4. Cardinality(above) < k
  BY <1>2, <1>3
<1> QED
  BY <1>4 DEF above

(* What the markers of a set of records count. *)
LEMMA CountedIs ==
  ASSUME NEW S, IsFiniteSet(S), \A r \in S : r.count \in Nat
  PROVE  auSum(S) = Totals([r \in S |-> r.count])[S]
<1> DEFINE f == [r \in S |-> r.count]
           G(g) == g = [s \in SUBSET S |->
                          IF s = {} THEN 0 ELSE Choice(s).count + g[s \ {Choice(s)}]]
<1>1. auSum(S) = (CHOOSE g : G(g))[S]
  BY Zenon DEF auSum, MapThenSumSet, MapThenFoldSet, Choice
<1>2. f \in [S -> Nat]
  OBVIOUS
<1>3. \A s \in SUBSET S : s # {} => f[Choice(s)] = Choice(s).count
  BY DEF Choice
<1>4. \A g : Adds(g, f, S) <=> G(g)
  <2> TAKE g
  <2> HIDE DEF f
  <2>1. [s \in SUBSET S |-> IF s = {} THEN 0 ELSE Choice(s).count + g[s \ {Choice(s)}]]
        = [s \in SUBSET S |-> IF s = {} THEN 0 ELSE f[Choice(s)] + g[s \ {Choice(s)}]]
    BY <1>3
  <2> QED
    BY <2>1 DEF Adds
<1>5. \E g : Adds(g, f, S)
  BY <1>2, AdderExists
<1> HIDE DEF G, f
<1>6. Adds(CHOOSE g : G(g), f, S)
  BY <1>4, <1>5, Zenon
<1>7. (CHOOSE g : G(g))[S] = Totals(f)[S]
  BY <1>2, <1>6, SumUnique
<1> QED
  BY <1>1, <1>7 DEF f

(* No marker counts nothing. *)
LEMMA NoneCount == auSum({}) = 0
<1> DEFINE z == [r \in {} |-> r.count]
<1>1. IsFiniteSet({}) /\ z \in [{} -> Nat]
  BY FS_EmptySet
<1>2. auSum({}) = Totals(z)[{}]
  BY <1>1, CountedIs
<1>3. Totals(z)[{}] = 0
  <2> HIDE DEF z
  <2> QED
    BY <1>1, TotalsAdd DEF Adding
<1> QED
  BY <1>2, <1>3

(* One more marker adds its count. *)
LEMMA CountsAdd ==
  ASSUME NEW S, IsFiniteSet(S), \A r \in S : r.count \in Nat,
         NEW m, m \notin S, m.count \in Nat
  PROVE  auSum(S) \in Nat /\ auSum(S \cup {m}) = auSum(S) + m.count
<1> DEFINE T == S \cup {m}
           f == [r \in T |-> r.count]
           e == [r \in S |-> r.count]
           h == [r \in S |-> r]
<1>1. IsFiniteSet(T) /\ f \in [T -> Nat] /\ e \in [S -> Nat] /\ S \in SUBSET T
  BY FS_AddElement
<1>2. auSum(T) = Totals(f)[T] /\ auSum(S) = Totals(e)[S]
  <2>1. \A r \in T : r.count \in Nat
    OBVIOUS
  <2> QED
    BY <1>1, <2>1, CountedIs
<1>3. Renames(h, e, S, f, S, T)
  BY <1>1 DEF Renames
<1>4. Totals(e)[S] = Totals(f)[S]
  <2> HIDE DEF h, e, f, T
  <2> QED
    BY <1>3, SumRenamed
<1>5. Totals(f)[T] = f[m] + Totals(f)[T \ {m}] /\ Totals(f)[S] \in Nat
  <2>1. m \in T /\ T \in SUBSET T
    OBVIOUS
  <2> HIDE DEF f, T
  <2>2. Adding(Totals(f), f, T)
    BY <1>1, TotalsAdd
  <2>3. \A s \in SUBSET T : \A x \in s : Totals(f)[s] = f[x] + Totals(f)[s \ {x}]
    BY <2>2, Zenon DEF Adding
  <2>4. Totals(f)[S] \in Nat
    BY <1>1, <2>2, Zenon DEF Adding
  <2> QED
    BY <2>1, <2>3, <2>4, Zenon
<1>6. T \ {m} = S /\ f[m] = m.count
  OBVIOUS
<1> HIDE DEF f, e, T
<1>8. \A i, j \in Nat : i + j = j + i
  OBVIOUS
<1>9. auSum(T) = m.count + auSum(S) /\ auSum(S) \in Nat
  BY <1>2, <1>4, <1>5, <1>6, Zenon
<1>10. auSum(T) = auSum(S) + m.count
  BY <1>8, <1>9
<1> QED
  BY <1>9, <1>10, Zenon DEF T

\* A sequence number names one record, none above the counter; what is about the trail is the
\* system's.
TrailShape ==
  /\ IsFiniteSet(au_records) /\ au_issued \in Nat
  /\ \A r \in au_records : /\ r.time \in Nat /\ r.count \in Nat /\ r.seq \in Nat
                           /\ r.seq <= au_issued
                           /\ is_about_the_trail(r) => r.principal = "system"
  /\ \A r, s \in au_records : r.seq = s.seq => r = s

\* Each index is what the records say.
IndexesAgree ==
  /\ au_time = {<<r.time, r.seq>> : r \in au_records}
  /\ au_corr = {<<r.corr, r.seq>> : r \in au_records}
  /\ au_principal = UNION {{<<p, r.seq>> : p \in indexed_principals(r)} : r \in au_records}

(* A record is found by its number, and the numbers in use are finitely many. *)
LEMMA AtNumber ==
  ASSUME TrailShape
  PROVE  /\ \A r \in au_records : auAt(r.seq) = r
         /\ IsFiniteSet(auSequences) /\ auSequences \in SUBSET Nat
<1>1. \A r \in au_records : auAt(r.seq) = r
  BY DEF TrailShape, auAt
<1>2. IsFiniteSet(au_records)
  BY DEF TrailShape
<1>3. IsFiniteSet(auSequences)
  <2> DEFINE f == [r \in au_records |-> r.seq]
  <2>1. f \in Surjection(au_records, auSequences)
    BY DEF Surjection, auSequences
  <2> HIDE DEF f
  <2> QED
    BY <1>2, <2>1, FS_Surjection
<1>4. auSequences \in SUBSET Nat
  <2>1. \A r \in au_records : r.seq \in Nat
    BY Zenon DEF TrailShape
  <2> QED
    BY <2>1 DEF auSequences
<1> QED
  BY <1>1, <1>3, <1>4

(* Index entries with different numbers are as many as their numbers. *)
LEMMA Seconds ==
  ASSUME NEW T, \A x, y \in T : x[2] = y[2] => x = y,
         NEW N, N = {x[2] : x \in T}, IsFiniteSet(N)
  PROVE  IsFiniteSet(T) /\ Cardinality(T) = Cardinality(N)
<1> DEFINE f == [x \in T |-> x[2]]
<1>1. f \in Injection(T, N)
  BY DEF Injection, IsInjective
<1>2. f \in Surjection(T, N)
  BY DEF Surjection
<1> HIDE DEF f
<1> QED
  BY <1>1, <1>2, FS_Injection

(* What a range gives to a query: of what a scan would find in it, the topmost in the order of its
   entries, which is the order Q of their numbers. *)
LEMMA Collected ==
  ASSUME TrailShape, NEW q, NEW reader,
         NEW range, \A x, y \in range : x[2] = y[2] => x = y,
         NEW Q, \A x, y \in range : <<x[2], y[2]>> \in Q <=> (x[1] > y[1] \/ (x[1] = y[1] /\ x[2] > y[2])),
         NEW W, W = {n \in query_scan(q, reader) : \E x \in range : x[2] = n},
         NEW got, got = collect_second(range, q, reader)
  PROVE  /\ q.limit = AuNone => got = W
         /\ q.limit # AuNone => got = Topmost(q.limit, Q, W)
<1> DEFINE hits == {x \in range : x[2] \in query_scan(q, reader)}
           Newer(x, y) == x[1] > y[1] \/ (x[1] = y[1] /\ x[2] > y[2])
           Higher(y) == {z \in hits : Newer(z, y)}
           first == {y \in hits : q.limit = AuNone \/ Cardinality(Higher(y)) < q.limit}
<1>1. hits = {x \in range : /\ \E r \in au_records : r.seq = x[2]
                            /\ visible_to(auAt(x[2]), reader) /\ matches(q, auAt(x[2]))}
  <2> SUFFICES ASSUME NEW x \in range
               PROVE  x[2] \in query_scan(q, reader) <=>
                        /\ \E r \in au_records : r.seq = x[2]
                        /\ visible_to(auAt(x[2]), reader) /\ matches(q, auAt(x[2]))
    OBVIOUS
  <2>1. \A r \in au_records : auAt(r.seq) = r
    BY AtNumber
  <2> QED
    BY <2>1, Zenon DEF query_scan
<1>2. got = {x[2] : x \in first}
  BY <1>1, Zenon DEF collect_second
<1>3. W = {x[2] : x \in hits}
  OBVIOUS
<1>4. IsFiniteSet(W)
  <2>1. W \in SUBSET auSequences
    BY DEF query_scan, auSequences
  <2> QED
    BY <2>1, AtNumber, FS_Subset
<1>5. CASE q.limit = AuNone
  BY <1>2, <1>3, <1>5
<1>6. CASE q.limit # AuNone
  <2>1. ASSUME NEW y \in hits
        PROVE  Cardinality(Higher(y)) = Cardinality({m \in W : <<m, y[2]>> \in Q})
    <3> DEFINE N == {m \in W : <<m, y[2]>> \in Q}
    <3>1. N = {z[2] : z \in Higher(y)}
      <4>1. \A z \in hits : Newer(z, y) <=> <<z[2], y[2]>> \in Q
        OBVIOUS
      <4> HIDE DEF hits, Newer
      <4> QED
        BY <1>3, <4>1
    <3>2. IsFiniteSet(N)
      BY <1>4, FS_Subset
    <3>3. \A u, v \in Higher(y) : u[2] = v[2] => u = v
      OBVIOUS
    <3> HIDE DEF N, Higher
    <3>4. IsFiniteSet(Higher(y)) /\ Cardinality(Higher(y)) = Cardinality(N)
      BY <3>1, <3>2, <3>3, Seconds
    <3> QED
      BY <3>4 DEF N
  <2>2. first = {y \in hits : Cardinality({m \in W : <<m, y[2]>> \in Q}) < q.limit}
    <3> HIDE DEF hits, Higher
    <3> QED
      BY <1>6, <2>1
  <2> HIDE DEF hits, first
  <2> DEFINE few(n) == Cardinality({m \in W : <<m, n>> \in Q}) < q.limit
  <2>4. first = {y \in hits : few(y[2])} /\ Topmost(q.limit, Q, W) = {n \in W : few(n)}
    BY <2>2 DEF Topmost
  <2> HIDE DEF few
  <2>3. got = Topmost(q.limit, Q, W)
    BY <1>2, <1>3, <2>4
  <2> QED
    BY <1>6, <2>3
<1> QED
  BY <1>5, <1>6

(* What a scan finds is numbered. *)
LEMMA ScanIsFinite ==
  ASSUME TrailShape, NEW q, NEW reader
  PROVE  query_scan(q, reader) \in SUBSET auSequences /\ query_scan(q, reader) \in SUBSET Nat
         /\ IsFiniteSet(query_scan(q, reader))
<1>1. query_scan(q, reader) \in SUBSET auSequences
  BY DEF query_scan, auSequences
<1>2. IsFiniteSet(auSequences) /\ auSequences \in SUBSET Nat
  BY AtNumber
<1> QED
  BY <1>1, <1>2, FS_Subset

\* The order written, and the order of the timestamps.
Later == {p \in Nat \X Nat : p[1] > p[2]}
Younger == {p \in auSequences \X auSequences :
              auAt(p[1]).time > auAt(p[2]).time \/ (auAt(p[1]).time = auAt(p[2]).time /\ p[1] > p[2])}

(* Numbers are in the order written. *)
LEMMA LaterOrders ==
  ASSUME NEW S \in SUBSET Nat
  PROVE  Orders(Later, S) /\ \A m, n \in S : <<m, n>> \in Later <=> m > n
<1>1. \A m, n \in S : <<m, n>> \in Later <=> m > n
  BY DEF Later
<1>2. \A m \in S : m \in Nat
  OBVIOUS
<1> QED
  BY <1>1, <1>2 DEF Orders

(* And in the order of the timestamps. *)
LEMMA YoungerOrders ==
  ASSUME TrailShape, NEW S \in SUBSET auSequences
  PROVE  Orders(Younger, S)
         /\ \A m, n \in S : <<m, n>> \in Younger <=>
              auAt(m).time > auAt(n).time \/ (auAt(m).time = auAt(n).time /\ m > n)
<1>1. \A m, n \in S : <<m, n>> \in Younger <=>
        auAt(m).time > auAt(n).time \/ (auAt(m).time = auAt(n).time /\ m > n)
  BY DEF Younger
<1>2. \A m \in S : m \in Nat /\ auAt(m).time \in Nat
  <2> SUFFICES ASSUME NEW m \in S PROVE m \in Nat /\ auAt(m).time \in Nat
    OBVIOUS
  <2>1. PICK r \in au_records : r.seq = m
    BY DEF auSequences
  <2> QED
    BY <2>1, AtNumber DEF TrailShape
<1> DEFINE t == [m \in S |-> auAt(m).time]
<1>3. \A m \in S : m \in Nat /\ t[m] \in Nat
  BY <1>2
<1>4. \A m, n \in S : <<m, n>> \in Younger <=> t[m] > t[n] \/ (t[m] = t[n] /\ m > n)
  BY <1>1
<1> HIDE DEF t
<1>5. Orders(Younger, S)
  BY <1>3, <1>4 DEF Orders
<1> QED
  BY <1>1, <1>5

(* The newest of a scan: all of it, or the topmost in the order that goes with the query. *)
LEMMA NewestIs ==
  ASSUME TrailShape, NEW q, NEW reader
  PROVE  /\ q.limit = AuNone => query_newest(q, reader) = query_scan(q, reader)
         /\ q.limit # AuNone /\ (q.corr # AuNone \/ q.principal # AuNone) =>
              query_newest(q, reader) = Topmost(q.limit, Later, query_scan(q, reader))
         /\ q.limit # AuNone /\ q.corr = AuNone /\ q.principal = AuNone =>
              query_newest(q, reader) = Topmost(q.limit, Younger, query_scan(q, reader))
<1> DEFINE want == query_scan(q, reader)
<1>1. want \in SUBSET Nat /\ want \in SUBSET auSequences
  BY ScanIsFinite
<1>2. CASE q.limit = AuNone
  BY <1>2, Zenon DEF query_newest
<1>3. CASE q.limit # AuNone /\ (q.corr # AuNone \/ q.principal # AuNone)
  <2> HIDE DEF want
  <2>1. \A m, n \in want : <<m, n>> \in Later <=> m > n
    BY <1>1, LaterOrders
  <2>2. \A n \in want : {m \in want : m > n} = {m \in want : <<m, n>> \in Later}
    BY <2>1
  <2>3. query_newest(q, reader) = {n \in want : Cardinality({m \in want : m > n}) < q.limit}
    BY <1>3, Zenon DEF query_newest, want
  <2>4. query_newest(q, reader) = Topmost(q.limit, Later, want)
    BY <2>2, <2>3 DEF Topmost
  <2> QED
    BY <1>3, <2>4 DEF want
<1>4. CASE q.limit # AuNone /\ q.corr = AuNone /\ q.principal = AuNone
  <2> DEFINE Above(n) == {m \in want : \/ auAt(m).time > auAt(n).time
                                       \/ auAt(m).time = auAt(n).time /\ m > n}
  <2>1. query_newest(q, reader) = {n \in want : Cardinality(Above(n)) < q.limit}
    BY <1>4, Zenon DEF query_newest
  <2>2. \A n \in want : Above(n) = {m \in want : <<m, n>> \in Younger}
    <3> HIDE DEF want
    <3>1. \A m, n \in want : <<m, n>> \in Younger <=>
            auAt(m).time > auAt(n).time \/ (auAt(m).time = auAt(n).time /\ m > n)
      BY <1>1, YoungerOrders
    <3> QED
      BY <3>1, Zenon
  <2> HIDE DEF want, Above
  <2>3. query_newest(q, reader) = Topmost(q.limit, Younger, want)
    BY <2>1, <2>2 DEF Topmost
  <2> QED
    BY <1>4, <2>3 DEF want
<1> QED
  BY <1>2, <1>3, <1>4

(* What is returned of what the ranges gave. *)
LEMMA GivenIs ==
  ASSUME NEW q, NEW reader, NEW found, found = query_found(q, reader), found \in SUBSET Nat
  PROVE  /\ q.limit = AuNone => query_blocking(q, reader) = found
         /\ q.limit # AuNone => query_blocking(q, reader) = Topmost(q.limit, Later, found)
<1>1. query_blocking(q, reader) = {n \in found : q.limit = AuNone \/ Cardinality({m \in found : m > n}) < q.limit}
  BY Zenon DEF query_blocking
<1>2. \A m, n \in found : <<m, n>> \in Later <=> m > n
  BY LaterOrders
<1>3. \A n \in found : {m \in found : m > n} = {m \in found : <<m, n>> \in Later}
  BY <1>2
<1> QED
  BY <1>1, <1>3 DEF Topmost

\* The entries of a range whose keys are alike.
AlikeKeys(N) == {<<0, n>> : n \in N}

(* They are its numbers. *)
LEMMA NumbersOf ==
  ASSUME TrailShape, NEW N \in SUBSET auSequences
  PROVE  /\ \A x, y \in AlikeKeys(N) : x[2] = y[2] => x = y
         /\ \A x, y \in AlikeKeys(N) :
              <<x[2], y[2]>> \in Later <=> (x[1] > y[1] \/ (x[1] = y[1] /\ x[2] > y[2]))
         /\ \A n : (\E x \in AlikeKeys(N) : x[2] = n) <=> n \in N
<1> DEFINE range == {<<0, n>> : n \in N}
<1>1. N \in SUBSET Nat
  BY AtNumber
<1>2. \A n : <<0, n>>[2] = n
  OBVIOUS
<1>3. \A x \in range : x[1] = 0 /\ x[2] \in N
  OBVIOUS
<1>4. \A x, y \in range : x[2] = y[2] => x = y
  BY <1>1
<1>5. \A n : (\E x \in range : x[2] = n) <=> n \in N
  BY <1>2, Zenon
<1>6. \A m, n \in N : <<m, n>> \in Later <=> m > n
  BY <1>1, LaterOrders
<1>7. ~(0 > 0) /\ range = AlikeKeys(N)
  BY DEF AlikeKeys
<1> HIDE DEF range
<1> QED
  BY <1>3, <1>4, <1>5, <1>6, <1>7

(* So the range of a key gives the topmost of what a scan finds in it. *)
LEMMA RangeGives ==
  ASSUME TrailShape, NEW q, NEW reader, NEW N \in SUBSET auSequences,
         NEW W, W = query_scan(q, reader) \cap N
  PROVE  /\ q.limit = AuNone => collect_second(AlikeKeys(N), q, reader) = W
         /\ q.limit # AuNone => collect_second(AlikeKeys(N), q, reader) = Topmost(q.limit, Later, W)
<1>1. /\ \A x, y \in AlikeKeys(N) : x[2] = y[2] => x = y
      /\ \A x, y \in AlikeKeys(N) :
           <<x[2], y[2]>> \in Later <=> (x[1] > y[1] \/ (x[1] = y[1] /\ x[2] > y[2]))
      /\ \A n : (\E x \in AlikeKeys(N) : x[2] = n) <=> n \in N
  BY NumbersOf
<1> DEFINE range == AlikeKeys(N)
           got == collect_second(range, q, reader)
<1>2. W = {n \in query_scan(q, reader) : \E x \in range : x[2] = n}
  BY <1>1
<1>3. \A x, y \in range : x[2] = y[2] => x = y
  BY <1>1
<1>4. \A x, y \in range : <<x[2], y[2]>> \in Later <=> (x[1] > y[1] \/ (x[1] = y[1] /\ x[2] > y[2]))
  BY <1>1
<1>5. got = collect_second(range, q, reader)
  OBVIOUS
<1>6. /\ q.limit = AuNone => got = W
      /\ q.limit # AuNone => got = Topmost(q.limit, Later, W)
  <2> HIDE DEF range, got
  <2> QED
    BY <1>2, <1>3, <1>4, <1>5, Collected
<1> QED
  BY <1>6

(* A query by operation reads the operation's range, which holds all it may match. *)
LEMMA CorrelationAnswers ==
  ASSUME TrailShape, IndexesAgree, NEW q, NEW reader, q.limit \in Nat \cup {AuNone}, q.corr # AuNone
  PROVE  query_blocking(q, reader) = query_newest(q, reader)
<1> DEFINE want == query_scan(q, reader)
           N == {r.seq : r \in {x \in au_records : x.corr = q.corr}}
           range == AlikeKeys(N)
           got == collect_second(range, q, reader)
<1>1. {<<0, x[2]>> : x \in {y \in au_corr : y[1] = q.corr}} = range
  <2> DEFINE E == {x[2] : x \in {y \in au_corr : y[1] = q.corr}}
  <2>1. ASSUME NEW n PROVE n \in E <=> <<q.corr, n>> \in au_corr
    <3>1. \A x \in au_corr : x = <<x[1], x[2]>>
      BY DEF IndexesAgree
    <3>2. <<q.corr, n>>[1] = q.corr /\ <<q.corr, n>>[2] = n
      OBVIOUS
    <3> QED
      BY <3>1, <3>2, Zenon
  <2>2. ASSUME NEW n PROVE n \in N <=> <<q.corr, n>> \in au_corr
    BY DEF IndexesAgree
  <2>3. E = N
    BY <2>1, <2>2, Zenon
  <2>4. {<<0, x[2]>> : x \in {y \in au_corr : y[1] = q.corr}} = {<<0, n>> : n \in E}
    OBVIOUS
  <2> QED
    BY <2>3, <2>4 DEF AlikeKeys
<1>2. query_found(q, reader) = got
  BY <1>1, Zenon DEF query_found
<1>3. N \in SUBSET auSequences
  BY DEF auSequences
<1>4. want \cap N = want
  BY DEF query_scan, matches
<1>5. want \in SUBSET Nat /\ IsFiniteSet(want)
  BY ScanIsFinite
<1>6. /\ q.limit = AuNone => got = want
      /\ q.limit # AuNone => got = Topmost(q.limit, Later, want)
  <2>1. got = collect_second(AlikeKeys(N), q, reader) /\ want = query_scan(q, reader) \cap N
    BY <1>4
  <2> HIDE DEF want, N, range, got
  <2> QED
    BY <1>3, <2>1, RangeGives
<1>7. got \in SUBSET want
  <2> HIDE DEF want, got
  <2> QED
    BY <1>6 DEF Topmost
<1>8. /\ q.limit = AuNone => query_blocking(q, reader) = got
      /\ q.limit # AuNone => query_blocking(q, reader) = Topmost(q.limit, Later, got)
  <2> HIDE DEF got, want
  <2> QED
    BY <1>2, <1>5, <1>7, GivenIs
<1> HIDE DEF got, want
<1>9. CASE q.limit = AuNone
  BY <1>6, <1>8, <1>9, NewestIs DEF want
<1>10. CASE q.limit # AuNone
  <2>1. Orders(Later, want)
    BY <1>5, LaterOrders
  <2>2. q.limit \in Nat /\ want \cup want = want /\ got \cup got = got
    BY <1>10
  <2>3. Topmost(q.limit, Later, got) = Topmost(q.limit, Later, want)
    BY <1>5, <1>6, <1>10, <2>1, <2>2, TopJoined
  <2> QED
    BY <1>8, <1>10, <2>3, NewestIs DEF want
<1> QED
  BY <1>9, <1>10

(* A query by time reads the range between its bounds, in the order of the timestamps. *)
LEMMA TimeAnswers ==
  ASSUME TrailShape, IndexesAgree, NEW q, NEW reader, q.limit \in Nat \cup {AuNone},
         q.corr = AuNone, q.principal = AuNone
  PROVE  query_blocking(q, reader) = query_newest(q, reader)
<1> DEFINE want == query_scan(q, reader)
           range == {x \in au_time : /\ q.since # AuNone => x[1] >= q.since
                                     /\ q.until # AuNone => x[1] <= q.until}
           got == collect_second(range, q, reader)
<1>1. query_found(q, reader) = got
  BY Zenon DEF query_found
<1>2. \A x \in range : \E r \in au_records : x = <<r.time, r.seq>>
  BY DEF IndexesAgree
<1>3. \A x, y \in range : x[2] = y[2] => x = y
  BY <1>2 DEF TrailShape
<1>4. \A x \in range : x[2] \in auSequences /\ auAt(x[2]).time = x[1]
  <2> SUFFICES ASSUME NEW x \in range PROVE x[2] \in auSequences /\ auAt(x[2]).time = x[1]
    OBVIOUS
  <2>1. PICK r \in au_records : x = <<r.time, r.seq>>
    BY <1>2
  <2>2. auAt(r.seq) = r
    BY AtNumber
  <2> QED
    BY <2>1, <2>2 DEF auSequences
<1>5. \A x, y \in range : <<x[2], y[2]>> \in Younger <=> (x[1] > y[1] \/ (x[1] = y[1] /\ x[2] > y[2]))
  <2>1. \A m, n \in auSequences : <<m, n>> \in Younger <=>
          auAt(m).time > auAt(n).time \/ (auAt(m).time = auAt(n).time /\ m > n)
    BY YoungerOrders
  <2> HIDE DEF range
  <2> QED
    BY <1>4, <2>1
<1>6. ASSUME NEW n \in want PROVE \E x \in range : x[2] = n
  <2>1. PICK r \in au_records : r.seq = n /\ matches(q, r)
    BY DEF query_scan
  <2>2. <<r.time, r.seq>> \in range
    BY <2>1 DEF IndexesAgree, matches
  <2> QED
    BY <2>1, <2>2
<1>7. want = {n \in query_scan(q, reader) : \E x \in range : x[2] = n}
  <2> HIDE DEF range
  <2> QED
    BY <1>6
<1>8. want \in SUBSET Nat /\ IsFiniteSet(want) /\ want \in SUBSET auSequences
  BY ScanIsFinite
<1>9. /\ q.limit = AuNone => got = want
      /\ q.limit # AuNone => got = Topmost(q.limit, Younger, want)
  <2>1. got = collect_second(range, q, reader)
    OBVIOUS
  <2> HIDE DEF want, range, got
  <2> QED
    BY <1>3, <1>5, <1>7, <2>1, Collected
<1>10. got \in SUBSET want
  <2> HIDE DEF want, got
  <2> QED
    BY <1>9 DEF Topmost
<1>11. /\ q.limit = AuNone => query_blocking(q, reader) = got
       /\ q.limit # AuNone => query_blocking(q, reader) = Topmost(q.limit, Later, got)
  <2> HIDE DEF got, want
  <2> QED
    BY <1>1, <1>8, <1>10, GivenIs
<1> HIDE DEF got, want
<1>12. CASE q.limit = AuNone
  BY <1>9, <1>11, <1>12, NewestIs DEF want
<1>13. CASE q.limit # AuNone
  <2>1. q.limit \in Nat /\ Orders(Younger, want)
    BY <1>8, <1>13, YoungerOrders
  <2>2. /\ IsFiniteSet(got) /\ Cardinality(want) \in Nat
        /\ Cardinality(got) = IF q.limit < Cardinality(want) THEN q.limit ELSE Cardinality(want)
    BY <1>8, <1>9, <1>13, <2>1, TopOf
  <2>3. Cardinality(got) <= q.limit /\ Orders(Later, got) /\ Cardinality(got) \in Nat
    BY <1>8, <1>10, <2>1, <2>2, LaterOrders
  <2>4. Topmost(q.limit, Later, got) = got
    BY <2>1, <2>2, <2>3, TopOfFew
  <2> QED
    BY <1>9, <1>11, <1>13, <2>4, NewestIs DEF want
<1> QED
  BY <1>12, <1>13

(* A query by principal reads the principal's range and the system's: the newest of either hold the
   newest of both. *)
LEMMA PrincipalAnswers ==
  ASSUME TrailShape, IndexesAgree, NEW q, NEW reader, q.limit \in Nat \cup {AuNone},
         q.corr = AuNone, q.principal # AuNone
  PROVE  query_blocking(q, reader) = query_newest(q, reader)
<1> DEFINE want == query_scan(q, reader)
           N(p) == {r.seq : r \in {x \in au_records : p \in indexed_principals(x)}}
           range(p) == AlikeKeys(N(p))
           W(p) == want \cap N(p)
           got(p) == collect_second(range(p), q, reader)
           one == got(q.principal)
           two == got("system")
           A == W(q.principal)
           B == W("system")
           found == one \cup two
<1>1. ASSUME NEW p PROVE {<<0, x[2]>> : x \in {y \in au_principal : y[1] = p}} = range(p)
  <2> DEFINE E == {x[2] : x \in {y \in au_principal : y[1] = p}}
  <2>1. ASSUME NEW n PROVE n \in E <=> <<p, n>> \in au_principal
    <3>1. \A x \in au_principal : x = <<x[1], x[2]>>
      BY DEF IndexesAgree
    <3>2. <<p, n>>[1] = p /\ <<p, n>>[2] = n
      OBVIOUS
    <3> QED
      BY <3>1, <3>2, Zenon
  <2>2. ASSUME NEW n PROVE n \in N(p) <=> <<p, n>> \in au_principal
    BY DEF IndexesAgree
  <2>3. E = N(p)
    BY <2>1, <2>2, Zenon
  <2>4. {<<0, x[2]>> : x \in {y \in au_principal : y[1] = p}} = {<<0, n>> : n \in E}
    OBVIOUS
  <2> QED
    BY <2>3, <2>4 DEF AlikeKeys
<1>2. query_found(q, reader) = found
  <2>1. query_found(q, reader)
          = UNION {collect_second({<<0, x[2]>> : x \in {y \in au_principal : y[1] = p}}, q, reader) :
                     p \in {q.principal, "system"}}
    BY Zenon DEF query_found, scanned_principals
  <2> DEFINE of(p) == {<<0, x[2]>> : x \in {y \in au_principal : y[1] = p}}
  <2>2. of(q.principal) = range(q.principal) /\ of("system") = range("system")
    BY <1>1
  <2>3. query_found(q, reader) = UNION {collect_second(of(p), q, reader) : p \in {q.principal, "system"}}
    BY <2>1
  <2> HIDE DEF range, of
  <2>4. query_found(q, reader)
          = collect_second(of(q.principal), q, reader) \cup collect_second(of("system"), q, reader)
    BY <2>3
  <2> QED
    BY <2>2, <2>4
<1>3. ASSUME NEW p
      PROVE  /\ q.limit = AuNone => got(p) = W(p)
             /\ q.limit # AuNone => got(p) = Topmost(q.limit, Later, W(p))
  <2>1. N(p) \in SUBSET auSequences
    BY DEF auSequences
  <2>2. /\ got(p) = collect_second(AlikeKeys(N(p)), q, reader)
        /\ W(p) = query_scan(q, reader) \cap N(p)
    OBVIOUS
  <2> HIDE DEF want, range, got, W, N
  <2> QED
    BY <2>1, <2>2, RangeGives
<1>4. want \in SUBSET (N(q.principal) \cup N("system"))
  <2> SUFFICES ASSUME NEW n \in want PROVE n \in N(q.principal) \/ n \in N("system")
    OBVIOUS
  <2>1. PICK r \in au_records : r.seq = n /\ matches(q, r)
    BY DEF query_scan
  <2>2. concerns(r, q.principal)
    BY <2>1 DEF matches
  <2>3. CASE is_about_the_trail(r)
    <3>1. r.principal = "system"
      BY <2>3 DEF TrailShape
    <3> QED
      BY <2>1, <3>1 DEF indexed_principals
  <2>4. CASE q.principal \in {r.principal, r.behalf}
    BY <2>1, <2>4 DEF indexed_principals
  <2> QED
    BY <2>2, <2>3, <2>4 DEF concerns
<1>5. want = A \cup B
  <2> HIDE DEF N, want
  <2> QED
    BY <1>4
<1>6. want \in SUBSET Nat /\ IsFiniteSet(want)
  BY ScanIsFinite
<1>7. /\ q.limit = AuNone => one = A /\ two = B
      /\ q.limit # AuNone => one = Topmost(q.limit, Later, A) /\ two = Topmost(q.limit, Later, B)
  <2> HIDE DEF W, got
  <2> QED
    BY <1>3
<1> HIDE DEF W, got, want, N, range, one, two, A, B
<1>8. found \in SUBSET want
  BY <1>5, <1>7 DEF Topmost
<1>9. /\ q.limit = AuNone => query_blocking(q, reader) = found
      /\ q.limit # AuNone => query_blocking(q, reader) = Topmost(q.limit, Later, found)
  <2> HIDE DEF found
  <2> QED
    BY <1>2, <1>6, <1>8, GivenIs
<1>10. CASE q.limit = AuNone
  BY <1>5, <1>7, <1>9, <1>10, NewestIs DEF want
<1>11. CASE q.limit # AuNone
  <2>1. Orders(Later, want) /\ q.limit \in Nat
    BY <1>6, <1>11, LaterOrders
  <2>2. Topmost(q.limit, Later, found) = Topmost(q.limit, Later, want)
    BY <1>5, <1>6, <1>7, <1>11, <2>1, TopJoined
  <2> QED
    BY <1>9, <1>11, <2>2, NewestIs DEF want
<1> QED
  BY <1>10, <1>11

(* Whichever index answers. *)
LEMMA QueriesHold ==
  ASSUME AuditConstants, TrailShape, IndexesAgree
  PROVE  QueriesAnswerAlike
<1> SUFFICES ASSUME NEW q \in AuQueries, NEW reader \in AuReaders
             PROVE  query_blocking(q, reader) = query_newest(q, reader)
  BY DEF QueriesAnswerAlike
<1>1. q.limit \in Nat \cup {AuNone}
  BY DEF AuditConstants
<1> QED
  BY <1>1, CorrelationAnswers, TimeAnswers, PrincipalAnswers

\* What was ever numbered is still there, or a marker counts it.
Numbered == au_issued = Cardinality(au_records) + auSum({r \in au_records : r.kind = "retention"})

\* The events the trail shows: by a record of their own, or in the count of a record about the trail.
TrailCounts ==
  Cardinality({r \in au_records : ~is_about_the_trail(r)})
  + auSum({r \in au_records : is_about_the_trail(r)})

\* The streams carry decisions and invocations; what is in hand is one of those, or a gap.
SinkShape ==
  /\ au_now \in Nat /\ au_published \in Nat /\ au_unwritten \in Nat /\ au_lost \in Nat
  /\ au_failures \in Nat
  /\ au_stream \in [AuKinds -> [q : Seq({e \in AuEntries : e.kind \in AuKinds}), lag : Nat]]
  /\ au_hand # AuNone => /\ au_hand \in AuEntries /\ au_hand.kind # "retention"
                         /\ is_about_the_trail(au_hand) => au_hand.principal = "system"

\* Every event published is shown, or on its way, or its append failed, or it went with a process.
SinkCounts ==
  /\ au_published = TrailCounts + auInHand + auOnItsWay("authorization") + auOnItsWay("invocation")
                    + au_unwritten + au_lost
  /\ au_failures = 0 => au_unwritten = 0

AuditInv == TrailShape /\ IndexesAgree /\ Numbered /\ SinkShape /\ SinkCounts

(* A transaction that keeps some records and appends one leaves the tables agreeing. *)
LEMMA AppendedAgrees ==
  ASSUME TrailShape, IndexesAgree, NEW e \in AuEntries, NEW kept \in SUBSET auSequences,
         is_about_the_trail(e) => e.principal = "system", auAppended(e, kept)
  PROVE  TrailShape' /\ IndexesAgree'
<1> DEFINE n == au_issued + 1
           m == auRecord(e, n)
           K == {r \in au_records : r.seq \in kept}
<1>1. /\ m.time = e.time /\ m.count = e.count /\ m.seq = n /\ m.kind = e.kind
      /\ m.principal = e.principal /\ m.behalf = e.behalf /\ m.corr = e.corr
  BY DEF auRecord
<1>2. e.time \in Nat /\ e.count \in Nat
  BY DEF AuEntries
<1>3. au_records' = K \cup {m} /\ au_issued' = n /\ au_issued \in Nat
  BY DEF auAppended, TrailShape
<1>4. /\ au_time' = {x \in au_time : x[2] \in kept} \cup {<<e.time, n>>}
      /\ au_principal' = {x \in au_principal : x[2] \in kept} \cup {<<p, n>> : p \in indexed_principals(e)}
      /\ au_corr' = {x \in au_corr : x[2] \in kept} \cup {<<e.corr, n>>}
  BY DEF auAppended
<1>5. \A r \in au_records : r.seq # n
  BY DEF TrailShape
<1>6. IsFiniteSet(K \cup {m})
  <2>1. IsFiniteSet(K)
    BY FS_Subset DEF TrailShape
  <2> HIDE DEF K
  <2> QED
    BY <2>1, FS_AddElement
<1>7. ASSUME NEW r \in au_records'
      PROVE  /\ r.time \in Nat /\ r.count \in Nat /\ r.seq \in Nat
             /\ r.seq <= n
             /\ is_about_the_trail(r) => r.principal = "system"
  <2>1. CASE r \in K
    BY <2>1 DEF TrailShape
  <2>2. CASE r = m
    BY <1>1, <1>2, <1>3, <2>2 DEF is_about_the_trail
  <2> QED
    BY <1>3, <2>1, <2>2
<1>8. \A r, s \in au_records' : r.seq = s.seq => r = s
  BY <1>1, <1>3, <1>5 DEF TrailShape
<1>9. TrailShape'
  BY <1>3, <1>6, <1>7, <1>8 DEF TrailShape
<1> HIDE DEF m
<1>10. au_time' = {<<r.time, r.seq>> : r \in au_records'}
  BY <1>1, <1>3, <1>4 DEF IndexesAgree
<1>11. au_corr' = {<<r.corr, r.seq>> : r \in au_records'}
  BY <1>1, <1>3, <1>4 DEF IndexesAgree
<1>12. au_principal' = UNION {{<<p, r.seq>> : p \in indexed_principals(r)} : r \in au_records'}
  <2>1. indexed_principals(m) = indexed_principals(e)
    BY <1>1 DEF indexed_principals
  <2> HIDE DEF K
  <2>2. {x \in au_principal : x[2] \in kept} = UNION {{<<p, r.seq>> : p \in indexed_principals(r)} : r \in K}
    BY DEF IndexesAgree, K
  <2>3. UNION {{<<p, r.seq>> : p \in indexed_principals(r)} : r \in K \cup {m}}
        = (UNION {{<<p, r.seq>> : p \in indexed_principals(r)} : r \in K})
          \cup {<<p, m.seq>> : p \in indexed_principals(m)}
    OBVIOUS
  <2> QED
    BY <1>1, <1>3, <1>4, <2>1, <2>2, <2>3
<1>13. IndexesAgree'
  BY <1>10, <1>11, <1>12 DEF IndexesAgree
<1> QED
  BY <1>9, <1>13

(* As many records as numbers in use. *)
LEMMA RecordsNumbered ==
  ASSUME TrailShape, NEW kept \in SUBSET auSequences,
         NEW K, K = {r \in au_records : r.seq \in kept}
  PROVE  IsFiniteSet(K) /\ Cardinality(K) = Cardinality(kept) /\ IsFiniteSet(kept)
<1> DEFINE f == [r \in K |-> r.seq]
<1>1. IsFiniteSet(kept)
  BY AtNumber, FS_Subset
<1>2. f \in Injection(K, kept)
  BY DEF Injection, IsInjective, TrailShape
<1>3. f \in Surjection(K, kept)
  BY DEF Surjection, auSequences
<1> HIDE DEF f
<1> QED
  BY <1>1, <1>2, <1>3, FS_Injection

(* A transaction that removes records writes down how many; it removes no marker. *)
LEMMA StaysNumbered ==
  ASSUME TrailShape, Numbered, NEW e \in AuEntries, NEW kept \in SUBSET auSequences,
         auAppended(e, kept), \A r \in au_records : r.kind = "retention" => r.seq \in kept,
         e.kind = "retention" => e.count = Cardinality(auSequences \ kept),
         e.kind # "retention" => kept = auSequences
  PROVE  Numbered'
<1> DEFINE n == au_issued + 1
           m == auRecord(e, n)
           K == {r \in au_records : r.seq \in kept}
           M == {r \in au_records : r.kind = "retention"}
           a == Cardinality(au_records)
           b == Cardinality(K)
           g == Cardinality(auSequences \ kept)
<1>1. m.count = e.count /\ m.seq = n /\ m.kind = e.kind /\ e.count \in Nat
  BY DEF auRecord, AuEntries
<1>2. au_records' = K \cup {m} /\ au_issued' = n /\ au_issued \in Nat
  BY DEF auAppended, TrailShape
<1>3. m \notin au_records
  BY <1>1 DEF TrailShape
<1>4. /\ IsFiniteSet(K) /\ b = Cardinality(kept) /\ b \in Nat /\ IsFiniteSet(kept)
      /\ a = Cardinality(auSequences) /\ a \in Nat
  <2>1. IsFiniteSet(K) /\ b = Cardinality(kept) /\ IsFiniteSet(kept)
    <3>1. K = {r \in au_records : r.seq \in kept}
      OBVIOUS
    <3> HIDE DEF K
    <3> QED
      BY <3>1, RecordsNumbered
  <2>2. au_records = {r \in au_records : r.seq \in auSequences}
    BY DEF auSequences
  <2>3. IsFiniteSet(au_records) /\ a = Cardinality(auSequences)
    BY <2>2, RecordsNumbered
  <2>4. b \in Nat /\ a \in Nat
    <3> HIDE DEF K
    <3> QED
      BY <2>1, <2>3, FS_CardinalityType
  <2> QED
    BY <2>1, <2>3, <2>4
<1>5. g = a - b /\ g \in Nat
  <2>1. IsFiniteSet(auSequences)
    BY AtNumber
  <2>2. /\ IsFiniteSet(auSequences \ kept)
        /\ Cardinality(auSequences \ kept) = Cardinality(auSequences) - Cardinality(auSequences \cap kept)
    BY <2>1, FS_Difference
  <2>3. auSequences \cap kept = kept
    OBVIOUS
  <2>4. g \in Nat
    BY <2>2, FS_CardinalityType
  <2> QED
    BY <1>4, <2>2, <2>3, <2>4
<1>6. Cardinality(au_records') = b + 1
  <2>1. m \notin K
    BY <1>3
  <2> HIDE DEF K, m
  <2> QED
    BY <1>2, <1>4, <2>1, FS_AddElement
<1>7. /\ IsFiniteSet(M) /\ \A r \in M : r.count \in Nat
      /\ m \notin M /\ m.count \in Nat /\ M \in SUBSET K
  <2>1. IsFiniteSet(M)
    BY FS_Subset DEF TrailShape
  <2>2. \A r \in M : r.count \in Nat
    BY DEF TrailShape
  <2> QED
    BY <1>1, <1>3, <2>1, <2>2
<1>8. auSum(M) \in Nat /\ auSum(M \cup {m}) = auSum(M) + m.count
  <2> HIDE DEF M, m
  <2> QED
    BY <1>7, CountsAdd
<1>9. au_issued = a + auSum(M)
  BY DEF Numbered
<1>10. CASE e.kind = "retention"
  <2>1. {r \in au_records' : r.kind = "retention"} = M \cup {m}
    BY <1>1, <1>2, <1>7, <1>10
  <2>2. au_issued' = Cardinality(au_records') + auSum(M \cup {m})
    <3> HIDE DEF M, m, a, b, g
    <3>1. m.count = g
      BY <1>1, <1>10 DEF g
    <3> QED
      BY <1>2, <1>4, <1>5, <1>6, <1>8, <1>9, <3>1
  <2> QED
    BY <2>1, <2>2 DEF Numbered
<1>11. CASE e.kind # "retention"
  <2>1. {r \in au_records' : r.kind = "retention"} = M
    BY <1>1, <1>2, <1>7, <1>11
  <2>2. b = a
    BY <1>4, <1>11
  <2>3. au_issued' = Cardinality(au_records') + auSum(M)
    <3> HIDE DEF M, m, a, b, g
    <3> QED
      BY <1>2, <1>4, <1>6, <1>8, <1>9, <2>2
  <2> QED
    BY <2>1, <2>3 DEF Numbered
<1> QED
  BY <1>10, <1>11

(* What the trail shows is a number. *)
LEMMA TrailIsNat ==
  ASSUME TrailShape
  PROVE  TrailCounts \in Nat
<1> DEFINE M == {r \in au_records : is_about_the_trail(r)}
           O == {r \in au_records : ~is_about_the_trail(r)}
           z == [count |-> 0, seq |-> au_issued + 1]
<1>1. IsFiniteSet(M) /\ IsFiniteSet(O)
  BY FS_Subset DEF TrailShape
<1>2. /\ \A r \in M : r.count \in Nat
      /\ z \notin M /\ z.count \in Nat
  BY DEF TrailShape
<1>3. auSum(M) \in Nat /\ Cardinality(O) \in Nat
  <2> HIDE DEF M, O, z
  <2> QED
    BY <1>1, <1>2, CountsAdd, FS_CardinalityType
<1> HIDE DEF M, O
<1>4. Cardinality(O) + auSum(M) \in Nat
  BY <1>3
<1> QED
  BY <1>4 DEF TrailCounts, M, O

(* A transaction shows the events of the entry it appends, and keeps showing what it removes. *)
LEMMA StaysShown ==
  ASSUME TrailShape, NEW e \in AuEntries, NEW kept \in SUBSET auSequences,
         auAppended(e, kept), \A r \in au_records : is_about_the_trail(r) => r.seq \in kept,
         e.kind = "retention" => e.count = Cardinality(auSequences \ kept),
         e.kind # "retention" => kept = auSequences
  PROVE  TrailCounts' = TrailCounts + (IF e.kind = "retention" THEN 0 ELSE auAccounts(e))
<1> DEFINE n == au_issued + 1
           m == auRecord(e, n)
           K == {r \in au_records : r.seq \in kept}
           M == {r \in au_records : is_about_the_trail(r)}
           O == {r \in au_records : ~is_about_the_trail(r)}
           L == {r \in K : ~is_about_the_trail(r)}
           D == {r \in au_records : r.seq \in auSequences \ kept}
           g == Cardinality(auSequences \ kept)
<1>1. m.count = e.count /\ m.seq = n /\ m.kind = e.kind /\ e.count \in Nat
  BY DEF auRecord, AuEntries
<1>2. au_records' = K \cup {m}
  BY DEF auAppended
<1>3. m \notin au_records
  BY <1>1 DEF TrailShape
<1>4. IsFiniteSet(M) /\ IsFiniteSet(O) /\ \A r \in M : r.count \in Nat
  <2>1. IsFiniteSet(M) /\ IsFiniteSet(O)
    BY FS_Subset DEF TrailShape
  <2>2. \A r \in M : r.count \in Nat
    BY DEF TrailShape
  <2> QED
    BY <2>1, <2>2
<1>5. auSum(M) \in Nat /\ auSum(M \cup {m}) = auSum(M) + m.count
  <2>1. m \notin M /\ m.count \in Nat
    BY <1>1, <1>3
  <2> HIDE DEF M, m
  <2> QED
    BY <1>4, <2>1, CountsAdd
<1>6. g \in Nat /\ Cardinality(L) \in Nat /\ Cardinality(O) = Cardinality(L) + g
  <2>1. auSequences \ kept \in SUBSET auSequences
    OBVIOUS
  <2>2. IsFiniteSet(D) /\ Cardinality(D) = g
    <3>1. D = {r \in au_records : r.seq \in auSequences \ kept}
      OBVIOUS
    <3> HIDE DEF D
    <3> QED
      BY <2>1, <3>1, RecordsNumbered
  <2>3. O \cap D = D /\ O \ D = L
    BY DEF auSequences
  <2> HIDE DEF O, D, L, g
  <2>4. IsFiniteSet(O \ D) /\ Cardinality(O \ D) = Cardinality(O) - Cardinality(O \cap D)
    BY <1>4, FS_Difference
  <2>5. Cardinality(D) \in Nat /\ Cardinality(O) \in Nat /\ Cardinality(O \ D) \in Nat
    BY <1>4, <2>2, <2>4, FS_CardinalityType
  <2>6. Cardinality(O \cap D) = g /\ Cardinality(O \ D) = Cardinality(L)
    BY <2>2, <2>3
  <2>7. g \in Nat
    BY <2>2, <2>5
  <2> QED
    BY <2>4, <2>5, <2>6, <2>7
<1>7. TrailCounts = Cardinality(O) + auSum(M)
  BY DEF TrailCounts
<1>8. ASSUME NEW A, A = {r \in au_records' : is_about_the_trail(r)},
             NEW B, B = {r \in au_records' : ~is_about_the_trail(r)}
      PROVE  TrailCounts' = Cardinality(B) + auSum(A)
  BY <1>8 DEF TrailCounts
<1>9. is_about_the_trail(m) <=> is_about_the_trail(e)
  BY <1>1 DEF is_about_the_trail
<1>10. M \in SUBSET K
  OBVIOUS
<1>11. CASE is_about_the_trail(e)
  <2>1. {r \in au_records' : is_about_the_trail(r)} = M \cup {m}
    BY <1>2, <1>9, <1>10, <1>11
  <2>2. {r \in au_records' : ~is_about_the_trail(r)} = L
    BY <1>2, <1>9, <1>11
  <2> HIDE DEF M, O, L, m, K, g
  <2>3. TrailCounts' = Cardinality(L) + auSum(M \cup {m})
    BY <1>8, <2>1, <2>2
  <2>4. CASE e.kind = "retention"
    <3>1. e.count = g
      BY <2>4 DEF g
    <3> QED
      BY <1>1, <1>5, <1>6, <1>7, <2>3, <2>4, <3>1
  <2>5. CASE e.kind # "retention"
    <3>1. g = 0
      <4>1. auSequences \ kept = {}
        BY <2>5
      <4> QED
        BY <4>1, FS_EmptySet DEF g
    <3>2. auAccounts(e) = e.count
      BY <1>11 DEF auAccounts
    <3> QED
      BY <1>1, <1>5, <1>6, <1>7, <2>3, <2>5, <3>1, <3>2
  <2> QED
    BY <2>4, <2>5
<1>12. CASE ~is_about_the_trail(e)
  <2>1. e.kind # "retention" /\ kept = auSequences /\ K = au_records
    BY <1>12 DEF is_about_the_trail, auSequences
  <2>2. {r \in au_records' : is_about_the_trail(r)} = M
    BY <1>2, <1>9, <1>12, <2>1
  <2>3. {r \in au_records' : ~is_about_the_trail(r)} = O \cup {m}
    BY <1>2, <1>9, <1>12, <2>1
  <2>4. m \notin O
    BY <1>3
  <2>5. auAccounts(e) = 1
    BY <1>12 DEF auAccounts
  <2> HIDE DEF M, O, L, m, K, g
  <2>6. TrailCounts' = Cardinality(O \cup {m}) + auSum(M)
    BY <1>8, <2>2, <2>3
  <2>7. Cardinality(O \cup {m}) = Cardinality(O) + 1 /\ Cardinality(O) \in Nat
    BY <1>4, <2>4, FS_AddElement, FS_CardinalityType
  <2> QED
    BY <1>5, <1>7, <2>1, <2>5, <2>6, <2>7
<1> QED
  BY <1>11, <1>12

(* What the streams are in the process that has just started. *)
LEMMA AuditStarts ==
  ASSUME AuditConstants, AuditInit
  PROVE  AuditInv
<1>1. au_records = {} /\ au_issued = 0 /\ au_time = {} /\ au_principal = {} /\ au_corr = {}
  BY DEF AuditInit
<1>2. IsFiniteSet({}) /\ Cardinality({}) = 0
  BY FS_EmptySet
<1>3. TrailShape /\ IndexesAgree
  BY <1>1, <1>2 DEF TrailShape, IndexesAgree
<1>4. auSum({}) = 0
  BY NoneCount
<1>5. Numbered
  <2>1. {r \in au_records : r.kind = "retention"} = {}
    BY <1>1
  <2> QED
    BY <1>1, <1>2, <1>4, <2>1 DEF Numbered
<1>6. SinkShape
  BY DEF AuditInit, SinkShape, AuKinds
<1>7. TrailCounts = 0
  <2>1. {r \in au_records : is_about_the_trail(r)} = {} /\ {r \in au_records : ~is_about_the_trail(r)} = {}
    BY <1>1
  <2>2. /\ auSum({r \in au_records : is_about_the_trail(r)}) = 0
        /\ Cardinality({r \in au_records : ~is_about_the_trail(r)}) = 0
    BY <1>2, <1>4, <2>1, Zenon
  <2>3. TrailCounts = 0 + 0
    BY <2>2, Zenon DEF TrailCounts
  <2> QED
    BY <2>3
<1>8. auInHand = 0 /\ auOnItsWay("authorization") = 0 /\ auOnItsWay("invocation") = 0
  BY DEF AuditInit, auOnItsWay, auInHand, AuKinds
<1>9. SinkCounts
  BY <1>7, <1>8 DEF AuditInit, SinkCounts
<1> QED
  BY <1>3, <1>5, <1>6, <1>9 DEF AuditInv

(* Entries are entries. *)
LEMMA EntriesFit ==
  ASSUME AuditConstants, NEW at \in Nat, NEW n \in Nat
  PROVE  /\ \A e \in AuEvents : /\ AuditEntry(e, at) \in {x \in AuEntries : x.kind \in AuKinds}
         /\ AuditGap(n, at) \in AuEntries /\ AuditGap(n, at).kind = "gap"
         /\ AuditGap(n, at).principal = "system" /\ AuditGap(n, at).count = n
         /\ RetentionApplied(n, at) \in AuEntries /\ RetentionApplied(n, at).kind = "retention"
         /\ RetentionApplied(n, at).principal = "system" /\ RetentionApplied(n, at).count = n
<1>1. ASSUME NEW e \in AuEvents
      PROVE  AuditEntry(e, at) \in {x \in AuEntries : x.kind \in AuKinds}
  BY DEF AuditEntry, AuEntries, AuditConstants
<1>2. /\ AuditGap(n, at) \in AuEntries /\ AuditGap(n, at).kind = "gap"
      /\ AuditGap(n, at).principal = "system" /\ AuditGap(n, at).count = n
  BY DEF AuditGap, AuEntries
<1>3. /\ RetentionApplied(n, at) \in AuEntries /\ RetentionApplied(n, at).kind = "retention"
      /\ RetentionApplied(n, at).principal = "system" /\ RetentionApplied(n, at).count = n
  BY DEF AuditGap, AuEntries, RetentionApplied
<1> QED
  BY <1>1, <1>2, <1>3

(* The trail is untouched by what leaves the store alone. *)
LEMMA StoreKept ==
  ASSUME TrailShape, IndexesAgree, Numbered, UNCHANGED auStore
  PROVE  TrailShape' /\ IndexesAgree' /\ Numbered' /\ TrailCounts' = TrailCounts
<1>1. TrailShape' /\ IndexesAgree' /\ Numbered'
  BY DEF TrailShape, IndexesAgree, Numbered, auStore
<1>2. TrailCounts' = TrailCounts
  BY DEF TrailCounts, auStore
<1> QED
  BY <1>1, <1>2

(* What is in the sink's memory is a number of events. *)
LEMMA SinkIsNat ==
  ASSUME SinkShape
  PROVE  auInHand \in Nat /\ auOnItsWay("authorization") \in Nat /\ auOnItsWay("invocation") \in Nat
<1>1. auInHand \in Nat
  BY DEF SinkShape, auInHand, auAccounts, AuEntries
<1>2. auOnItsWay("authorization") \in Nat /\ auOnItsWay("invocation") \in Nat
  BY DEF SinkShape, auOnItsWay, AuKinds
<1> QED
  BY <1>1, <1>2

(* An event published is on its way, or pushes the oldest out into the lag. *)
LEMMA PublishKeeps ==
  ASSUME AuditConstants, TrailShape, SinkShape, SinkCounts, TrailCounts' = TrailCounts,
         NEW e \in AuEvents, AuPublish(e)
  PROVE  SinkShape' /\ SinkCounts'
<1> DEFINE E == {x \in AuEntries : x.kind \in AuKinds}
           k == e.kind
           s == au_stream[k]
           x == AuditEntry(e, au_now)
           t == auPushed(s, x)
<1>1. k \in AuKinds /\ AuCapacity \in Nat \ {0}
  BY DEF AuditConstants
<1>2. x \in E
  BY EntriesFit DEF SinkShape
<1>3. s \in [q : Seq(E), lag : Nat]
  BY <1>1 DEF SinkShape
<1>4. t \in [q : Seq(E), lag : Nat] /\ t.lag + Len(t.q) = s.lag + Len(s.q) + 1
  <2> HIDE DEF E, x, s
  <2>1. s.q \in Seq(E) /\ s.lag \in Nat /\ Len(s.q) \in Nat
    BY <1>3
  <2>2. CASE Len(s.q) < AuCapacity
    <3>1. t = [s EXCEPT !.q = Append(@, x)]
      BY <2>2 DEF auPushed
    <3>2. t = [q |-> Append(s.q, x), lag |-> s.lag]
      BY <1>3, <3>1
    <3> QED
      BY <1>2, <2>1, <3>2
  <2>3. CASE ~(Len(s.q) < AuCapacity)
    <3>1. t = [q |-> Append(Tail(s.q), x), lag |-> s.lag + 1]
      BY <2>3 DEF auPushed
    <3>2. s.q # << >>
      BY <1>1, <2>1, <2>3
    <3>3. Tail(s.q) \in Seq(E) /\ Len(Tail(s.q)) = Len(s.q) - 1
      BY <2>1, <3>2
    <3>4. Append(Tail(s.q), x) \in Seq(E) /\ Len(Append(Tail(s.q), x)) = Len(s.q)
      BY <1>2, <2>1, <3>3
    <3> DEFINE y == Append(Tail(s.q), x)
    <3>5. t = [q |-> y, lag |-> s.lag + 1] /\ y \in Seq(E) /\ Len(y) = Len(s.q)
      BY <3>1, <3>4
    <3> HIDE DEF y
    <3> QED
      BY <2>1, <3>5
  <2> QED
    BY <2>2, <2>3
<1>5. au_stream' = [au_stream EXCEPT ![k] = t]
  BY DEF AuPublish
<1>6. au_stream \in [AuKinds -> [q : Seq(E), lag : Nat]]
  BY DEF SinkShape
<1>7. au_stream' \in [AuKinds -> [q : Seq(E), lag : Nat]]
  <2> HIDE DEF t, E
  <2> QED
    BY <1>1, <1>4, <1>5, <1>6
<1>8. SinkShape'
  BY <1>7 DEF SinkShape, AuPublish
<1>9. SinkCounts'
  <2>1. au_published' = au_published + 1 /\ UNCHANGED <<au_unwritten, au_lost, au_failures, au_hand>>
    BY DEF AuPublish
  <2>2. auInHand' = auInHand
    BY <2>1 DEF auInHand
  <2>3. /\ auInHand \in Nat /\ auOnItsWay("authorization") \in Nat /\ auOnItsWay("invocation") \in Nat
        /\ TrailCounts \in Nat
    BY SinkIsNat, TrailIsNat
  <2>4. \A j \in AuKinds : auOnItsWay(j) \in Nat /\ auOnItsWay(j)' \in Nat
    <3> HIDE DEF E
    <3> QED
      BY <1>6, <1>7 DEF auOnItsWay
  <2>5. auOnItsWay(k)' = auOnItsWay(k) + 1 /\ \A j \in AuKinds : j # k => auOnItsWay(j)' = auOnItsWay(j)
    <3>1. au_stream'[k] = t /\ \A j \in AuKinds : j # k => au_stream'[j] = au_stream[j]
      <4> HIDE DEF t
      <4> QED
        BY <1>1, <1>5, <1>6
    <3> HIDE DEF t
    <3> QED
      BY <1>4, <3>1 DEF auOnItsWay
  <2>6. auOnItsWay("authorization")' + auOnItsWay("invocation")'
        = auOnItsWay("authorization") + auOnItsWay("invocation") + 1
    <3> HIDE DEF k
    <3> QED
      BY <1>1, <2>4, <2>5 DEF AuKinds
  <2>7. au_unwritten \in Nat /\ au_lost \in Nat /\ au_published \in Nat
    BY DEF SinkShape
  <2>8. "authorization" \in AuKinds /\ "invocation" \in AuKinds
    BY DEF AuKinds
  <2> HIDE DEF k, t
  <2> QED
    BY <2>1, <2>2, <2>3, <2>4, <2>6, <2>7, <2>8 DEF SinkCounts
<1> QED
  BY <1>8, <1>9

(* What is taken from a stream is in hand: an event, or the count of those missed. *)
LEMMA ReceiveKeeps ==
  ASSUME AuditConstants, TrailShape, SinkShape, SinkCounts, TrailCounts' = TrailCounts,
         NEW k \in AuKinds, AuReceive(k)
  PROVE  SinkShape' /\ SinkCounts'
<1> DEFINE E == {x \in AuEntries : x.kind \in AuKinds}
           s == au_stream[k]
<1>1. AuNone \notin AuEntries /\ au_hand = AuNone /\ (s.lag > 0 \/ s.q # << >>)
  BY DEF AuditConstants, AuReceive, auWaiting
<1>2. UNCHANGED <<au_published, au_unwritten, au_lost, au_failures, au_now>>
  BY DEF AuReceive, auHistory
<1>3. au_stream \in [AuKinds -> [q : Seq(E), lag : Nat]]
  BY DEF SinkShape
<1>4. s \in [q : Seq(E), lag : Nat] /\ s.q \in Seq(E) /\ s.lag \in Nat
  <2> HIDE DEF E
  <2> QED
    BY <1>3
<1>5. /\ au_unwritten \in Nat /\ au_lost \in Nat /\ au_failures \in Nat /\ au_published \in Nat
      /\ au_now \in Nat
  BY DEF SinkShape
<1>6. "authorization" \in AuKinds /\ "invocation" \in AuKinds /\ auInHand = 0
  BY <1>1 DEF AuKinds, auInHand
<1>7. PICK t \in [q : Seq(E), lag : Nat] :
         /\ au_stream' = [au_stream EXCEPT ![k] = t] /\ auInHand' \in Nat
         /\ auInHand' + t.lag + Len(t.q) = s.lag + Len(s.q)
         /\ au_hand' # AuNone => /\ au_hand' \in AuEntries /\ au_hand'.kind # "retention"
                                 /\ is_about_the_trail(au_hand') => au_hand'.principal = "system"
  <2>1. CASE s.lag > 0
    <3>1. au_hand' = AuditGap(s.lag, au_now) /\ au_stream' = [au_stream EXCEPT ![k].lag = 0]
      BY <2>1 DEF AuReceive, accept
    <3>2. /\ au_hand' \in AuEntries /\ au_hand'.kind = "gap" /\ au_hand'.principal = "system"
          /\ au_hand'.count = s.lag
      BY <1>4, <1>5, <3>1, EntriesFit
    <3>3. auInHand' = s.lag
      BY <1>1, <3>2 DEF auInHand, auAccounts, is_about_the_trail
    <3> DEFINE t == [s EXCEPT !.lag = 0]
    <3>4. t \in [q : Seq(E), lag : Nat] /\ au_stream' = [au_stream EXCEPT ![k] = t]
      <4>1. au_stream' = [au_stream EXCEPT ![k] = t]
        BY <3>1
      <4> HIDE DEF E, s
      <4> QED
        BY <1>4, <4>1
    <3>5. t.lag = 0 /\ t.q = s.q /\ Len(s.q) \in Nat
      <4> HIDE DEF E, s
      <4> QED
        BY <1>4
    <3> HIDE DEF t, E, s
    <3>6. auInHand' \in Nat /\ auInHand' + t.lag + Len(t.q) = s.lag + Len(s.q)
      BY <1>4, <3>3, <3>5
    <3> QED
      BY <3>2, <3>4, <3>6, Zenon
  <2>2. CASE ~(s.lag > 0)
    <3>1. au_hand' = Head(s.q) /\ au_stream' = [au_stream EXCEPT ![k].q = Tail(@)]
      BY <2>2 DEF AuReceive, accept
    <3>2. s.q # << >>
      BY <1>1, <2>2
    <3>3. Head(s.q) \in E /\ Tail(s.q) \in Seq(E) /\ Len(Tail(s.q)) = Len(s.q) - 1 /\ Len(s.q) \in Nat
      <4> HIDE DEF E, s
      <4> QED
        BY <1>4, <3>2
    <3>4. au_hand' \in AuEntries /\ au_hand'.kind \in AuKinds /\ ~is_about_the_trail(au_hand')
      BY <3>1, <3>3 DEF is_about_the_trail, AuKinds
    <3>5. auInHand' = 1
      BY <1>1, <3>4 DEF auInHand, auAccounts
    <3> DEFINE t == [s EXCEPT !.q = Tail(@)]
    <3>6. t \in [q : Seq(E), lag : Nat] /\ au_stream' = [au_stream EXCEPT ![k] = t]
      <4>1. au_stream' = [au_stream EXCEPT ![k] = t]
        BY <3>1
      <4> HIDE DEF E, s
      <4> QED
        BY <1>4, <3>3, <4>1
    <3>7. t.lag = s.lag /\ Len(t.q) = Len(s.q) - 1
      <4> HIDE DEF E, s
      <4> QED
        BY <1>4, <3>3
    <3>8. au_hand'.kind # "retention"
      BY <3>4 DEF AuKinds
    <3> HIDE DEF t, E, s
    <3>9. auInHand' \in Nat /\ auInHand' + t.lag + Len(t.q) = s.lag + Len(s.q)
      BY <1>4, <3>3, <3>5, <3>7
    <3> QED
      BY <3>4, <3>6, <3>8, <3>9, Zenon
  <2> QED
    BY <2>1, <2>2
<1>8. au_stream' \in [AuKinds -> [q : Seq(E), lag : Nat]]
  <2> HIDE DEF E
  <2> QED
    BY <1>3, <1>7
<1>9. SinkShape'
  BY <1>2, <1>5, <1>7, <1>8 DEF SinkShape
<1>10. SinkCounts'
  <2>1. \A j \in AuKinds : auOnItsWay(j) \in Nat /\ auOnItsWay(j)' \in Nat
    <3> HIDE DEF E
    <3> QED
      BY <1>3, <1>8 DEF auOnItsWay
  <2>2. /\ auOnItsWay(k)' = t.lag + Len(t.q) /\ auOnItsWay(k) = s.lag + Len(s.q)
        /\ \A j \in AuKinds : j # k => auOnItsWay(j)' = auOnItsWay(j)
    <3> HIDE DEF E
    <3> QED
      BY <1>3, <1>7 DEF auOnItsWay
  <2>3. t.lag \in Nat /\ Len(t.q) \in Nat /\ s.lag \in Nat /\ Len(s.q) \in Nat
    <3> HIDE DEF E, s
    <3> QED
      BY <1>4, <1>7
  <2>4. auInHand' \in Nat /\ auInHand' + t.lag + Len(t.q) = s.lag + Len(s.q)
    BY <1>7, Zenon
  <2>5. TrailCounts \in Nat
    BY TrailIsNat
  <2> DEFINE h == auInHand'
             a == auOnItsWay("authorization")
             i == auOnItsWay("invocation")
             c == auOnItsWay("authorization")'
             j == auOnItsWay("invocation")'
  <2>6. h + c + j = a + i
    <3>1. CASE k = "authorization"
      <4>1. c = t.lag + Len(t.q) /\ a = s.lag + Len(s.q) /\ j = i /\ i \in Nat
        BY <1>6, <2>1, <2>2, <3>1
      <4> HIDE DEF h, a, i, c, j, s
      <4> QED
        BY <2>3, <2>4, <4>1 DEF h
    <3>2. CASE k = "invocation"
      <4>1. j = t.lag + Len(t.q) /\ i = s.lag + Len(s.q) /\ c = a /\ a \in Nat
        BY <1>6, <2>1, <2>2, <3>2
      <4> HIDE DEF h, a, i, c, j, s
      <4> QED
        BY <2>3, <2>4, <4>1 DEF h
    <3> QED
      BY <3>1, <3>2 DEF AuKinds
  <2>7. h \in Nat /\ a \in Nat /\ i \in Nat /\ c \in Nat /\ j \in Nat
    BY <1>6, <2>1, <2>4
  <2>8. au_published = TrailCounts + 0 + a + i + au_unwritten + au_lost
    <3> HIDE DEF E, s
    <3> QED
      BY <1>6 DEF SinkCounts
  <2>9. au_published = TrailCounts + h + c + j + au_unwritten + au_lost
    <3> HIDE DEF h, a, i, c, j, E, s
    <3> QED
      BY <1>5, <2>5, <2>6, <2>7, <2>8
  <2>10. au_published' = TrailCounts' + auInHand' + auOnItsWay("authorization")' + auOnItsWay("invocation")'
                         + au_unwritten' + au_lost'
    <3> HIDE DEF E, s
    <3> QED
      BY <1>2, <2>9
  <2> QED
    BY <1>2, <2>10 DEF SinkCounts
<1> QED
  BY <1>9, <1>10

(* What is in hand is written, or its events are those of a failure that is counted. *)
LEMMA RecordKeeps ==
  ASSUME AuditConstants, AuditInv, AuRecord
  PROVE  AuditInv'
<1>1. TrailShape /\ IndexesAgree /\ Numbered /\ SinkShape /\ SinkCounts
  BY DEF AuditInv
<1>2. /\ au_hand # AuNone /\ au_hand' = AuNone /\ au_stream' = au_stream
      /\ au_published' = au_published /\ au_lost' = au_lost /\ au_now' = au_now
  BY DEF AuRecord
<1>3. /\ au_hand \in AuEntries /\ au_hand.kind # "retention"
      /\ is_about_the_trail(au_hand) => au_hand.principal = "system"
  BY <1>1, <1>2 DEF SinkShape
<1>4. /\ auInHand = auAccounts(au_hand) /\ auInHand' = 0
      /\ auOnItsWay("authorization")' = auOnItsWay("authorization")
      /\ auOnItsWay("invocation")' = auOnItsWay("invocation")
  BY <1>2 DEF auInHand, auOnItsWay
<1>5. /\ auInHand \in Nat /\ auOnItsWay("authorization") \in Nat /\ auOnItsWay("invocation") \in Nat
      /\ TrailCounts \in Nat
  BY <1>1, SinkIsNat, TrailIsNat
<1>6. au_unwritten \in Nat /\ au_lost \in Nat /\ au_failures \in Nat /\ au_published \in Nat
  BY <1>1 DEF SinkShape
<1>7. CASE auAppended(au_hand, auSequences) /\ UNCHANGED <<au_failures, au_unwritten>>
  <2>1. TrailShape' /\ IndexesAgree'
    BY <1>1, <1>3, <1>7, AppendedAgrees
  <2>2. \A r \in au_records : r.seq \in auSequences
    BY DEF auSequences
  <2>3. auSequences \in SUBSET auSequences
    OBVIOUS
  <2>4. Numbered'
    BY <1>1, <1>3, <1>7, <2>2, <2>3, StaysNumbered
  <2>5. TrailCounts' = TrailCounts + auInHand
    BY <1>1, <1>3, <1>4, <1>7, <2>2, <2>3, StaysShown
  <2>6. SinkShape'
    BY <1>1, <1>2, <1>7 DEF SinkShape
  <2>7. SinkCounts'
    BY <1>1, <1>2, <1>4, <1>5, <1>6, <1>7, <2>5 DEF SinkCounts
  <2> QED
    BY <2>1, <2>4, <2>6, <2>7 DEF AuditInv
<1>8. CASE /\ au_failures' = au_failures + 1 /\ au_unwritten' = au_unwritten + auAccounts(au_hand)
           /\ UNCHANGED auStore
  <2>1. TrailShape' /\ IndexesAgree' /\ Numbered' /\ TrailCounts' = TrailCounts
    BY <1>1, <1>8, StoreKept
  <2>2. SinkShape'
    <3>1. au_failures' \in Nat /\ au_unwritten' \in Nat
      BY <1>4, <1>5, <1>6, <1>8
    <3> QED
      BY <1>1, <1>2, <3>1 DEF SinkShape
  <2>3. SinkCounts'
    BY <1>1, <1>2, <1>4, <1>5, <1>6, <1>8, <2>1 DEF SinkCounts
  <2> QED
    BY <2>1, <2>2, <2>3 DEF AuditInv
<1> QED
  BY <1>7, <1>8 DEF AuRecord

(* A batch takes no record about the trail, and its transaction says how many it took. *)
LEMMA SweepKeeps ==
  ASSUME AuditConstants, TrailShape, IndexesAgree, Numbered, SinkShape, AuSweepBatch
  PROVE  TrailShape' /\ IndexesAgree' /\ Numbered' /\ TrailCounts' = TrailCounts
<1> DEFINE gone == auDue(au_sweep)
           kept == auSequences \ gone
           e == RetentionApplied(Cardinality(gone), au_now)
<1>1. CASE UNCHANGED auStore
  BY <1>1, StoreKept
<1>2. CASE auSwept(gone)
  <2>1. ASSUME NEW x \in count_due(au_sweep)
        PROVE  \E r \in au_records : r.seq = x[2] /\ ~is_about_the_trail(r)
    <3>1. x \in au_time /\ ~survives_retention(auAt(x[2]), au_sweep)
      BY DEF count_due
    <3>2. PICK r \in au_records : x = <<r.time, r.seq>>
      BY <3>1 DEF IndexesAgree
    <3>3. auAt(x[2]) = r
      BY <3>2, AtNumber
    <3> QED
      BY <3>1, <3>2, <3>3 DEF survives_retention
  <2>2. gone \in SUBSET {x[2] : x \in count_due(au_sweep)}
    BY DEF auDue
  <2>3. \A n \in gone : \E r \in au_records : r.seq = n /\ ~is_about_the_trail(r)
    <3> HIDE DEF gone
    <3> QED
      BY <2>1, <2>2
  <2>4. gone \in SUBSET auSequences /\ \A r \in au_records : is_about_the_trail(r) => r.seq \notin gone
    <3>1. \A r, s \in au_records : r.seq = s.seq => r = s
      BY DEF TrailShape
    <3> HIDE DEF gone
    <3> QED
      BY <2>3, <3>1 DEF auSequences
  <2>5. IsFiniteSet(gone) /\ Cardinality(gone) \in Nat
    <3> HIDE DEF gone
    <3> QED
      BY <2>4, AtNumber, FS_Subset, FS_CardinalityType
  <2>6. /\ e \in AuEntries /\ e.kind = "retention" /\ e.principal = "system"
        /\ e.count = Cardinality(gone)
    <3>1. au_now \in Nat
      BY DEF SinkShape
    <3> HIDE DEF gone
    <3> QED
      BY <2>5, <3>1, EntriesFit
  <2>7. auAppended(e, kept)
    BY <1>2 DEF auSwept
  <2>8. kept \in SUBSET auSequences /\ auSequences \ kept = gone
    <3> HIDE DEF gone
    <3> QED
      BY <2>4
  <2>9. \A r \in au_records : is_about_the_trail(r) => r.seq \in kept
    <3> HIDE DEF gone
    <3> QED
      BY <2>4 DEF auSequences
  <2> HIDE DEF gone, kept, e
  <2>10. TrailShape' /\ IndexesAgree'
    BY <2>6, <2>7, <2>8, AppendedAgrees
  <2>11. \A r \in au_records : r.kind = "retention" => r.seq \in kept
    BY <2>9 DEF is_about_the_trail
  <2>12. Numbered'
    BY <2>6, <2>7, <2>8, <2>11, StaysNumbered
  <2>13. TrailCounts' = TrailCounts + 0
    BY <2>6, <2>7, <2>8, <2>9, StaysShown
  <2>14. TrailCounts' = TrailCounts
    BY <2>13, TrailIsNat
  <2> QED
    BY <2>10, <2>12, <2>14
<1> QED
  BY <1>1, <1>2 DEF AuSweepBatch

(* Nothing else touches what the invariant speaks of, but a crash, which loses what was in memory. *)
LEMMA AuditStep ==
  ASSUME AuditConstants, AuditInv, [AuditNext]_auVars
  PROVE  AuditInv'
<1>1. TrailShape /\ IndexesAgree /\ Numbered /\ SinkShape /\ SinkCounts
  BY DEF AuditInv
<1>2. ASSUME UNCHANGED <<au_stream, au_hand, au_failures, au_published, au_unwritten, au_lost>>,
             au_now' \in Nat, TrailCounts' = TrailCounts
      PROVE  SinkShape' /\ SinkCounts'
  <2>1. SinkShape'
    BY <1>1, <1>2 DEF SinkShape
  <2>2. SinkCounts'
    <3>1. /\ auInHand' = auInHand /\ auOnItsWay("authorization")' = auOnItsWay("authorization")
          /\ auOnItsWay("invocation")' = auOnItsWay("invocation")
      BY <1>2 DEF auInHand, auOnItsWay
    <3> QED
      BY <1>1, <1>2, <3>1 DEF SinkCounts
  <2> QED
    BY <2>1, <2>2
<1>3. ASSUME UNCHANGED auStore
      PROVE  TrailShape' /\ IndexesAgree' /\ Numbered' /\ TrailCounts' = TrailCounts
  BY <1>1, <1>3, StoreKept
<1>4. au_now \in Nat
  BY <1>1 DEF SinkShape
<1>5. ASSUME NEW e \in AuEvents, AuPublish(e) PROVE AuditInv'
  <2>1. UNCHANGED auStore
    BY <1>5 DEF AuPublish
  <2>2. SinkShape' /\ SinkCounts'
    BY <1>1, <1>3, <1>5, <2>1, PublishKeeps
  <2> QED
    BY <1>3, <2>1, <2>2 DEF AuditInv
<1>6. ASSUME NEW k \in AuKinds, AuReceive(k) PROVE AuditInv'
  <2>1. UNCHANGED auStore
    BY <1>6 DEF AuReceive
  <2>2. SinkShape' /\ SinkCounts'
    BY <1>1, <1>3, <1>6, <2>1, ReceiveKeeps
  <2> QED
    BY <1>3, <2>1, <2>2 DEF AuditInv
<1>7. CASE AuRecord
  BY <1>7, RecordKeeps
<1>8. CASE AuStop
  BY <1>1, <1>2, <1>3, <1>4, <1>8 DEF AuditInv, AuStop, auHistory
<1>9. CASE AuDrain
  BY <1>1, <1>2, <1>3, <1>4, <1>9 DEF AuditInv, AuDrain, auHistory
<1>10. CASE AuSweepBegin
  BY <1>1, <1>2, <1>3, <1>4, <1>10 DEF AuditInv, AuSweepBegin, auSinkVars
<1>11. CASE AuSweepBatch
  <2>1. TrailShape' /\ IndexesAgree' /\ Numbered' /\ TrailCounts' = TrailCounts
    BY <1>1, <1>11, SweepKeeps
  <2>2. SinkShape' /\ SinkCounts'
    BY <1>2, <1>4, <1>11, <2>1 DEF AuSweepBatch, auSinkVars, auHistory
  <2> QED
    BY <2>1, <2>2 DEF AuditInv
<1>12. CASE AuCrash
  <2>1. UNCHANGED auStore
    BY <1>12 DEF AuCrash
  <2>2. /\ au_published' = au_published /\ au_unwritten' = 0 /\ au_now' = au_now
        /\ au_stream' = [k \in AuKinds |-> [q |-> <<>>, lag |-> 0]] /\ au_hand' = AuNone
        /\ au_failures' = 0
        /\ au_lost' = au_lost + au_unwritten + auInHand + auOnItsWay("authorization") + auOnItsWay("invocation")
    BY <1>12 DEF AuCrash, auFresh
  <2>3. /\ auInHand \in Nat /\ auOnItsWay("authorization") \in Nat /\ auOnItsWay("invocation") \in Nat
        /\ TrailCounts \in Nat
    BY <1>1, SinkIsNat, TrailIsNat
  <2>4. au_unwritten \in Nat /\ au_lost \in Nat /\ au_published \in Nat
    BY <1>1 DEF SinkShape
  <2>5. SinkShape'
    BY <1>1, <2>2, <2>3, <2>4 DEF SinkShape
  <2>6. auOnItsWay("authorization")' = 0 /\ auOnItsWay("invocation")' = 0 /\ auInHand' = 0
    BY <2>2 DEF auOnItsWay, auInHand, AuKinds
  <2>7. SinkCounts'
    BY <1>1, <1>3, <2>1, <2>2, <2>3, <2>4, <2>6 DEF SinkCounts
  <2> QED
    BY <1>3, <2>1, <2>5, <2>7 DEF AuditInv
<1>13. CASE AuStart
  BY <1>1, <1>2, <1>3, <1>4, <1>13 DEF AuditInv, AuStart, auSinkVars
<1>14. CASE AuTick
  BY <1>1, <1>2, <1>3, <1>4, <1>14 DEF AuditInv, AuTick, auSinkVars, auHistory
<1>15. CASE UNCHANGED auVars
  BY <1>1, <1>2, <1>3, <1>4, <1>15 DEF AuditInv, auVars, auSinkVars, auHistory
<1> QED
  BY <1>5, <1>6, <1>7, <1>8, <1>9, <1>10, <1>11, <1>12, <1>13, <1>14, <1>15 DEF AuditNext

(* The accounts add up as the property states them. *)
LEMMA AuditAccounts ==
  ASSUME AuditConstants, AuditInv
  PROVE  AuditIsComplete
<1>1. TrailShape /\ IndexesAgree /\ Numbered /\ SinkShape /\ SinkCounts
  BY DEF AuditInv
<1>2. QueriesAnswerAlike
  BY <1>1, QueriesHold
<1>3. NothingVanishes
  BY <1>1, Zenon DEF NothingVanishes, Numbered, SinkCounts, TrailCounts
<1> QED
  BY <1>2, <1>3 DEF AuditIsComplete

(* Of every decision and invocation published, the trail shows a record, the marker of the sweep that
   removed it or the gap that counts it, unless it is on its way, its append failed (which is
   counted, also for a gap), or it was in the memory of a process that ended: through lagging
   streams, failed writes, sweeps cut short, crashes and restarts, none goes missing otherwise.  And
   whichever index answers a query, it gives the newest of what a scan of the whole trail finds
   (AuditSink::record, append_blocking, prune_blocking, query_blocking). *)
THEOREM AuditHolds ==
  ASSUME AuditConstants
  PROVE  AuditSpec => []AuditIsComplete
<1>1. AuditInit => AuditInv
  BY AuditStarts
<1>2. AuditInv /\ [AuditNext]_auVars => AuditInv'
  BY AuditStep
<1>3. AuditInv => AuditIsComplete
  BY AuditAccounts
<1> QED
  BY <1>1, <1>2, <1>3, PTL DEF AuditSpec
=============================================================================
