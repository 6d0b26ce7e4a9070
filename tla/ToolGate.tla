------------------------------ MODULE ToolGate ------------------------------
(***************************************************************************)
(* InProcessToolRegistry::invoke: every tool call is checked against the   *)
(* policy, the approval broker and the provenance of its conversation      *)
(* before it runs, and what it returned is recorded after.  Calls run      *)
(* concurrently, and one of them waits in the broker while others run.     *)
(*                                                                         *)
(* A call asks its questions in order: one per required permission and     *)
(* planned resource (1..n), then the trust question (n + 1); a running     *)
(* tool may ask about each resource it discovers (n + 2 and on).           *)
(***************************************************************************)
EXTENDS ApprovalBroker

CONSTANTS
  Calls,        \* tool invocations
  Scopes,       \* conversations
  Tool,         \* call -> [scope, n, last, reach, output]; last bounds its questions
  Settings      \* the deployments looked at: [enforcement, sink, capacity], with the
                \* TrustEnforcement, whether an ApprovalSink is wired, and the
                \* capacity of the trust ledger
CONSTANT
  MaxQuestion   \* bound: questions of any call

ASSUME ToolAssumption ==
  /\ MaxQuestion \in Nat \ {0}
  /\ Tool \in [Calls -> [scope : Scopes, n : 0..(MaxQuestion - 1), last : 1..MaxQuestion,
                         reach : {"contained", "mutating", "external"},
                         output : {"trusted", "untrusted"}]]
  /\ Settings \subseteq [enforcement : {"approval", "deny", "observe"},
                          sink : BOOLEAN, capacity : Nat]
  /\ Requests = Calls \X (1..MaxQuestion)

VARIABLES
  setup,      \* the deployment's settings, fixed when it is wired
  call,       \* per call: [pc (its ToolInvoked record once ended), q (question at
              \* hand), trust (read once), late (history: began after a taint)]
  tainted, saturated,   \* InMemoryTrustLedger
  delivered,  \* history: scopes an untrusted result was returned to
  decisions   \* history: AuthorizationDecided records <<call, q, outcome>>

gateVars == <<setup, call, tainted, saturated, delivered, decisions>>
vars == <<req, waiting, chan, attached, hand, closed, stopped, overdue, told,
          setup, call, tainted, saturated, delivered, decisions>>

TrustQ(c) == Tool[c].n + 1

---------------------------------------------------------------------------
(* trust.rs: the ledger *)

trust_of(s) == IF saturated \/ s \in tainted THEN "untrusted" ELSE "trusted"

\* Mutant: a full ledger takes no further taint.
ObserveUntilFull(s, t) ==
  IF t = "trusted" \/ s \in tainted THEN UNCHANGED <<tainted, saturated>>
  ELSE /\ tainted' = IF Cardinality(tainted) >= setup.capacity THEN tainted ELSE tainted \cup {s}
       /\ UNCHANGED saturated

\* observe(): a full ledger stops telling scopes apart instead of forgetting one.
observe(s, t) ==
  IF t = "trusted" \/ saturated \/ s \in tainted THEN UNCHANGED <<tainted, saturated>>
  ELSE IF Cardinality(tainted) >= setup.capacity THEN saturated' = TRUE /\ tainted' = {}
  ELSE tainted' = tainted \cup {s} /\ UNCHANGED saturated

---------------------------------------------------------------------------
(* registry.rs: invoke() *)

Goto(c, pc) == call' = [call EXCEPT ![c].pc = pc]
Decided(c, outcome) == decisions' = decisions \cup {<<c, call[c].q, outcome>>}

\* The tool is looked up, the conversation's trust is read, once, and the resources are
\* planned; a failed lookup, ledger or plan ends the call before any question.
Begin(c) ==
  /\ call[c].pc = "idle"
  /\ \/ \E outcome \in {"not_found", "denied", "failed"} : Goto(c, outcome)
     \/ call' = [call EXCEPT ![c] = [pc |-> "decide", q |-> 1,
                                     trust |-> trust_of(Tool[c].scope),
                                     late |-> Tool[c].scope \in delivered]]
  /\ UNCHANGED <<setup, tainted, saturated, delivered, decisions>>
  /\ UNCHANGED brokerVars

\* Mutant: the question counter runs on while the tool runs.
ProceedCounting(c) == call' = [call EXCEPT ![c].pc = "decide", ![c].q = @ + 1]

\* A question is answered with yes: the next one, or the tool runs (on).
Proceed(c) ==
  IF call[c].q >= TrustQ(c) THEN Goto(c, "run")
  ELSE call' = [call EXCEPT ![c].pc = "decide", ![c].q = @ + 1]

\* ... or with no: the call is denied; a running tool is told so and goes on.
Refuse(c) == Goto(c, IF call[c].q > TrustQ(c) THEN "run" ELSE "denied")

\* decide(): the policy engine allows, denies, fails, or wants a human asked.
Decide(c) ==
  /\ call[c].pc = "decide" /\ call[c].q # TrustQ(c)
  /\ \/ Decided(c, "allowed") /\ Proceed(c)
     \/ \E o \in {"denied", "policy_unavailable"} : Decided(c, o) /\ Refuse(c)
     \/ ~setup.sink /\ Decided(c, "approval_unavailable") /\ Refuse(c)
     \/ setup.sink /\ Goto(c, "ask") /\ UNCHANGED decisions
  /\ UNCHANGED <<setup, tainted, saturated, delivered>>
  /\ UNCHANGED brokerVars

\* Mutant: only external tools are looked at.
TrustMattersExternal(c) == call[c].trust = "untrusted" /\ Tool[c].reach = "external"
TrustMatters(c) == call[c].trust = "untrusted" /\ Tool[c].reach # "contained"

\* enforce_trust(): a conversation that has read untrusted content needs more than the
\* policy's yes before a tool that is not contained runs.
EnforceTrust(c) ==
  /\ call[c].pc = "decide" /\ call[c].q = TrustQ(c)
  /\ IF ~TrustMatters(c) THEN Goto(c, "run") /\ UNCHANGED decisions
     ELSE \/ setup.enforcement = "observe" /\ Decided(c, "allowed") /\ Proceed(c)
          \/ setup.enforcement = "deny" /\ Decided(c, "denied") /\ Refuse(c)
          \/ /\ setup.enforcement = "approval" /\ ~setup.sink
             /\ Decided(c, "approval_unavailable") /\ Refuse(c)
          \/ /\ setup.enforcement = "approval" /\ setup.sink
             /\ Goto(c, "ask") /\ UNCHANGED decisions
  /\ UNCHANGED <<setup, tainted, saturated, delivered>>
  /\ UNCHANGED brokerVars

\* The question at hand, as the broker knows it.
Request(c) == <<c, call[c].q>>

AskBroker(c) ==
  /\ call[c].pc = "ask"
  /\ Ask(Request(c))
  /\ UNCHANGED gateVars

\* Mutant: only an explicit refusal stops the call.
NotDenied(result) == result # "denied"
\* Only Ok(true) is a yes.
Granted(result) == result = "granted"

\* request_approval() has returned.
Answered(c) ==
  LET result == req[Request(c)]
  IN  /\ call[c].pc = "ask" /\ result \in Results
      /\ IF Granted(result) THEN Decided(c, "approval_granted") /\ Proceed(c)
         ELSE /\ Decided(c, IF result = "denied" THEN "approval_refused"
                            ELSE "approval_unavailable")
              /\ Refuse(c)
      /\ UNCHANGED <<setup, tainted, saturated, delivered>>
      /\ UNCHANGED brokerVars

\* A running tool asks about a resource it found.
Discover(c) ==
  /\ call[c].pc = "run" /\ call[c].q < Tool[c].last
  /\ call' = [call EXCEPT ![c].pc = "decide", ![c].q = @ + 1]
  /\ UNCHANGED <<setup, tainted, saturated, delivered, decisions>>
  /\ UNCHANGED brokerVars

\* Mutant: the result is handed back although its provenance was not recorded.
ReturnUnrecorded(c, t) ==
  /\ UNCHANGED <<tainted, saturated>>
  /\ delivered' = IF t = "untrusted" THEN delivered \cup {Tool[c].scope} ELSE delivered

\* The result reaches the conversation with its provenance recorded.
ReturnRecorded(c, t) ==
  /\ observe(Tool[c].scope, t)
  /\ delivered' = IF t = "untrusted" THEN delivered \cup {Tool[c].scope} ELSE delivered

\* The tool returns: an error, or a result that is discarded because the ledger failed;
\* or a result, which this call may mark as less trusted than the tool declares.
Return(c) ==
  /\ call[c].pc = "run"
  /\ \/ /\ \E outcome \in {"denied", "failed"} : Goto(c, outcome)
        /\ UNCHANGED <<tainted, saturated, delivered>>
     \/ /\ Goto(c, "succeeded")
        /\ \E t \in {Tool[c].output, "untrusted"} : ReturnRecorded(c, t)
  /\ UNCHANGED <<setup, decisions>>
  /\ UNCHANGED brokerVars

\* Where invoke() can be suspended: in the policy engine, in the broker, in the tool.
Awaiting(c) ==
  \/ call[c].pc = "decide" /\ call[c].q # TrustQ(c)
  \/ call[c].pc = "ask" /\ req[Request(c)] = "parked"
  \/ call[c].pc = "run"

\* The caller drops the call's future there: nothing more is recorded.
DropCall(c) ==
  /\ Awaiting(c)
  /\ Goto(c, "dropped")
  /\ IF call[c].pc = "ask" THEN Abandon(Request(c)) ELSE UNCHANGED brokerVars
  /\ UNCHANGED <<setup, tainted, saturated, delivered, decisions>>

---------------------------------------------------------------------------
Init ==
  /\ BrokerInit
  /\ setup \in Settings
  /\ call = [c \in Calls |-> [pc |-> "idle", q |-> 1, trust |-> "trusted", late |-> FALSE]]
  /\ tainted = {} /\ saturated = FALSE
  /\ delivered = {} /\ decisions = {}

Registry(c) == Begin(c) \/ Decide(c) \/ EnforceTrust(c) \/ AskBroker(c) \/ Answered(c)
Running(c) == Discover(c) \/ Return(c) \/ DropCall(c)

\* Only the question a call is asking is live in the broker.
Broker ==
  /\ \/ \E c \in Calls : call[c].pc = "ask" /\ Requester(Request(c))
     \/ \E g \in Responders : Frontend(g)
     \/ Close
  /\ UNCHANGED gateVars

Next == Broker \/ \E c \in Calls : Registry(c) \/ Running(c)

Spec == Init /\ [][Next]_vars

\* Tasks are polled and every question's timer fires; humans, tools and callers are not
\* assumed to act.
Timers(c) ==
  /\ call[c].pc = "ask"
  /\ Enqueue(Request(c)) \/ Settle(Request(c)) \/ Expire(Request(c))
  /\ UNCHANGED gateVars
FairSpec == Spec /\ \A c \in Calls : WF_vars(Registry(c)) /\ WF_vars(Timers(c))

---------------------------------------------------------------------------
(* Properties *)

\* Every variable holds values of its kind.
TypeOK ==
  /\ BrokerTypeOK
  /\ setup \in Settings
  /\ call \in [Calls -> [pc : {"idle", "decide", "ask", "run", "dropped", "not_found",
                               "denied", "failed", "succeeded"},
                         q : 1..MaxQuestion, trust : {"trusted", "untrusted"},
                         late : BOOLEAN]]
  /\ tainted \subseteq Scopes /\ saturated \in BOOLEAN /\ delivered \subseteq Scopes

\* The yes to a question: the policy's, or a human's who was told that it counts.
Yes(c, q) == \/ <<c, q, "allowed">> \in decisions
             \/ /\ <<c, q, "approval_granted">> \in decisions
                /\ \E g \in Responders : <<g, <<c, q>>, "granted">> \in told

\* A tool runs only after each of its permissions and planned resources was allowed by
\* the policy or granted by a human, and the audit trail says so.
RunsOnlyIfAllowed ==
  \A c \in Calls : call[c].pc = "run" => \A q \in 1..Tool[c].n : Yes(c, q)

\* A call that begins after its conversation was handed untrusted content changes state
\* or sends data out only with an explicit yes to the trust question.
TaintedCallsAreGated ==
  \A c \in Calls :
    call[c].pc = "run" /\ call[c].late /\ Tool[c].reach # "contained" => Yes(c, TrustQ(c))

\* Whatever fails, times out or is dropped on the way, a tool that runs was allowed to
\* (registry.rs authorize(), enforce_trust()).
GateInv == TypeOK /\ RunsOnlyIfAllowed /\ TaintedCallsAreGated

\* The ledger never forgets: a conversation that was handed untrusted content is reported
\* as untrusted from then on, at the capacity limit too.
TaintIsRemembered == \A s \in delivered : trust_of(s) = "untrusted"

\* An approval question never hangs: the call that asked it gets an answer, even when
\* the last frontend leaves after the question was parked.
QuestionsEnd == \A c \in Calls : (call[c].pc = "ask") ~> (call[c].pc # "ask")
============================================================================
