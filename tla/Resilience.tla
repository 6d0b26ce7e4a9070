----------------------------- MODULE Resilience -----------------------------
(***************************************************************************)
(* ResilientProvider::complete: a model call that consults the circuit     *)
(* breaker, waits for one of the provider's slots, is attempted, and is    *)
(* attempted again after a backoff when its failure was marked transient.  *)
(* Calls of several clients share the breaker and the slots.               *)
(*                                                                         *)
(* Time is two facts: the cooldown of an open circuit has elapsed          *)
(* (cooled), the deadline of a client's context has passed (overdue).      *)
(***************************************************************************)
EXTENDS Naturals, FiniteSets

CONSTANTS
  Clients,           \* who calls; each has at most one call in flight
  Deadlined,         \* clients whose context carries a deadline
  FailureThreshold,  \* BreakerSettings::failure_threshold, not disabled (0)
  MaxAttempts,       \* RetrySettings::max_attempts
  Permits,           \* max_concurrent, not disabled (0)
  MaxCount           \* where the failure counter saturates (u32::MAX in the code)

ASSUME ResilienceAssumption ==
  /\ IsFiniteSet(Clients) /\ Deadlined \subseteq Clients
  /\ FailureThreshold \in Nat \ {0} /\ MaxAttempts \in Nat /\ Permits \in Nat \ {0}
  /\ MaxCount \in Nat /\ MaxCount >= FailureThreshold

VARIABLES
  client,    \* per client: [pc (where its call is, or how it ended), number (attempt)]
  circuit, failures, cooled,   \* CircuitBreaker (cooled: of an open circuit)
  free,      \* slots of the ConcurrencyLimit nobody holds
  stopped,   \* clients whose context is cancelled
  overdue,   \* clients whose deadline has passed
  streak     \* history: transient failures of the provider since its last success,
             \* counted up to MaxCount

resilienceVars == <<client, circuit, failures, cooled, free, stopped, overdue, streak>>

Idle == [pc |-> "idle", number |-> 0]
Outcomes == {"ok", "transient", "terminal", "cancelled", "timeout"}
Underway == {"admit", "queued", "attempt", "sleep"}
\* The attempt's number is of no use once the call has ended.
At(c, pc) ==
  client' = [client EXCEPT ![c] = [pc |-> pc, number |-> IF pc \in Outcomes THEN 0 ELSE @.number]]

---------------------------------------------------------------------------
(* breaker.rs *)

RecordSuccess ==
  /\ circuit' = "closed" /\ failures' = 0 /\ cooled' = FALSE

Counted(n) == IF n < MaxCount THEN n + 1 ELSE n

\* A failed probe re-opens whatever the count says.
ShouldOpen == circuit = "half_open" \/ Counted(failures) >= FailureThreshold

RecordFailure ==
  /\ failures' = Counted(failures)
  /\ IF ShouldOpen THEN circuit' = "open" /\ cooled' = FALSE
     ELSE UNCHANGED <<circuit, cooled>>

---------------------------------------------------------------------------
(* provider.rs: with_retries *)

max_attempts == IF MaxAttempts = 0 THEN 1 ELSE MaxAttempts

\* complete() is called.
Complete(c) == client' = [client EXCEPT ![c] = [pc |-> "admit", number |-> 1]]

\* The breaker first, then a slot if one is free: no suspension in between.
Admit(c) ==
  /\ client[c].pc = "admit"
  /\ IF circuit = "open" /\ ~cooled
     THEN At(c, "transient") /\ UNCHANGED <<circuit, cooled, free>>
     ELSE /\ circuit' = IF circuit = "open" THEN "half_open" ELSE circuit
          /\ cooled' = FALSE
          /\ IF free > 0 THEN At(c, "attempt") /\ free' = free - 1
             ELSE At(c, IF c \in overdue THEN "timeout" ELSE "queued") /\ UNCHANGED free
  /\ UNCHANGED <<failures, stopped, overdue, streak>>

\* Mutant: only a slot ends the wait.
LeaveQueueWithSlot(c) ==
  /\ client[c].pc = "queued" /\ free > 0
  /\ At(c, "attempt") /\ free' = free - 1
  /\ UNCHANGED <<circuit, failures, cooled, stopped, overdue, streak>>

\* acquire(), biased: cancellation, then a slot, then the shorter of the two timers.
LeaveQueue(c) ==
  /\ client[c].pc = "queued"
  /\ \/ c \in stopped /\ At(c, "cancelled") /\ UNCHANGED free
     \/ c \notin stopped /\ free > 0 /\ At(c, "attempt") /\ free' = free - 1
     \/ /\ c \notin stopped /\ free = 0 /\ UNCHANGED free
        /\ \/ c \in overdue /\ At(c, "timeout")
           \/ c \notin overdue /\ At(c, "transient")
  /\ UNCHANGED <<circuit, failures, cooled, stopped, overdue, streak>>

\* The attempt answers, and its slot is given back.
Succeed(c) ==
  /\ client[c].pc = "attempt"
  /\ free' = free + 1
  /\ RecordSuccess
  /\ At(c, "ok")
  /\ streak' = 0
  /\ UNCHANGED <<stopped, overdue>>

\* A failure nobody marked transient: the request's fault, or a provider that honours the
\* context's cancellation or deadline.
FailTerminally(c) ==
  /\ client[c].pc = "attempt"
  /\ free' = free + 1
  /\ At(c, "terminal")
  /\ UNCHANGED <<circuit, failures, cooled, stopped, overdue, streak>>

\* Does the delay fit into what is left of the deadline?
affordable(c) ==
  IF c \notin Deadlined THEN {TRUE} ELSE IF c \in overdue THEN {FALSE} ELSE BOOLEAN

\* Mutant: the attempt counter is not looked at.
MayRetryAlways(c) == TRUE \in affordable(c)
\* BackoffSchedule::after, then the deadline.
MayRetry(c) == client[c].number < max_attempts /\ TRUE \in affordable(c)
MustGiveUp(c) == client[c].number >= max_attempts \/ FALSE \in affordable(c)

FailTransiently(c) ==
  /\ client[c].pc = "attempt"
  /\ free' = free + 1
  /\ RecordFailure
  /\ \/ MayRetry(c) /\ At(c, "sleep")
     \/ MustGiveUp(c) /\ At(c, "transient")
  /\ streak' = Counted(streak)
  /\ UNCHANGED <<stopped, overdue>>

\* The backoff ends: cancelled, or the next attempt.
Awake(c) ==
  /\ client[c].pc = "sleep"
  /\ client' = [client EXCEPT ![c] =
                  IF c \in stopped THEN [pc |-> "cancelled", number |-> 0]
                  ELSE [pc |-> "admit", number |-> @.number + 1]]
  /\ UNCHANGED <<circuit, failures, cooled, free, stopped, overdue, streak>>

\* Mutant: a dropped call keeps its slot.
ReleasedLeaking(c) == free
\* Permit's drop.
Released(c) == IF client[c].pc = "attempt" THEN free + 1 ELSE free

\* The client's future is dropped at whatever it awaits.
DropCall(c) ==
  /\ client' = [client EXCEPT ![c] = Idle]
  /\ free' = Released(c)
  /\ UNCHANGED <<circuit, failures, cooled, stopped, overdue, streak>>

---------------------------------------------------------------------------
Cool ==
  /\ circuit = "open" /\ ~cooled /\ cooled' = TRUE
  /\ UNCHANGED <<client, circuit, failures, free, stopped, overdue, streak>>

Cancel(c) ==
  /\ c \notin stopped /\ stopped' = stopped \cup {c}
  /\ UNCHANGED <<client, circuit, failures, cooled, free, overdue, streak>>

DeadlinePasses(c) ==
  /\ c \in Deadlined \ overdue /\ overdue' = overdue \cup {c}
  /\ UNCHANGED <<client, circuit, failures, cooled, free, stopped, streak>>

ResilienceInit ==
  /\ client = [c \in Clients |-> Idle]
  /\ circuit = "closed" /\ failures = 0 /\ cooled = FALSE
  /\ free = Permits
  /\ stopped = {} /\ overdue = {} /\ streak = 0

\* What the provider's own code owes a call, and what the service does with it.
Advance(c) == Admit(c) \/ LeaveQueue(c) \/ Awake(c)
Service(c) == Succeed(c) \/ FailTerminally(c) \/ FailTransiently(c)
World(c) == Cancel(c) \/ DeadlinePasses(c)

---------------------------------------------------------------------------
(* Properties *)

\* Every variable holds values of its kind.
ResilienceTypeOK ==
  /\ client \in [Clients -> [pc : {"idle"} \cup Underway \cup Outcomes, number : 0..max_attempts]]
  /\ circuit \in {"closed", "open", "half_open"}
  /\ failures \in Nat /\ cooled \in BOOLEAN /\ free \in 0..Permits
  /\ stopped \subseteq Clients /\ overdue \subseteq Clients /\ streak \in Nat

\* The breaker acts on what the service did and on nothing else: it counts every transient
\* failure since the last success, whatever calls it refused, were cancelled or gave up in
\* the queue meanwhile, and it stays closed only below its threshold.  Every slot is either
\* free or held by an attempt, however calls end.
BreakerAndSlotsHonest ==
  /\ failures = streak
  /\ circuit = "closed" => failures < FailureThreshold
  /\ free + Cardinality({c \in Clients : client[c].pc = "attempt"}) = Permits
============================================================================
