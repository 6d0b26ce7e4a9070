----------------------------- MODULE JobRunner -----------------------------
(***************************************************************************)
(* One firing of a scheduled job, from its dispatch to the release of its  *)
(* exclusion slot: execute() in runner.rs.  The firing is one task; its    *)
(* handler, cancel() and the runtime's shutdown act beside it.             *)
(***************************************************************************)
EXTENDS Integers, Sequences

CONSTANTS
  Policies,     \* [attempts, backoff, max_backoff, timed] a job may be given
  Width,        \* bits of the integer an attempt shifts a one in (32 in the code)
  MaxDuration   \* the longest Duration

ASSUME PoliciesAssumption ==
  /\ Policies \subseteq [attempts : Nat, backoff : 0..MaxDuration,
                          max_backoff : 0..MaxDuration, timed : BOOLEAN]
  /\ Width \in Nat /\ MaxDuration \in Nat

VARIABLES
  policy,   \* spec.retry, and whether spec.timeout is set
  pc,       \* "loop", "running", "backoff", "ended"
  attempt,
  token,    \* is the firing's token cancelled?
  context,  \* is the attempt's own token cancelled?
  log       \* history: what was published on the bus

vars == <<policy, pc, attempt, token, context, log>>

None == -1   \* no delay: no further attempt

\* `wait' is the delay a JobFailed announces; will_retry is wait # None.
Publish(kind, wait) ==
  log' = Append(log, [kind |-> kind, attempt |-> attempt, wait |-> wait])

Min2(a, b) == IF a <= b THEN a ELSE b

\* A one shifted to the left, as long as it stays in the integer.
OneShifted[n \in 0..Width] == IF n = 0 THEN 1 ELSE 2 * OneShifted[n - 1]

\* checked_shl saturates at the integer's width; checked_mul gives way to the ceiling.
Shl(n) == IF n < Width THEN OneShifted[n] ELSE OneShifted[Width] - 1
Doubled(p, n) ==
  IF p.backoff * Shl(n) > MaxDuration THEN p.max_backoff ELSE p.backoff * Shl(n)

\* Mutant: one attempt too many.
DelayBeforeOffByOne(p, n) ==
  IF n = 0 \/ n > p.attempts + 1 THEN None ELSE Min2(Doubled(p, n - 1), p.max_backoff)
\* Mutant: the shifted bit falls off the integer.
DelayBeforeWrapping(p, n) ==
  IF n = 0 \/ n > p.attempts THEN None
  ELSE Min2(p.backoff * (2^(n - 1) % 2^Width), p.max_backoff)

delay_before(p, n) ==
  IF n = 0 \/ n > p.attempts THEN None ELSE Min2(Doubled(p, n - 1), p.max_backoff)

---------------------------------------------------------------------------
(* execute() *)

\* Top of the loop, cancelled before the attempt began.
CancelledBeforeAttempt ==
  /\ pc = "loop" /\ token
  /\ Publish("cancelled", None)
  /\ pc' = "ended"
  /\ UNCHANGED <<policy, attempt, token, context>>

\* Mutant: the token is not looked at before an attempt.
StartUnasked ==
  /\ pc = "loop"
  /\ Publish("started", None)
  /\ pc' = "running" /\ context' = token
  /\ UNCHANGED <<policy, attempt, token>>

\* Every attempt gets a fresh child of the run's token.
StartAttempt ==
  /\ pc = "loop" /\ ~token
  /\ Publish("started", None)
  /\ pc' = "running" /\ context' = token
  /\ UNCHANGED <<policy, attempt, token>>

HandlerSucceeds ==
  /\ pc = "running"
  /\ Publish("completed", None)
  /\ pc' = "ended"
  /\ UNCHANGED <<policy, attempt, token, context>>

\* Mutant: the attempt's own token decides, so a deadline reads as a cancellation.
StopRequestedByContext == token \/ context'
\* The run token, not the attempt token: a deadline is not an instruction to stop.
StopRequested == token

\* What the loop does with an attempt's error.
AfterError ==
  LET wait == delay_before(policy, attempt + 1)
  IN  IF StopRequested THEN Publish("cancelled", None) /\ pc' = "ended"
      ELSE Publish("failed", wait) /\ pc' = IF wait = None THEN "ended" ELSE "backoff"

HandlerFails ==
  /\ pc = "running"
  /\ UNCHANGED context
  /\ AfterError
  /\ UNCHANGED <<policy, attempt, token>>

\* attempt_once(): the deadline drops the handler's future and cancels the attempt's token.
DeadlineExpires ==
  /\ pc = "running" /\ policy.timed
  /\ context' = TRUE
  /\ AfterError
  /\ UNCHANGED <<policy, attempt, token>>

\* A panic unwinds the task: nothing is published.
HandlerPanics ==
  /\ pc = "running"
  /\ pc' = "ended"
  /\ UNCHANGED <<policy, attempt, token, context, log>>

\* Mutant: the retry keeps the number of the attempt that failed.
BackoffSameAttempt ==
  /\ pc = "backoff"
  /\ pc' = "loop" /\ UNCHANGED attempt
  /\ UNCHANGED <<policy, token, context, log>>

BackoffOver ==
  /\ pc = "backoff"
  /\ pc' = "loop" /\ attempt' = attempt + 1
  /\ UNCHANGED <<policy, token, context, log>>

\* Mutant: the cancellation is published and the loop goes on.
CancelledGoesOn ==
  /\ pc = "backoff" /\ token
  /\ Publish("cancelled", None)
  /\ pc' = "loop"
  /\ UNCHANGED <<policy, attempt, token, context>>

CancelledInBackoff ==
  /\ pc = "backoff" /\ token
  /\ Publish("cancelled", None)
  /\ pc' = "ended"
  /\ UNCHANGED <<policy, attempt, token, context>>

---------------------------------------------------------------------------
\* cancel() or the component's stop().
Cancel ==
  /\ ~token
  /\ token' = TRUE
  /\ context' = TRUE
  /\ UNCHANGED <<policy, pc, attempt, log>>

\* The runtime is torn down: the task is dropped at an await point.
Drop ==
  /\ pc \in {"running", "backoff"}
  /\ pc' = "ended"
  /\ UNCHANGED <<policy, attempt, token, context, log>>

Init ==
  /\ policy \in Policies
  /\ pc = "loop" /\ attempt = 0 /\ token = FALSE /\ context = FALSE
  /\ log = <<>>

\* Mutant: a deadline is never armed.
RunnerWithoutDeadline ==
  CancelledBeforeAttempt \/ StartAttempt \/ BackoffOver \/ CancelledInBackoff

\* The steps tokio owes the firing: its task is polled and its timers fire.
Runner ==
  CancelledBeforeAttempt \/ StartAttempt \/ BackoffOver \/ CancelledInBackoff \/ DeadlineExpires
Handler == HandlerSucceeds \/ HandlerFails \/ HandlerPanics
Environment == Cancel \/ Drop

Next == Runner \/ Handler \/ Environment

Spec == Init /\ [][Next]_vars

\* Handlers need not ever return, and nobody need cancel.
FairSpec == Spec /\ WF_vars(Runner)

---------------------------------------------------------------------------
(* Properties *)

\* Every variable holds values of its kind.
TypeOK ==
  /\ policy \in Policies
  /\ pc \in {"loop", "running", "backoff", "ended"}
  /\ attempt \in 0..policy.attempts
  /\ token \in BOOLEAN /\ context \in BOOLEAN
  /\ log \in Seq([kind : {"started", "completed", "failed", "cancelled"},
                  attempt : Nat, wait : Nat \cup {None}])

Of(kind) == {i \in 1..Len(log) : log[i].kind = kind}

\* A consumer of the bus can pair attempts: attempt n + 1 starts only after attempt n was
\* reported as failed with a retry to come, each attempt starts once, and there are never
\* more than the policy's.
RetriesAreAnnounced ==
  \A i \in Of("started") :
    /\ log[i].attempt <= policy.attempts
    /\ log[i].attempt > 0 =>
         \E k \in Of("failed") : /\ k < i /\ log[k].wait # None
                                 /\ log[k].attempt + 1 = log[i].attempt
    /\ \A k \in Of("started") : log[i].attempt = log[k].attempt => i = k

\* completed, cancelled and a failure without a retry are the firing's last word.
LastWord ==
  \A i \in 1..Len(log) :
    log[i].kind \in {"completed", "cancelled"} \/ (log[i].kind = "failed" /\ log[i].wait = None)
      => i = Len(log) /\ pc = "ended"

\* A deadline counts as a failure, so the retry policy applies to it: a firing nobody
\* asked to stop never ends as cancelled.
CancelledOnlyWhenAsked == Of("cancelled") # {} => token

\* Once the firing was asked to stop, any pending retry is abandoned.
NoAttemptAfterCancel == [][token => Of("started")' = Of("started")]_vars

\* The backoff never shrinks from one retry to the next, and stays under its ceiling.
BackoffGrowsToItsCap ==
  \A i, k \in Of("failed") :
    log[k].wait # None =>
      /\ log[k].wait <= policy.max_backoff
      /\ i < k => log[i].wait <= log[k].wait

\* What a firing reports can be read without knowing the runner: retries are announced, follow
\* their policy's backoff, and the last word is the last (runner.rs execute(), attempt_once()).
RunnerInv ==
  TypeOK /\ RetriesAreAnnounced /\ LastWord /\ CancelledOnlyWhenAsked /\ BackoffGrowsToItsCap

\* A firing with a deadline ends, whatever its handler does.
TimedFiringEnds == policy.timed ~> (pc = "ended")

\* "Exactly one of JobCompleted, JobFailed or JobCancelled - per attempt".
OneOutcomePerAttempt ==
  \A i, k \in Of("completed") \cup Of("failed") \cup Of("cancelled") :
    log[i].attempt = log[k].attempt => i = k
============================================================================
