---------------------------- MODULE MCScheduler ----------------------------
(* Small instances of Scheduler for TLC. *)
EXTENDS Scheduler, TLC

CONSTANTS j1, alice, helper

MCDelegates == {<<helper, alice>>} \cap (Principals \X Principals)

Spec4(k, n, p, h) == [kind |-> k, arg |-> n, persistent |-> p, handled |-> h]

\* A durable periodic job and a durable reminder.
DurableSpecs == {Spec4("every", 1, TRUE, TRUE), Spec4("at", 1, TRUE, TRUE)}
\* A durable cron job, one that waits for an event, and a delay nothing handles.
MixedSpecs ==
  {Spec4("cron", 1, TRUE, TRUE), Spec4("event", 0, TRUE, TRUE), Spec4("after", 0, FALSE, FALSE)}
EventSpecs == {Spec4("event", 0, FALSE, TRUE), Spec4("at", 3, FALSE, TRUE)}
=============================================================================
