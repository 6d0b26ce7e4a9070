----------------------------- MODULE MCToolGate -----------------------------
(* A call that reads untrusted content and one that writes, in one conversation; writing asks
   for a permission and for a path. *)
EXTENDS ToolGate, TLC

CONSTANTS fetch, write, s1, s2, tty

MCRequests == {fetch, write} \X (1..MaxQuestion)
MCTool ==
  fetch :> [scope |-> s1, n |-> 0, last |-> 2, reach |-> "contained", output |-> "untrusted"]
  @@ write :> [scope |-> s1, n |-> 2, last |-> 4, reach |-> "mutating", output |-> "trusted"]
\* Every enforcement, a deployment nobody answers for, and a ledger at its limit.
MCSettings ==
  {[enforcement |-> "approval", sink |-> TRUE, capacity |-> 1],
   [enforcement |-> "approval", sink |-> FALSE, capacity |-> 0],
   [enforcement |-> "deny", sink |-> FALSE, capacity |-> 1],
   [enforcement |-> "observe", sink |-> FALSE, capacity |-> 1]}
=============================================================================
