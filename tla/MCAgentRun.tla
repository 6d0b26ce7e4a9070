----------------------------- MODULE MCAgentRun -----------------------------
(* A person's own run and an agent's run on that person's behalf. *)
EXTENDS AgentRun, TLC

CONSTANTS own, delegated, person, agent

MCSubjects == own :> <<person>> @@ delegated :> <<agent, person>>
\* Replies hold two calls: the first run is stopped by its calls, the second by its turns.
MCMaxTurns == own :> 2 @@ delegated :> 1
MCMaxToolCalls == own :> 3 @@ delegated :> 2
\* A deployment that compacts, and one with a tight budget that outlives a quota window.
MCSettings == {[compactor |-> TRUE, ceiling |-> 2, last |-> 0],
               [compactor |-> FALSE, ceiling |-> 1, last |-> 1]}
MCCompacting == {[compactor |-> TRUE, ceiling |-> 1, last |-> 0]}
=============================================================================
