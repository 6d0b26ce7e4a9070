---------------------------- MODULE MCSummariser ----------------------------
(* A conversation that is written to, swept and compacted at once. *)
EXTENDS Summariser, TLC

CONSTANTS alice, aide

MCMayActFor == alice :> {alice} @@ aide :> {alice, aide}
Say == [kind |-> "text", call |-> "none", pinned |-> FALSE, tokens |-> 1]
Rule == [Say EXCEPT !.pinned = TRUE]
Ask == [kind |-> "call", call |-> "c1", pinned |-> FALSE, tokens |-> 1]
Answer == [Ask EXCEPT !.kind = "result", !.tokens = 2]
Blank == [Say EXCEPT !.kind = "blank"]

MCEntries == {Rule, Ask, Answer}
MCSymmetry == Permutations(Sessions) \cup Permutations(Rounds)
\* The delegate writes before the first tick.  While a round runs, one session is in use, by one
\* principal and its store; two rounds meet between two ticks.
Narrow ==
  \/ /\ \A r \in Rounds : round[r] = Idle
     /\ \A w \in Writers : call[w] # Nothing /\ call[w].p = aide => now = 1
  \/ /\ Cardinality(HeldSessions \cup {call[w].s : w \in {x \in Writers : call[x] # Nothing}}) <= 1
     /\ Cardinality({r \in Rounds : round[r] # Idle}) > 1 => now = 1
     /\ sweep = Nothing /\ \A r \in Rounds : round[r] # Idle => round[r].p = alice
     /\ \A w \in Writers : call[w] # Nothing => call[w].p = alice /\ call[w].at = 1
MCBudgets == {[max_records |-> 2, max_tokens |-> 4, max_part_tokens |-> Nothing]}
=============================================================================
