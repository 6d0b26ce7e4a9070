------------------------------ MODULE MCKernel ------------------------------
(* Dependency graphs of every shape, a daemon and a second caller. *)
EXTENDS Kernel, TLC

CONSTANTS daemon, stopper

MCKind == daemon :> "run" @@ stopper :> "shutdown"

None == [c \in Components |-> {}]
\* Chains, forks, joins, cycles and self-dependencies among required dependencies (the
\* first component may only require the last), optional ones, and absent ones.
MCGraphs ==
  {[requires |-> r, optional |-> None] : r \in {r \in [Components -> SUBSET Components] :
                                                  r[1] \subseteq {3} /\ r[2] \subseteq {1, 2}}}
  \cup {[requires |-> [None EXCEPT ![3] = {1}], optional |-> [None EXCEPT ![1] = {2, Absent}]]}
  \cup {[requires |-> [None EXCEPT ![2] = {Absent}], optional |-> None]}
=============================================================================
