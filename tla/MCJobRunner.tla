---------------------------- MODULE MCJobRunner ----------------------------
(* Small instances of JobRunner for TLC. *)
EXTENDS JobRunner

\* No retry, one, and enough for the backoff to reach its ceiling, the integer's width and
\* the longest duration.
MCPolicies ==
  [attempts : {0, 1, 5}, backoff : {0, 1, 2}, max_backoff : {1, 9}, timed : BOOLEAN]
=============================================================================
