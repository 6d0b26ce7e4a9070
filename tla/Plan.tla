-------------------------------- MODULE Plan --------------------------------
(***************************************************************************)
(* Pure: what one round of compaction summarises (summary/src/plan.rs),    *)
(* decided before anything is sent to a model or removed.  The characters  *)
(* a record renders to are as many as its tokens here.                     *)
(***************************************************************************)
EXTENDS Window

CONSTANTS KeepRecent, MinRetained, MinSummarised, RetainPercent, MaxExcerpt  \* SummarySettings

ASSUME SummaryAssumption ==
  /\ {KeepRecent, MinRetained, MinSummarised, RetainPercent, MaxExcerpt} \subseteq Nat
  /\ Nothing \notin Nat

InOrder(rows, S) ==
  [i \in 1..Cardinality(S) |-> rows[CHOOSE n \in S : Cardinality({m \in S : m < n}) = i - 1]]

\* How many of the newest unpinned records stay.
retained(rows, budget) ==
  LET U == Unpinned(rows)
      n == Cardinality(U)
      allowance == (Left(budget.max_tokens, CostOf(rows, Pinned(rows), Unlimited)) * RetainPercent) \div 100
      fitting == Cardinality({i \in U : CostOf(rows, {j \in U : j >= i}, Unlimited) <= allowance})
      wanted == {KeepRecent, n}
                \cup (IF budget.max_records = Nothing THEN {}
                      ELSE {Left(budget.max_records, Cardinality(Pinned(rows)))})
                \cup (IF budget.max_tokens = Nothing THEN {} ELSE {fitting})
  IN  Min({Max({Min(wanted), MinRetained}), n})

\* Mutant: the cap is checked only after the record is in.
CapCheckedLate(was, size) == was.body > MaxExcerpt /\ was.n >= MinSummarised

\* The excerpt is full, and enough of the session is in it.
AtCap(was, size) == was.body + size + 1 > MaxExcerpt /\ was.n >= MinSummarised

\* What the excerpt holds after i candidates: a record that renders to nothing is counted
\* without one, and the character cap stops the excerpt once the minimum is covered.
Excerpt(c) ==
  LET f[i \in 0..Len(c)] ==
        IF i = 0 THEN [n |-> 0, body |-> 0, full |-> FALSE]
        ELSE LET was == f[i - 1]
                 size == c[i].tokens IN
             IF was.full THEN was
             ELSE IF c[i].kind = "blank" THEN [was EXCEPT !.n = @ + 1]
             ELSE IF AtCap(was, size) THEN [was EXCEPT !.full = TRUE]
             ELSE [was EXCEPT !.n = @ + 1,
                              !.body = IF @ = 0 THEN size ELSE @ + 1 + size]
  IN  f[Len(c)]

\* What a round covers, or Nothing when there is nothing worth doing.
plan(rows, budget) ==
  LET U == InOrder(rows, Unpinned(rows))
      c == SubSeq(U, 1, Len(U) - retained(rows, budget))
      x == Excerpt(c)
  IN  IF Len(c) < MinSummarised \/ x.body = 0 THEN Nothing
      ELSE [n |-> x.n, pinned |-> Cardinality(Pinned(rows)),
            ids |-> {c[i].id : i \in 1..x.n}, pins |-> {rows[i].id : i \in Pinned(rows)}]

\* A plan covers the oldest unpinned records, one after the other; it leaves the floor of
\* newest ones alone; and it stops at the character cap unless the minimum is not reached,
\* so that what is later removed is what the model was shown and no more.
PlanCoversOldest(rows, budget) ==
  LET U == InOrder(rows, Unpinned(rows))
      todo == plan(rows, budget) IN
  todo # Nothing =>
    LET shown == {i \in 1..todo.n : U[i].kind # "blank"}
        size == MapThenSumSet(LAMBDA i : U[i].tokens, shown) + Cardinality(shown) - 1
    IN  /\ todo.ids = {U[i].id : i \in 1..todo.n}
        /\ todo.n + Min({MinRetained, Len(U)}) <= Len(U) /\ shown # {}
        /\ todo.n >= MinSummarised
        /\ size <= MaxExcerpt \/ Cardinality({i \in shown : i > MinSummarised}) = 0
=============================================================================
