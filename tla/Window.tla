------------------------------- MODULE Window -------------------------------
(***************************************************************************)
(* Pure: which records of a transcript a model is shown under a budget     *)
(* (context/src/window.rs).  A record is one message of one part: its text *)
(* or blob, a tool call, or the result of one.                             *)
(***************************************************************************)
EXTENDS Naturals, Sequences, FiniteSets, FiniteSetsExt

CONSTANTS
  MarkerTokens,  \* what an elision marker costs
  Nothing        \* no limit

Unlimited == [max_records |-> Nothing, max_tokens |-> Nothing, max_part_tokens |-> Nothing]

---------------------------------------------------------------------------
(* Counting, and cutting a text to a count *)

\* HeuristicTokenCounter::count_text, of so many bytes.
count_text(bytes, bytes_per_token) == (bytes + bytes_per_token - 1) \div bytes_per_token

\* Where each character of a text starts, given the widths of its characters in bytes.
Boundaries(widths) ==
  [k \in DOMAIN widths |-> MapThenSumSet(LAMBDA j : widths[j], 1..(k - 1))]

TextBytes(widths) == MapThenSumSet(LAMBDA j : widths[j], DOMAIN widths)

\* Mutant: the probe that fits is not kept as the lower end.
ProbeLoses(fits, low, high, mid) == IF fits THEN [low |-> low, high |-> mid] ELSE [low |-> low, high |-> mid]

\* One probe of the binary search.
Probe(fits, low, high, mid) == IF fits THEN [low |-> mid, high |-> high] ELSE [low |-> low, high |-> mid]

\* The bytes kept of a text: all of it, or a cut at a character found by binary search.
truncate_to_tokens(widths, limit, bpt) ==
  LET b == Boundaries(widths)
      search[k \in 0..Len(b)] ==
        IF k = 0 THEN [low |-> 1, high |-> Len(b) + 1]
        ELSE LET was == search[k - 1]
                 mid == was.low + (was.high - was.low) \div 2 IN
             IF was.low + 1 >= was.high THEN was
             ELSE Probe(count_text(b[mid], bpt) <= limit, was.low, was.high, mid)
  IN  IF count_text(TextBytes(widths), bpt) <= limit \/ b = <<>> THEN TextBytes(widths)
      ELSE b[search[Len(b)].low]

\* The cut is at a character, within the limit, and the longest such.
TruncationIsLongest(widths, limit, bpt) ==
  LET cuts == {Boundaries(widths)[k] : k \in DOMAIN widths} \cup {TextBytes(widths)}
  IN  truncate_to_tokens(widths, limit, bpt)
        = Max({c \in cuts : c = 0 \/ count_text(c, bpt) <= limit})

---------------------------------------------------------------------------
(* Eliding, selecting, and dropping what is stranded *)

\* What an oversized part becomes: text is cut and noted, anything else is a marker, opaque
\* content is left.  Never dearer than what it replaces.
elide_part(r, limit) ==
  LET to == CASE r.kind = "other" -> r.tokens
              [] r.kind \in {"text", "blank"} -> limit + MarkerTokens
              [] OTHER -> MarkerTokens
  IN  Min({to, r.tokens})

Cost(r, budget) ==
  IF budget.max_part_tokens # Nothing /\ r.tokens > budget.max_part_tokens
  THEN elide_part(r, budget.max_part_tokens) ELSE r.tokens

CostOf(rows, S, budget) == MapThenSumSet(LAMBDA i : Cost(rows[i], budget), S)

Unpinned(rows) == {i \in DOMAIN rows : ~rows[i].pinned}
Pinned(rows) == DOMAIN rows \ Unpinned(rows)
Left(max, spent) == IF max > spent THEN max - spent ELSE 0

over_budget(rows, budget) ==
  budget.max_tokens # Nothing /\ CostOf(rows, Pinned(rows), budget) > budget.max_tokens

\* Mutant: a record that does not fit is skipped, and older ones are still tried.
SkipsMisfit(was) == was

\* The first record that does not fit ends the selection.
NotAccepted(was) == [was EXCEPT !.accepting = FALSE]

\* The selection, newest record first, after the pinned ones have been paid for.
Select(rows, budget) ==
  LET n == Len(rows)
      tokens == Left(budget.max_tokens, CostOf(rows, Pinned(rows), budget))
      count == Left(budget.max_records, Cardinality(Pinned(rows)))
      f[i \in 0..n] ==
        IF i = 0 THEN [keep |-> {}, accepting |-> TRUE, tokens |-> 0, records |-> 0]
        ELSE LET was == f[i - 1]
                 r == rows[n + 1 - i] IN
             IF r.pinned THEN [was EXCEPT !.keep = @ \cup {n + 1 - i}]
             ELSE IF ~was.accepting THEN was
             ELSE IF budget.max_records # Nothing /\ was.records >= count THEN NotAccepted(was)
             ELSE IF budget.max_tokens # Nothing /\ was.tokens + Cost(r, budget) > tokens
                  THEN NotAccepted(was)
             ELSE [was EXCEPT !.keep = @ \cup {n + 1 - i}, !.records = @ + 1,
                              !.tokens = @ + Cost(r, budget)]
  IN  f[n].keep

\* Mutant: a call answers a result wherever in the window it stands.
AnsweredAnywhere(rows, S, i) ==
  rows[i].kind = "result" /\ ~ \E j \in S : rows[j].kind = "call" /\ rows[j].call = rows[i].call

\* A result whose call is not in the window before it: a provider would refuse it.
drop_orphan_results(rows, S, i) ==
  /\ rows[i].kind = "result"
  /\ ~ \E j \in S : j < i /\ rows[j].kind = "call" /\ rows[j].call = rows[i].call

\* The positions whose messages the window carries; one left empty is dropped with them.
assemble(rows, budget) ==
  LET S == Select(rows, budget) IN {i \in S : ~drop_orphan_results(rows, S, i)}

\* What the window reports about itself.
ContextUsage(rows, budget) ==
  LET W == assemble(rows, budget) IN
  [included_records |-> Cardinality(W), included_tokens |-> CostOf(rows, W, budget),
   dropped_records |-> Len(rows) - Cardinality(W),
   dropped_tokens |-> CostOf(rows, DOMAIN rows \ W, Unlimited),
   elided_tokens |-> CostOf(rows, W, Unlimited) - CostOf(rows, W, budget),
   over_budget |-> over_budget(rows, budget)]

\* The window is every pinned record and the longest newest run of the others that both
\* limits leave room for, without the results whose calls fell outside it: no holes, no
\* orphan, nothing over budget but what is pinned, and the usage adds up to the transcript.
WindowIsNewestThatFits(rows, budget) ==
  LET W == assemble(rows, budget)
      S == Select(rows, budget)
      U == S \cap Unpinned(rows)
      From(i) == {j \in Unpinned(rows) : j >= i}
      Room(i) == /\ budget.max_records # Nothing =>
                      Cardinality(From(i)) + Cardinality(Pinned(rows)) <= budget.max_records
                 /\ budget.max_tokens # Nothing =>
                      CostOf(rows, From(i) \cup Pinned(rows), budget) <= budget.max_tokens
      u == ContextUsage(rows, budget)
  IN  /\ S = Pinned(rows) \cup {i \in Unpinned(rows) : Room(i)}
      /\ \A i \in W : rows[i].kind = "result" =>
           \E j \in W : j < i /\ rows[j].kind = "call" /\ rows[j].call = rows[i].call
      /\ \A i \in U \ W : rows[i].kind = "result"
      /\ budget.max_tokens # Nothing /\ ~u.over_budget => u.included_tokens <= budget.max_tokens
      /\ u.included_tokens + u.elided_tokens + u.dropped_tokens = CostOf(rows, DOMAIN rows, Unlimited)
=============================================================================
