----------------------------- MODULE QuotaLedger -----------------------------
(***************************************************************************)
(* Cumulative spend ceilings, crates/quota: the document of rules and      *)
(* prices, the guard that checks and charges turns, and the two ledgers it *)
(* keeps its counters in.                                                  *)
(*                                                                         *)
(* A check reads its rows one await at a time and a charge is one ledger   *)
(* write per subject and period, so turns interleave between any two of    *)
(* them; each write of either ledger is atomic (a mutex, or one            *)
(* transaction behind the database's write queue).  A window is named by   *)
(* its period and its number, the order of the keys' text; periods have    *)
(* the lengths QuLength gives them, in ticks of the clock.                 *)
(***************************************************************************)
EXTENDS PolicyRules, Functions

CONSTANTS
  QuDocuments,      \* documents: [limits, prices]
  QuPrincipals,     \* the principals turns are taken as: [id, owner]
  QuCharges,        \* what a turn costs: [model, turns, input, output]
  QuCallers,        \* concurrent turns
  QuLength,         \* the periods a rule may have but "total", and their lengths
  QuPerPrice,       \* the tokens one price is for (a million)
  QuMaxCount,       \* the largest counter (u64::MAX)
  QuMaxTime,        \* bound: the last instant; one past it the clock is unusable
  QuMaxTurns,       \* bound: calls of check, record and status
  QuMaxBoots        \* bound: restarts

VARIABLES
  quDoc,            \* the document the guard was built with, PlNone when refused
  quDurable,        \* whether the ledger is the one on disk
  quNow,            \* the clock
  quRows,           \* the ledger: counters by subject, period and window
  quTurn,           \* where each caller is
  quStarted,        \* history: what charges began to write, by row
  quCharged,        \* history: what charges wrote in full, by row
  quCalls, quBoots

quVars == <<quDoc, quDurable, quNow, quRows, quTurn, quStarted, quCharged, quCalls,
            quBoots>>

Periods    == DOMAIN QuLength \cup {"total"}
Dimensions == {"turns", "input", "output", "total", "cost"}
-----------------------------------------------------------------------------
(***************************************************************************)
(* Counters.                                                               *)
(***************************************************************************)
Empty == [turns |-> 0, input |-> 0, output |-> 0, cost |-> 0]

Saturated(n) == IF n > QuMaxCount THEN QuMaxCount ELSE n

saturating_add(a, b) == [f \in DOMAIN a |-> Saturated(a[f] + b[f])]

get(counters, dimension) ==
  IF dimension = "total" THEN Saturated(counters.input + counters.output)
  ELSE counters[dimension]
-----------------------------------------------------------------------------
(***************************************************************************)
(* The document.                                                           *)
(***************************************************************************)
\* QuotaRule::validate; the ceilings of a rule are a function from the dimensions it caps.
validate_limit(rule) ==
  /\ ~is_vacuous(rule.subject)
  /\ rule.ceilings # <<>>
  /\ DOMAIN rule.ceilings \subseteq Dimensions
  /\ \A d \in DOMAIN rule.ceilings : rule.ceilings[d] > 0
  /\ ~rule.blank

validate_quota(doc) ==
  /\ \A i \in DOMAIN doc.limits : validate_limit(doc.limits[i])
  /\ \A key \in DOMAIN doc.prices : ~is_vacuous(parse_pattern(key))

\* How closely a price key names a model: 0 not at all, "*" barely, a longer prefix better.
Closeness(key, model) ==
  LET pattern == parse_pattern(key)
  IN  CASE pattern.kind = "any" -> 1
        [] pattern.kind = "prefix" /\ IsPrefix(pattern.text, model) -> Len(pattern.text) + 2
        [] OTHER -> 0

\* QuotaDocument::price: the exact key, then the pattern that names the model most closely.
price(doc, model) ==
  LET near == {k \in DOMAIN doc.prices : Closeness(k, model) > 0}
  IN  CASE model \in DOMAIN doc.prices -> doc.prices[model]
        [] model \notin DOMAIN doc.prices /\ near # {} ->
             doc.prices[CHOOSE k \in near :
                          \A j \in near : Closeness(j, model) <= Closeness(k, model)]
        [] OTHER -> PlNone

cost_micros(p, charge) ==
  Saturated((charge.input * p.input + charge.output * p.output) \div QuPerPrice)
-----------------------------------------------------------------------------
(***************************************************************************)
(* Windows.                                                                *)
(***************************************************************************)
\* utc(): an instant no date can hold is an error, never clamped into a window.
representable(at) == at <= QuMaxTime

\* QuotaPeriod::window, as the window's number; PlNone for an error.
window(period, at) ==
  CASE period = "total"                        -> 0
    [] period # "total" /\ representable(at)   -> at \div QuLength[period]
    [] OTHER                                   -> PlNone
-----------------------------------------------------------------------------
(***************************************************************************)
(* The ledger.                                                             *)
(***************************************************************************)
Subjects_ == {p.id : p \in QuPrincipals} \cup ({p.owner : p \in QuPrincipals} \ {PlNone})
Rows == Subjects_ \X Periods \X (0 .. QuMaxTime)

\* An absent row reads as empty.
usage(rows, k) == IF k \in DOMAIN rows THEN rows[k] ELSE Empty

\* A plausible slip: every other window of the period is dropped, not only earlier ones.
close_others(rows, subject, period, w, delta) ==
  LET key == <<subject, period, w>>
      kept == {k \in DOMAIN rows : ~(k[1] = subject /\ k[2] = period /\ k[3] # w)}
  IN  [k \in kept \cup {key} |-> IF k = key THEN saturating_add(usage(rows, k), delta) ELSE rows[k]]

\* UsageLedger::add: the row grows and the windows of its period before it are dropped, in
\* one step.
add_usage(rows, subject, period, w, delta) ==
  LET key == <<subject, period, w>>
      kept == {k \in DOMAIN rows : ~(k[1] = subject /\ k[2] = period /\ k[3] < w)}
  IN  [k \in kept \cup {key} |-> IF k = key THEN saturating_add(usage(rows, k), delta) ELSE rows[k]]

\* RedbUsageLedger keeps its rows over a restart, InMemoryUsageLedger starts again.
NoRows == [k \in {} |-> Empty]
reopened(rows) == IF quDurable THEN rows ELSE NoRows
-----------------------------------------------------------------------------
(***************************************************************************)
(* The guard.                                                              *)
(***************************************************************************)
subjects(p) == <<p.id>> \o IF p.owner \in {PlNone, p.id} THEN <<>> ELSE <<p.owner>>

rules_for(subject) == SelectSeq(quDoc.limits, LAMBDA r : matches_pattern(r.subject, subject))

\* A plausible slip: the periods of the rules as they stand, one charge per rule.
periods_repeated(subject) == [i \in DOMAIN rules_for(subject) |-> rules_for(subject)[i].period]

\* The distinct periods the subject is capped on.
periods_for(subject) ==
  SetToSeq({r.period : r \in {x \in Range(quDoc.limits) : matches_pattern(x.subject, subject)}})

\* LimitedQuotaGuard::record's delta, priced when it is charged; a model without a price
\* costs nothing here (check() has refused it where a rule caps cost).
charge_delta(charge) ==
  LET p == price(quDoc, charge.model)
  IN  [turns |-> charge.turns, input |-> charge.input, output |-> charge.output,
       cost |-> IF p = PlNone THEN 0 ELSE cost_micros(p, charge)]

Idle == [pc |-> "idle"]

Then(c, turn) == quTurn' = [quTurn EXCEPT ![c] = turn]

\* check() and status() begin: the clock is read once, before any row.
begin(c, p, model, purpose) ==
  /\ quDoc # PlNone /\ quTurn[c].pc = "idle" /\ quCalls < QuMaxTurns
  /\ quCalls' = quCalls + 1
  /\ LET asked == FlattenSeq([i \in DOMAIN subjects(p) |->
                     LET s == subjects(p)[i]
                     IN  [j \in DOMAIN rules_for(s) |-> <<s, rules_for(s)[j]>>]])
     IN  Then(c, CASE asked # <<>> -> [pc |-> "reading", as |-> p, model |-> model,
                                       purpose |-> purpose, now |-> quNow, left |-> asked,
                                       seen |-> <<>>]
                   [] asked = <<>> /\ purpose = "check" -> [pc |-> "admitted", as |-> p]
                   [] OTHER -> Idle)
  /\ UNCHANGED <<quDoc, quDurable, quNow, quRows, quStarted, quCharged, quBoots>>

\* Rows::get: a row already read in this call is not read again.
Seen(t, key) == \E i \in DOMAIN t.seen : t.seen[i][1] = key

row_of(t, key) ==
  IF Seen(t, key)
  THEN t.seen[CHOOSE i \in DOMAIN t.seen : t.seen[i][1] = key][2]
  ELSE usage(quRows, key)

unpriced(t, rule) == "cost" \in DOMAIN rule.ceilings /\ price(quDoc, t.model) = PlNone

exhausted(rule, counters) ==
  \E d \in DOMAIN rule.ceilings : get(counters, d) >= rule.ceilings[d]

\* One rule of check() or status(): the price, the window, then the row and its ceilings.
\* What cannot be read or computed refuses the turn.
consult(c) ==
  LET t == quTurn[c]
      s == Head(t.left)[1]
      r == Head(t.left)[2]
      w == window(r.period, t.now)
      key == <<s, r.period, w>>
      checking == t.purpose = "check"
  IN  /\ t.pc = "reading"
      /\ \/ /\ \/ checking /\ unpriced(t, r)
               \/ w = PlNone
               \/ quDurable /\ ~Seen(t, key)     \* the read fails
               \/ w # PlNone /\ checking /\ exhausted(r, row_of(t, key))
            /\ Then(c, Idle)
         \/ /\ ~(checking /\ unpriced(t, r))
            /\ w # PlNone
            /\ ~(checking /\ exhausted(r, row_of(t, key)))
            /\ Then(c, CASE Len(t.left) > 1 ->
                              [t EXCEPT !.left = Tail(@),
                                        !.seen = Append(@, <<key, row_of(t, key)>>)]
                         [] Len(t.left) = 1 /\ checking -> [pc |-> "admitted", as |-> t.as]
                         [] OTHER -> Idle)
      /\ UNCHANGED <<quDoc, quDurable, quNow, quRows, quStarted, quCharged, quCalls, quBoots>>

\* The turn fails and nothing is charged.
abandon(c) ==
  /\ quTurn[c].pc = "admitted"
  /\ Then(c, Idle)
  /\ UNCHANGED <<quDoc, quDurable, quNow, quRows, quStarted, quCharged, quCalls, quBoots>>

\* Whom a charge is due from, by row, stated without the order the guard walks in.
Owed(doc, p, at) ==
  {<<sr[1], sr[2].period, window(sr[2].period, at)>> :
     sr \in {x \in (({p.id, p.owner} \ {PlNone}) \X Range(doc.limits)) :
               matches_pattern(x[2].subject, x[1])}}

Grown(history, rows, delta) ==
  [k \in DOMAIN history \cup (rows \cap Rows) |->
     IF k \in rows THEN [f \in DOMAIN delta |-> usage(history, k)[f] + delta[f]] ELSE history[k]]

\* One write for each subject and period, the principal's before its owner's.
due_from(s) == [j \in DOMAIN periods_for(s) |-> <<s, periods_for(s)[j]>>]
due_of(p) == due_from(p.id) \o IF p.owner \in {PlNone, p.id} THEN <<>> ELSE due_from(p.owner)

\* record(): the clock is read again, then the writes.
record(c, charge) ==
  LET t == quTurn[c]
      due == due_of(t.as)
  IN  /\ t.pc = "admitted"
      /\ Then(c, IF due = <<>> THEN Idle
                 ELSE [pc |-> "charging", as |-> t.as, now |-> quNow, left |-> due,
                       delta |-> charge_delta(charge)])
      /\ quStarted' = Grown(quStarted, Owed(quDoc, t.as, quNow), charge_delta(charge))
      /\ UNCHANGED <<quDoc, quDurable, quNow, quRows, quCharged, quCalls, quBoots>>

\* The next write of a charge lands; the last one completes it.
charge_row(c) ==
  LET t == quTurn[c]
      s == Head(t.left)[1]
      p == Head(t.left)[2]
      w == window(p, t.now)
  IN  /\ t.pc = "charging" /\ w # PlNone
      /\ quRows' = add_usage(quRows, s, p, w, t.delta)
      /\ Then(c, IF Len(t.left) = 1 THEN Idle ELSE [t EXCEPT !.left = Tail(@)])
      /\ quCharged' = IF Len(t.left) > 1 THEN quCharged
                      ELSE Grown(quCharged, Owed(quDoc, t.as, t.now), t.delta)
      /\ UNCHANGED <<quDoc, quDurable, quNow, quStarted, quCalls, quBoots>>

\* A write fails, or the instant has no window: record() returns and the rest is not charged.
charge_fails(c) ==
  /\ quTurn[c].pc = "charging"
  /\ quDurable \/ window(Head(quTurn[c].left)[2], quTurn[c].now) = PlNone
  /\ Then(c, Idle)
  /\ UNCHANGED <<quDoc, quDurable, quNow, quRows, quStarted, quCharged, quCalls, quBoots>>

tick ==
  /\ quNow <= QuMaxTime
  /\ quNow' = quNow + 1
  /\ UNCHANGED <<quDoc, quDurable, quRows, quTurn, quStarted, quCharged, quCalls, quBoots>>

\* The process ends, between any two writes, and is started again.
restart ==
  /\ quDoc # PlNone /\ quBoots < QuMaxBoots
  /\ quBoots' = quBoots + 1
  /\ quRows' = reopened(quRows)
  /\ quTurn' = [c \in QuCallers |-> Idle]
  /\ quStarted' = reopened(quStarted)
  /\ quCharged' = reopened(quCharged)
  /\ UNCHANGED <<quDoc, quDurable, quNow, quCalls>>

\* QuotaComponent and RedbQuotaComponent: a document that does not validate stops the
\* kernel from starting; either ledger starts without rows.
QuotaInit ==
  /\ \E doc \in QuDocuments : quDoc = IF validate_quota(doc) THEN doc ELSE PlNone
  /\ quDurable \in BOOLEAN
  /\ quNow = 0
  /\ quRows = NoRows
  /\ quTurn = [c \in QuCallers |-> Idle]
  /\ quStarted = NoRows
  /\ quCharged = NoRows
  /\ quCalls = 0 /\ quBoots = 0

QuotaNext ==
  \/ \E c \in QuCallers :
        \/ \E p \in QuPrincipals, charge \in QuCharges, why \in {"check", "status"} :
              begin(c, p, charge.model, why)
        \/ consult(c) \/ abandon(c) \/ charge_row(c) \/ charge_fails(c)
        \/ \E charge \in QuCharges : record(c, charge)
  \/ tick \/ restart

QuotaSpec == QuotaInit /\ [][QuotaNext]_quVars

\* Counters and times are numbers, prices are of a whole count of tokens, periods have a
\* length; a document's rules are over these periods and its price keys are finitely many;
\* a charge is of at least one turn (UsageCharge::turn); whoever acts is somebody.
QuotaConstants ==
  /\ QuMaxCount \in Nat /\ QuMaxTime \in Nat /\ QuPerPrice \in Nat \ {0}
  /\ PlNone \notin Nat /\ PlNone \notin QuDocuments
  /\ IsFiniteSet(DOMAIN QuLength) /\ \A p \in Periods \ {"total"} : QuLength[p] \in Nat \ {0}
  /\ IsFiniteSet(QuCallers)
  /\ \A p \in QuPrincipals : p.id # PlNone
  /\ \A charge \in QuCharges : /\ charge.turns \in Nat \ {0}
                               /\ charge.input \in Nat /\ charge.output \in Nat
  /\ \A doc \in QuDocuments :
       /\ doc.limits \in Seq(Range(doc.limits))
       /\ \A r \in Range(doc.limits) : r.period \in Periods
       /\ IsFiniteSet(DOMAIN doc.prices)
       /\ \A m \in DOMAIN doc.prices : /\ m \in Seq(Range(m)) /\ doc.prices[m] # PlNone
                                       /\ doc.prices[m].input \in Nat /\ doc.prices[m].output \in Nat
-----------------------------------------------------------------------------
(***************************************************************************)
(* Properties.                                                             *)
(***************************************************************************)
Newest(k) == \A j \in DOMAIN quStarted :
               (j[1] = k[1] /\ j[2] = k[2] /\ j[3] > k[3]) => quStarted[j] = Empty

Remembered(row, charged, started) ==
  \A f \in DOMAIN Empty : row[f] >= Saturated(charged[f]) /\ row[f] <= Saturated(started[f])

(***************************************************************************)
(* The row of a subject's latest window says what was spent in it: all of  *)
(* every charge record() completed, of the principal and of whom it acts   *)
(* for, once for each period however many rules share it, and never more   *)
(* than what charges began, whatever late write, clock change, failed      *)
(* write or restart came between; a sum past the width stays at the top.   *)
(***************************************************************************)
SpendIsRemembered ==
  \A k \in DOMAIN quRows \cup DOMAIN quStarted \cup DOMAIN quCharged :
    Newest(k) => Remembered(usage(quRows, k), usage(quCharged, k), usage(quStarted, k))
=============================================================================
