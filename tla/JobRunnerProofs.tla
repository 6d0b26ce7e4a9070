-------------------------- MODULE JobRunnerProofs --------------------------
(* Theorems about JobRunner, for any retry policies, any width of the shifted integer and
   any longest duration. *)
EXTENDS JobRunner, Induction, SequenceTheorems, TLAPS

---------------------------------------------------------------------------
(* delay_before() *)

(* OneShifted is what its definition says: the recursion has a solution. *)
LEMMA ShiftsExist ==
  OneShifted = [n \in 0..Width |-> IF n = 0 THEN 1 ELSE 2 * OneShifted[n - 1]]
<1> DEFINE Solves(f, n) == f = [k \in 0..n |-> IF k = 0 THEN 1 ELSE 2 * f[k - 1]]
           S == {n \in 0..Width : \E f : Solves(f, n)}
<1>1. Width \in Nat
  BY PoliciesAssumption
<1>2. 0 \in S
  <2> DEFINE f == [k \in 0..0 |-> 1]
  <2>1. Solves(f, 0)
    OBVIOUS
  <2>2. \E x : Solves(x, 0)
    BY <2>1
  <2> QED
    BY <1>1, <2>2
<1>3. ASSUME NEW n \in 0..Width, n \in S, n < Width PROVE n + 1 \in S
  <2>1. PICK f : Solves(f, n)
    BY <1>3
  <2> DEFINE h == [k \in 0..(n + 1) |-> IF k = 0 THEN 1 ELSE 2 * f[k - 1]]
  <2>2. \A k \in 0..n : h[k] = f[k]
    BY <1>1, <2>1
  <2>3. \A k \in 0..(n + 1) : k # 0 => h[k] = 2 * h[k - 1]
    <3> SUFFICES ASSUME NEW k \in 0..(n + 1), k # 0 PROVE h[k] = 2 * h[k - 1]
      OBVIOUS
    <3>1. k - 1 \in 0..n
      BY <1>1
    <3>2. h[k] = 2 * f[k - 1]
      OBVIOUS
    <3> QED
      BY <2>2, <3>1, <3>2
  <2>4. Solves(h, n + 1)
    <3>1. h[0] = 1
      BY <1>1
    <3> QED
      BY <2>3, <3>1
  <2>5. n + 1 \in 0..Width
    BY <1>1, <1>3
  <2>6. \E x : Solves(x, n + 1)
    BY <2>4, Zenon
  <2> QED
    BY <2>5, <2>6
<1>4. \A n \in 0..Width : n \in S
  <2> HIDE DEF S
  <2> QED
    BY <1>1, <1>2, <1>3, UpTo
<1>5. \E f : Solves(f, Width)
  BY <1>1, <1>4
<1> QED
  BY <1>5, Zenon DEF OneShifted

(* A one that is shifted stays a natural number and is doubled by one more place. *)
LEMMA ShiftDoubles ==
  /\ \A n \in 0..Width : OneShifted[n] \in Nat \ {0}
  /\ \A n \in 0..Width : n < Width => OneShifted[n + 1] = 2 * OneShifted[n]
<1> DEFINE S == {n \in 0..Width : OneShifted[n] \in Nat \ {0}}
<1>1. Width \in Nat
  BY PoliciesAssumption
<1>2. OneShifted[0] = 1 /\ \A n \in 0..Width : n < Width => OneShifted[n + 1] = 2 * OneShifted[n]
  BY <1>1, ShiftsExist
<1>3. 0 \in S
  BY <1>1, <1>2
<1>4. \A n \in 0..Width : n \in S /\ n < Width => n + 1 \in S
  BY <1>1, <1>2
<1>5. \A n \in 0..Width : n \in S
  <2> HIDE DEF S
  <2> QED
    BY <1>1, <1>3, <1>4, UpTo
<1> QED
  BY <1>2, <1>5

(* Shl never falls from one shift to the next, through its saturation. *)
LEMMA ShlStep ==
  ASSUME NEW n \in Nat
  PROVE  Shl(n) \in Nat /\ Shl(n) <= Shl(n + 1)
<1>1. Width \in Nat
  BY PoliciesAssumption
<1>2. \A k \in 0..Width : OneShifted[k] \in Nat \ {0}
  BY ShiftDoubles
<1>3. Shl(n) \in Nat
  BY <1>1, <1>2 DEF Shl
<1>4. CASE n + 1 < Width
  <2>1. OneShifted[n + 1] = 2 * OneShifted[n]
    BY <1>1, <1>4, ShiftDoubles
  <2>2. OneShifted[n] \in Nat
    BY <1>1, <1>2, <1>4
  <2> QED
    BY <1>1, <1>3, <1>4, <2>1, <2>2 DEF Shl
<1>5. CASE n + 1 = Width
  <2>1. OneShifted[Width] = 2 * OneShifted[n]
    BY <1>1, <1>5, ShiftDoubles
  <2>2. OneShifted[n] \in Nat \ {0}
    BY <1>1, <1>2, <1>5
  <2> QED
    BY <1>1, <1>3, <1>5, <2>1, <2>2 DEF Shl
<1>6. CASE n >= Width
  BY <1>1, <1>3, <1>6 DEF Shl
<1> QED
  BY <1>1, <1>4, <1>5, <1>6

(* ... and so over any number of shifts. *)
LEMMA ShlGrows ==
  ASSUME NEW a \in Nat, NEW b \in Nat, a <= b
  PROVE  Shl(a) \in Nat /\ Shl(b) \in Nat /\ Shl(a) <= Shl(b)
<1> DEFINE S == {k \in 0..(b - a) : Shl(a) <= Shl(a + k)}
<1>1. b - a \in Nat /\ a + (b - a) = b
  OBVIOUS
<1>2. \A n \in Nat : Shl(n) \in Nat /\ Shl(n) <= Shl(n + 1)
  BY ShlStep
<1>3. 0 \in S
  BY <1>1, <1>2
<1>4. \A k \in 0..(b - a) : k \in S /\ k < b - a => k + 1 \in S
  <2> SUFFICES ASSUME NEW k \in 0..(b - a), k \in S, k < b - a PROVE k + 1 \in S
    OBVIOUS
  <2>1. a + k \in Nat /\ (a + k) + 1 = a + (k + 1) /\ k + 1 \in 0..(b - a)
    OBVIOUS
  <2>2. Shl(a + k) \in Nat /\ Shl(a + k) <= Shl((a + k) + 1) /\ Shl((a + k) + 1) \in Nat
    BY <1>2, <2>1
  <2> QED
    BY <1>2, <2>1, <2>2
<1>5. \A k \in 0..(b - a) : k \in S
  <2> HIDE DEF S
  <2> QED
    BY <1>1, <1>3, <1>4, UpTo
<1>6. b - a \in S
  BY <1>1, <1>5
<1> QED
  BY <1>1, <1>2, <1>6

(* A longer wait is never announced before a shorter one: delay_before grows with the
   attempt and is capped by max_backoff. *)
LEMMA DelayGrows ==
  ASSUME NEW p \in Policies, NEW a \in Nat \ {0}, NEW b \in Nat, a <= b, b <= p.attempts
  PROVE  /\ delay_before(p, a) \in Nat /\ delay_before(p, b) \in Nat
         /\ delay_before(p, a) <= delay_before(p, b)
         /\ delay_before(p, b) <= p.max_backoff
<1>1. /\ p.attempts \in Nat /\ p.backoff \in Nat /\ p.max_backoff \in Nat
      /\ MaxDuration \in Nat /\ p.max_backoff <= MaxDuration
  BY PoliciesAssumption
<1>2. Shl(a - 1) \in Nat /\ Shl(b - 1) \in Nat /\ Shl(a - 1) <= Shl(b - 1)
  BY ShlGrows
<1>3. \A x, y, z \in Nat : y <= z => x * y <= x * z /\ x * y \in Nat /\ x * z \in Nat
  OBVIOUS
<1> DEFINE u == p.backoff * Shl(a - 1)
           v == p.backoff * Shl(b - 1)
<1>4. u \in Nat /\ v \in Nat /\ u <= v
  BY <1>1, <1>2, <1>3
<1>5. /\ delay_before(p, a) = Min2(IF u > MaxDuration THEN p.max_backoff ELSE u, p.max_backoff)
      /\ delay_before(p, b) = Min2(IF v > MaxDuration THEN p.max_backoff ELSE v, p.max_backoff)
  BY <1>1 DEF delay_before, Doubled
<1> HIDE DEF u, v
<1> QED
  BY <1>1, <1>4, <1>5 DEF Min2

(* delay_before answers with a delay exactly when an attempt is left. *)
LEMMA DelayType ==
  ASSUME NEW p \in Policies, NEW n \in Nat
  PROVE  /\ delay_before(p, n) \in Nat \cup {None}
         /\ delay_before(p, n) # None => n <= p.attempts
<1>1. p.attempts \in Nat
  BY PoliciesAssumption
<1>2. CASE n = 0 \/ n > p.attempts
  BY <1>1, <1>2 DEF delay_before, None
<1>3. CASE n # 0 /\ n <= p.attempts
  BY <1>1, <1>3, DelayGrows
<1> QED
  BY <1>1, <1>2, <1>3

---------------------------------------------------------------------------
(* execute() *)

Event == [kind : {"started", "completed", "failed", "cancelled"},
          attempt : Nat, wait : Nat \cup {None}]

\* The log follows the attempts, and a failure announces the wait the policy prescribes.
InOrder ==
  /\ \A i \in 1..Len(log) : log[i].attempt <= attempt
  /\ \A i, k \in 1..Len(log) : i <= k => log[i].attempt <= log[k].attempt
  /\ \A i \in 1..Len(log) :
       log[i].kind = "failed" => log[i].wait = delay_before(policy, log[i].attempt + 1)

\* The attempt about to be made is a new one.
NotYetStarted ==
  pc = "loop" => \A i \in 1..Len(log) : log[i].kind = "started" => log[i].attempt < attempt

\* Attempt n has failed and a retry was announced.
Announced(n) ==
  \E k \in 1..Len(log) : log[k].kind = "failed" /\ log[k].wait # None /\ log[k].attempt = n

\* A retry is under way only when it was announced, and then the policy has it.
RetryIsDue ==
  /\ pc = "loop" /\ attempt > 0 => Announced(attempt - 1)
  /\ pc = "backoff" => attempt < policy.attempts /\ Announced(attempt)

\* RunnerInv is not inductive: it does not say why an attempt about to start is new and was
\* announced, nor where a delay in the log came from.
RunnerIInv ==
  TypeOK /\ InOrder /\ NotYetStarted /\ RetryIsDue /\ RetriesAreAnnounced /\ LastWord
  /\ CancelledOnlyWhenAsked

(* What appending an event to the log changes. *)
LEMMA Grown ==
  ASSUME NEW s \in Seq(Event), NEW e \in Event
  PROVE  /\ Append(s, e) \in Seq(Event)
         /\ Len(s) \in Nat /\ Len(Append(s, e)) = Len(s) + 1
         /\ \A i \in 1..Len(s) : Append(s, e)[i] = s[i] /\ s[i] \in Event
         /\ Append(s, e)[Len(s) + 1] = e
BY AppendProperties, ElementOfSeq, LenProperties

(* The invariant says of the log what RunnerInv promises. *)
LEMMA RunnerIInvSuffices == RunnerIInv => RunnerInv
<1> SUFFICES ASSUME RunnerIInv PROVE BackoffGrowsToItsCap
  BY DEF RunnerIInv, RunnerInv
<1> USE DEF RunnerIInv, Of
<1>1. policy \in Policies /\ policy.attempts \in Nat /\ Len(log) \in Nat
  BY PoliciesAssumption, LenProperties DEF TypeOK
<1>2. \A i \in 1..Len(log) : log[i] \in Event
  BY ElementOfSeq DEF TypeOK, Event
<1> SUFFICES ASSUME NEW i \in Of("failed"), NEW k \in Of("failed"), log[k].wait # None
             PROVE  /\ log[k].wait <= policy.max_backoff
                    /\ i < k => log[i].wait <= log[k].wait
  BY DEF BackoffGrowsToItsCap
<1> DEFINE a == log[i].attempt + 1
           b == log[k].attempt + 1
<1>3. a \in Nat \ {0} /\ b \in Nat \ {0}
  BY <1>2 DEF Event
<1>4. log[i].wait = delay_before(policy, a) /\ log[k].wait = delay_before(policy, b)
  BY DEF InOrder
<1>5. b <= policy.attempts
  BY <1>1, <1>3, <1>4, DelayType
<1>6. log[k].wait <= policy.max_backoff
  BY <1>1, <1>3, <1>4, <1>5, DelayGrows
<1>7. ASSUME i < k PROVE log[i].wait <= log[k].wait
  <2>1. a <= b
    BY <1>1, <1>2, <1>7 DEF InOrder, Event
  <2> QED
    BY <1>1, <1>3, <1>4, <1>5, <2>1, DelayGrows
<1> QED
  BY <1>6, <1>7

(* Publishing an event of the current attempt keeps what is known of the log: the earlier
   events stay where they were, and the new one is the last. *)
LEMMA Published ==
  ASSUME RunnerIInv, pc # "ended", NEW e \in Event, e.attempt = attempt, log' = Append(log, e),
         UNCHANGED <<policy, attempt>>,
         e.kind = "failed" => e.wait = delay_before(policy, attempt + 1),
         e.kind = "started" => pc = "loop",
         e.kind \in {"completed", "cancelled"} \/ (e.kind = "failed" /\ e.wait = None)
           => pc' = "ended",
         e.kind = "cancelled" => token', token => token'
  PROVE  /\ log' \in Seq(Event)
         /\ InOrder' /\ RetriesAreAnnounced' /\ LastWord' /\ CancelledOnlyWhenAsked'
         /\ \A n : Announced(n) => Announced(n)'
         /\ e.kind = "failed" /\ e.wait # None => Announced(attempt)'
         /\ e.kind # "started" => Of("started")' = Of("started")
<1> DEFINE L == Len(log)
<1>1. log \in Seq(Event) /\ policy \in Policies /\ attempt \in Nat /\ policy.attempts \in Nat
      /\ attempt <= policy.attempts
  BY PoliciesAssumption DEF RunnerIInv, TypeOK, Event
<1>2. /\ log' \in Seq(Event) /\ L \in Nat /\ Len(log') = L + 1
      /\ \A i \in 1..L : log'[i] = log[i] /\ log[i] \in Event
      /\ log'[L + 1] = e
  BY <1>1, Grown
<1> HIDE DEF L
<1>3. \A i : i \in 1..Len(log') <=> i \in 1..L \/ i = L + 1
  BY <1>2
<1>4. Len(log) = L
  BY DEF L
<1>5. InOrder'
  <2>1. \A i \in 1..L : log[i].attempt <= attempt
    BY <1>4 DEF RunnerIInv, InOrder
  <2>2. \A i \in 1..Len(log') : log'[i].attempt <= attempt
    BY <1>1, <1>2, <1>3, <2>1
  <2>3. \A i, k \in 1..Len(log') : i <= k => log'[i].attempt <= log'[k].attempt
    <3> SUFFICES ASSUME NEW i \in 1..Len(log'), NEW k \in 1..Len(log'), i <= k
                 PROVE  log'[i].attempt <= log'[k].attempt
      OBVIOUS
    <3>1. CASE k = L + 1
      BY <1>2, <2>2, <3>1
    <3>2. CASE k \in 1..L
      <4>1. i \in 1..L
        BY <1>2, <3>2
      <4> QED
        BY <1>2, <1>4, <3>2, <4>1 DEF RunnerIInv, InOrder
    <3> QED
      BY <1>3, <3>1, <3>2
  <2>4. \A i \in 1..Len(log') :
          log'[i].kind = "failed" => log'[i].wait = delay_before(policy, log'[i].attempt + 1)
    BY <1>2, <1>3, <1>4 DEF RunnerIInv, InOrder
  <2> HIDE DEF L
  <2> QED
    BY <2>2, <2>3, <2>4 DEF InOrder, delay_before, Doubled, Shl
<1>6. RetriesAreAnnounced'
  <2>1. \A i \in 1..L : log[i].kind = "started" =>
          /\ log[i].attempt <= policy.attempts
          /\ log[i].attempt > 0 =>
               \E k \in 1..L : /\ log[k].kind = "failed" /\ k < i /\ log[k].wait # None
                               /\ log[k].attempt + 1 = log[i].attempt
          /\ \A k \in 1..L : log[k].kind = "started" /\ log[i].attempt = log[k].attempt => i = k
    BY <1>4 DEF RunnerIInv, RetriesAreAnnounced, Of
  <2>2. e.kind = "started" => \A i \in 1..L : log[i].kind = "started" => log[i].attempt < attempt
    BY <1>4 DEF RunnerIInv, NotYetStarted
  <2>3. e.kind = "started" /\ attempt > 0 =>
          \E k \in 1..L : /\ log[k].kind = "failed" /\ k < L + 1 /\ log[k].wait # None
                          /\ log[k].attempt + 1 = attempt
    <3> SUFFICES ASSUME e.kind = "started", attempt > 0
                 PROVE  \E k \in 1..L : /\ log[k].kind = "failed" /\ k < L + 1 /\ log[k].wait # None
                                        /\ log[k].attempt + 1 = attempt
      OBVIOUS
    <3>1. PICK k \in 1..L : log[k].kind = "failed" /\ log[k].wait # None /\ log[k].attempt = attempt - 1
      BY <1>4 DEF RunnerIInv, RetryIsDue, Announced
    <3>2. log[k].attempt + 1 = attempt
      BY <1>1, <3>1
    <3>3. k < L + 1
      BY <1>2
    <3> QED
      BY <3>1, <3>2, <3>3
  <2>4. \A i \in 1..Len(log') : log'[i].kind = "started" =>
          /\ log'[i].attempt <= policy.attempts
          /\ log'[i].attempt > 0 =>
               \E k \in 1..Len(log') : /\ log'[k].kind = "failed" /\ k < i /\ log'[k].wait # None
                                       /\ log'[k].attempt + 1 = log'[i].attempt
    <3> SUFFICES ASSUME NEW i \in 1..Len(log'), log'[i].kind = "started"
                 PROVE  /\ log'[i].attempt <= policy.attempts
                        /\ log'[i].attempt > 0 =>
                             \E k \in 1..Len(log') :
                               /\ log'[k].kind = "failed" /\ k < i /\ log'[k].wait # None
                               /\ log'[k].attempt + 1 = log'[i].attempt
      OBVIOUS
    <3>1. CASE i = L + 1
      BY <1>1, <1>2, <1>3, <2>3, <3>1
    <3>2. CASE i \in 1..L
      BY <1>2, <1>3, <2>1, <3>2
    <3> QED
      BY <1>3, <3>1, <3>2
  <2>5. \A i, k \in 1..Len(log') :
          log'[i].kind = "started" /\ log'[k].kind = "started" /\ log'[i].attempt = log'[k].attempt
            => i = k
    <3> SUFFICES ASSUME NEW i \in 1..Len(log'), NEW k \in 1..Len(log'), log'[i].kind = "started",
                        log'[k].kind = "started", log'[i].attempt = log'[k].attempt
                 PROVE  i = k
      OBVIOUS
    <3>1. CASE i \in 1..L /\ k \in 1..L
      BY <1>2, <2>1, <3>1
    <3>2. CASE i \in 1..L /\ k = L + 1
      <4>1. log[i].kind = "started" /\ log[i].attempt = attempt /\ e.kind = "started"
        BY <1>2, <3>2
      <4>2. log[i].attempt < attempt
        BY <2>2, <3>2, <4>1
      <4> QED
        BY <1>1, <4>1, <4>2
    <3>3. CASE i = L + 1 /\ k \in 1..L
      <4>1. log[k].kind = "started" /\ log[k].attempt = attempt /\ e.kind = "started"
        BY <1>2, <3>3
      <4>2. log[k].attempt < attempt
        BY <2>2, <3>3, <4>1
      <4> QED
        BY <1>1, <4>1, <4>2
    <3> QED
      BY <1>3, <3>1, <3>2, <3>3
  <2> QED
    BY <2>4, <2>5 DEF RetriesAreAnnounced, Of
<1>7. LastWord'
  <2>1. \A i \in 1..L : ~ \/ log[i].kind \in {"completed", "cancelled"}
                          \/ log[i].kind = "failed" /\ log[i].wait = None
    BY <1>4 DEF RunnerIInv, LastWord
  <2> QED
    BY <1>2, <1>3, <2>1 DEF LastWord
<1>8. CancelledOnlyWhenAsked'
  <2>1. (\E i \in 1..L : log[i].kind = "cancelled") => token
    BY <1>4 DEF RunnerIInv, CancelledOnlyWhenAsked, Of
  <2>2. (\E i \in 1..Len(log') : log'[i].kind = "cancelled") => token'
    BY <1>2, <1>3, <2>1
  <2> QED
    BY <2>2 DEF CancelledOnlyWhenAsked, Of
<1>9. \A n : Announced(n) => Announced(n)'
  BY <1>2, <1>3, <1>4 DEF Announced
<1>10. e.kind = "failed" /\ e.wait # None => Announced(attempt)'
  BY <1>2, <1>3 DEF Announced
<1>11. e.kind # "started" => Of("started")' = Of("started")
  BY <1>2, <1>3, <1>4 DEF Of
<1> QED
  BY <1>2, <1>5, <1>6, <1>7, <1>8, <1>9, <1>10, <1>11

(* The first state satisfies the invariant. *)
LEMMA RunnerInit == Init => RunnerIInv
<1> SUFFICES ASSUME Init PROVE RunnerIInv
  OBVIOUS
<1>1. policy \in Policies /\ policy.attempts \in Nat
  BY PoliciesAssumption DEF Init
<1>2. Len(log) = 0 /\ 1..Len(log) = {} /\ log \in Seq(Event)
  BY DEF Init
<1>3. attempt \in 0..policy.attempts
  BY <1>1 DEF Init
<1>4. TypeOK
  BY <1>2, <1>3, Zenon DEF Init, TypeOK, Event
<1> QED
  BY <1>2, <1>4 DEF Init, RunnerIInv, InOrder, NotYetStarted, RetryIsDue, RetriesAreAnnounced,
     LastWord, CancelledOnlyWhenAsked, Of

(* A step that publishes nothing and leaves the firing's attempt alone, or ends it. *)
LEMMA QuietStep ==
  ASSUME RunnerIInv, UNCHANGED <<policy, attempt, log>>,
         token' \in BOOLEAN, context' \in BOOLEAN, token => token',
         pc' = pc \/ pc' = "ended"
  PROVE  RunnerIInv'
<1>1. TypeOK'
  BY DEF RunnerIInv, TypeOK
<1>2. InOrder'
  BY DEF RunnerIInv, InOrder, delay_before, Doubled, Shl
<1>3. NotYetStarted' /\ RetryIsDue'
  BY DEF RunnerIInv, NotYetStarted, RetryIsDue, Announced
<1>4. RetriesAreAnnounced' /\ CancelledOnlyWhenAsked'
  BY DEF RunnerIInv, RetriesAreAnnounced, CancelledOnlyWhenAsked, Of
<1>5. LastWord'
  BY DEF RunnerIInv, LastWord
<1> QED
  BY <1>1, <1>2, <1>3, <1>4, <1>5 DEF RunnerIInv

(* An event that is the firing's last word, with what it says of the token. *)
LEMMA LastEvent ==
  ASSUME RunnerIInv, pc # "ended", UNCHANGED <<policy, attempt, token>>, context' \in BOOLEAN,
         NEW kind \in {"completed", "failed", "cancelled"}, Publish(kind, None), pc' = "ended",
         kind = "cancelled" => token,
         kind = "failed" => delay_before(policy, attempt + 1) = None
  PROVE  RunnerIInv' /\ Of("started")' = Of("started")
<1> DEFINE e == [kind |-> kind, attempt |-> attempt, wait |-> None]
<1>1. attempt \in Nat /\ policy \in Policies
  BY PoliciesAssumption DEF RunnerIInv, TypeOK
<1>2. e \in Event /\ e.kind = kind /\ e.attempt = attempt /\ e.wait = None /\ log' = Append(log, e)
  BY <1>1 DEF Event, Publish
<1> HIDE DEF e
<1>3. /\ log' \in Seq(Event)
      /\ InOrder' /\ RetriesAreAnnounced' /\ LastWord' /\ CancelledOnlyWhenAsked'
      /\ e.kind # "started" => Of("started")' = Of("started")
  BY <1>2, Published
<1>4. TypeOK'
  BY <1>3 DEF RunnerIInv, TypeOK, Event
<1> QED
  BY <1>2, <1>3, <1>4 DEF RunnerIInv, NotYetStarted, RetryIsDue

(* An attempt's error keeps the invariant, and starts nothing. *)
LEMMA ErrorStep ==
  ASSUME RunnerIInv, pc = "running", AfterError, UNCHANGED <<policy, attempt, token>>,
         context' \in BOOLEAN
  PROVE  RunnerIInv' /\ Of("started")' = Of("started")
<1> DEFINE wait == delay_before(policy, attempt + 1)
<1>1. attempt \in Nat /\ policy \in Policies /\ policy.attempts \in Nat
  BY PoliciesAssumption DEF RunnerIInv, TypeOK
<1>2. wait \in Nat \cup {None} /\ (wait # None => attempt + 1 <= policy.attempts)
  BY <1>1, DelayType
<1>3. CASE token
  <2>1. Publish("cancelled", None) /\ pc' = "ended"
    BY <1>3 DEF AfterError, StopRequested
  <2> QED
    BY <1>3, <2>1, LastEvent
<1>4. CASE ~token /\ wait = None
  <2>1. Publish("failed", None) /\ pc' = "ended"
    BY <1>4 DEF AfterError, StopRequested
  <2> QED
    BY <1>4, <2>1, LastEvent
<1>5. CASE ~token /\ wait # None
  <2> DEFINE e == [kind |-> "failed", attempt |-> attempt, wait |-> wait]
  <2>1. log' = Append(log, e) /\ pc' = "backoff"
    BY <1>5 DEF AfterError, StopRequested, Publish
  <2>2. e \in Event /\ e.kind = "failed" /\ e.attempt = attempt /\ e.wait = wait
    BY <1>1, <1>2 DEF Event
  <2> HIDE DEF e, wait
  <2>3. wait = delay_before(policy, attempt + 1)
    BY DEF wait
  <2>4. /\ log' \in Seq(Event)
        /\ InOrder' /\ RetriesAreAnnounced' /\ LastWord' /\ CancelledOnlyWhenAsked'
        /\ Announced(attempt)'
        /\ Of("started")' = Of("started")
    BY <1>5, <2>1, <2>2, <2>3, Published
  <2>5. TypeOK'
    BY <2>1, <2>4 DEF RunnerIInv, TypeOK, Event
  <2>6. RetryIsDue'
    BY <1>1, <1>2, <1>5, <2>1, <2>4 DEF RetryIsDue
  <2> QED
    BY <2>1, <2>4, <2>5, <2>6 DEF RunnerIInv, NotYetStarted
<1> QED
  BY <1>3, <1>4, <1>5 DEF RunnerIInv, TypeOK

(* The beginning of an attempt keeps the invariant. *)
LEMMA StartStep == RunnerIInv /\ StartAttempt => RunnerIInv'
<1> SUFFICES ASSUME RunnerIInv, StartAttempt PROVE RunnerIInv'
  OBVIOUS
<1> DEFINE e == [kind |-> "started", attempt |-> attempt, wait |-> None]
<1>1. attempt \in Nat
  BY PoliciesAssumption DEF RunnerIInv, TypeOK
<1>2. e \in Event /\ e.kind = "started" /\ e.attempt = attempt /\ log' = Append(log, e)
  BY <1>1 DEF Event, StartAttempt, Publish
<1> HIDE DEF e
<1>3. pc = "loop" /\ pc' = "running" /\ UNCHANGED <<policy, attempt, token>>
  BY DEF StartAttempt
<1>4. /\ log' \in Seq(Event)
      /\ InOrder' /\ RetriesAreAnnounced' /\ LastWord' /\ CancelledOnlyWhenAsked'
  BY <1>2, <1>3, Published
<1>5. TypeOK'
  BY <1>4 DEF RunnerIInv, TypeOK, Event, StartAttempt
<1> QED
  BY <1>3, <1>4, <1>5 DEF RunnerIInv, NotYetStarted, RetryIsDue

(* The end of a backoff makes the announced retry the current attempt. *)
LEMMA BackoffStep == RunnerIInv /\ BackoffOver => RunnerIInv'
<1> SUFFICES ASSUME RunnerIInv, BackoffOver PROVE RunnerIInv'
  OBVIOUS
<1>1. /\ attempt \in Nat /\ policy \in Policies /\ policy.attempts \in Nat
      /\ attempt < policy.attempts /\ Announced(attempt)
      /\ pc = "backoff" /\ pc' = "loop" /\ attempt' = attempt + 1
      /\ UNCHANGED <<policy, token, context, log>>
  BY PoliciesAssumption DEF RunnerIInv, TypeOK, BackoffOver, RetryIsDue
<1>2. \A i \in 1..Len(log) : log[i].attempt \in Nat
  <2>1. log \in Seq(Event)
    BY DEF RunnerIInv, TypeOK, Event
  <2>2. \A i \in 1..Len(log) : log[i] \in Event
    BY <2>1, ElementOfSeq
  <2> QED
    BY <2>2 DEF Event
<1>3. \A i \in 1..Len(log) : log[i].attempt <= attempt
  BY DEF RunnerIInv, InOrder
<1>4. TypeOK'
  <2>1. attempt' \in 0..policy'.attempts
    BY <1>1
  <2> QED
    BY <1>1, <2>1 DEF RunnerIInv, TypeOK
<1>5. InOrder'
  <2>1. \A i \in 1..Len(log) : log[i].attempt <= attempt'
    BY <1>1, <1>2, <1>3
  <2> QED
    BY <1>1, <2>1 DEF RunnerIInv, InOrder, delay_before, Doubled, Shl
<1>6. NotYetStarted'
  BY <1>1, <1>2, <1>3 DEF NotYetStarted
<1>7. RetryIsDue'
  <2>1. attempt' - 1 = attempt
    BY <1>1
  <2>2. \E k \in 1..Len(log) : log[k].kind = "failed" /\ log[k].wait # None
                               /\ log[k].attempt = attempt' - 1
    BY <1>1, <2>1 DEF Announced
  <2> QED
    BY <1>1, <2>2 DEF RetryIsDue, Announced
<1>8. RetriesAreAnnounced' /\ LastWord' /\ CancelledOnlyWhenAsked'
  BY <1>1 DEF RunnerIInv, RetriesAreAnnounced, LastWord, CancelledOnlyWhenAsked, Of
<1> QED
  BY <1>4, <1>5, <1>6, <1>7, <1>8 DEF RunnerIInv

(* Every step keeps the invariant, and none but StartAttempt starts an attempt. *)
LEMMA RunnerStep ==
  ASSUME RunnerIInv, [Next]_vars
  PROVE  RunnerIInv' /\ (StartAttempt \/ Of("started")' = Of("started"))
<1>0. token \in BOOLEAN /\ context \in BOOLEAN
  BY DEF RunnerIInv, TypeOK
<1>1. CASE CancelledBeforeAttempt
  BY <1>0, <1>1, LastEvent DEF CancelledBeforeAttempt
<1>2. CASE StartAttempt
  BY <1>2, StartStep
<1>3. CASE BackoffOver
  BY <1>3, BackoffStep DEF BackoffOver, Of
<1>4. CASE CancelledInBackoff
  BY <1>0, <1>4, LastEvent DEF CancelledInBackoff
<1>5. CASE DeadlineExpires
  BY <1>5, ErrorStep DEF DeadlineExpires
<1>6. CASE HandlerSucceeds
  BY <1>0, <1>6, LastEvent DEF HandlerSucceeds
<1>7. CASE HandlerFails
  BY <1>0, <1>7, ErrorStep DEF HandlerFails
<1>8. CASE HandlerPanics
  BY <1>0, <1>8, QuietStep DEF HandlerPanics, Of
<1>9. CASE Cancel
  BY <1>0, <1>9, QuietStep DEF Cancel, Of
<1>10. CASE Drop
  BY <1>0, <1>10, QuietStep DEF Drop, Of
<1>11. CASE UNCHANGED vars
  BY <1>0, <1>11, QuietStep DEF vars, Of
<1> QED
  BY <1>1, <1>2, <1>3, <1>4, <1>5, <1>6, <1>7, <1>8, <1>9, <1>10, <1>11
  DEF Next, Runner, Handler, Environment

(* What a firing publishes can be read without knowing the runner (execute(),
   attempt_once()): a retry starts only after its announcement and once, the announced
   delays grow up to the policy's ceiling through the saturation of checked_shl and
   checked_mul, completed, cancelled and a failure without retry are the last word, and
   cancelled is said only of a firing that was asked to stop. *)
THEOREM RunnerHolds == Spec => []RunnerInv
<1>1. Init => RunnerIInv
  BY RunnerInit
<1>2. RunnerIInv /\ [Next]_vars => RunnerIInv'
  BY RunnerStep
<1>3. RunnerIInv => RunnerInv
  BY RunnerIInvSuffices
<1> QED
  BY <1>1, <1>2, <1>3, PTL DEF Spec

(* A firing that was asked to stop begins no further attempt, whatever it was waiting for
   (execute() looks at the run's token before each one). *)
THEOREM NoneAfterCancel == Spec => NoAttemptAfterCancel
<1>1. Init => RunnerIInv
  BY RunnerInit
<1>2. RunnerIInv /\ [Next]_vars => RunnerIInv'
  BY RunnerStep
<1>3. RunnerIInv /\ [Next]_vars => [token => Of("started")' = Of("started")]_vars
  <2> SUFFICES ASSUME RunnerIInv, [Next]_vars, token PROVE Of("started")' = Of("started")
    OBVIOUS
  <2>1. ~StartAttempt
    BY DEF StartAttempt
  <2> QED
    BY <2>1, RunnerStep
<1> QED
  BY <1>1, <1>2, <1>3, PTL DEF Spec, NoAttemptAfterCancel
============================================================================
