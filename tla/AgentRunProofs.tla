--------------------------- MODULE AgentRunProofs ---------------------------
(* Theorems about AgentRun and the Resilience module its runs share: for any number of runs,
   principals, slots and attempts, any costs and any settings. *)
EXTENDS AgentRun, Induction, FiniteSetTheorems, SequenceTheorems, TLAPS

---------------------------------------------------------------------------
(* Resilience: the breaker and the slots *)

Attempting == {c \in Clients : client[c].pc = "attempt"}
Calls == [pc : {"idle"} \cup Underway \cup Outcomes, number : 0..max_attempts]

\* BreakerAndSlotsHonest is not inductive: a client that waits out a backoff must have an
\* attempt left for its number to stay in range.
ResilienceInv ==
  /\ ResilienceTypeOK
  /\ \A c \in Clients : client[c].pc = "sleep" => client[c].number < max_attempts
  /\ BreakerAndSlotsHonest

(* A client that is not attempting anything before and after its step holds no slot. *)
LEMMA SlotKept ==
  ASSUME ResilienceInv, NEW c \in Clients, NEW x, client' = [client EXCEPT ![c] = x],
         client[c].pc # "attempt", x.pc # "attempt"
  PROVE  Attempting' = Attempting
BY DEF Attempting, ResilienceInv, ResilienceTypeOK

(* The attempts under way are finitely many. *)
LEMMA AttemptsFinite == IsFiniteSet(Attempting) /\ Cardinality(Attempting) \in Nat
<1>1. IsFiniteSet(Clients) /\ Attempting \subseteq Clients
  BY ResilienceAssumption DEF Attempting
<1> QED
  BY <1>1, FS_Subset, FS_CardinalityType

(* A client that takes a slot is counted once more. *)
LEMMA SlotTaken ==
  ASSUME ResilienceInv, NEW c \in Clients, NEW x, client' = [client EXCEPT ![c] = x],
         client[c].pc # "attempt", x.pc = "attempt"
  PROVE  Cardinality(Attempting') = Cardinality(Attempting) + 1
<1>1. Attempting' = Attempting \cup {c} /\ c \notin Attempting
  BY DEF Attempting, ResilienceInv, ResilienceTypeOK
<1> QED
  BY <1>1, AttemptsFinite, FS_AddElement

(* A client whose attempt ends is counted once less. *)
LEMMA SlotReturned ==
  ASSUME ResilienceInv, NEW c \in Clients, NEW x, client' = [client EXCEPT ![c] = x],
         client[c].pc = "attempt", x.pc # "attempt"
  PROVE  Cardinality(Attempting') = Cardinality(Attempting) - 1
<1>1. Attempting' = Attempting \ {c} /\ c \in Attempting
  BY DEF Attempting, ResilienceInv, ResilienceTypeOK
<1> QED
  BY <1>1, AttemptsFinite, FS_RemoveElement

(* What a step has to show once its client's new place is known. *)
LEMMA ResilienceKept ==
  ASSUME ResilienceInv, NEW c \in Clients, NEW x \in Calls, client' = [client EXCEPT ![c] = x],
         x.pc = "sleep" => x.number < max_attempts,
         circuit' \in {"closed", "open", "half_open"}, failures' \in Nat, cooled' \in BOOLEAN,
         stopped' \subseteq Clients, overdue' \subseteq Clients,
         failures' = streak', circuit' = "closed" => failures' < FailureThreshold,
         free' + Cardinality(Attempting') = Permits, free' \in Nat
  PROVE  ResilienceInv'
<1>1. client' \in [Clients -> Calls]
  BY DEF ResilienceInv, ResilienceTypeOK, Calls
<1>2. free' \in 0..Permits
  <2>1. Permits \in Nat
    BY ResilienceAssumption
  <2>2. IsFiniteSet(Clients) /\ Attempting' \subseteq Clients
    BY ResilienceAssumption DEF Attempting
  <2>3. Cardinality(Attempting') \in Nat
    BY <2>2, FS_Subset, FS_CardinalityType
  <2> QED
    BY <2>1, <2>3
<1>3. \A d \in Clients : client'[d].pc = "sleep" => client'[d].number < max_attempts
  BY DEF ResilienceInv, ResilienceTypeOK
<1>4. ResilienceTypeOK'
  BY <1>1, <1>2 DEF ResilienceTypeOK, Calls, max_attempts
<1>5. BreakerAndSlotsHonest'
  BY DEF BreakerAndSlotsHonest, Attempting
<1> QED
  BY <1>3, <1>4, <1>5 DEF ResilienceInv, max_attempts

(* The assumptions and types the steps need of the provider. *)
LEMMA ResilienceFacts ==
  ASSUME ResilienceInv, NEW c \in Clients
  PROVE  /\ client[c] \in Calls /\ client \in [Clients -> Calls]
         /\ client[c].pc \in {"idle"} \cup Underway \cup Outcomes
         /\ client[c].number \in 0..max_attempts /\ max_attempts \in Nat \ {0}
         /\ free \in Nat /\ Permits \in Nat /\ Cardinality(Attempting) \in Nat
         /\ free + Cardinality(Attempting) = Permits
         /\ failures \in Nat /\ FailureThreshold \in Nat \ {0} /\ MaxCount \in Nat
<1>1. max_attempts \in Nat \ {0}
  BY ResilienceAssumption DEF max_attempts
<1>2. Permits \in Nat /\ Cardinality(Attempting) \in Nat
  BY ResilienceAssumption, AttemptsFinite
<1>3. free \in Nat /\ failures \in Nat
  BY <1>2 DEF ResilienceInv, ResilienceTypeOK
<1>4. client \in [Clients -> Calls]
  BY DEF ResilienceInv, ResilienceTypeOK, Calls
<1>5. client[c] \in Calls
  BY <1>4
<1> QED
  BY <1>1, <1>2, <1>3, <1>4, <1>5, ResilienceAssumption
  DEF Calls, ResilienceInv, BreakerAndSlotsHonest, Attempting

(* Admission: a refused call, a slot taken, or a place in the queue. *)
LEMMA AdmitStep == ASSUME ResilienceInv, NEW c \in Clients, Admit(c) PROVE ResilienceInv'
<1>1. /\ client[c] \in Calls /\ client[c].number \in 0..max_attempts /\ max_attempts \in Nat \ {0}
      /\ free \in Nat /\ Permits \in Nat /\ Cardinality(Attempting) \in Nat
      /\ free + Cardinality(Attempting) = Permits
  BY ResilienceFacts
<1>2. /\ client[c].pc = "admit" /\ UNCHANGED <<failures, stopped, overdue, streak>>
      /\ circuit' \in {"closed", "open", "half_open"} /\ cooled' \in BOOLEAN
      /\ circuit' = "closed" => circuit = "closed"
  BY DEF Admit, ResilienceInv, ResilienceTypeOK
<1>3. PICK pc \in {"transient", "attempt", "timeout", "queued"} :
        /\ At(c, pc)
        /\ IF pc = "attempt" THEN free > 0 /\ free' = free - 1 ELSE free' = free
  BY DEF Admit
<1> DEFINE x == [pc |-> pc, number |-> IF pc \in Outcomes THEN 0 ELSE client[c].number]
<1>4. /\ client' = [client EXCEPT ![c] = x] /\ x.pc = pc /\ x \in Calls
  BY <1>1, <1>3 DEF At, Calls, Underway, Outcomes
<1> HIDE DEF x
<1>5. free' + Cardinality(Attempting') = Permits /\ free' \in Nat
  <2>1. CASE pc = "attempt"
    <3>1. Cardinality(Attempting') = Cardinality(Attempting) + 1
      BY <1>2, <1>4, <2>1, SlotTaken
    <3> QED
      BY <1>1, <1>3, <2>1, <3>1
  <2>2. CASE pc # "attempt"
    <3>1. Attempting' = Attempting
      BY <1>2, <1>4, <2>2, SlotKept
    <3> QED
      BY <1>1, <1>3, <2>2, <3>1
  <2> QED
    BY <2>1, <2>2
<1>6. /\ failures' \in Nat /\ stopped' \subseteq Clients /\ overdue' \subseteq Clients
      /\ failures' = streak' /\ (circuit' = "closed" => failures' < FailureThreshold)
  BY <1>2 DEF ResilienceInv, ResilienceTypeOK, BreakerAndSlotsHonest
<1>7. x.pc # "sleep"
  BY <1>3, <1>4
<1> QED
  BY <1>2, <1>4, <1>5, <1>6, <1>7, ResilienceKept

(* The queue is left with a slot, or without one. *)
LEMMA LeaveQueueStep == ASSUME ResilienceInv, NEW c \in Clients, LeaveQueue(c) PROVE ResilienceInv'
<1>1. /\ client[c] \in Calls /\ client[c].number \in 0..max_attempts /\ max_attempts \in Nat \ {0}
      /\ free \in Nat /\ Permits \in Nat /\ Cardinality(Attempting) \in Nat
      /\ free + Cardinality(Attempting) = Permits
  BY ResilienceFacts
<1>2. client[c].pc = "queued" /\ UNCHANGED <<circuit, failures, cooled, stopped, overdue, streak>>
  BY DEF LeaveQueue
<1>3. PICK pc \in {"cancelled", "attempt", "timeout", "transient"} :
        /\ At(c, pc)
        /\ IF pc = "attempt" THEN free > 0 /\ free' = free - 1 ELSE free' = free
  BY DEF LeaveQueue
<1> DEFINE x == [pc |-> pc, number |-> IF pc \in Outcomes THEN 0 ELSE client[c].number]
<1>4. /\ client' = [client EXCEPT ![c] = x] /\ x.pc = pc /\ x \in Calls
  BY <1>1, <1>3 DEF At, Calls, Underway, Outcomes
<1> HIDE DEF x
<1>5. free' + Cardinality(Attempting') = Permits /\ free' \in Nat
  <2>1. CASE pc = "attempt"
    <3>1. Cardinality(Attempting') = Cardinality(Attempting) + 1
      BY <1>2, <1>4, <2>1, SlotTaken
    <3> QED
      BY <1>1, <1>3, <2>1, <3>1
  <2>2. CASE pc # "attempt"
    <3>1. Attempting' = Attempting
      BY <1>2, <1>4, <2>2, SlotKept
    <3> QED
      BY <1>1, <1>3, <2>2, <3>1
  <2> QED
    BY <2>1, <2>2
<1>6. /\ failures' \in Nat /\ stopped' \subseteq Clients /\ overdue' \subseteq Clients
      /\ circuit' \in {"closed", "open", "half_open"} /\ cooled' \in BOOLEAN
      /\ failures' = streak' /\ (circuit' = "closed" => failures' < FailureThreshold)
  BY <1>2 DEF ResilienceInv, ResilienceTypeOK, BreakerAndSlotsHonest
<1>7. x.pc # "sleep"
  BY <1>3, <1>4
<1> QED
  BY <1>4, <1>5, <1>6, <1>7, ResilienceKept

(* What the service makes of an attempt: its slot is free again, and the breaker counts a
   transient failure, forgets all failures, or learns nothing. *)
LEMMA ServiceStep == ASSUME ResilienceInv, NEW c \in Clients, Service(c) PROVE ResilienceInv'
<1>1. /\ client[c] \in Calls /\ client[c].number \in 0..max_attempts /\ max_attempts \in Nat \ {0}
      /\ free \in Nat /\ Permits \in Nat /\ Cardinality(Attempting) \in Nat
      /\ free + Cardinality(Attempting) = Permits
      /\ failures \in Nat /\ FailureThreshold \in Nat \ {0} /\ MaxCount \in Nat
  BY ResilienceFacts
<1>2. client[c].pc = "attempt" /\ free' = free + 1 /\ UNCHANGED <<stopped, overdue>>
  BY DEF Service, Succeed, FailTerminally, FailTransiently
<1>3. PICK pc \in {"ok", "terminal", "sleep", "transient"} :
        At(c, pc) /\ (pc = "sleep" => client[c].number < max_attempts)
  BY DEF Service, Succeed, FailTerminally, FailTransiently, MayRetry
<1> DEFINE x == [pc |-> pc, number |-> IF pc \in Outcomes THEN 0 ELSE client[c].number]
<1>4. /\ client' = [client EXCEPT ![c] = x] /\ x.pc = pc /\ x \in Calls
      /\ x.pc = "sleep" => x.number < max_attempts
  BY <1>1, <1>3 DEF At, Calls, Underway, Outcomes
<1> HIDE DEF x
<1>5. free' + Cardinality(Attempting') = Permits /\ free' \in Nat
  <2>1. Cardinality(Attempting') = Cardinality(Attempting) - 1
    BY <1>2, <1>3, <1>4, SlotReturned
  <2> QED
    BY <1>1, <1>2, <2>1
<1>6. /\ failures' \in Nat /\ stopped' \subseteq Clients /\ overdue' \subseteq Clients
      /\ circuit' \in {"closed", "open", "half_open"} /\ cooled' \in BOOLEAN
      /\ failures' = streak' /\ (circuit' = "closed" => failures' < FailureThreshold)
  <2>1. CASE Succeed(c)
    <3>1. circuit' = "closed" /\ failures' = 0 /\ cooled' = FALSE /\ streak' = 0
      BY <2>1 DEF Succeed, RecordSuccess
    <3>2. 0 < FailureThreshold /\ 0 \in Nat
      BY <1>1
    <3> QED
      BY <1>2, <3>1, <3>2 DEF ResilienceInv, ResilienceTypeOK
  <2>2. CASE FailTerminally(c)
    BY <1>2, <2>2 DEF FailTerminally, ResilienceInv, ResilienceTypeOK, BreakerAndSlotsHonest
  <2>3. CASE FailTransiently(c)
    <3>1. failures' = streak' /\ failures' = Counted(failures) /\ Counted(failures) \in Nat
      BY <1>1, <2>3 DEF FailTransiently, RecordFailure, Counted, ResilienceInv,
         BreakerAndSlotsHonest
    <3>2. IF ShouldOpen THEN circuit' = "open" /\ cooled' = FALSE
          ELSE UNCHANGED <<circuit, cooled>> /\ Counted(failures) < FailureThreshold
      BY <1>1, <2>3, <3>1 DEF FailTransiently, RecordFailure, ShouldOpen
    <3> QED
      BY <1>2, <3>1, <3>2 DEF ResilienceInv, ResilienceTypeOK
  <2> QED
    BY <2>1, <2>2, <2>3 DEF Service
<1> QED
  BY <1>4, <1>5, <1>6, ResilienceKept

(* A step in which one client neither gains nor loses a slot, and the provider is left alone. *)
LEMMA ClientStep ==
  ASSUME ResilienceInv, NEW c \in Clients, NEW x \in Calls, client' = [client EXCEPT ![c] = x],
         client[c].pc # "attempt", x.pc # "attempt", x.pc # "sleep",
         UNCHANGED <<circuit, failures, cooled, free, stopped, overdue, streak>>
  PROVE  ResilienceInv'
<1>1. free' + Cardinality(Attempting') = Permits /\ free' \in Nat
  BY SlotKept, ResilienceFacts
<1>2. /\ failures' \in Nat /\ stopped' \subseteq Clients /\ overdue' \subseteq Clients
      /\ circuit' \in {"closed", "open", "half_open"} /\ cooled' \in BOOLEAN
      /\ failures' = streak' /\ (circuit' = "closed" => failures' < FailureThreshold)
  BY DEF ResilienceInv, ResilienceTypeOK, BreakerAndSlotsHonest
<1> QED
  BY <1>1, <1>2, ResilienceKept

(* The backoff ends. *)
LEMMA AwakeStep == ASSUME ResilienceInv, NEW c \in Clients, Awake(c) PROVE ResilienceInv'
<1> DEFINE x == IF c \in stopped THEN [pc |-> "cancelled", number |-> 0]
                ELSE [pc |-> "admit", number |-> client[c].number + 1]
<1>1. /\ client[c].number \in 0..max_attempts /\ max_attempts \in Nat \ {0}
      /\ client[c].pc = "sleep" /\ client[c].number < max_attempts
  BY ResilienceFacts DEF Awake, ResilienceInv
<1>2. client[c].number + 1 \in 0..max_attempts /\ 0 \in 0..max_attempts
  BY <1>1
<1>3. x \in Calls /\ x.pc \in {"cancelled", "admit"} /\ client' = [client EXCEPT ![c] = x]
  BY <1>2 DEF Awake, Calls, Underway, Outcomes
<1> HIDE DEF x
<1> QED
  BY <1>1, <1>3, ClientStep DEF Awake

(* A call that is dropped gives its slot back. *)
LEMMA DropCallStep == ASSUME ResilienceInv, NEW c \in Clients, DropCall(c) PROVE ResilienceInv'
<1>1. /\ free \in Nat /\ Permits \in Nat /\ Cardinality(Attempting) \in Nat
      /\ free + Cardinality(Attempting) = Permits /\ max_attempts \in Nat
  BY ResilienceFacts
<1>2. Idle \in Calls /\ Idle.pc = "idle" /\ client' = [client EXCEPT ![c] = Idle]
  BY <1>1 DEF Idle, Calls, DropCall
<1>3. free' + Cardinality(Attempting') = Permits /\ free' \in Nat
  <2>1. CASE client[c].pc = "attempt"
    <3>1. Cardinality(Attempting') = Cardinality(Attempting) - 1 /\ free' = free + 1
      BY <1>2, <2>1, SlotReturned DEF DropCall, Released
    <3> QED
      BY <1>1, <3>1
  <2>2. CASE client[c].pc # "attempt"
    <3>1. Attempting' = Attempting /\ free' = free
      BY <1>2, <2>2, SlotKept DEF DropCall, Released
    <3> QED
      BY <1>1, <3>1
  <2> QED
    BY <2>1, <2>2
<1>4. /\ failures' \in Nat /\ stopped' \subseteq Clients /\ overdue' \subseteq Clients
      /\ circuit' \in {"closed", "open", "half_open"} /\ cooled' \in BOOLEAN
      /\ failures' = streak' /\ (circuit' = "closed" => failures' < FailureThreshold)
  BY DEF DropCall, ResilienceInv, ResilienceTypeOK, BreakerAndSlotsHonest
<1> QED
  BY <1>2, <1>3, <1>4, ResilienceKept

(* Time and the callers leave the calls, the count and the slots alone. *)
LEMMA WorldStep ==
  ASSUME ResilienceInv, UNCHANGED <<client, circuit, failures, free, streak>>,
         cooled' \in BOOLEAN, stopped' \subseteq Clients, overdue' \subseteq Clients
  PROVE  ResilienceInv'
BY DEF ResilienceInv, ResilienceTypeOK, BreakerAndSlotsHonest, max_attempts

---------------------------------------------------------------------------
(* abandon_outstanding_calls() *)

\* What the loop over the outstanding calls has recorded after k of them.
Recording(calls, kept, u) ==
  /\ u = [k \in 0..Len(calls) |->
            IF k = 0 THEN <<>>
            ELSE IF calls[k] \in kept THEN Append(u[k - 1], calls[k]) ELSE u[k - 1]]
  /\ Recorded(calls, kept) = u[Len(calls)]

(* The loop is well defined: the recursion in Recorded has a solution. *)
LEMMA RecordingExists ==
  ASSUME NEW calls \in Seq(Nat), NEW kept
  PROVE  \E u : Recording(calls, kept, u)
<1> DEFINE N == Len(calls)
           Next1(s, k) == IF calls[k] \in kept THEN Append(s, calls[k]) ELSE s
           Solves(f, n) == f = [k \in 0..n |-> IF k = 0 THEN <<>> ELSE Next1(f[k - 1], k)]
           S == {n \in 0..N : \E f : Solves(f, n)}
<1>1. N \in Nat
  BY LenProperties
<1> HIDE DEF N, Next1
<1>2. 0 \in S
  <2> DEFINE f == [k \in 0..0 |-> <<>>]
  <2>1. Solves(f, 0)
    OBVIOUS
  <2>2. \E x : Solves(x, 0)
    BY <2>1
  <2> QED
    BY <1>1, <2>2
<1>3. ASSUME NEW n \in 0..N, n \in S, n < N PROVE n + 1 \in S
  <2>1. PICK f : Solves(f, n)
    BY <1>3
  <2> DEFINE h == [k \in 0..(n + 1) |-> IF k = 0 THEN <<>> ELSE Next1(f[k - 1], k)]
  <2>2. \A k \in 0..n : h[k] = f[k]
    BY <1>1, <2>1
  <2>3. \A k \in 0..(n + 1) : k # 0 => h[k] = Next1(h[k - 1], k)
    <3> SUFFICES ASSUME NEW k \in 0..(n + 1), k # 0 PROVE h[k] = Next1(h[k - 1], k)
      OBVIOUS
    <3>1. k - 1 \in 0..n
      BY <1>1
    <3>2. h[k] = Next1(f[k - 1], k)
      OBVIOUS
    <3> QED
      BY <2>2, <3>1, <3>2
  <2>4. Solves(h, n + 1)
    <3>1. h[0] = <<>>
      BY <1>1
    <3> QED
      BY <2>3, <3>1
  <2>5. n + 1 \in 0..N
    BY <1>1, <1>3
  <2>6. \E x : Solves(x, n + 1)
    BY <2>4, Zenon
  <2> QED
    BY <2>5, <2>6
<1>4. \A n \in 0..N : n \in S
  <2> HIDE DEF S
  <2> QED
    BY <1>1, <1>2, <1>3, UpTo
<1>5. \E f : Solves(f, N)
  BY <1>1, <1>4
<1> DEFINE u == CHOOSE f : Solves(f, N)
<1>6. Solves(u, N)
  BY <1>5
<1>7. Recorded(calls, kept) = u[N]
  BY Zenon DEF Recorded, Next1, N
<1> QED
  BY <1>6, <1>7, Zenon DEF Recording, Next1, N

(* What it records are calls of the list, each at most once, and all of them when the store
   refuses none. *)
LEMMA RecordedCalls ==
  ASSUME NEW calls \in Seq(Nat), NEW kept,
         \A i, k \in 1..Len(calls) : calls[i] = calls[k] => i = k
  PROVE  /\ Recorded(calls, kept) \in Seq(Nat)
         /\ \A j \in 1..Len(Recorded(calls, kept)) :
              \E m \in 1..Len(calls) : Recorded(calls, kept)[j] = calls[m]
         /\ \A i, j \in 1..Len(Recorded(calls, kept)) :
              Recorded(calls, kept)[i] = Recorded(calls, kept)[j] => i = j
         /\ (\A m \in 1..Len(calls) : calls[m] \in kept)
              => Len(Recorded(calls, kept)) = Len(calls)
<1> DEFINE N == Len(calls)
           Good(s, k) ==
             /\ s \in Seq(Nat)
             /\ \A j \in 1..Len(s) : \E m \in 1..k : s[j] = calls[m]
             /\ \A i, j \in 1..Len(s) : s[i] = s[j] => i = j
             /\ (\A m \in 1..k : calls[m] \in kept) => Len(s) = k
<1>0. N \in Nat /\ \A k \in 1..N : calls[k] \in Nat
  BY LenProperties, ElementOfSeq
<1>1. PICK u : Recording(calls, kept, u)
  BY RecordingExists
<1> DEFINE F(k) == IF calls[k] \in kept THEN Append(u[k - 1], calls[k]) ELSE u[k - 1]
<1>2. u[0] = <<>> /\ \A k \in 1..N : u[k] = F(k)
  <2>1. u = [k \in 0..N |-> IF k = 0 THEN <<>> ELSE F(k)]
    BY <1>1, Zenon DEF Recording
  <2> HIDE DEF F, N
  <2> QED
    BY <1>0, <2>1
<1>3. \A k \in 1..N : u[k] = IF calls[k] \in kept THEN Append(u[k - 1], calls[k]) ELSE u[k - 1]
  BY <1>2
<1> HIDE DEF N
<1> DEFINE S == {k \in 0..N : Good(u[k], k)}
<1>4. 0 \in S
  <2>1. <<>> \in Seq(Nat) /\ Len(<<>>) = 0 /\ 1..0 = {} /\ 0 \in 0..N
    BY <1>0
  <2>2. Good(<<>>, 0)
    BY <2>1
  <2> QED
    BY <1>2, <2>1, <2>2
<1>5. ASSUME NEW k \in 0..N, k \in S, k < N PROVE k + 1 \in S
  <2> DEFINE s == u[k]
             c == calls[k + 1]
             t == u[k + 1]
  <2>1. k + 1 \in 1..N /\ k \in Nat /\ (k + 1) - 1 = k /\ k + 1 \in 0..N
    <3> HIDE DEF S
    <3>1. k < N /\ N \in Nat
      BY <1>0, <1>5
    <3> QED
      BY <3>1
  <2>2. t = IF c \in kept THEN Append(s, c) ELSE s
    BY <1>3, <2>1
  <2>3. Good(s, k)
    BY <1>5
  <2>4. c \in Nat
    BY <1>0, <2>1
  <2>5. \A m \in 1..k : c # calls[m]
    BY <1>0, <2>1 DEF N
  <2> HIDE DEF s, c
  <2>6. CASE c \notin kept
    <3>1. \A j \in 1..Len(s) : \E m \in 1..(k + 1) : s[j] = calls[m]
      BY <2>1, <2>3
    <3>2. ~ \A m \in 1..(k + 1) : calls[m] \in kept
      BY <2>1, <2>6 DEF c
    <3>3. Good(t, k + 1)
      BY <2>2, <2>3, <2>6, <3>1, <3>2
    <3> QED
      BY <2>1, <3>3
  <2>7. CASE c \in kept
    <3>1. t = Append(s, c) /\ s \in Seq(Nat) /\ Len(s) \in Nat
      BY <2>2, <2>3, <2>7, LenProperties
    <3>2. /\ t \in Seq(Nat) /\ Len(t) = Len(s) + 1
          /\ \A j \in 1..Len(s) : t[j] = s[j]
          /\ t[Len(s) + 1] = c
      BY <2>4, <3>1, AppendProperties
    <3> HIDE DEF t
    <3>3. \A j : j \in 1..Len(t) <=> j \in 1..Len(s) \/ j = Len(s) + 1
      BY <3>1, <3>2
    <3>4. \A j \in 1..Len(t) : \E m \in 1..(k + 1) : t[j] = calls[m]
      <4>1. t[Len(s) + 1] = calls[k + 1] /\ k + 1 \in 1..(k + 1)
        BY <2>1, <3>2 DEF c
      <4>2. \A j \in 1..Len(s) : \E m \in 1..(k + 1) : t[j] = calls[m]
        BY <2>1, <2>3, <3>2
      <4> QED
        BY <3>3, <4>1, <4>2
    <3>5. \A j \in 1..Len(s) : t[j] # t[Len(s) + 1]
      BY <2>3, <2>5, <3>2, ZenonT(60)
    <3>6. \A i, j \in 1..Len(t) : t[i] = t[j] => i = j
      <4> SUFFICES ASSUME NEW i \in 1..Len(t), NEW j \in 1..Len(t), t[i] = t[j] PROVE i = j
        OBVIOUS
      <4>1. CASE i \in 1..Len(s) /\ j \in 1..Len(s)
        BY <2>3, <3>2, <4>1
      <4> QED
        BY <3>3, <3>5, <4>1
    <3>7. (\A m \in 1..(k + 1) : calls[m] \in kept) => Len(t) = k + 1
      BY <2>1, <2>3, <3>2
    <3>8. Good(t, k + 1)
      BY <3>2, <3>4, <3>6, <3>7
    <3> QED
      BY <2>1, <3>8 DEF t
  <2> QED
    BY <2>6, <2>7
<1>6. \A k \in 0..N : k \in S
  <2> HIDE DEF S
  <2> QED
    BY <1>0, <1>4, <1>5, UpTo
<1>7. Good(u[N], N)
  BY <1>0, <1>6
<1>8. Recorded(calls, kept) = u[N]
  BY <1>1 DEF Recording, N
<1> QED
  BY <1>7, <1>8 DEF N

---------------------------------------------------------------------------
(* One run *)

Calling == {"room0", "room", "model"}
Between == {"ready", "tool"}
Runs ==
  [pc : {"idle", "room0", "ready", "tool", "check", "room", "model", "charge", "reply"} \cup Over,
   turns : Nat, tool_calls : Nat, pending : Seq(Nat), running : Nat, hand : Nat,
   compacting : BOOLEAN, row : Nat, win : 0..Windows, cost : Nat, asked : Nat,
   answers : Seq(Nat), lost : BOOLEAN]

\* The call being made or about to be made, and the calls up to it.
Current(e) == IF e.hand # 0 THEN e.hand ELSE e.running
Taken(e) == Len(e.answers) + (IF Current(e) # 0 THEN 1 ELSE 0)

\* The calls of a run that goes on are answered in the order they were asked: the results
\* first, then the call at hand, then the calls to announce.
BookInOrder(e) ==
  /\ ~e.lost
  /\ e.hand # 0 <=> e.pc = "tool"
  /\ e.running # 0 => e.pc = "ready"
  /\ e.pc \notin Between => e.pending = <<>>
  /\ \A k \in 1..Len(e.answers) : e.answers[k] = k
  /\ Current(e) # 0 => Current(e) = Len(e.answers) + 1
  /\ \A k \in 1..Len(e.pending) : e.pending[k] = Taken(e) + k
  /\ e.asked = Taken(e) + Len(e.pending)

\* What TranscriptClosed says of one run.
Closed(e) ==
  /\ \A i, k \in DOMAIN e.answers : e.answers[i] = e.answers[k] => i = k
  /\ \A i \in DOMAIN e.answers : e.answers[i] \in 1..e.asked
  /\ e.pc \in {"finished", "failed"} /\ ~e.lost => Len(e.answers) = e.asked

\* The run's own part of the invariant.  A turn is counted after it was begun, so one that was
\* begun is within the limit; a run at a row of the quota is at one of its own rows, in a
\* window that has begun.
RunFits(r, e) ==
  /\ e \in Runs
  /\ e.turns <= MaxTurns[r] /\ e.tool_calls <= MaxToolCalls[r]
  /\ e.pc \in {"check", "room", "model"} => e.turns < MaxTurns[r]
  /\ IF e.pc \in Over THEN Closed(e) ELSE BookInOrder(e)
  /\ e.pc \in {"check", "charge"} => e.row \in 1..Last(r) /\ e.win <= window
  /\ e.pc = "charge" => e.cost \in Costs

\* The calls left to answer follow the b-th; b calls were answered, unless a result is lost.
LeftFrom(e, b) ==
  /\ b >= Len(e.answers) /\ (~e.lost => b = Len(e.answers))
  /\ \A k \in 1..Len(e.answers) : e.answers[k] = k
  /\ \A k \in 1..Len(Outstanding(e)) : Outstanding(e)[k] = b + k
  /\ e.asked = b + Len(Outstanding(e))

(* The constants of a run are numbers. *)
LEMMA RunConstants ==
  ASSUME NEW r \in Clients
  PROVE  /\ MaxTurns[r] \in Nat /\ MaxToolCalls[r] \in Nat /\ Windows \in Nat
         /\ Subjects[r] \in Seq(Principals) /\ Last(r) \in Nat \ {0}
         /\ \A k \in 1..Last(r) : Subjects[r][k] \in Principals
<1>1. Subjects[r] \in Seq(Principals) /\ Subjects[r] # <<>>
  BY AgentAssumption
<1>2. Len(Subjects[r]) \in Nat /\ Len(Subjects[r]) # 0
  BY <1>1, EmptySeq, LenProperties
<1>3. \A k \in 1..Len(Subjects[r]) : Subjects[r][k] \in Principals
  BY <1>1, ElementOfSeq
<1> QED
  BY <1>1, <1>2, <1>3, AgentAssumption DEF Last

(* The calls that were never made are a sequence of calls. *)
LEMMA OutstandingCalls ==
  ASSUME NEW e \in Runs
  PROVE  /\ Outstanding(e) \in Seq(Nat)
         /\ e.running = 0 => Outstanding(e) = e.pending
         /\ e.running # 0 => /\ Len(Outstanding(e)) = Len(e.pending) + 1
                             /\ Outstanding(e)[1] = e.running
                             /\ \A k \in 1..Len(e.pending) : Outstanding(e)[k + 1] = e.pending[k]
<1>1. e.pending \in Seq(Nat) /\ e.running \in Nat /\ Len(e.pending) \in Nat
  BY LenProperties DEF Runs
<1>2. CASE e.running = 0
  <2>1. Outstanding(e) = e.pending
    BY <1>1, <1>2, ConcatEmptySeq DEF Outstanding
  <2> QED
    BY <1>1, <1>2, <2>1
<1>3. CASE e.running # 0
  <2> DEFINE one == <<e.running>>
  <2>1. one \in Seq(Nat) /\ Len(one) = 1 /\ one[1] = e.running
    BY <1>1
  <2>2. Outstanding(e) = one \o e.pending
    BY <1>3 DEF Outstanding
  <2> HIDE DEF one
  <2>3. /\ one \o e.pending \in Seq(Nat) /\ Len(one \o e.pending) = 1 + Len(e.pending)
        /\ \A k \in 1..(1 + Len(e.pending)) :
             (one \o e.pending)[k] = IF k <= 1 THEN one[k] ELSE e.pending[k - 1]
    <3> DEFINE rest == e.pending
    <3>1. rest \in Seq(Nat)
      BY <1>1
    <3> HIDE DEF rest
    <3>2. /\ one \o rest \in Seq(Nat) /\ Len(one \o rest) = Len(one) + Len(rest)
          /\ \A k \in 1..(Len(one) + Len(rest)) :
               (one \o rest)[k] = IF k <= Len(one) THEN one[k] ELSE rest[k - Len(one)]
      BY <2>1, <3>1, ConcatProperties
    <3> QED
      BY <2>1, <3>2, Zenon DEF rest
  <2>4. \A k \in 1..Len(e.pending) : Outstanding(e)[k + 1] = e.pending[k]
    <3> SUFFICES ASSUME NEW k \in 1..Len(e.pending) PROVE Outstanding(e)[k + 1] = e.pending[k]
      OBVIOUS
    <3>1. k + 1 \in 1..(1 + Len(e.pending)) /\ ~(k + 1 <= 1) /\ (k + 1) - 1 = k
      BY <1>1
    <3> QED
      BY <2>2, <2>3, <3>1
  <2>5. Outstanding(e)[1] = e.running
    BY <1>1, <2>1, <2>2, <2>3
  <2> QED
    BY <1>1, <1>3, <2>2, <2>3, <2>4, <2>5, SMTT(30)
<1> QED
  BY <1>2, <1>3

(* A run that stops between two tool calls leaves the calls after its results. *)
LEMMA LeftWhole ==
  ASSUME NEW e \in Runs, BookInOrder(e), e.pc # "tool"
  PROVE  LeftFrom(e, Len(e.answers))
<1>1. /\ Len(e.answers) \in Nat /\ Len(e.pending) \in Nat /\ e.running \in Nat /\ e.hand = 0
      /\ e.asked \in Nat
  BY LenProperties DEF Runs, BookInOrder
<1>2. Current(e) = e.running
  BY <1>1 DEF Current
<1>3. CASE e.running = 0
  <2>1. Outstanding(e) = e.pending /\ Taken(e) = Len(e.answers)
    BY <1>1, <1>2, <1>3, OutstandingCalls DEF Taken
  <2> QED
    BY <1>1, <2>1 DEF LeftFrom, BookInOrder
<1>4. CASE e.running # 0
  <2>1. /\ Len(Outstanding(e)) = Len(e.pending) + 1 /\ Outstanding(e)[1] = e.running
        /\ \A k \in 1..Len(e.pending) : Outstanding(e)[k + 1] = e.pending[k]
    BY <1>4, OutstandingCalls
  <2>2. Taken(e) = Len(e.answers) + 1 /\ e.running = Len(e.answers) + 1
    BY <1>2, <1>4 DEF Taken, BookInOrder
  <2>3. \A k \in 1..Len(Outstanding(e)) : Outstanding(e)[k] = Len(e.answers) + k
    <3> SUFFICES ASSUME NEW k \in 1..Len(Outstanding(e)) PROVE Outstanding(e)[k] = Len(e.answers) + k
      OBVIOUS
    <3>1. CASE k = 1
      BY <2>1, <2>2, <3>1
    <3>2. CASE k # 1
      <4>1. k - 1 \in 1..Len(e.pending) /\ (k - 1) + 1 = k
        BY <1>1, <2>1, <3>2
      <4>2. Outstanding(e)[k] = e.pending[k - 1]
        BY <2>1, <4>1
      <4>3. e.pending[k - 1] = (Len(e.answers) + 1) + (k - 1)
        BY <2>2, <4>1 DEF BookInOrder
      <4> QED
        BY <1>1, <4>2, <4>3
    <3> QED
      BY <3>1, <3>2
  <2>4. e.asked = Len(e.answers) + Len(Outstanding(e))
    <3>1. e.asked = (Len(e.answers) + 1) + Len(e.pending)
      BY <2>2 DEF BookInOrder
    <3>2. \A x, y \in Nat : (x + 1) + y = x + (y + 1)
      OBVIOUS
    <3>3. (Len(e.answers) + 1) + Len(e.pending) = Len(e.answers) + (Len(e.pending) + 1)
      BY <1>1, <3>2, Zenon
    <3> QED
      BY <2>1, <3>1, <3>3, Zenon
  <2> QED
    BY <1>1, <2>3, <2>4 DEF LeftFrom, BookInOrder
<1> QED
  BY <1>3, <1>4

(* A run whose tool returned a result the store refused leaves the calls after it. *)
LEMMA LeftAfterLoss ==
  ASSUME NEW e \in Runs, BookInOrder(e), e.pc = "tool",
         NEW g, g = [e EXCEPT !.lost = TRUE]
  PROVE  g \in Runs /\ LeftFrom(g, Len(g.answers) + 1)
<1>1. /\ g \in Runs /\ g.lost = TRUE /\ g.answers = e.answers /\ g.pending = e.pending
      /\ g.asked = e.asked /\ g.running = e.running
  BY DEF Runs
<1>2. /\ Len(e.answers) \in Nat /\ Len(e.pending) \in Nat /\ e.hand # 0 /\ e.running = 0
  BY LenProperties DEF Runs, BookInOrder
<1>3. Outstanding(g) = e.pending
  BY <1>1, <1>2, OutstandingCalls
<1>4. Taken(e) = Len(e.answers) + 1
  BY <1>2 DEF Taken, Current
<1>5. e.asked = (Len(e.answers) + 1) + Len(e.pending)
  BY <1>4 DEF BookInOrder
<1>6. \A k \in 1..Len(e.pending) : e.pending[k] = (Len(e.answers) + 1) + k
  BY <1>4 DEF BookInOrder
<1>7. Len(e.answers) + 1 >= Len(e.answers)
  BY <1>2
<1>8. \A k \in 1..Len(e.answers) : e.answers[k] = k
  BY DEF BookInOrder
<1> QED
  BY <1>1, <1>3, <1>5, <1>6, <1>7, <1>8 DEF LeftFrom

(* Stopping answers the calls that were never made: what it leaves is a closed transcript. *)
LEMMA StoppedFits ==
  ASSUME NEW r \in Clients, NEW e \in Runs, NEW b \in Nat, LeftFrom(e, b), NEW f \in Stopped(e)
  PROVE  RunFits(r, f) /\ f.pc = "failed"
<1> DEFINE out == Outstanding(e)
           a == Len(e.answers)
<1>1. /\ e.answers \in Seq(Nat) /\ a \in Nat /\ e.asked \in Nat /\ e.lost \in BOOLEAN
      /\ out \in Seq(Nat) /\ Len(out) \in Nat
  BY OutstandingCalls, LenProperties DEF Runs
<1>2. PICK kept \in SUBSET {out[k] : k \in 1..Len(out)} :
        f = [Ended(e, "failed") EXCEPT !.answers = @ \o Recorded(out, kept),
                                       !.lost = @ \/ kept # {out[k] : k \in 1..Len(out)}]
  BY DEF Stopped
<1> DEFINE t == Recorded(out, kept)
           all == {out[k] : k \in 1..Len(out)}
<1>3. /\ \A k \in 1..a : e.answers[k] = k
      /\ \A k \in 1..Len(out) : out[k] = b + k
      /\ e.asked = b + Len(out) /\ b >= a /\ (~e.lost => b = a)
  BY DEF LeftFrom
<1> HIDE DEF a, out
<1>4. \A i, k \in 1..Len(out) : out[i] = out[k] => i = k
  BY <1>1, <1>3
<1>5. /\ t \in Seq(Nat)
      /\ \A j \in 1..Len(t) : \E m \in 1..Len(out) : t[j] = out[m]
      /\ \A i, j \in 1..Len(t) : t[i] = t[j] => i = j
      /\ (\A m \in 1..Len(out) : out[m] \in kept) => Len(t) = Len(out)
  BY <1>1, <1>4, RecordedCalls
<1> HIDE DEF t
<1> DEFINE s == e.answers \o t
<1>6. /\ f.pc = "failed" /\ f.answers = s /\ f.lost = (e.lost \/ kept # all) /\ f.asked = e.asked
      /\ f.turns = 0 /\ f.tool_calls = 0 /\ f.running = 0 /\ f.hand = 0 /\ f.row = 0 /\ f.win = 0
      /\ f.cost = 0 /\ f.pending = <<>> /\ f.compacting = TRUE
      /\ f = [pc |-> "failed", turns |-> 0, tool_calls |-> 0, pending |-> <<>>, running |-> 0,
              hand |-> 0, compacting |-> TRUE, row |-> 0, win |-> 0, cost |-> 0,
              asked |-> e.asked, answers |-> s, lost |-> (e.lost \/ kept # all)]
  BY <1>2 DEF Ended, NewRun, t
<1>7. /\ s \in Seq(Nat) /\ Len(t) \in Nat /\ Len(s) = a + Len(t)
      /\ DOMAIN s = 1..(a + Len(t))
      /\ \A k \in 1..(a + Len(t)) : s[k] = IF k <= a THEN e.answers[k] ELSE t[k - a]
  BY <1>1, <1>5, ConcatProperties, LenProperties DEF a
<1> HIDE DEF s
<1>8. \A k \in 1..(a + Len(t)) :
        \/ k \in 1..a /\ s[k] = k
        \/ k - a \in 1..Len(t) /\ s[k] = t[k - a] /\ s[k] > b /\ s[k] \in 1..e.asked
  <2> SUFFICES ASSUME NEW k \in 1..(a + Len(t)), k > a
               PROVE  k - a \in 1..Len(t) /\ s[k] = t[k - a] /\ s[k] > b /\ s[k] \in 1..e.asked
    <3>1. \A k \in 1..(a + Len(t)) : ~(k > a) => k \in 1..a /\ k <= a
      BY <1>1, <1>7
    <3>2. \A k \in 1..(a + Len(t)) : ~(k > a) => k \in 1..a /\ s[k] = k
      BY <1>3, <1>7, <3>1
    <3> QED
      BY <3>2
  <2>1. k - a \in 1..Len(t) /\ s[k] = t[k - a]
    BY <1>1, <1>7
  <2>2. PICK m \in 1..Len(out) : t[k - a] = out[m]
    BY <1>5, <2>1
  <2>3. s[k] = b + m
    BY <1>3, <2>1, <2>2
  <2> QED
    BY <1>1, <1>3, <2>1, <2>3
<1>9. \A i, k \in DOMAIN s : s[i] = s[k] => i = k
  <2> SUFFICES ASSUME NEW i \in 1..(a + Len(t)), NEW k \in 1..(a + Len(t)), s[i] = s[k]
               PROVE  i = k
    BY <1>7
  <2>1. CASE i \in 1..a /\ k \in 1..a
    BY <1>1, <1>8, <2>1
  <2>2. CASE i \notin 1..a /\ k \notin 1..a
    <3>1. i - a \in 1..Len(t) /\ k - a \in 1..Len(t) /\ t[i - a] = t[k - a]
      BY <1>8, <2>2
    <3>2. i - a = k - a
      BY <1>5, <3>1
    <3> QED
      BY <1>1, <3>2
  <2>3. CASE i \in 1..a /\ k \notin 1..a
    <3>1. s[i] = i /\ s[k] > b
      BY <1>1, <1>8, <2>3
    <3> QED
      BY <1>1, <1>3, <2>3, <3>1
  <2>4. CASE i \notin 1..a /\ k \in 1..a
    <3>1. s[k] = k /\ s[i] > b
      BY <1>1, <1>8, <2>4
    <3> QED
      BY <1>1, <1>3, <2>4, <3>1
  <2> QED
    BY <2>1, <2>2, <2>3, <2>4
<1>10. \A i \in DOMAIN s : s[i] \in 1..e.asked
  <2> SUFFICES ASSUME NEW i \in 1..(a + Len(t)), i \in 1..a, s[i] = i PROVE s[i] \in 1..e.asked
    BY <1>7, <1>8
  <2> QED
    BY <1>1, <1>3
<1>11. ~(e.lost \/ kept # all) => Len(s) = e.asked
  <2> SUFFICES ASSUME ~e.lost, kept = all PROVE Len(s) = e.asked
    OBVIOUS
  <2>1. \A m \in 1..Len(out) : out[m] \in kept
    OBVIOUS
  <2>2. Len(t) = Len(out)
    BY <1>5, <2>1
  <2> QED
    BY <1>1, <1>3, <1>7, <2>2
<1>12. Closed(f)
  BY <1>6, <1>9, <1>10, <1>11 DEF Closed
<1>13. f \in Runs
  <2>1. 0 \in 0..Windows /\ <<>> \in Seq(Nat)
    BY RunConstants
  <2> HIDE DEF all
  <2>2. (e.lost \/ kept # all) \in BOOLEAN
    OBVIOUS
  <2> QED
    BY <1>1, <1>6, <1>7, <2>1, <2>2 DEF Runs, Over
<1> QED
  BY <1>6, <1>12, <1>13, RunConstants DEF RunFits, Over

\* No call is open: every call the transcript records has its result.
NoneOpen(e) ==
  /\ e.pending = <<>> /\ e.running = 0 /\ e.hand = 0 /\ ~e.lost
  /\ \A k \in 1..Len(e.answers) : e.answers[k] = k
  /\ e.asked = Len(e.answers)

(* Away from the tools a run in order has no open call. *)
LEMMA BookClosed ==
  ASSUME NEW e \in Runs, e.pc # "tool"
  PROVE  /\ NoneOpen(e) => BookInOrder(e)
         /\ BookInOrder(e) /\ e.pending = <<>> /\ e.running = 0 => NoneOpen(e)
         /\ BookInOrder(e) /\ e.pc # "ready" => NoneOpen(e)
<1>1. /\ Len(e.answers) \in Nat /\ e.asked \in Nat /\ e.hand \in Nat /\ e.running \in Nat
      /\ Len(<<>>) = 0 /\ 1..0 = {}
  BY LenProperties DEF Runs
<1>2. ASSUME e.running = 0, e.hand = 0 PROVE Current(e) = 0 /\ Taken(e) = Len(e.answers)
  BY <1>1, <1>2 DEF Current, Taken
<1>3. NoneOpen(e) => BookInOrder(e)
  BY <1>1, <1>2 DEF NoneOpen, BookInOrder
<1>4. BookInOrder(e) /\ e.pending = <<>> /\ e.running = 0 => NoneOpen(e)
  <2> SUFFICES ASSUME BookInOrder(e), e.pending = <<>>, e.running = 0 PROVE NoneOpen(e)
    OBVIOUS
  <2>1. e.hand = 0
    BY DEF BookInOrder
  <2>2. e.asked = Len(e.answers) + Len(e.pending)
    BY <1>2, <2>1 DEF BookInOrder
  <2> QED
    BY <1>1, <2>1, <2>2 DEF NoneOpen, BookInOrder
<1>5. BookInOrder(e) /\ e.pc # "ready" => e.pending = <<>> /\ e.running = 0
  BY DEF BookInOrder, Between
<1> QED
  BY <1>3, <1>4, <1>5

(* A change of a run without open calls that leaves its transcript alone opens none. *)
LEMMA SameBook ==
  ASSUME NEW e \in Runs, NoneOpen(e), NEW f \in Runs, f.pc # "tool",
         f.pending = e.pending, f.running = e.running, f.hand = e.hand, f.lost = e.lost,
         f.answers = e.answers, f.asked = e.asked
  PROVE  BookInOrder(f)
<1>1. NoneOpen(f)
  BY DEF NoneOpen
<1> QED
  BY <1>1, BookClosed

(* Stopping a run that is not in a tool. *)
LEMMA StopFits ==
  ASSUME NEW r \in Clients, NEW e \in Runs, BookInOrder(e), e.pc # "tool", NEW f \in Stopped(e)
  PROVE  RunFits(r, f) /\ f.pc = "failed"
<1>1. LeftFrom(e, Len(e.answers)) /\ Len(e.answers) \in Nat
  BY LeftWhole, LenProperties DEF Runs
<1> QED
  BY <1>1, StoppedFits

(* A turn begins, or the run stops at its limit. *)
LEMMA TurnFits ==
  ASSUME NEW r \in Clients, NEW e \in Runs, NoneOpen(e), e.pc # "tool",
         e.turns <= MaxTurns[r], e.tool_calls <= MaxToolCalls[r], window \in 0..Windows,
         NEW f \in Turn(r, e)
  PROVE  /\ RunFits(r, f) /\ f.pc \in {"failed", "check"}
         /\ f.pc = "check" => f.row = 1 /\ f.win = window
<1>1. CASE e.turns >= MaxTurns[r]
  BY <1>1, BookClosed, StopFits DEF Turn
<1>2. CASE ~(e.turns >= MaxTurns[r])
  <2>1. f = [e EXCEPT !.pc = "check", !.row = 1, !.win = window]
    BY <1>2 DEF Turn
  <2>2. /\ f \in Runs /\ f.pc = "check" /\ f.row = 1 /\ f.win = window
        /\ f.pending = e.pending /\ f.running = e.running /\ f.hand = e.hand /\ f.lost = e.lost
        /\ f.answers = e.answers /\ f.asked = e.asked /\ f.turns = e.turns
        /\ f.tool_calls = e.tool_calls
    BY <2>1 DEF Runs
  <2>3. BookInOrder(f)
    BY <2>2, SameBook
  <2>4. f.turns < MaxTurns[r] /\ 1 \in 1..Last(r) /\ window <= window
    BY <1>2, <2>2, RunConstants, SMTT(30) DEF Runs
  <2> QED
    BY <2>2, <2>3, <2>4 DEF RunFits, Over
<1> QED
  BY <1>1, <1>2

---------------------------------------------------------------------------
(* The inductive invariant *)

Spenders(p) == {r \in Clients : \E k \in 1..Last(r) : Subjects[r][k] = p}

\* The row of p is behind the run.
Passed(r, e, p) == \A k \in 1..Last(r) : Subjects[r][k] = p => e.row > k

\* The run may still charge p in window w without asking p's row of w again: it is on its way
\* to charge it, or the window is open and p's row was passed or was asked of an earlier one.
Flies(r, e, p, w) ==
  \/ e.pc = "charge" /\ e.win = w /\ ~Passed(r, e, p)
  \/ window = w /\ e.pc \in {"room", "model"}
  \/ window = w /\ e.pc = "check" /\ (e.win < w \/ Passed(r, e, p))

InFlight(p, w) == {r \in Spenders(p) : Flies(r, run[r], p, w)}

\* Each run in flight may add one more turn to what is spent, and that is within the bound.
FlightsCovered ==
  \A p \in Principals, w \in 0..Windows, c \in Costs :
    (\A d \in Costs : d <= c) /\ w <= window /\ Spenders(p) # {} =>
      ledger[p][w] + c * Cardinality(InFlight(p, w)) < setup.ceiling + c * Cardinality(Spenders(p))

\* Nothing is charged to a window that is still to come.
NotYetCharged == \A p \in Principals, w \in 0..Windows : w > window => ledger[p][w] = 0

\* Only a run that waits for the model has a call, so a new call replaces none.
CallsOwned == \A r \in Clients : run[r].pc \notin Calling => client[r] = Idle

Rows == [Principals -> [0..Windows -> Nat]]

LedgerInv ==
  /\ ledger \in Rows /\ charged \in Rows /\ window \in 0..Windows /\ setup \in Settings
  /\ NotYetCharged /\ LiveWindowComplete /\ FlightsCovered

RunsInv ==
  /\ run \in [Clients -> Runs] /\ \A r \in Clients : RunFits(r, run[r])
  /\ CallsOwned

\* The properties are not inductive by themselves: a result is missing from a transcript that
\* is not closed yet, a charge is on its way that the ledger does not show, and a call that
\* holds a slot could be replaced by a new one if a run between two calls had any.
AgentIInv == ResilienceInv /\ RunsInv /\ LedgerInv

\* A step takes run r to e: what the loop's actions have to show.
Moves(r, e) ==
  /\ run' = [run EXCEPT ![r] = e] /\ RunFits(r, e)
  /\ e.pc \notin Calling => client'[r] = Idle
  /\ \A p \in Principals, w \in 0..Windows :
       r \in Spenders(p) /\ Flies(r, e, p, w) =>
         Flies(r, run[r], p, w) \/ ledger[p][w] < setup.ceiling

(* What the invariant says of one run. *)
LEMMA RunFacts ==
  ASSUME AgentIInv, NEW r \in Clients
  PROVE  /\ run[r] \in Runs /\ RunFits(r, run[r]) /\ window \in 0..Windows
         /\ run[r].pc \notin Over => BookInOrder(run[r])
         /\ run[r].turns <= MaxTurns[r] /\ run[r].tool_calls <= MaxToolCalls[r]
         /\ run[r].pc \notin Over \cup {"ready", "tool"} => NoneOpen(run[r])
         /\ run[r].pc \notin Calling => client[r] = Idle
         /\ client \in [Clients -> Calls] /\ max_attempts \in Nat \ {0}
<1>1. /\ run[r] \in Runs /\ RunFits(r, run[r]) /\ window \in 0..Windows
      /\ run[r].pc \notin Calling => client[r] = Idle
  BY DEF AgentIInv, RunsInv, LedgerInv, CallsOwned
<1>2. run[r].pc \notin Over => BookInOrder(run[r])
  BY <1>1 DEF RunFits
<1>3. run[r].pc \notin Over \cup {"ready", "tool"} => NoneOpen(run[r])
  BY <1>1, <1>2, BookClosed
<1>4. run[r].turns <= MaxTurns[r] /\ run[r].tool_calls <= MaxToolCalls[r]
  BY <1>1 DEF RunFits
<1>5. client \in [Clients -> Calls] /\ max_attempts \in Nat \ {0}
  BY ResilienceFacts DEF AgentIInv
<1> QED
  BY <1>1, <1>2, <1>3, <1>4, <1>5

(* A run that has just begun to check has passed no row. *)
LEMMA NotFlying ==
  ASSUME NEW r \in Clients, NEW p, NEW w \in 0..Windows, NEW e \in Runs, r \in Spenders(p),
         window \in 0..Windows,
         \/ e.pc \in {"idle", "room0", "ready", "tool", "reply"} \cup Over
         \/ e.pc = "check" /\ e.row = 1 /\ e.win = window
  PROVE  ~Flies(r, e, p, w)
<1>1. CASE e.pc \in {"idle", "room0", "ready", "tool", "reply"} \cup Over
  BY <1>1 DEF Flies, Over
<1>2. CASE e.pc = "check" /\ e.row = 1 /\ e.win = window
  <2>1. PICK k \in 1..Last(r) : Subjects[r][k] = p
    BY DEF Spenders
  <2>2. ~(e.row > k)
    BY <1>2, <2>1, RunConstants
  <2>3. ~Passed(r, e, p)
    BY <2>1, <2>2 DEF Passed
  <2>4. window = w => ~(e.win < w)
    BY <1>2, RunConstants
  <2> QED
    BY <1>2, <2>3, <2>4 DEF Flies
<1> QED
  BY <1>1, <1>2

(* A step after which the run cannot charge without checking first. *)
LEMMA Lands ==
  ASSUME AgentIInv, NEW r \in Clients, NEW e, run' = [run EXCEPT ![r] = e], RunFits(r, e),
         e.pc \notin Calling => client'[r] = Idle,
         \/ e.pc \in {"idle", "room0", "ready", "tool", "reply"} \cup Over
         \/ e.pc = "check" /\ e.row = 1 /\ e.win = window
  PROVE  Moves(r, e)
<1>1. e \in Runs /\ window \in 0..Windows
  BY RunFacts DEF RunFits
<1>2. \A p \in Principals, w \in 0..Windows : r \in Spenders(p) => ~Flies(r, e, p, w)
  BY <1>1, NotFlying
<1> QED
  BY <1>2 DEF Moves

(* A step that stops a run outside of a tool and leaves it no call. *)
LEMMA StopMoves ==
  ASSUME AgentIInv, NEW r \in Clients, run[r].pc \notin Over \cup {"tool"},
         Become(r, Stopped(run[r])), client'[r] = Idle
  PROVE  \E e : Moves(r, e)
<1>1. PICK e \in Stopped(run[r]) : run' = [run EXCEPT ![r] = e]
  BY DEF Become
<1>2. RunFits(r, e) /\ e.pc = "failed"
  BY RunFacts, StopFits
<1>3. Moves(r, e)
  BY <1>1, <1>2, Lands DEF Over
<1> QED
  BY <1>3

(* A step that begins a turn, or stops the run at its limit. *)
LEMMA TurnMoves ==
  ASSUME AgentIInv, NEW r \in Clients, NEW f \in Runs, NoneOpen(f), f.pc # "tool",
         f.turns <= MaxTurns[r], f.tool_calls <= MaxToolCalls[r],
         NEW e \in Turn(r, f), run' = [run EXCEPT ![r] = e], client'[r] = Idle
  PROVE  \E x : Moves(r, x)
<1>1. /\ RunFits(r, e) /\ e.pc \in {"failed", "check"}
      /\ e.pc = "check" => e.row = 1 /\ e.win = window
  BY RunFacts, TurnFits
<1>2. Moves(r, e)
  BY <1>1, Lands DEF Over, Calling
<1> QED
  BY <1>2

(* Turning compaction off changes nothing the invariant speaks of. *)
LEMMA OffFits ==
  ASSUME NEW r \in Clients, NEW e \in Runs, RunFits(r, e), NoneOpen(e), e.pc # "tool",
         NEW f, f = e \/ f = [e EXCEPT !.compacting = FALSE]
  PROVE  /\ f \in Runs /\ NoneOpen(f) /\ f.pc = e.pc /\ f.row = e.row /\ f.win = e.win
         /\ f.turns = e.turns /\ f.tool_calls = e.tool_calls
         /\ f.pending = e.pending /\ f.running = e.running /\ f.hand = e.hand /\ f.lost = e.lost
         /\ f.answers = e.answers /\ f.asked = e.asked
<1>1. CASE f = e
  BY <1>1
<1>2. CASE f = [e EXCEPT !.compacting = FALSE]
  <2>1. /\ f \in Runs /\ f.pc = e.pc /\ f.row = e.row /\ f.win = e.win
        /\ f.turns = e.turns /\ f.tool_calls = e.tool_calls
        /\ f.pending = e.pending /\ f.running = e.running /\ f.hand = e.hand /\ f.lost = e.lost
        /\ f.answers = e.answers /\ f.asked = e.asked
    BY <1>2 DEF Runs
  <2>2. NoneOpen(f)
    BY <2>1 DEF NoneOpen
  <2> QED
    BY <2>1, <2>2
<1> QED
  BY <1>1, <1>2

(* The first step. *)
LEMMA PrepareMoves == ASSUME AgentIInv, NEW r \in Clients, Prepare(r) PROVE \E e : Moves(r, e)
<1> DEFINE e == run[r]
<1>1. /\ e \in Runs /\ RunFits(r, e) /\ NoneOpen(e) /\ client[r] = Idle /\ e.pc = "idle"
      /\ client \in [Clients -> Calls]
      /\ e.turns <= MaxTurns[r] /\ e.tool_calls <= MaxToolCalls[r]
  BY RunFacts DEF Prepare, Over, Calling
<1>2. CASE Become(r, Stopped(e)) /\ UNCHANGED client
  BY <1>1, <1>2, StopMoves DEF Over
<1>3. CASE Become(r, UNION {Turn(r, f) : f \in NothingToDo(e)}) /\ UNCHANGED client
  <2>1. PICK f \in NothingToDo(e) : \E x \in Turn(r, f) : run' = [run EXCEPT ![r] = x]
    BY <1>3 DEF Become
  <2>2. f = e \/ f = [e EXCEPT !.compacting = FALSE]
    BY DEF NothingToDo
  <2> HIDE DEF e
  <2>3. /\ f \in Runs /\ NoneOpen(f) /\ f.pc # "tool" /\ f.turns <= MaxTurns[r]
        /\ f.tool_calls <= MaxToolCalls[r]
    BY <1>1, <2>2, OffFits
  <2> QED
    BY <1>1, <1>3, <2>1, <2>3, TurnMoves
<1>4. CASE Become(r, {[e EXCEPT !.pc = "room0"]}) /\ Complete(r)
  <2> DEFINE x == [e EXCEPT !.pc = "room0"]
  <2>1. run' = [run EXCEPT ![r] = x]
    BY <1>4 DEF Become
  <2> HIDE DEF e
  <2>2. /\ x \in Runs /\ x.pc = "room0" /\ x.turns = e.turns /\ x.tool_calls = e.tool_calls
        /\ x.pending = e.pending /\ x.running = e.running /\ x.hand = e.hand /\ x.lost = e.lost
        /\ x.answers = e.answers /\ x.asked = e.asked
    BY <1>1 DEF Runs
  <2> HIDE DEF x
  <2>3. BookInOrder(x)
    BY <1>1, <2>2, SameBook
  <2>4. RunFits(r, x)
    BY <1>1, <2>2, <2>3 DEF RunFits, Over
  <2>5. Moves(r, x)
    BY <2>1, <2>2, <2>4, Lands DEF Calling
  <2> QED
    BY <2>5
<1> QED
  BY <1>2, <1>3, <1>4 DEF Prepare

(* The compactor's call has ended. *)
LEMMA RoomMadeMoves == ASSUME AgentIInv, NEW r \in Clients, RoomMade(r) PROVE \E e : Moves(r, e)
<1> DEFINE e == run[r]
<1>1. /\ e \in Runs /\ RunFits(r, e) /\ NoneOpen(e) /\ e.pc \in {"room0", "room"}
      /\ client \in [Clients -> Calls]
      /\ e.turns <= MaxTurns[r] /\ e.tool_calls <= MaxToolCalls[r]
  BY RunFacts DEF RoomMade, Over
<1>2. CASE Become(r, Stopped(e)) /\ client' = [client EXCEPT ![r] = Idle]
  <2>1. client'[r] = Idle
    BY <1>1, <1>2
  <2> QED
    BY <1>1, <1>2, <2>1, StopMoves DEF Over
<1>3. CASE \E f : /\ f = e \/ f = [e EXCEPT !.compacting = FALSE]
                  /\ IF e.pc = "room" THEN run' = [run EXCEPT ![r] = [f EXCEPT !.pc = "model"]]
                     ELSE \E x \in Turn(r, f) : run' = [run EXCEPT ![r] = x]
                  /\ IF e.pc = "room" THEN Complete(r) ELSE client' = [client EXCEPT ![r] = Idle]
  <2>1. PICK f : /\ f = e \/ f = [e EXCEPT !.compacting = FALSE]
                 /\ IF e.pc = "room" THEN run' = [run EXCEPT ![r] = [f EXCEPT !.pc = "model"]]
                    ELSE \E x \in Turn(r, f) : run' = [run EXCEPT ![r] = x]
                 /\ IF e.pc = "room" THEN Complete(r) ELSE client' = [client EXCEPT ![r] = Idle]
    BY <1>3
  <2> HIDE DEF e
  <2>2. /\ f \in Runs /\ NoneOpen(f) /\ f.pc = e.pc /\ f.turns = e.turns
        /\ f.tool_calls = e.tool_calls
    BY <1>1, <2>1, OffFits
  <2>3. CASE e.pc = "room"
    <3> DEFINE x == [f EXCEPT !.pc = "model"]
    <3>1. run' = [run EXCEPT ![r] = x]
      BY <2>1, <2>3
    <3>2. /\ x \in Runs /\ x.pc = "model" /\ x.turns = e.turns /\ x.tool_calls = e.tool_calls
          /\ x.pending = f.pending /\ x.running = f.running /\ x.hand = f.hand /\ x.lost = f.lost
          /\ x.answers = f.answers /\ x.asked = f.asked
      BY <2>2 DEF Runs
    <3> HIDE DEF x
    <3>3. BookInOrder(x)
      BY <2>2, <3>2, SameBook
    <3>4. RunFits(r, x)
      BY <1>1, <2>3, <3>2, <3>3 DEF RunFits, Over
    <3>5. \A p, w : Flies(r, x, p, w) => Flies(r, run[r], p, w)
      BY <2>3, <3>2 DEF Flies, e
    <3>6. Moves(r, x)
      BY <3>1, <3>2, <3>4, <3>5 DEF Moves, Calling
    <3> QED
      BY <3>6
  <2>4. CASE e.pc # "room"
    <3>1. client'[r] = Idle
      BY <1>1, <2>1, <2>4
    <3>2. f.pc # "tool"
      BY <1>1, <2>2
    <3> QED
      BY <1>1, <2>1, <2>2, <2>4, <3>1, <3>2, TurnMoves
  <2> QED
    BY <2>3, <2>4
<1> QED
  <2> DEFINE left == (IF client[r].pc = "ok" THEN {e} ELSE {})
                     \cup (IF client[r].pc \in {"ok", "terminal", "transient"}
                           THEN {[e EXCEPT !.compacting = FALSE]} ELSE {})
  <2>1. ASSUME Become(r, IF e.pc = "room" THEN {[f EXCEPT !.pc = "model"] : f \in left}
                         ELSE UNION {Turn(r, f) : f \in left})
        PROVE  \E f : /\ f = e \/ f = [e EXCEPT !.compacting = FALSE]
                      /\ IF e.pc = "room" THEN run' = [run EXCEPT ![r] = [f EXCEPT !.pc = "model"]]
                         ELSE \E x \in Turn(r, f) : run' = [run EXCEPT ![r] = x]
    <3> HIDE DEF e, left
    <3>1. PICK f \in left : IF e.pc = "room" THEN run' = [run EXCEPT ![r] = [f EXCEPT !.pc = "model"]]
                            ELSE \E x \in Turn(r, f) : run' = [run EXCEPT ![r] = x]
      BY <2>1, ZenonT(60) DEF Become
    <3>2. f = e \/ f = [e EXCEPT !.compacting = FALSE]
      BY DEF left
    <3> QED
      BY <3>1, <3>2
  <2> QED
    BY <1>2, <1>3, <2>1 DEF RoomMade

(* A call leaves the announced ones for the tool. *)
LEMMA CallBook ==
  ASSUME NEW e \in Runs, BookInOrder(e), e.pc = "ready", e.running # 0,
         NEW x, x = [e EXCEPT !.pc = "tool", !.hand = e.running, !.running = 0]
  PROVE  x \in Runs /\ BookInOrder(x) /\ x.turns = e.turns /\ x.tool_calls = e.tool_calls
         /\ x.pc = "tool"
<1>1. /\ x \in Runs /\ x.pc = "tool" /\ x.turns = e.turns /\ x.tool_calls = e.tool_calls
      /\ x.hand = e.running /\ x.running = 0 /\ x.pending = e.pending /\ x.lost = e.lost
      /\ x.answers = e.answers /\ x.asked = e.asked
  BY DEF Runs
<1>2. e.hand = 0
  BY DEF BookInOrder
<1>3. Current(x) = Current(e) /\ Taken(x) = Taken(e)
  BY <1>1, <1>2 DEF Current, Taken
<1> QED
  BY <1>1, <1>3 DEF BookInOrder, Between

(* A call is announced. *)
LEMMA AnnounceBook ==
  ASSUME NEW e \in Runs, BookInOrder(e), e.pc = "ready", e.running = 0, e.pending # <<>>,
         NEW x, x = [e EXCEPT !.running = Head(e.pending), !.pending = Tail(@),
                              !.tool_calls = @ + 1]
  PROVE  x \in Runs /\ BookInOrder(x) /\ x.turns = e.turns /\ x.tool_calls = e.tool_calls + 1
         /\ x.pc = "ready"
<1>1. /\ e.pending \in Seq(Nat) /\ Len(e.answers) \in Nat /\ e.asked \in Nat /\ e.hand = 0
      /\ e.tool_calls \in Nat /\ Len(e.pending) \in Nat
  BY LenProperties DEF Runs, BookInOrder
<1>2. /\ Head(e.pending) = e.pending[1] /\ Tail(e.pending) \in Seq(Nat) /\ e.pending[1] \in Nat
      /\ Len(Tail(e.pending)) = Len(e.pending) - 1 /\ Len(e.pending) \in Nat \ {0}
      /\ \A k \in 1..(Len(e.pending) - 1) : Tail(e.pending)[k] = e.pending[k + 1]
  BY <1>1, HeadTailProperties, EmptySeq, ElementOfSeq
<1>3. /\ x \in Runs /\ x.pc = "ready" /\ x.turns = e.turns /\ x.tool_calls = e.tool_calls + 1
      /\ x.hand = e.hand /\ x.running = e.pending[1] /\ x.pending = Tail(e.pending)
      /\ x.lost = e.lost /\ x.answers = e.answers /\ x.asked = e.asked
  <2> DEFINE h == e.pending[1]
             t == Tail(e.pending)
             n == e.tool_calls + 1
  <2>1. h \in Nat /\ t \in Seq(Nat) /\ n \in Nat
    BY <1>1, <1>2
  <2>2. x = [e EXCEPT !.running = h, !.pending = t, !.tool_calls = n]
    BY <1>2
  <2> HIDE DEF h, t, n
  <2>3. /\ x \in Runs /\ x.pc = "ready" /\ x.turns = e.turns /\ x.tool_calls = n
        /\ x.hand = e.hand /\ x.running = h /\ x.pending = t
        /\ x.lost = e.lost /\ x.answers = e.answers /\ x.asked = e.asked
    BY <2>1, <2>2 DEF Runs
  <2> QED
    BY <2>3 DEF h, t, n
<1>4. Taken(e) = Len(e.answers)
  BY <1>1 DEF Taken, Current
<1>5. e.pending[1] = Len(e.answers) + 1
  BY <1>2, <1>4 DEF BookInOrder
<1>6. Current(x) = Len(x.answers) + 1 /\ Taken(x) = Len(e.answers) + 1
  <2>1. Len(e.answers) + 1 # 0
    BY <1>1
  <2>2. Current(x) = Len(e.answers) + 1
    BY <1>1, <1>3, <1>5, <2>1 DEF Current
  <2> QED
    BY <1>3, <2>1, <2>2 DEF Taken
<1>7. \A k \in 1..Len(x.pending) : x.pending[k] = Taken(x) + k
  <2> SUFFICES ASSUME NEW k \in 1..(Len(e.pending) - 1)
               PROVE  e.pending[k + 1] = (Len(e.answers) + 1) + k
    BY <1>2, <1>3, <1>6
  <2>1. k + 1 \in 1..Len(e.pending)
    BY <1>2
  <2>2. e.pending[k + 1] = Len(e.answers) + (k + 1)
    BY <1>4, <2>1 DEF BookInOrder
  <2>3. \A m, n \in Nat : m + (n + 1) = (m + 1) + n
    OBVIOUS
  <2>4. k \in Nat
    BY <1>2
  <2> QED
    BY <1>1, <2>2, <2>3, <2>4, Zenon
<1>8. x.asked = Taken(x) + Len(x.pending)
  <2>1. e.asked = Len(e.answers) + Len(e.pending)
    BY <1>4 DEF BookInOrder
  <2>2. \A m, n \in Nat : m + n = (m + 1) + (n - 1)
    OBVIOUS
  <2> QED
    BY <1>1, <1>2, <1>3, <1>6, <2>1, <2>2, ZenonT(60)
<1> QED
  BY <1>1, <1>3, <1>5, <1>6, <1>7, <1>8 DEF BookInOrder, Between

(* The result of the call in hand is recorded. *)
LEMMA ReturnBook ==
  ASSUME NEW e \in Runs, BookInOrder(e), e.pc = "tool",
         NEW x, x = [e EXCEPT !.pc = "ready", !.answers = Append(@, e.hand), !.hand = 0]
  PROVE  x \in Runs /\ BookInOrder(x) /\ x.turns = e.turns /\ x.tool_calls = e.tool_calls
         /\ x.pc = "ready"
<1>1. /\ e.answers \in Seq(Nat) /\ Len(e.answers) \in Nat /\ e.hand \in Nat /\ e.hand # 0
      /\ e.running = 0
  BY LenProperties DEF Runs, BookInOrder
<1>2. /\ Append(e.answers, e.hand) \in Seq(Nat)
      /\ Len(Append(e.answers, e.hand)) = Len(e.answers) + 1
      /\ \A k \in 1..Len(e.answers) : Append(e.answers, e.hand)[k] = e.answers[k]
      /\ Append(e.answers, e.hand)[Len(e.answers) + 1] = e.hand
  BY <1>1, AppendProperties
<1>3. /\ x \in Runs /\ x.pc = "ready" /\ x.turns = e.turns /\ x.tool_calls = e.tool_calls
      /\ x.hand = 0 /\ x.running = 0 /\ x.pending = e.pending /\ x.lost = e.lost
      /\ x.answers = Append(e.answers, e.hand) /\ x.asked = e.asked
  BY <1>1, <1>2 DEF Runs
<1>4. e.hand = Len(e.answers) + 1 /\ Taken(e) = Len(e.answers) + 1
  BY <1>1 DEF BookInOrder, Taken, Current
<1>5. Current(x) = 0 /\ Taken(x) = Len(e.answers) + 1
  <2>1. Current(x) = 0
    BY <1>3 DEF Current
  <2>2. Taken(x) = (Len(e.answers) + 1) + 0
    BY <1>2, <1>3, <2>1 DEF Taken
  <2> QED
    BY <1>1, <2>1, <2>2
<1>6. \A k \in 1..Len(x.answers) : x.answers[k] = k
  <2>1. \A k \in 1..(Len(e.answers) + 1) : k \in 1..Len(e.answers) \/ k = Len(e.answers) + 1
    BY <1>1
  <2>2. \A k \in 1..Len(e.answers) : e.answers[k] = k
    BY DEF BookInOrder
  <2> QED
    BY <1>2, <1>3, <1>4, <2>1, <2>2
<1> QED
  BY <1>3, <1>4, <1>5, <1>6, ZenonT(60) DEF BookInOrder, Between

(* The calls of a reply are written down before any of them is made. *)
LEMMA ReplyBook ==
  ASSUME NEW e \in Runs, NoneOpen(e), NEW n \in Nat, n # 0,
         NEW x, x = [e EXCEPT !.pc = "ready", !.asked = @ + n,
                              !.pending = [k \in 1..n |-> e.asked + k]]
  PROVE  x \in Runs /\ BookInOrder(x) /\ x.turns = e.turns /\ x.tool_calls = e.tool_calls
         /\ x.pc = "ready"
<1> DEFINE q == [k \in 1..n |-> e.asked + k]
<1>1. e.asked \in Nat /\ Len(e.answers) \in Nat
  BY LenProperties DEF Runs
<1>2. q \in Seq(Nat) /\ Len(q) = n /\ \A k \in 1..n : q[k] = e.asked + k
  BY <1>1, IsASeq
<1>3. /\ x \in Runs /\ x.pc = "ready" /\ x.turns = e.turns /\ x.tool_calls = e.tool_calls
      /\ x.hand = e.hand /\ x.running = e.running /\ x.pending = q /\ x.lost = e.lost
      /\ x.answers = e.answers /\ x.asked = e.asked + n
  <2> DEFINE m == e.asked + n
  <2>1. x = [e EXCEPT !.pc = "ready", !.asked = m, !.pending = q]
    OBVIOUS
  <2>2. m \in Nat
    BY <1>1
  <2> HIDE DEF m, q
  <2>3. /\ x \in Runs /\ x.pc = "ready" /\ x.turns = e.turns /\ x.tool_calls = e.tool_calls
        /\ x.hand = e.hand /\ x.running = e.running /\ x.pending = q /\ x.lost = e.lost
        /\ x.answers = e.answers /\ x.asked = m
    BY <1>2, <2>1, <2>2, ZenonT(60) DEF Runs
  <2> QED
    BY <2>3 DEF m
<1> HIDE DEF q
<1>4. Current(x) = 0 /\ Taken(x) = e.asked /\ x.hand = 0 /\ x.running = 0
  <2>1. Current(x) = 0 /\ x.hand = 0 /\ x.running = 0
    BY <1>3 DEF Current, NoneOpen
  <2>2. Taken(x) = e.asked + 0
    BY <1>3, <2>1 DEF Taken, NoneOpen
  <2> QED
    BY <1>1, <2>1, <2>2
<1> QED
  BY <1>1, <1>2, <1>3, <1>4 DEF BookInOrder, NoneOpen, Between

(* A run that ends without closing anything off. *)
LEMMA EndedFits ==
  ASSUME NEW r \in Clients, NEW e \in Runs, BookInOrder(e), NEW pc \in {"finished", "dropped"},
         pc = "finished" => NoneOpen(e)
  PROVE  RunFits(r, Ended(e, pc)) /\ Ended(e, pc).pc = pc
<1> DEFINE x == Ended(e, pc)
<1>1. /\ e.answers \in Seq(Nat) /\ Len(e.answers) \in Nat /\ e.asked \in Nat /\ e.lost \in BOOLEAN
      /\ DOMAIN e.answers = 1..Len(e.answers) /\ Len(e.pending) \in Nat
  BY LenProperties DEF Runs
<1>2. x = [pc |-> pc, turns |-> 0, tool_calls |-> 0, pending |-> <<>>, running |-> 0,
           hand |-> 0, compacting |-> TRUE, row |-> 0, win |-> 0, cost |-> 0,
           asked |-> e.asked, answers |-> e.answers, lost |-> e.lost]
  <2>1. ~e.lost
    BY DEF BookInOrder
  <2>2. e.lost = FALSE
    BY <1>1, <2>1
  <2>3. x = [NewRun EXCEPT !.pc = pc, !.asked = e.asked, !.answers = e.answers, !.lost = FALSE]
    BY <2>2, Zenon DEF Ended
  <2>4. x = [pc |-> pc, turns |-> 0, tool_calls |-> 0, pending |-> <<>>, running |-> 0,
             hand |-> 0, compacting |-> TRUE, row |-> 0, win |-> 0, cost |-> 0,
             asked |-> e.asked, answers |-> e.answers, lost |-> FALSE]
    BY <2>3 DEF NewRun
  <2> QED
    BY <2>2, <2>4, Zenon
<1> HIDE DEF x
<1>3. x \in Runs
  <2>1. 0 \in 0..Windows /\ <<>> \in Seq(Nat)
    BY RunConstants
  <2> QED
    BY <1>1, <1>2, <2>1 DEF Runs, Over
<1>4. x.pc = pc /\ x.asked = e.asked /\ x.answers = e.answers /\ x.turns = 0 /\ x.tool_calls = 0
  BY <1>2
<1>5. Len(e.answers) <= e.asked
  <2>1. PICK t \in {0, 1} : Taken(e) = Len(e.answers) + t
    BY DEF Taken
  <2>2. e.asked = (Len(e.answers) + t) + Len(e.pending)
    BY <2>1 DEF BookInOrder
  <2>3. \A m, n \in Nat : m <= (m + t) + n
    OBVIOUS
  <2> QED
    BY <1>1, <2>2, <2>3
<1>6. \A k \in 1..Len(e.answers) : e.answers[k] = k /\ k \in 1..e.asked
  BY <1>1, <1>5 DEF BookInOrder
<1>7. Closed(x)
  BY <1>1, <1>4, <1>6, SMTT(30) DEF Closed, NoneOpen
<1>8. RunFits(r, x)
  BY <1>3, <1>4, <1>7, RunConstants DEF RunFits, Over
<1> QED
  BY <1>4, <1>8 DEF x

(* step(): a call is made or announced, a turn begins, or the run stops. *)
LEMMA StepMoves == ASSUME AgentIInv, NEW r \in Clients, Step(r) PROVE \E e : Moves(r, e)
<1> DEFINE e == run[r]
<1>1. /\ e \in Runs /\ RunFits(r, e) /\ BookInOrder(e) /\ e.pc = "ready" /\ client'[r] = Idle
      /\ e.turns <= MaxTurns[r] /\ e.tool_calls <= MaxToolCalls[r]
  BY RunFacts DEF Step, Over, Calling, resilienceVars
<1>2. CASE Become(r, Stopped(e))
  BY <1>1, <1>2, StopMoves DEF Over
<1>3. CASE /\ e.running # 0
           /\ Become(r, {[e EXCEPT !.pc = "tool", !.hand = e.running, !.running = 0]})
  <2> DEFINE x == [e EXCEPT !.pc = "tool", !.hand = e.running, !.running = 0]
  <2>1. run' = [run EXCEPT ![r] = x]
    BY <1>3 DEF Become
  <2> HIDE DEF e
  <2>2. x \in Runs /\ BookInOrder(x) /\ x.turns = e.turns /\ x.tool_calls = e.tool_calls
        /\ x.pc = "tool"
    BY <1>1, <1>3, CallBook
  <2> HIDE DEF x
  <2>3. RunFits(r, x)
    BY <1>1, <2>2 DEF RunFits, Over
  <2>4. Moves(r, x)
    BY <1>1, <2>1, <2>2, <2>3, Lands
  <2> QED
    BY <2>4
<1>4. CASE /\ e.running = 0 /\ e.pending # <<>> /\ ~(e.tool_calls >= MaxToolCalls[r])
           /\ Become(r, {[e EXCEPT !.running = Head(e.pending), !.pending = Tail(@),
                                   !.tool_calls = @ + 1]})
  <2> DEFINE x == [e EXCEPT !.running = Head(e.pending), !.pending = Tail(@),
                            !.tool_calls = @ + 1]
  <2>1. run' = [run EXCEPT ![r] = x]
    BY <1>4 DEF Become
  <2> HIDE DEF e
  <2>2. x \in Runs /\ BookInOrder(x) /\ x.turns = e.turns /\ x.tool_calls = e.tool_calls + 1
        /\ x.pc = "ready"
    BY <1>1, <1>4, AnnounceBook
  <2> HIDE DEF x
  <2>3. x.tool_calls <= MaxToolCalls[r]
    <3>1. e.tool_calls \in Nat /\ MaxToolCalls[r] \in Nat
      BY <1>1, RunConstants DEF Runs
    <3>2. e.tool_calls + 1 <= MaxToolCalls[r]
      BY <1>4, <3>1
    <3> QED
      BY <2>2, <3>2
  <2>4. RunFits(r, x)
    BY <1>1, <2>2, <2>3 DEF RunFits, Over
  <2>5. Moves(r, x)
    BY <1>1, <2>1, <2>2, <2>4, Lands
  <2> QED
    BY <2>5
<1>5. CASE e.running = 0 /\ e.pending = <<>> /\ Become(r, Turn(r, e))
  <2>1. NoneOpen(e)
    BY <1>1, <1>5, BookClosed
  <2>2. PICK x \in Turn(r, e) : run' = [run EXCEPT ![r] = x]
    BY <1>5 DEF Become
  <2> HIDE DEF e
  <2> QED
    BY <1>1, <2>1, <2>2, TurnMoves
<1> QED
  BY <1>2, <1>3, <1>4, <1>5 DEF Step

(* call_tool(): a result is recorded, or the run stops. *)
LEMMA ToolReturnsMoves ==
  ASSUME AgentIInv, NEW r \in Clients, ToolReturns(r) PROVE \E e : Moves(r, e)
<1> DEFINE e == run[r]
           back == [e EXCEPT !.pc = "ready", !.answers = Append(@, e.hand), !.hand = 0]
           loss == [e EXCEPT !.lost = TRUE]
<1>1. /\ e \in Runs /\ RunFits(r, e) /\ BookInOrder(e) /\ e.pc = "tool" /\ client'[r] = Idle
  BY RunFacts DEF ToolReturns, Over, Calling, resilienceVars
<1>2. PICK x \in {back} \cup Stopped(back) \cup Stopped(loss) : run' = [run EXCEPT ![r] = x]
  BY DEF ToolReturns, Become
<1> HIDE DEF e
<1>3. back \in Runs /\ BookInOrder(back) /\ back.turns = e.turns
      /\ back.tool_calls = e.tool_calls /\ back.pc = "ready"
  BY <1>1, ReturnBook
<1>4. loss \in Runs /\ LeftFrom(loss, Len(loss.answers) + 1) /\ Len(loss.answers) + 1 \in Nat
  <2>1. loss \in Runs /\ LeftFrom(loss, Len(loss.answers) + 1)
    BY <1>1, LeftAfterLoss
  <2> HIDE DEF loss
  <2>2. loss.answers \in Seq(Nat)
    BY <2>1 DEF Runs
  <2> QED
    BY <2>1, <2>2, LenProperties
<1> HIDE DEF back, loss
<1>5. RunFits(r, x) /\ x.pc \in {"ready", "failed"}
  <2>1. CASE x = back
    BY <1>1, <1>3, <2>1 DEF RunFits, Over
  <2>2. CASE x \in Stopped(back)
    BY <1>3, <2>2, StopFits
  <2>3. CASE x \in Stopped(loss)
    <3> DEFINE b == Len(loss.answers) + 1
    <3> HIDE DEF b
    <3>1. b \in Nat /\ LeftFrom(loss, b)
      BY <1>4 DEF b
    <3> QED
      BY <1>4, <2>3, <3>1, StoppedFits
  <2> QED
    BY <1>2, <2>1, <2>2, <2>3
<1>6. Moves(r, x)
  BY <1>1, <1>2, <1>5, Lands DEF Over
<1> QED
  BY <1>6

(* The reply is recorded, or the run ends. *)
LEMMA ReplyMoves == ASSUME AgentIInv, NEW r \in Clients, Reply(r) PROVE \E e : Moves(r, e)
<1> DEFINE e == run[r]
           asks(n) == [e EXCEPT !.pc = "ready", !.asked = @ + n,
                                !.pending = [k \in 1..n |-> e.asked + k]]
<1>1. /\ e \in Runs /\ RunFits(r, e) /\ BookInOrder(e) /\ NoneOpen(e) /\ e.pc = "reply"
      /\ client'[r] = Idle
  BY RunFacts DEF Reply, Over, Calling, resilienceVars
<1>2. Replies \subseteq Nat
  BY AgentAssumption
<1>3. CASE Become(r, Stopped(e))
  BY <1>1, <1>3, StopMoves DEF Over
<1>4. CASE \E n \in Replies : run' = [run EXCEPT ![r] = IF n = 0 THEN Ended(e, "finished") ELSE asks(n)]
  <2>1. PICK n \in Replies : run' = [run EXCEPT ![r] = IF n = 0 THEN Ended(e, "finished") ELSE asks(n)]
    BY <1>4
  <2> HIDE DEF e
  <2>2. CASE n = 0
    <3> DEFINE x == Ended(e, "finished")
    <3>1. RunFits(r, x) /\ x.pc = "finished"
      BY <1>1, EndedFits
    <3> HIDE DEF x
    <3>2. run' = [run EXCEPT ![r] = x]
      BY <2>1, <2>2 DEF x
    <3>3. Moves(r, x)
      BY <1>1, <3>1, <3>2, Lands DEF Over
    <3> QED
      BY <3>3
  <2>3. CASE n # 0
    <3> DEFINE x == asks(n)
    <3>1. x \in Runs /\ BookInOrder(x) /\ x.turns = e.turns /\ x.tool_calls = e.tool_calls
          /\ x.pc = "ready"
      BY <1>1, <1>2, <2>3, ReplyBook
    <3>2. run' = [run EXCEPT ![r] = x]
      BY <2>1, <2>3
    <3> HIDE DEF x
    <3>3. RunFits(r, x)
      BY <1>1, <3>1 DEF RunFits, Over
    <3>4. Moves(r, x)
      BY <1>1, <3>1, <3>2, <3>3, Lands
    <3> QED
      BY <3>4
  <2> QED
    BY <2>2, <2>3
<1> QED
  <2>1. \/ Become(r, Stopped(e))
        \/ Become(r, {IF n = 0 THEN Ended(e, "finished") ELSE asks(n) : n \in Replies})
    BY DEF Reply, Become
  <2>2. ASSUME Become(r, {IF n = 0 THEN Ended(e, "finished") ELSE asks(n) : n \in Replies})
        PROVE  \E n \in Replies : run' = [run EXCEPT ![r] = IF n = 0 THEN Ended(e, "finished")
                                                            ELSE asks(n)]
    <3> HIDE DEF e
    <3> QED
      BY <2>2, Zenon DEF Become
  <2> QED
    BY <1>3, <1>4, <2>1, <2>2

(* Whoever consumes the run drops it. *)
LEMMA DropMoves == ASSUME AgentIInv, NEW r \in Clients, DropRun(r) PROVE \E e : Moves(r, e)
<1> DEFINE e == run[r]
           x == Ended(e, "dropped")
<1>1. e \in Runs /\ BookInOrder(e) /\ client \in [Clients -> Calls]
  BY RunFacts DEF DropRun, Begun
<1>2. run' = [run EXCEPT ![r] = x] /\ client'[r] = Idle
  BY <1>1 DEF DropRun, DropCall, Become
<1> HIDE DEF e
<1>3. RunFits(r, x) /\ x.pc = "dropped"
  BY <1>1, EndedFits
<1> HIDE DEF x
<1>4. Moves(r, x)
  BY <1>2, <1>3, Lands DEF Over
<1> QED
  BY <1>4

(* A row is passed when the run stood at it, and only then. *)
LEMMA RowPassed ==
  ASSUME NEW r \in Clients, NEW e \in Runs, e.row \in 1..Last(r), NEW p, r \in Spenders(p),
         ~Passed(r, e, p), \A k \in 1..Last(r) : Subjects[r][k] = p => e.row + 1 > k
  PROVE  p = Subjects[r][e.row]
<1>1. Last(r) \in Nat /\ e.row \in Nat
  BY RunConstants DEF Runs
<1>2. PICK k \in 1..Last(r) : Subjects[r][k] = p /\ ~(e.row > k)
  BY DEF Passed
<1>3. k = e.row
  BY <1>1, <1>2
<1> QED
  BY <1>2, <1>3

(* check(): a row that is not exhausted is passed; after the last one the request is sent. *)
LEMMA CheckMoves == ASSUME AgentIInv, NEW r \in Clients, Check(r) PROVE \E e : Moves(r, e)
<1> DEFINE e == run[r]
<1>1. /\ e \in Runs /\ RunFits(r, e) /\ BookInOrder(e) /\ NoneOpen(e) /\ e.pc = "check"
      /\ client[r] = Idle /\ window \in 0..Windows
      /\ e.row \in 1..Last(r) /\ e.win <= window /\ e.turns < MaxTurns[r]
  BY RunFacts DEF Check, Over, Calling, RunFits
<1>2. /\ Last(r) \in Nat /\ e.row \in Nat /\ e.win \in 0..Windows /\ Windows \in Nat
  BY <1>1, RunConstants DEF Runs
<1>3. setup.ceiling \in Nat /\ ledger \in Rows
  BY AgentAssumption DEF AgentIInv, LedgerInv
<1>4. CASE Become(r, Stopped(e)) /\ UNCHANGED client
  BY <1>1, <1>4, StopMoves DEF Over
<1>5. ASSUME ~Exhausted(ledger[Row(r)][e.win]),
             NEW p \in Principals, NEW w \in 0..Windows, r \in Spenders(p),
             window = w, ~Flies(r, e, p, w), p = Subjects[r][e.row]
      PROVE  ledger[p][w] < setup.ceiling
  <2>1. e.win = w
    BY <1>1, <1>2, <1>5 DEF Flies
  <2>2. Row(r) = p
    BY <1>5 DEF Row
  <2>3. ledger[p][w] \in Nat
    BY <1>3 DEF Rows
  <2> QED
    BY <1>3, <1>5, <2>1, <2>2, <2>3 DEF Exhausted
<1>6. CASE /\ ~Exhausted(ledger[Row(r)][e.win]) /\ e.row < Last(r) /\ UNCHANGED client
           /\ Become(r, {[e EXCEPT !.row = @ + 1]})
  <2> DEFINE n == e.row + 1
             x == [e EXCEPT !.row = n]
  <2>1. run' = [run EXCEPT ![r] = x]
    BY <1>6 DEF Become
  <2>2. n \in Nat /\ n \in 1..Last(r)
    BY <1>1, <1>2, <1>6
  <2> HIDE DEF e, n
  <2>3. /\ x \in Runs /\ x.pc = "check" /\ x.turns = e.turns /\ x.tool_calls = e.tool_calls
        /\ x.pending = e.pending /\ x.running = e.running /\ x.hand = e.hand /\ x.lost = e.lost
        /\ x.answers = e.answers /\ x.asked = e.asked /\ x.row = n /\ x.win = e.win
    BY <1>1, <2>2 DEF Runs
  <2> HIDE DEF x
  <2>4. BookInOrder(x)
    BY <1>1, <2>3, SameBook
  <2>5. RunFits(r, x)
    BY <1>1, <2>2, <2>3, <2>4 DEF RunFits, Over
  <2>6. ASSUME NEW p \in Principals, NEW w \in 0..Windows, r \in Spenders(p), Flies(r, x, p, w),
               ~Flies(r, e, p, w)
        PROVE  ledger[p][w] < setup.ceiling
    <3>1. window = w /\ Passed(r, x, p) /\ ~Passed(r, e, p)
      BY <1>1, <2>3, <2>6 DEF Flies
    <3>2. p = Subjects[r][e.row]
      <4>1. \A k \in 1..Last(r) : Subjects[r][k] = p => e.row + 1 > k
        BY <2>3, <3>1 DEF Passed, n
      <4> QED
        BY <1>1, <2>6, <3>1, <4>1, RowPassed
    <3> QED
      BY <1>5, <1>6, <2>6, <3>1, <3>2
  <2>7. Moves(r, x)
    BY <1>1, <1>6, <2>1, <2>3, <2>5, <2>6 DEF Moves, Calling, e
  <2> QED
    BY <2>7
<1>7. CASE /\ ~Exhausted(ledger[Row(r)][e.win]) /\ ~(e.row < Last(r))
           /\ \E f : /\ f = e \/ f = [e EXCEPT !.compacting = FALSE]
                     /\ \E pc \in {"room", "model"} :
                          run' = [run EXCEPT ![r] = [f EXCEPT !.pc = pc, !.row = 0, !.win = 0]]
  <2>1. PICK f : /\ f = e \/ f = [e EXCEPT !.compacting = FALSE]
                 /\ \E pc \in {"room", "model"} :
                      run' = [run EXCEPT ![r] = [f EXCEPT !.pc = pc, !.row = 0, !.win = 0]]
    BY <1>7
  <2>2. PICK pc \in {"room", "model"} :
          run' = [run EXCEPT ![r] = [f EXCEPT !.pc = pc, !.row = 0, !.win = 0]]
    BY <2>1
  <2> HIDE DEF e
  <2>3. f \in Runs /\ NoneOpen(f) /\ f.turns = e.turns /\ f.tool_calls = e.tool_calls
    BY <1>1, <2>1, OffFits
  <2> DEFINE x == [f EXCEPT !.pc = pc, !.row = 0, !.win = 0]
  <2>4. /\ x \in Runs /\ x.pc = pc /\ x.turns = f.turns /\ x.tool_calls = f.tool_calls
        /\ x.pending = f.pending /\ x.running = f.running /\ x.hand = f.hand /\ x.lost = f.lost
        /\ x.answers = f.answers /\ x.asked = f.asked
    <3>1. 0 \in 0..Windows
      BY <1>2
    <3>2. CASE pc = "room"
      BY <2>3, <3>1, <3>2 DEF Runs
    <3>3. CASE pc = "model"
      BY <2>3, <3>1, <3>3 DEF Runs
    <3> QED
      BY <3>2, <3>3
  <2>5. run' = [run EXCEPT ![r] = x]
    BY <2>2
  <2> HIDE DEF x
  <2>6. BookInOrder(x)
    BY <2>3, <2>4, SameBook
  <2>7. RunFits(r, x)
    BY <1>1, <2>3, <2>4, <2>6 DEF RunFits, Over
  <2>8. ASSUME NEW p \in Principals, NEW w \in 0..Windows, r \in Spenders(p), Flies(r, x, p, w),
               ~Flies(r, e, p, w)
        PROVE  ledger[p][w] < setup.ceiling
    <3>1. window = w
      BY <2>4, <2>8 DEF Flies
    <3>2. ~Passed(r, e, p)
      BY <1>1, <2>8, <3>1 DEF Flies
    <3>3. e.row = Last(r)
      BY <1>1, <1>2, <1>7
    <3>4. p = Subjects[r][e.row]
      <4>1. \A k \in 1..Last(r) : e.row + 1 > k
        BY <1>2, <3>3
      <4> QED
        BY <1>1, <2>8, <3>2, <4>1, RowPassed
    <3> QED
      BY <1>5, <1>7, <2>8, <3>1, <3>4
  <2>9. Moves(r, x)
    BY <2>4, <2>5, <2>7, <2>8 DEF Moves, Calling, e
  <2> QED
    BY <2>9
<1> QED
  <2> DEFINE g == [e EXCEPT !.pc = "model", !.row = 0, !.win = 0]
             h == [e EXCEPT !.pc = "room", !.row = 0, !.win = 0]
             o == [e EXCEPT !.compacting = FALSE]
  <2>1. ASSUME Become(r, NothingToDo(g) \cup (IF Asks(e) THEN {h} ELSE {}))
        PROVE  \E f : /\ f = e \/ f = o
                      /\ \E pc \in {"room", "model"} :
                           run' = [run EXCEPT ![r] = [f EXCEPT !.pc = pc, !.row = 0, !.win = 0]]
    <3>1. PICK x \in {g, [g EXCEPT !.compacting = FALSE], h} : run' = [run EXCEPT ![r] = x]
      BY <2>1 DEF Become, NothingToDo
    <3>2. [g EXCEPT !.compacting = FALSE] = [o EXCEPT !.pc = "model", !.row = 0, !.win = 0]
      <4> HIDE DEF e
      <4> QED
        BY <1>1 DEF Runs
    <3> HIDE DEF e
    <3> QED
      BY <3>1, <3>2, Zenon
  <2> QED
    BY <1>4, <1>6, <1>7, <2>1 DEF Check

(* The model has answered: the turn is counted and is about to be charged. *)
LEMMA ModelMoves == ASSUME AgentIInv, NEW r \in Clients, ModelAnswers(r) PROVE \E e : Moves(r, e)
<1> DEFINE e == run[r]
<1>1. /\ e \in Runs /\ RunFits(r, e) /\ BookInOrder(e) /\ NoneOpen(e) /\ e.pc = "model"
      /\ window \in 0..Windows /\ e.turns < MaxTurns[r] /\ client'[r] = Idle
  BY RunFacts DEF ModelAnswers, Over, RunFits
<1>2. /\ Last(r) \in Nat \ {0} /\ MaxTurns[r] \in Nat /\ Windows \in Nat /\ Costs \subseteq Nat
      /\ e.turns \in Nat
  BY <1>1, RunConstants, AgentAssumption DEF Runs
<1>3. CASE Become(r, Stopped(e))
  BY <1>1, <1>3, StopMoves DEF Over
<1>4. CASE \E c \in Costs : run' = [run EXCEPT ![r] =
             [e EXCEPT !.pc = "charge", !.turns = @ + 1, !.cost = c, !.row = 1, !.win = window]]
  <2>1. PICK c \in Costs : run' = [run EXCEPT ![r] =
          [e EXCEPT !.pc = "charge", !.turns = @ + 1, !.cost = c, !.row = 1, !.win = window]]
    BY <1>4
  <2> DEFINE n == e.turns + 1
             x == [e EXCEPT !.pc = "charge", !.turns = n, !.cost = c, !.row = 1, !.win = window]
  <2>2. run' = [run EXCEPT ![r] = x]
    BY <2>1
  <2>3. n \in Nat /\ n <= MaxTurns[r] /\ c \in Nat
    BY <1>1, <1>2
  <2> HIDE DEF e, n
  <2>4. /\ x \in Runs /\ x.pc = "charge" /\ x.turns = n /\ x.tool_calls = e.tool_calls
        /\ x.pending = e.pending /\ x.running = e.running /\ x.hand = e.hand /\ x.lost = e.lost
        /\ x.answers = e.answers /\ x.asked = e.asked /\ x.row = 1 /\ x.win = window /\ x.cost = c
    BY <1>1, <2>3 DEF Runs
  <2> HIDE DEF x
  <2>5. BookInOrder(x)
    BY <1>1, <2>4, SameBook
  <2>6. 1 \in 1..Last(r) /\ window <= window
    BY <1>1, <1>2
  <2>7. RunFits(r, x)
    BY <1>1, <2>3, <2>4, <2>5, <2>6 DEF RunFits, Over
  <2>8. \A p, w : Flies(r, x, p, w) => Flies(r, run[r], p, w)
    BY <1>1, <2>4 DEF Flies, e
  <2>9. Moves(r, x)
    BY <1>1, <2>2, <2>4, <2>7, <2>8 DEF Moves
  <2> QED
    BY <2>9
<1> QED
  <2>1. \/ Become(r, Stopped(e))
        \/ Become(r, {[e EXCEPT !.pc = "charge", !.turns = @ + 1, !.cost = cost,
                                !.row = 1, !.win = window] : cost \in Costs})
    BY DEF ModelAnswers
  <2>2. ASSUME Become(r, {[e EXCEPT !.pc = "charge", !.turns = @ + 1, !.cost = cost,
                                    !.row = 1, !.win = window] : cost \in Costs})
        PROVE  \E c \in Costs : run' = [run EXCEPT ![r] =
                 [e EXCEPT !.pc = "charge", !.turns = @ + 1, !.cost = c, !.row = 1, !.win = window]]
    <3> HIDE DEF e
    <3> QED
      BY <2>2, Zenon DEF Become
  <2> QED
    BY <1>3, <1>4, <2>1, <2>2

(* record(): a row is charged and is behind the run from then on. *)
LEMMA ChargeMoves ==
  ASSUME AgentIInv, NEW r \in Clients, Charge(r)
  PROVE  \/ UNCHANGED <<ledger, charged>> /\ \E e : Moves(r, e)
         \/ /\ ledger' = [ledger EXCEPT ![Row(r)] = add(@, run[r].win, run[r].cost)]
            /\ charged' = [charged EXCEPT ![Row(r)][run[r].win] = @ + run[r].cost]
            /\ \E e : /\ Moves(r, e) /\ ~Flies(r, e, Row(r), run[r].win)
                      /\ \A p, w : r \in Spenders(p) /\ Flies(r, e, p, w) => Flies(r, run[r], p, w)
<1> DEFINE e == run[r]
<1>1. /\ e \in Runs /\ RunFits(r, e) /\ BookInOrder(e) /\ NoneOpen(e) /\ e.pc = "charge"
      /\ e.row \in 1..Last(r) /\ e.win <= window /\ client'[r] = Idle /\ e.cost \in Costs
  BY RunFacts DEF Charge, Over, Calling, RunFits, resilienceVars
<1>2. Last(r) \in Nat /\ e.row \in Nat /\ Windows \in Nat
  BY <1>1, RunConstants DEF Runs
<1>3. CASE Become(r, Stopped(e)) /\ UNCHANGED <<ledger, charged>>
  BY <1>1, <1>3, StopMoves DEF Over
<1>4. ASSUME NEW x, run' = [run EXCEPT ![r] = x], RunFits(r, x),
             \/ x.pc = "reply"
             \/ x.pc = "charge" /\ x.row = e.row + 1 /\ x.win = e.win
      PROVE  /\ Moves(r, x) /\ ~Flies(r, x, Row(r), e.win)
             /\ \A p, w : r \in Spenders(p) /\ Flies(r, x, p, w) => Flies(r, e, p, w)
  <2>1. \A p, w : Flies(r, x, p, w) => Flies(r, e, p, w)
    <3> SUFFICES ASSUME NEW p, NEW w, Flies(r, x, p, w) PROVE Flies(r, e, p, w)
      OBVIOUS
    <3>1. x.pc = "charge" /\ x.row = e.row + 1 /\ x.win = e.win /\ e.win = w /\ ~Passed(r, x, p)
      BY <1>4 DEF Flies
    <3>2. \A k \in 1..Last(r) : e.row > k => e.row + 1 > k
      BY <1>2
    <3>3. ~Passed(r, e, p)
      BY <3>1, <3>2 DEF Passed
    <3> QED
      BY <1>1, <3>1, <3>3 DEF Flies
  <2>2. ~Flies(r, x, Row(r), e.win)
    <3> SUFFICES ASSUME x.pc = "charge", x.row = e.row + 1, x.win = e.win
                 PROVE  Passed(r, x, Row(r))
      BY <1>4 DEF Flies
    <3> SUFFICES ASSUME NEW k \in 1..Last(r), Subjects[r][k] = Subjects[r][e.row]
                 PROVE  e.row + 1 > k
      BY DEF Passed, Row
    <3>1. DOMAIN Subjects[r] = 1..Last(r)
      BY RunConstants, LenProperties DEF Last
    <3>2. k = e.row
      BY <1>1, <3>1, AgentAssumption
    <3> QED
      BY <1>2, <3>2
  <2> QED
    BY <1>1, <1>4, <2>1, <2>2 DEF Moves
<1>5. CASE /\ ledger' = [ledger EXCEPT ![Row(r)] = add(@, e.win, e.cost)]
           /\ charged' = [charged EXCEPT ![Row(r)][e.win] = @ + e.cost]
           /\ Become(r, {IF e.row < Last(r) THEN [e EXCEPT !.row = @ + 1]
                         ELSE [e EXCEPT !.pc = "reply", !.row = 0, !.cost = 0, !.win = 0]})
  <2>1. CASE e.row < Last(r)
    <3> DEFINE n == e.row + 1
               x == [e EXCEPT !.row = n]
    <3>1. run' = [run EXCEPT ![r] = x]
      BY <1>5, <2>1 DEF Become
    <3>2. n \in Nat /\ n \in 1..Last(r)
      BY <1>1, <1>2, <2>1
    <3> HIDE DEF e, n
    <3>3. /\ x \in Runs /\ x.pc = "charge" /\ x.turns = e.turns /\ x.tool_calls = e.tool_calls
          /\ x.pending = e.pending /\ x.running = e.running /\ x.hand = e.hand /\ x.lost = e.lost
          /\ x.answers = e.answers /\ x.asked = e.asked /\ x.row = n /\ x.win = e.win
          /\ x.cost = e.cost
      BY <1>1, <3>2 DEF Runs
    <3> HIDE DEF x
    <3>4. BookInOrder(x)
      BY <1>1, <3>3, SameBook
    <3>5. RunFits(r, x)
      BY <1>1, <3>2, <3>3, <3>4 DEF RunFits, Over
    <3> QED
      BY <1>4, <1>5, <3>1, <3>3, <3>5 DEF e, n
  <2>2. CASE ~(e.row < Last(r))
    <3> DEFINE x == [e EXCEPT !.pc = "reply", !.row = 0, !.cost = 0, !.win = 0]
    <3>1. run' = [run EXCEPT ![r] = x]
      BY <1>5, <2>2 DEF Become
    <3>2. 0 \in 0..Windows
      BY <1>2
    <3> HIDE DEF e
    <3>3. /\ x \in Runs /\ x.pc = "reply" /\ x.turns = e.turns /\ x.tool_calls = e.tool_calls
          /\ x.pending = e.pending /\ x.running = e.running /\ x.hand = e.hand /\ x.lost = e.lost
          /\ x.answers = e.answers /\ x.asked = e.asked
      BY <1>1, <3>2 DEF Runs
    <3> HIDE DEF x
    <3>4. BookInOrder(x)
      BY <1>1, <3>3, SameBook
    <3>5. RunFits(r, x)
      BY <1>1, <3>3, <3>4 DEF RunFits, Over
    <3> QED
      BY <1>4, <1>5, <3>1, <3>3, <3>5 DEF e
  <2> QED
    BY <2>1, <2>2
<1> QED
  BY <1>3, <1>5 DEF Charge

---------------------------------------------------------------------------
(* What a move keeps *)

(* The runs: only r has moved, and it fits. *)
LEMMA RunsKept ==
  ASSUME AgentIInv, NEW r \in Clients, NEW e, Moves(r, e), UNCHANGED window,
         \A c \in Clients : c # r => client'[c] = client[c]
  PROVE  RunsInv'
<1>1. e \in Runs /\ run \in [Clients -> Runs] /\ run' = [run EXCEPT ![r] = e]
  BY DEF AgentIInv, RunsInv, Moves, RunFits
<1>2. run' \in [Clients -> Runs] /\ run'[r] = e /\ \A c \in Clients : c # r => run'[c] = run[c]
  BY <1>1
<1>3. ASSUME NEW c \in Clients PROVE RunFits(c, run[c])'
  <2>1. RunFits(c, run[c])
    BY DEF AgentIInv, RunsInv
  <2>2. CASE c = r
    BY <1>2, <2>2 DEF Moves, RunFits, Last, Closed, BookInOrder, Taken, Current
  <2>3. CASE c # r
    BY <1>2, <2>1, <2>3 DEF RunFits, Last, Closed, BookInOrder, Taken, Current
  <2> QED
    BY <2>2, <2>3
<1>4. CallsOwned'
  BY <1>2 DEF AgentIInv, RunsInv, CallsOwned, Moves
<1> QED
  BY <1>2, <1>3, <1>4 DEF RunsInv

(* Sets of runs are finite, and a smaller one has fewer members. *)
LEMMA SpendersFinite ==
  ASSUME NEW p, NEW S, S \subseteq Spenders(p)
  PROVE  /\ IsFiniteSet(S) /\ Cardinality(S) \in Nat /\ Cardinality(Spenders(p)) \in Nat
         /\ Cardinality(S) <= Cardinality(Spenders(p))
<1>1. IsFiniteSet(Clients) /\ Spenders(p) \subseteq Clients
  BY ResilienceAssumption DEF Spenders
<1>2. IsFiniteSet(Spenders(p))
  BY <1>1, FS_Subset
<1>3. IsFiniteSet(S) /\ Cardinality(S) <= Cardinality(Spenders(p))
  BY <1>2, FS_Subset
<1> QED
  BY <1>2, <1>3, FS_CardinalityType

(* Fewer turns cost less. *)
LEMMA Times ==
  ASSUME NEW c \in Nat, NEW m \in Nat, NEW n \in Nat, m <= n
  PROVE  c * m \in Nat /\ c * n \in Nat /\ c * m <= c * n
OBVIOUS

(* One principal's bound survives a step in which its row does not grow and nobody takes off;
   and it holds anyway of a row below its ceiling. *)
LEMMA CoverKept ==
  ASSUME NEW p, NEW S, NEW T, S \subseteq Spenders(p), T \subseteq Spenders(p),
         NEW c \in Nat, NEW old \in Nat, NEW new \in Nat, NEW ceiling \in Nat,
         \/ /\ old + c * Cardinality(S) < ceiling + c * Cardinality(Spenders(p))
            /\ new <= old /\ T \subseteq S
         \/ new < ceiling
  PROVE  new + c * Cardinality(T) < ceiling + c * Cardinality(Spenders(p))
<1>1. /\ Cardinality(S) \in Nat /\ Cardinality(T) \in Nat /\ Cardinality(Spenders(p)) \in Nat
      /\ Cardinality(T) <= Cardinality(Spenders(p)) /\ IsFiniteSet(S)
  BY SpendersFinite
<1> DEFINE x == c * Cardinality(S)
           y == c * Cardinality(T)
           z == c * Cardinality(Spenders(p))
<1>2. x \in Nat /\ y \in Nat /\ z \in Nat /\ y <= z
  BY <1>1, Times
<1>3. CASE new < ceiling
  <2> HIDE DEF x, y, z
  <2>1. new + y < ceiling + z
    BY <1>2, <1>3
  <2> QED
    BY <2>1 DEF y, z
<1>4. CASE old + x < ceiling + z /\ new <= old /\ T \subseteq S
  <2>1. Cardinality(T) <= Cardinality(S)
    BY <1>1, <1>4, FS_Subset
  <2>2. y <= x
    BY <1>1, <2>1, Times
  <2> HIDE DEF x, y, z
  <2>3. new + y < ceiling + z
    BY <1>2, <1>4, <2>2
  <2> QED
    BY <2>3 DEF y, z
<1> QED
  BY <1>3, <1>4

(* What the invariant says of the ledger. *)
LEMMA LedgerFacts ==
  ASSUME AgentIInv
  PROVE  /\ ledger \in Rows /\ charged \in Rows /\ window \in 0..Windows /\ setup \in Settings
         /\ setup.ceiling \in Nat \ {0} /\ setup.last \in 0..Windows
         /\ Windows \in Nat /\ Costs \subseteq Nat
         /\ \A p \in Principals, w \in 0..Windows : ledger[p][w] \in Nat /\ charged[p][w] \in Nat
<1>1. /\ ledger \in Rows /\ charged \in Rows /\ window \in 0..Windows /\ setup \in Settings
  BY DEF AgentIInv, LedgerInv
<1>2. \A p \in Principals, w \in 0..Windows : ledger[p][w] \in Nat /\ charged[p][w] \in Nat
  BY <1>1 DEF Rows
<1> QED
  BY <1>1, <1>2, AgentAssumption

(* The ledger: it has not changed, and the run that moved may fly only below the ceiling. *)
LEMMA LedgerKept ==
  ASSUME AgentIInv, NEW r \in Clients, NEW e, Moves(r, e),
         UNCHANGED <<setup, ledger, window, charged>>
  PROVE  LedgerInv'
<1>1. /\ run \in [Clients -> Runs] /\ run' = [run EXCEPT ![r] = e]
  BY DEF AgentIInv, RunsInv, Moves
<1>2. ASSUME NEW p \in Principals, NEW w \in 0..Windows, NEW c \in Costs,
             \A d \in Costs : d <= c, w <= window, Spenders(p) # {}
      PROVE  ledger[p][w] + c * Cardinality(InFlight(p, w)')
               < setup.ceiling + c * Cardinality(Spenders(p))
  <2>1. ledger[p][w] \in Nat /\ setup.ceiling \in Nat /\ c \in Nat
    BY LedgerFacts
  <2>2. InFlight(p, w)' \subseteq Spenders(p) /\ InFlight(p, w) \subseteq Spenders(p)
    BY DEF InFlight, Spenders, Last
  <2>3. ledger[p][w] + c * Cardinality(InFlight(p, w)) < setup.ceiling + c * Cardinality(Spenders(p))
    BY <1>2 DEF AgentIInv, LedgerInv, FlightsCovered
  <2>4. InFlight(p, w)' \subseteq InFlight(p, w) \/ ledger[p][w] < setup.ceiling
    <3> SUFFICES ASSUME ~(ledger[p][w] < setup.ceiling), NEW q \in InFlight(p, w)'
                 PROVE  q \in InFlight(p, w)
      OBVIOUS
    <3>1. q \in Spenders(p) /\ q \in Clients /\ Flies(q, run'[q], p, w)
      BY DEF InFlight, Spenders, Last, Flies, Passed
    <3>2. CASE q = r
      <4>1. Flies(r, e, p, w)
        BY <1>1, <3>1, <3>2
      <4> QED
        BY <3>1, <3>2, <4>1 DEF Moves, InFlight
    <3>3. CASE q # r
      BY <1>1, <3>1, <3>3 DEF InFlight
    <3> QED
      BY <3>2, <3>3
  <2> QED
    BY <2>1, <2>2, <2>3, <2>4, CoverKept
<1>3. FlightsCovered'
  BY <1>2 DEF FlightsCovered, Spenders, Last
<1>4. NotYetCharged' /\ LiveWindowComplete'
  BY DEF AgentIInv, LedgerInv, NotYetCharged, LiveWindowComplete
<1> QED
  BY <1>3, <1>4 DEF AgentIInv, LedgerInv, Rows

(* add() leaves the windows from the charged one on alone but for the charge, and drops the
   earlier ones. *)
LEMMA AddRow ==
  ASSUME NEW row \in [0..Windows -> Nat], NEW w \in 0..Windows, NEW cost \in Nat
  PROVE  /\ add(row, w, cost) \in [0..Windows -> Nat]
         /\ add(row, w, cost)[w] = row[w] + cost
         /\ \A v \in 0..Windows : v # w => add(row, w, cost)[v] <= row[v]
         /\ \A v \in 0..Windows : v > w => add(row, w, cost)[v] = row[v]
<1>1. Windows \in Nat
  BY AgentAssumption
<1>2. \A v \in 0..Windows : row[v] \in Nat
  OBVIOUS
<1>3. \A v \in 0..Windows :
        add(row, w, cost)[v] = IF ~(v >= w) THEN 0 ELSE IF v = w THEN row[v] + cost ELSE row[v]
  BY DEF add, Kept
<1>4. add(row, w, cost) \in [0..Windows -> Nat]
  BY <1>1, <1>2 DEF add, Kept
<1>5. w >= w
  BY <1>1
<1>6. \A v \in 0..Windows : v > w => v >= w /\ v # w
  BY <1>1
<1> QED
  BY <1>2, <1>3, <1>4, <1>5, <1>6

(* The ledger after a charge: a run in flight has landed with at most one turn. *)
LEMMA LedgerCharged ==
  ASSUME AgentIInv, NEW r \in Clients, NEW e, Moves(r, e), run[r].pc = "charge",
         UNCHANGED <<setup, window>>,
         ledger' = [ledger EXCEPT ![Row(r)] = add(@, run[r].win, run[r].cost)],
         charged' = [charged EXCEPT ![Row(r)][run[r].win] = @ + run[r].cost],
         ~Flies(r, e, Row(r), run[r].win),
         \A p, w : r \in Spenders(p) /\ Flies(r, e, p, w) => Flies(r, run[r], p, w)
  PROVE  LedgerInv'
<1> DEFINE s == Row(r)
           v == run[r].win
           cost == run[r].cost
<1>1. /\ run \in [Clients -> Runs] /\ run' = [run EXCEPT ![r] = e]
  BY DEF AgentIInv, RunsInv, Moves
<1>2. /\ run[r].row \in 1..Last(r) /\ v <= window /\ cost \in Costs /\ v \in 0..Windows
      /\ run[r].row \in Nat
  BY RunFacts DEF RunFits, Runs
<1>3. s \in Principals /\ r \in Spenders(s)
  BY <1>2, RunConstants DEF Row, Spenders
<1>4. /\ ledger \in Rows /\ charged \in Rows /\ window \in 0..Windows /\ Windows \in Nat
      /\ Costs \subseteq Nat /\ setup.ceiling \in Nat /\ cost \in Nat
      /\ \A p \in Principals, w \in 0..Windows : ledger[p][w] \in Nat /\ charged[p][w] \in Nat
  BY <1>2, LedgerFacts
<1>5. Flies(r, run[r], s, v)
  <2>1. ~(run[r].row > run[r].row) /\ Subjects[r][run[r].row] = s
    BY <1>2 DEF Row
  <2>2. ~Passed(r, run[r], s)
    BY <1>2, <2>1 DEF Passed
  <2> QED
    BY <2>2 DEF Flies
<1>6. ledger' = [ledger EXCEPT ![s] = add(ledger[s], v, cost)]
  OBVIOUS
<1>7. charged' = [charged EXCEPT ![s] = [charged[s] EXCEPT ![v] = charged[s][v] + cost]]
  BY <1>3, <1>4 DEF Rows
<1> HIDE DEF s, v, cost
<1>8. ledger[s] \in [0..Windows -> Nat] /\ charged[s] \in [0..Windows -> Nat]
  BY <1>3, <1>4 DEF Rows
<1>9. /\ add(ledger[s], v, cost) \in [0..Windows -> Nat]
      /\ add(ledger[s], v, cost)[v] = ledger[s][v] + cost
      /\ \A w \in 0..Windows : w # v => add(ledger[s], v, cost)[w] <= ledger[s][w]
      /\ \A w \in 0..Windows : w > v => add(ledger[s], v, cost)[w] = ledger[s][w]
  BY <1>2, <1>4, <1>8, AddRow, ZenonT(60)
<1>10. /\ ledger' \in Rows /\ ledger'[s] = add(ledger[s], v, cost)
       /\ \A p \in Principals : p # s => ledger'[p] = ledger[p]
  BY <1>3, <1>4, <1>6, <1>9 DEF Rows
<1>11. /\ charged' \in Rows
       /\ charged'[s][v] = charged[s][v] + cost
       /\ \A w \in 0..Windows : w # v => charged'[s][w] = charged[s][w]
       /\ \A p \in Principals : p # s => charged'[p] = charged[p]
  <2> DEFINE m == charged[s][v] + cost
             row == [charged[s] EXCEPT ![v] = m]
  <2>1. m \in Nat
    BY <1>2, <1>3, <1>4
  <2>2. charged' = [charged EXCEPT ![s] = row]
    BY <1>7
  <2> HIDE DEF m
  <2>3. row \in [0..Windows -> Nat] /\ row[v] = m
        /\ \A w \in 0..Windows : w # v => row[w] = charged[s][w]
    BY <1>2, <1>8, <2>1
  <2> HIDE DEF row
  <2>4. charged' \in Rows /\ charged'[s] = row /\ \A p \in Principals : p # s => charged'[p] = charged[p]
    BY <1>3, <1>4, <2>2, <2>3 DEF Rows
  <2> QED
    BY <2>3, <2>4 DEF m
<1>12. NotYetCharged'
  <2> SUFFICES ASSUME NEW p \in Principals, NEW w \in 0..Windows, w > window
               PROVE  ledger'[p][w] = 0
    BY DEF NotYetCharged
  <2>1. ledger[p][w] = 0 /\ w > v
    BY <1>2, <1>4 DEF AgentIInv, LedgerInv, NotYetCharged
  <2> QED
    BY <1>9, <1>10, <2>1
<1>13. LiveWindowComplete'
  <2> SUFFICES ASSUME NEW p \in Principals, NEW w \in 0..Windows, w >= window
               PROVE  ledger'[p][w] = charged'[p][w]
    BY DEF LiveWindowComplete
  <2>1. ledger[p][w] = charged[p][w]
    BY DEF AgentIInv, LedgerInv, LiveWindowComplete
  <2>2. w = v \/ w > v
    BY <1>2, <1>4
  <2>3. CASE p # s
    BY <1>10, <1>11, <2>1, <2>3
  <2>4. CASE p = s /\ w = v
    BY <1>9, <1>10, <1>11, <2>1, <2>4
  <2>5. CASE p = s /\ w # v
    BY <1>9, <1>10, <1>11, <2>1, <2>2, <2>5
  <2> QED
    BY <2>3, <2>4, <2>5
<1>14. ASSUME NEW p \in Principals, NEW w \in 0..Windows
       PROVE  /\ InFlight(p, w)' \subseteq InFlight(p, w) /\ InFlight(p, w) \subseteq Spenders(p)
              /\ p = s /\ w = v => r \in InFlight(p, w) /\ r \notin InFlight(p, w)'
  <2>1. \A q : q \in InFlight(p, w)' <=> q \in Spenders(p) /\ Flies(q, run'[q], p, w)
    BY DEF InFlight, Spenders, Last, Flies, Passed
  <2>2. run'[r] = e /\ \A q \in Spenders(p) : q # r => run'[q] = run[q]
    BY <1>1 DEF Spenders
  <2>3. InFlight(p, w)' \subseteq InFlight(p, w)
    BY <2>1, <2>2 DEF InFlight
  <2>4. p = s /\ w = v => r \in InFlight(p, w) /\ r \notin InFlight(p, w)'
    BY <1>3, <1>5, <2>1, <2>2 DEF InFlight, s, v
  <2> QED
    BY <2>3, <2>4 DEF InFlight
<1>15. ASSUME NEW p \in Principals, NEW w \in 0..Windows, NEW c \in Costs,
              \A d \in Costs : d <= c, w <= window, Spenders(p) # {}
       PROVE  ledger'[p][w] + c * Cardinality(InFlight(p, w)')
                < setup.ceiling + c * Cardinality(Spenders(p))
  <2> DEFINE S == InFlight(p, w)
             T == InFlight(p, w)'
             old == ledger[p][w]
             new == ledger'[p][w]
  <2>1. old \in Nat /\ new \in Nat /\ setup.ceiling \in Nat /\ c \in Nat
    BY <1>4, <1>10 DEF Rows
  <2>2. T \subseteq S /\ S \subseteq Spenders(p)
    BY <1>14
  <2>3. old + c * Cardinality(S) < setup.ceiling + c * Cardinality(Spenders(p))
    BY <1>15 DEF AgentIInv, LedgerInv, FlightsCovered
  <2>4. CASE p # s \/ w # v
    <3>1. new <= old
      BY <1>9, <1>10, <2>1, <2>4
    <3> HIDE DEF S, T, old, new
    <3>2. T \subseteq Spenders(p)
      BY <2>2
    <3>3. new + c * Cardinality(T) < setup.ceiling + c * Cardinality(Spenders(p))
      BY <2>1, <2>2, <2>3, <3>1, <3>2, CoverKept
    <3> QED
      BY <3>3 DEF T, new
  <2>5. CASE p = s /\ w = v
    <3>1. new = old + cost /\ cost <= c
      BY <1>2, <1>9, <1>10, <1>15, <2>5
    <3>2. r \in S /\ r \notin T
      BY <1>14, <2>5
    <3> HIDE DEF S, T, old, new
    <3>3. /\ IsFiniteSet(S) /\ Cardinality(S) \in Nat /\ Cardinality(T) \in Nat
          /\ Cardinality(Spenders(p)) \in Nat
      BY <2>2, SpendersFinite
    <3>4. Cardinality(T) <= Cardinality(S) - 1
      <4>1. IsFiniteSet(S \ {r}) /\ Cardinality(S \ {r}) = Cardinality(S) - 1
        BY <3>2, <3>3, FS_RemoveElement
      <4>2. T \subseteq S \ {r}
        BY <2>2, <3>2
      <4> QED
        BY <4>1, <4>2, FS_Subset
    <3> DEFINE m == Cardinality(S)
               n == Cardinality(T)
               k == Cardinality(Spenders(p))
    <3> HIDE DEF m, n, k
    <3>5. m \in Nat /\ n \in Nat /\ k \in Nat /\ n + 1 <= m
      BY <3>3, <3>4 DEF m, n, k
    <3>6. c * (n + 1) <= c * m /\ c * (n + 1) = c * n + c /\ c * m \in Nat /\ c * n \in Nat
          /\ c * k \in Nat
      BY <2>1, <3>5, Times
    <3>7. old + c * m < setup.ceiling + c * k
      BY <2>3 DEF m, k
    <3>8. new + c * n < setup.ceiling + c * k
      <4> DEFINE x == c * m
                 y == c * n
                 z == c * k
      <4>1. x \in Nat /\ y \in Nat /\ z \in Nat /\ y + c <= x /\ old + x < setup.ceiling + z
        BY <3>6, <3>7
      <4> HIDE DEF x, y, z
      <4>2. new + y < setup.ceiling + z
        BY <1>4, <2>1, <3>1, <4>1
      <4> QED
        BY <4>2 DEF x, y, z
    <3> QED
      BY <3>8 DEF n, k, T, new
  <2> QED
    BY <2>4, <2>5
<1>16. FlightsCovered'
  BY <1>15 DEF FlightsCovered, Spenders, Last
<1> QED
  BY <1>4, <1>10, <1>11, <1>12, <1>13, <1>16 DEF AgentIInv, LedgerInv, Rows

(* A step that leaves the agents' variables alone, and the calls of runs that wait for none. *)
LEMMA AgentsUnchanged ==
  ASSUME AgentIInv, UNCHANGED agentVars,
         \A c \in Clients : run[c].pc \notin Calling => client'[c] = client[c]
  PROVE  RunsInv' /\ LedgerInv'
<1>1. UNCHANGED <<setup, run, ledger, window, charged>>
  BY DEF agentVars
<1>2. ASSUME NEW c \in Clients PROVE RunFits(c, run[c])'
  <2>1. RunFits(c, run[c])
    BY DEF AgentIInv, RunsInv
  <2> QED
    BY <1>1, <2>1 DEF RunFits, Last, Closed, BookInOrder, Taken, Current
<1>3. CallsOwned'
  BY <1>1 DEF AgentIInv, RunsInv, CallsOwned
<1>4. RunsInv'
  BY <1>1, <1>2, <1>3 DEF AgentIInv, RunsInv
<1>5. FlightsCovered'
  BY <1>1 DEF AgentIInv, LedgerInv, FlightsCovered, InFlight, Spenders, Flies, Passed, Last
<1>6. NotYetCharged' /\ LiveWindowComplete'
  BY <1>1 DEF AgentIInv, LedgerInv, NotYetCharged, LiveWindowComplete
<1> QED
  BY <1>1, <1>4, <1>5, <1>6 DEF AgentIInv, LedgerInv, Rows

(* A window ends: the next one starts empty, and nothing new flies to the old ones. *)
LEMMA WindowStep == AgentIInv /\ NextWindow => AgentIInv'
<1> SUFFICES ASSUME AgentIInv, NextWindow PROVE AgentIInv'
  OBVIOUS
<1>1. /\ UNCHANGED <<client, circuit, failures, cooled, free, stopped, overdue, streak>>
      /\ UNCHANGED <<setup, run, ledger, charged>>
      /\ window < setup.last /\ window' = window + 1
  BY DEF NextWindow, resilienceVars
<1>2. /\ window \in 0..Windows /\ setup.last \in 0..Windows /\ Windows \in Nat
      /\ setup.ceiling \in Nat \ {0} /\ Costs \subseteq Nat
      /\ \A p \in Principals, w \in 0..Windows : ledger[p][w] \in Nat
  BY LedgerFacts
<1>3. window' \in 0..Windows /\ \A w \in 0..Windows : w > window' => w > window
  BY <1>1, <1>2
<1>4. ResilienceInv'
  BY <1>1, WorldStep DEF AgentIInv, ResilienceInv, ResilienceTypeOK
<1>5. RunsInv'
  <2>1. ASSUME NEW c \in Clients PROVE RunFits(c, run[c])'
    <3>1. RunFits(c, run[c]) /\ run[c].win \in 0..Windows
      BY RunFacts DEF Runs
    <3>2. run[c].win <= window => run[c].win <= window'
      BY <1>1, <1>2, <3>1
    <3> QED
      BY <1>1, <3>1, <3>2 DEF RunFits, Last, Closed, BookInOrder, Taken, Current
  <2>2. CallsOwned'
    BY <1>1 DEF AgentIInv, RunsInv, CallsOwned
  <2> QED
    BY <1>1, <2>1, <2>2 DEF AgentIInv, RunsInv
<1>6. NotYetCharged' /\ LiveWindowComplete'
  <2>1. \A w \in 0..Windows : w >= window' => w >= window
    BY <1>1, <1>2
  <2> QED
    BY <1>1, <1>3, <2>1 DEF AgentIInv, LedgerInv, NotYetCharged, LiveWindowComplete
<1>7. ASSUME NEW p \in Principals, NEW w \in 0..Windows, NEW c \in Costs,
             \A d \in Costs : d <= c, w <= window', Spenders(p) # {}
      PROVE  ledger[p][w] + c * Cardinality(InFlight(p, w)')
               < setup.ceiling + c * Cardinality(Spenders(p))
  <2>1. InFlight(p, w)' \subseteq Spenders(p) /\ InFlight(p, w) \subseteq Spenders(p)
    BY DEF InFlight, Spenders, Last
  <2>2. CASE w = window'
    <3>1. w > window
      BY <1>1, <1>2, <2>2
    <3>2. ledger[p][w] = 0
      BY <3>1 DEF AgentIInv, LedgerInv, NotYetCharged
    <3>3. ledger[p][w] < setup.ceiling /\ ledger[p][w] \in Nat /\ setup.ceiling \in Nat /\ c \in Nat
      BY <1>2, <3>2
    <3> QED
      BY <2>1, <3>3, CoverKept
  <2>3. CASE w # window'
    <3>1. w <= window
      BY <1>1, <1>2, <1>7, <2>3
    <3>2. ledger[p][w] + c * Cardinality(InFlight(p, w)) < setup.ceiling + c * Cardinality(Spenders(p))
      BY <1>7, <3>1 DEF AgentIInv, LedgerInv, FlightsCovered
    <3>3. \A q : q \in InFlight(p, w)' =>
            q \in Spenders(p) /\ run[q].pc = "charge" /\ run[q].win = w /\ ~Passed(q, run[q], p)
      BY <1>1, <2>3 DEF InFlight, Spenders, Last, Flies, Passed
    <3>4. InFlight(p, w)' \subseteq InFlight(p, w)
      BY <3>3 DEF InFlight, Flies
    <3>5. /\ ledger[p][w] \in Nat /\ setup.ceiling \in Nat /\ c \in Nat
          /\ ledger[p][w] <= ledger[p][w]
      BY <1>2
    <3> QED
      BY <2>1, <3>2, <3>4, <3>5, CoverKept
  <2> QED
    BY <2>2, <2>3
<1>8. FlightsCovered'
  BY <1>1, <1>7 DEF FlightsCovered, Spenders, Last
<1>9. LedgerInv'
  BY <1>1, <1>3, <1>6, <1>8 DEF AgentIInv, LedgerInv, Rows
<1> QED
  BY <1>4, <1>5, <1>9 DEF AgentIInv

(* The provider's own steps: a run that waits for no call has none to be changed. *)
LEMMA ProviderStep == AgentIInv /\ Provider => AgentIInv'
<1> SUFFICES ASSUME AgentIInv, Provider PROVE AgentIInv'
  OBVIOUS
<1>1. UNCHANGED agentVars /\ ResilienceInv
  BY DEF Provider, AgentIInv
<1>2. ASSUME NEW r \in Clients, Advance(r) \/ Service(r)
      PROVE  ResilienceInv' /\ \A c \in Clients : run[c].pc \notin Calling => client'[c] = client[c]
  <2>1. ResilienceInv'
    BY <1>1, <1>2, AdmitStep, LeaveQueueStep, AwakeStep, ServiceStep DEF Advance
  <2>2. client[r].pc # "idle" /\ \E x : client' = [client EXCEPT ![r] = x]
    BY <1>2, Zenon DEF Advance, Service, Admit, LeaveQueue, Awake, Succeed, FailTerminally, FailTransiently,
       At
  <2>3. run[r].pc \in Calling
    BY <2>2 DEF AgentIInv, RunsInv, CallsOwned, Idle
  <2>4. \A c \in Clients : c # r => client'[c] = client[c]
    BY <1>1, <2>2 DEF ResilienceInv, ResilienceTypeOK
  <2> QED
    BY <2>1, <2>3, <2>4
<1>3. ASSUME NEW r \in Clients, World(r)
      PROVE  ResilienceInv' /\ \A c \in Clients : run[c].pc \notin Calling => client'[c] = client[c]
  BY <1>1, <1>3, WorldStep, ResilienceAssumption
  DEF World, Cancel, DeadlinePasses, ResilienceInv, ResilienceTypeOK
<1>4. ASSUME Cool
      PROVE  ResilienceInv' /\ \A c \in Clients : run[c].pc \notin Calling => client'[c] = client[c]
  BY <1>1, <1>4, WorldStep DEF Cool, ResilienceInv, ResilienceTypeOK
<1>5. ResilienceInv' /\ \A c \in Clients : run[c].pc \notin Calling => client'[c] = client[c]
  BY <1>2, <1>3, <1>4 DEF Provider
<1> QED
  BY <1>1, <1>5, AgentsUnchanged DEF AgentIInv

(* A run's step on its call: it begins one, or forgets one that has ended. *)
LEMMA CallStep ==
  ASSUME AgentIInv, NEW r \in Clients, client[r] = Idle \/ client[r].pc \in Outcomes,
         UNCHANGED client \/ Complete(r) \/ client' = [client EXCEPT ![r] = Idle],
         UNCHANGED <<circuit, failures, cooled, free, stopped, overdue, streak>>
  PROVE  ResilienceInv' /\ \A c \in Clients : c # r => client'[c] = client[c]
<1>1. client \in [Clients -> Calls] /\ max_attempts \in Nat \ {0} /\ client[r].pc # "attempt"
  BY RunFacts DEF Outcomes, Idle
<1>2. ResilienceInv
  BY DEF AgentIInv
<1>3. CASE UNCHANGED client
  BY <1>2, <1>3, WorldStep DEF ResilienceInv, ResilienceTypeOK
<1>4. ASSUME NEW x \in {Idle, [pc |-> "admit", number |-> 1]}, client' = [client EXCEPT ![r] = x]
      PROVE  ResilienceInv' /\ \A c \in Clients : c # r => client'[c] = client[c]
  <2>1. 1 \in 0..max_attempts /\ 0 \in 0..max_attempts
    BY <1>1
  <2>2. x \in Calls /\ x.pc \in {"idle", "admit"}
    BY <1>4, <2>1 DEF Calls, Idle, Underway
  <2> QED
    BY <1>1, <1>2, <1>4, <2>2, ClientStep
<1> QED
  BY <1>3, <1>4 DEF Complete

---------------------------------------------------------------------------
(* The theorems *)

(* The first state satisfies the invariant. *)
LEMMA AgentInit == Init => AgentIInv
<1> SUFFICES ASSUME Init PROVE AgentIInv
  OBVIOUS
<1>1. /\ FailureThreshold \in Nat \ {0} /\ Permits \in Nat /\ max_attempts \in Nat
  BY ResilienceAssumption DEF max_attempts
<1>2. /\ Windows \in Nat /\ setup \in Settings /\ setup.ceiling \in Nat \ {0}
      /\ Costs \subseteq Nat
  BY AgentAssumption DEF Init
<1>3. ResilienceInv
  <2>1. Idle \in Calls /\ Idle.pc = "idle" /\ \A c \in Clients : client[c] = Idle
    BY <1>1 DEF Idle, Calls, Init, ResilienceInit
  <2>2. ResilienceTypeOK
    <3>1. Permits \in 0..Permits /\ 0 \in Nat
      BY <1>1
    <3>2. client \in [Clients -> Calls]
      BY <2>1 DEF Init, ResilienceInit
    <3> QED
      BY <3>1, <3>2 DEF Init, ResilienceInit, ResilienceTypeOK, Calls
  <2>3. {c \in Clients : client[c].pc = "attempt"} = {}
    BY <2>1
  <2>4. Permits + Cardinality({}) = Permits /\ 0 < FailureThreshold
    BY <1>1, FS_EmptySet
  <2>5. BreakerAndSlotsHonest
    BY <2>3, <2>4 DEF Init, ResilienceInit, BreakerAndSlotsHonest
  <2> QED
    BY <2>1, <2>2, <2>5 DEF ResilienceInv
<1>4. RunsInv
  <2>1. NewRun \in Runs /\ NewRun.pc = "idle" /\ NoneOpen(NewRun) /\ NewRun.turns = 0
        /\ NewRun.tool_calls = 0
    <3>1. 0 \in 0..Windows /\ <<>> \in Seq(Nat) /\ Len(<<>>) = 0 /\ 1..0 = {}
      BY <1>2
    <3> QED
      BY <3>1 DEF NewRun, Runs, NoneOpen
  <2>2. BookInOrder(NewRun)
    BY <2>1, BookClosed
  <2>3. ASSUME NEW r \in Clients PROVE RunFits(r, run[r]) /\ client[r] = Idle
    <3>1. run[r] = NewRun /\ client[r] = Idle
      BY DEF Init, ResilienceInit
    <3>2. 0 <= MaxTurns[r] /\ 0 <= MaxToolCalls[r]
      BY RunConstants
    <3>3. RunFits(r, NewRun)
      BY <2>1, <2>2, <3>2 DEF RunFits, Over
    <3> QED
      BY <3>1, <3>3
  <2> QED
    BY <2>1, <2>3 DEF Init, RunsInv, CallsOwned
<1>5. /\ ledger \in Rows /\ charged \in Rows /\ window = 0
      /\ \A p \in Principals, w \in 0..Windows : ledger[p][w] = 0 /\ charged[p][w] = 0
  BY DEF Init, Rows
<1>6. FlightsCovered
  <2> SUFFICES ASSUME NEW p \in Principals, NEW w \in 0..Windows, NEW c \in Costs
               PROVE  ledger[p][w] + c * Cardinality(InFlight(p, w))
                        < setup.ceiling + c * Cardinality(Spenders(p))
    BY DEF FlightsCovered
  <2>1. /\ ledger[p][w] \in Nat /\ ledger[p][w] < setup.ceiling /\ setup.ceiling \in Nat
        /\ c \in Nat /\ InFlight(p, w) \subseteq Spenders(p)
    BY <1>2, <1>5 DEF InFlight
  <2> QED
    BY <2>1, CoverKept
<1>7. LedgerInv
  <2>1. window \in 0..Windows
    BY <1>2, <1>5
  <2> QED
    BY <1>2, <1>5, <1>6, <2>1 DEF LedgerInv, NotYetCharged, LiveWindowComplete
<1> QED
  BY <1>3, <1>4, <1>7 DEF AgentIInv

(* Every step keeps the invariant. *)
LEMMA AgentStep == AgentIInv /\ [Next]_vars => AgentIInv'
<1> SUFFICES ASSUME AgentIInv, [Next]_vars PROVE AgentIInv'
  OBVIOUS
<1>1. ASSUME NEW r \in Clients, NEW e, Moves(r, e), UNCHANGED <<setup, ledger, window, charged>>,
             ResilienceInv', \A c \in Clients : c # r => client'[c] = client[c]
      PROVE  AgentIInv'
  BY <1>1, RunsKept, LedgerKept DEF AgentIInv
<1>2. ASSUME NEW r \in Clients, UNCHANGED resilienceVars
      PROVE  ResilienceInv' /\ \A c \in Clients : c # r => client'[c] = client[c]
  BY <1>2, WorldStep DEF AgentIInv, resilienceVars, ResilienceInv, ResilienceTypeOK
<1>3. ASSUME NEW r \in Clients, Prepare(r) PROVE AgentIInv'
  <2>1. client[r] = Idle
    BY <1>3, RunFacts DEF Prepare, Calling
  <2>2. ResilienceInv' /\ \A c \in Clients : c # r => client'[c] = client[c]
    BY <1>3, <2>1, CallStep DEF Prepare
  <2> QED
    BY <1>1, <1>3, <2>2, PrepareMoves DEF Prepare
<1>4. ASSUME NEW r \in Clients, RoomMade(r) PROVE AgentIInv'
  <2>1. ResilienceInv' /\ \A c \in Clients : c # r => client'[c] = client[c]
    BY <1>4, CallStep DEF RoomMade
  <2> QED
    BY <1>1, <1>4, <2>1, RoomMadeMoves DEF RoomMade
<1>5. ASSUME NEW r \in Clients, Step(r) PROVE AgentIInv'
  BY <1>1, <1>2, <1>5, StepMoves DEF Step
<1>6. ASSUME NEW r \in Clients, ToolReturns(r) PROVE AgentIInv'
  BY <1>1, <1>2, <1>6, ToolReturnsMoves DEF ToolReturns
<1>7. ASSUME NEW r \in Clients, Check(r) PROVE AgentIInv'
  <2>1. client[r] = Idle
    BY <1>7, RunFacts DEF Check, Calling
  <2>2. ResilienceInv' /\ \A c \in Clients : c # r => client'[c] = client[c]
    BY <1>7, <2>1, CallStep DEF Check
  <2> QED
    BY <1>1, <1>7, <2>2, CheckMoves DEF Check
<1>8. ASSUME NEW r \in Clients, ModelAnswers(r) PROVE AgentIInv'
  <2>1. ResilienceInv' /\ \A c \in Clients : c # r => client'[c] = client[c]
    BY <1>8, CallStep DEF ModelAnswers
  <2> QED
    BY <1>1, <1>8, <2>1, ModelMoves DEF ModelAnswers
<1>9. ASSUME NEW r \in Clients, Charge(r) PROVE AgentIInv'
  <2>1. ResilienceInv' /\ \A c \in Clients : c # r => client'[c] = client[c]
    BY <1>2, <1>9 DEF Charge
  <2>2. UNCHANGED <<setup, window>> /\ run[r].pc = "charge"
    BY <1>9 DEF Charge
  <2>3. CASE UNCHANGED <<ledger, charged>> /\ \E e : Moves(r, e)
    BY <1>1, <2>1, <2>2, <2>3
  <2>4. CASE /\ ledger' = [ledger EXCEPT ![Row(r)] = add(@, run[r].win, run[r].cost)]
             /\ charged' = [charged EXCEPT ![Row(r)][run[r].win] = @ + run[r].cost]
             /\ \E e : /\ Moves(r, e) /\ ~Flies(r, e, Row(r), run[r].win)
                       /\ \A p, w : r \in Spenders(p) /\ Flies(r, e, p, w) => Flies(r, run[r], p, w)
    <3>1. PICK e : /\ Moves(r, e) /\ ~Flies(r, e, Row(r), run[r].win)
                   /\ \A p, w : r \in Spenders(p) /\ Flies(r, e, p, w) => Flies(r, run[r], p, w)
      BY <2>4
    <3>2. LedgerInv'
      BY <2>2, <2>4, <3>1, LedgerCharged
    <3>3. RunsInv'
      BY <2>1, <2>2, <3>1, RunsKept
    <3> QED
      BY <2>1, <3>2, <3>3 DEF AgentIInv
  <2> QED
    BY <1>9, <2>3, <2>4, ChargeMoves
<1>10. ASSUME NEW r \in Clients, Reply(r) PROVE AgentIInv'
  BY <1>1, <1>2, <1>10, ReplyMoves DEF Reply
<1>11. ASSUME NEW r \in Clients, DropRun(r) PROVE AgentIInv'
  <2>1. ResilienceInv'
    BY <1>11, DropCallStep DEF DropRun, AgentIInv
  <2>2. \A c \in Clients : c # r => client'[c] = client[c]
    BY <1>11, RunFacts DEF DropRun, DropCall
  <2> QED
    BY <1>1, <1>11, <2>1, <2>2, DropMoves DEF DropRun
<1>12. CASE Provider
  BY <1>12, ProviderStep
<1>13. CASE NextWindow
  BY <1>13, WindowStep
<1>14. CASE UNCHANGED vars
  <2>1. UNCHANGED agentVars /\ UNCHANGED client
    BY <1>14 DEF vars, agentVars
  <2>2. ResilienceInv'
    BY <1>14, WorldStep DEF vars, AgentIInv, ResilienceInv, ResilienceTypeOK
  <2> QED
    BY <2>1, <2>2, AgentsUnchanged DEF AgentIInv
<1> QED
  BY <1>3, <1>4, <1>5, <1>6, <1>7, <1>8, <1>9, <1>10, <1>11, <1>12, <1>13, <1>14 DEF Next, Loop

(* The invariant holds in every reachable state. *)
LEMMA AgentInvariant == Spec => []AgentIInv
BY AgentInit, AgentStep, PTL DEF Spec

(* The invariant says of every run what AgentInv promises: a run that goes on is in order. *)
LEMMA AgentIInvSuffices == AgentIInv => AgentInv
<1> SUFFICES ASSUME AgentIInv PROVE AgentInv
  OBVIOUS
<1>1. TypeOK
  <2>1. ASSUME NEW r \in Clients
        PROVE  /\ run[r].pc \in {"idle", "room0", "ready", "tool", "check", "room", "model",
                                 "charge", "reply"} \cup Over
               /\ run[r].turns \in 0..MaxTurns[r] /\ run[r].tool_calls \in 0..MaxToolCalls[r]
               /\ run[r].pending \in Seq(Nat) /\ run[r].answers \in Seq(Nat)
    <3>1. /\ run[r] \in Runs /\ run[r].turns <= MaxTurns[r] /\ run[r].tool_calls <= MaxToolCalls[r]
      BY RunFacts
    <3>2. run[r].turns \in Nat /\ run[r].tool_calls \in Nat /\ MaxTurns[r] \in Nat
          /\ MaxToolCalls[r] \in Nat
      BY <3>1, RunConstants DEF Runs
    <3>3. run[r].turns \in 0..MaxTurns[r] /\ run[r].tool_calls \in 0..MaxToolCalls[r]
      BY <3>1, <3>2
    <3> QED
      BY <3>1, <3>3 DEF Runs
  <2> QED
    BY <2>1 DEF TypeOK, AgentIInv, ResilienceInv, LedgerInv, Rows
<1>2. TranscriptClosed
  <2>1. ASSUME NEW r \in Clients PROVE Closed(run[r])
    <3>1. CASE run[r].pc \in Over
      BY <3>1, RunFacts DEF RunFits
    <3>2. CASE run[r].pc \notin Over
      <4> DEFINE e == run[r]
      <4>1. e \in Runs /\ BookInOrder(e)
        BY <3>2, RunFacts
      <4> HIDE DEF e
      <4>2. RunFits(r, Ended(e, "dropped"))
        BY <4>1, EndedFits
      <4>3. Closed(Ended(e, "dropped"))
        BY <4>1, <4>2, EndedFits DEF RunFits, Over
      <4>4. Ended(e, "dropped").answers = e.answers /\ Ended(e, "dropped").asked = e.asked
        BY DEF Ended, NewRun
      <4>5. e.pc \notin {"finished", "failed"}
        BY <3>2 DEF Over, e
      <4> QED
        BY <4>3, <4>4, <4>5 DEF Closed, e
    <3> QED
      BY <3>1, <3>2
  <2> QED
    BY <2>1 DEF TranscriptClosed, Closed
<1> QED
  BY <1>1, <1>2 DEF AgentInv, AgentIInv, LedgerInv

(* However a run ends - its own end, a limit, an exhausted budget, a failed service,
   cancellation, a dropped stream - its transcript has exactly one result for each recorded
   call unless the store refused one, its limits were kept, and the spending of the open
   window is on record, late charges from closed windows included
   (abandon_outstanding_calls(), charge(), the ledger's add()). *)
THEOREM AgentHolds == Spec => []AgentInv
BY AgentInvariant, AgentIInvSuffices, PTL

(* The circuit breaker counts what the service did and nothing else, is closed only below its
   threshold, and each slot is free or held by an attempt, however calls end, are cancelled
   or are dropped (ResilientProvider::complete, CircuitBreaker, Permit). *)
THEOREM BreakerAndSlots == Spec => []BreakerAndSlotsHonest
<1>1. AgentIInv => BreakerAndSlotsHonest
  BY DEF AgentIInv, ResilienceInv
<1> QED
  BY <1>1, AgentInvariant, PTL

(* Although check() and record() are a whole turn apart, and windows change in between, no
   principal's row exceeds its ceiling by more than one turn of each run that charges it. *)
THEOREM Overshoot == Spec => []OvershootBounded
<1>1. AgentIInv => OvershootBounded
  <2> SUFFICES ASSUME AgentIInv, NEW p \in Principals, NEW w \in 0..Windows, NEW c \in Costs,
                      \A d \in Costs : d <= c, Spenders(p) # {}
               PROVE  ledger[p][w] < setup.ceiling + c * Cardinality(Spenders(p))
    BY DEF OvershootBounded, Spenders
  <2>1. /\ ledger[p][w] \in Nat /\ setup.ceiling \in Nat \ {0} /\ c \in Nat /\ window \in 0..Windows
        /\ Windows \in Nat
    BY LedgerFacts
  <2>2. /\ Cardinality(InFlight(p, w)) \in Nat /\ Cardinality(Spenders(p)) \in Nat
        /\ Cardinality(InFlight(p, w)) <= Cardinality(Spenders(p))
    BY SpendersFinite DEF InFlight
  <2> DEFINE y == c * Cardinality(InFlight(p, w))
             z == c * Cardinality(Spenders(p))
  <2>3. y \in Nat /\ z \in Nat
    BY <2>1, <2>2, Times
  <2>4. CASE w > window
    <3>1. ledger[p][w] = 0
      BY <2>4 DEF AgentIInv, LedgerInv, NotYetCharged
    <3> HIDE DEF y, z
    <3>2. ledger[p][w] < setup.ceiling + z
      BY <2>1, <2>3, <3>1
    <3> QED
      BY <3>2 DEF z
  <2>5. CASE w <= window
    <3>1. ledger[p][w] + y < setup.ceiling + z
      BY <2>5 DEF AgentIInv, LedgerInv, FlightsCovered
    <3> HIDE DEF y, z
    <3>2. ledger[p][w] < setup.ceiling + z
      BY <2>1, <2>3, <3>1
    <3> QED
      BY <3>2 DEF z
  <2> QED
    BY <2>1, <2>4, <2>5
<1> QED
  BY <1>1, AgentInvariant, PTL
=============================================================================
