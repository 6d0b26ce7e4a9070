---------------------------- MODULE KernelProofs ----------------------------
(* Theorems about Kernel, for any number of components, any descriptors and any callers. *)
EXTENDS Kernel, Induction, FiniteSetTheorems, SequenceTheorems, TLAPS

---------------------------------------------------------------------------
(* resolve_order() *)

\* The components that may come after those of S.
ReadyAfter(g, S) == {c \in Components \ S : Needs(g, c) \subseteq S}

\* What is laid out before place i.
Placed(s, i) == {s[j] : j \in 1..(i - 1)}

\* At every place stands the least component that was ready when it was filled.
LaidOut(g, s) ==
  /\ s \in Seq(Components)
  /\ \A i \in 1..Len(s) : /\ s[i] \in ReadyAfter(g, Placed(s, i))
                          /\ \A c \in ReadyAfter(g, Placed(s, i)) : s[i] <= c

\* What the rounds compute, and that it is what Ordered(g) reads.
Rounds(g, l) ==
  /\ l = [k \in 0..N |-> IF k = 0 THEN <<>> ELSE Round(g, l[k - 1])]
  /\ Ordered(g) = l[N]

(* The rounds are well defined: the recursion in Ordered has a solution. *)
LEMMA RoundsExist ==
  ASSUME NEW g
  PROVE  \E l : Rounds(g, l)
<1> DEFINE Solves(f, n) == f = [k \in 0..n |-> IF k = 0 THEN <<>> ELSE Round(g, f[k - 1])]
           S == {n \in 0..N : \E f : Solves(f, n)}
<1>1. N \in Nat
  BY KernelAssumption
<1>2. 0 \in S
  <2> DEFINE f == [k \in 0..0 |-> <<>>]
  <2>1. Solves(f, 0)
    OBVIOUS
  <2>2. \E x : Solves(x, 0)
    BY <2>1
  <2> QED
    BY <1>1, <2>2
<1>3. ASSUME NEW n \in 0..N, n \in S, n < N PROVE n + 1 \in S
  <2>1. PICK f : Solves(f, n)
    BY <1>3
  <2> DEFINE h == [k \in 0..(n + 1) |-> IF k = 0 THEN <<>> ELSE Round(g, f[k - 1])]
  <2>2. \A k \in 0..n : h[k] = f[k]
    BY <1>1, <2>1
  <2>3. \A k \in 0..(n + 1) : k # 0 => h[k] = Round(g, h[k - 1])
    <3> SUFFICES ASSUME NEW k \in 0..(n + 1), k # 0 PROVE h[k] = Round(g, h[k - 1])
      OBVIOUS
    <3>1. k - 1 \in 0..n
      BY <1>1
    <3>2. h[k] = Round(g, f[k - 1])
      OBVIOUS
    <3> QED
      BY <2>2, <3>1, <3>2
  <2>4. Solves(h, n + 1)
    <3>1. h[0] = <<>>
      BY <1>1
    <3> QED
      BY <2>3, <3>1
  <2>5. n + 1 \in 0..N
    BY <1>1, <1>3
  <2>6. \E x : Solves(x, n + 1)
    BY <2>4, Zenon
  <2> QED
    BY <2>5, <2>6
<1>4. \A n \in 0..N : n \in S
  <2> HIDE DEF S
  <2> QED
    BY <1>1, <1>2, <1>3, UpTo
<1>5. \E f : Solves(f, N)
  BY <1>1, <1>4
<1> DEFINE laid == CHOOSE f : Solves(f, N)
<1>6. Solves(laid, N)
  BY <1>5
<1>7. Ordered(g) = laid[N]
  BY Zenon DEF Ordered
<1> QED
  BY <1>6, <1>7, Zenon DEF Rounds

(* Least picks the least of a set of components. *)
LEMMA LeastOfReady ==
  ASSUME NEW S, S \subseteq Components, S # {}
  PROVE  Least(S) \in S /\ \A c \in S : Least(S) <= c
<1>1. S \subseteq Nat
  BY KernelAssumption DEF Components
<1>2. \E x \in S : \A y \in S : x <= y
  BY <1>1, LeastNumber
<1> QED
  BY <1>2 DEF Least

(* No component is laid out twice. *)
LEMMA LaidOutOnce ==
  ASSUME NEW g, NEW s, LaidOut(g, s), NEW i \in 1..Len(s), NEW j \in 1..Len(s), s[i] = s[j]
  PROVE  i = j
<1>1. Len(s) \in Nat
  BY LenProperties DEF LaidOut
<1>2. \A a, b \in 1..Len(s) : a < b => s[a] # s[b]
  BY <1>1 DEF LaidOut, ReadyAfter, Placed
<1> QED
  BY <1>1, <1>2

(* A round keeps what is laid out and adds the least ready component, if there is one. *)
LEMMA RoundStep ==
  ASSUME NEW g, NEW s, LaidOut(g, s), IsFiniteSet(SetOf(s)), Cardinality(SetOf(s)) = Len(s)
  PROVE  /\ LaidOut(g, Round(g, s))
         /\ IsFiniteSet(SetOf(Round(g, s)))
         /\ Cardinality(SetOf(Round(g, s))) = Len(Round(g, s))
         /\ IF ReadyAfter(g, SetOf(s)) = {} THEN Round(g, s) = s
            ELSE Len(Round(g, s)) = Len(s) + 1
<1>1. Round(g, s) = IF ReadyAfter(g, SetOf(s)) = {} THEN s
                    ELSE Append(s, Least(ReadyAfter(g, SetOf(s))))
  BY DEF Round, ReadyAfter
<1>2. CASE ReadyAfter(g, SetOf(s)) = {}
  BY <1>1, <1>2
<1>3. CASE ReadyAfter(g, SetOf(s)) # {}
  <2> DEFINE c == Least(ReadyAfter(g, SetOf(s)))
             t == Append(s, c)
  <2>1. /\ c \in ReadyAfter(g, SetOf(s)) /\ c \in Components /\ c \notin SetOf(s)
        /\ \A d \in ReadyAfter(g, SetOf(s)) : c <= d
    BY <1>3, LeastOfReady DEF ReadyAfter
  <2> HIDE DEF c
  <2>2. s \in Seq(Components) /\ Len(s) \in Nat /\ DOMAIN s = 1..Len(s)
    BY LenProperties DEF LaidOut
  <2>3. /\ t \in Seq(Components) /\ Len(t) = Len(s) + 1
        /\ \A i \in 1..Len(s) : t[i] = s[i]
        /\ t[Len(s) + 1] = c /\ DOMAIN t = 1..(Len(s) + 1)
    BY <2>1, <2>2
  <2> HIDE DEF t
  <2>4. SetOf(t) = SetOf(s) \cup {c}
    <3>1. DOMAIN t = DOMAIN s \cup {Len(s) + 1} /\ \A j \in DOMAIN s : t[j] = s[j]
      BY <2>2, <2>3
    <3> QED
      BY <2>3, <3>1 DEF SetOf
  <2>5. Placed(t, Len(s) + 1) = SetOf(s)
    <3>1. 1..(Len(s) + 1 - 1) = DOMAIN s
      BY <2>2
    <3>2. \A j \in DOMAIN s : t[j] = s[j]
      BY <2>2, <2>3
    <3> QED
      BY <3>1, <3>2 DEF Placed, SetOf
  <2>6. \A i \in 1..Len(s) : Placed(t, i) = Placed(s, i)
    <3> SUFFICES ASSUME NEW i \in 1..Len(s) PROVE Placed(t, i) = Placed(s, i)
      OBVIOUS
    <3>1. \A j \in 1..(i - 1) : t[j] = s[j]
      BY <2>2, <2>3
    <3> QED
      BY <3>1 DEF Placed
  <2>7. LaidOut(g, t)
    <3>1. ASSUME NEW i \in 1..Len(t)
          PROVE  /\ t[i] \in ReadyAfter(g, Placed(t, i))
                 /\ \A d \in ReadyAfter(g, Placed(t, i)) : t[i] <= d
      <4>1. CASE i \in 1..Len(s)
        BY <2>3, <2>6, <4>1 DEF LaidOut
      <4>2. CASE i = Len(s) + 1
        BY <2>1, <2>3, <2>5, <4>2
      <4> QED
        BY <2>2, <2>3, <4>1, <4>2
    <3> QED
      BY <2>3, <3>1 DEF LaidOut
  <2>8. IsFiniteSet(SetOf(t)) /\ Cardinality(SetOf(t)) = Len(t)
    BY <2>1, <2>2, <2>3, <2>4, FS_AddElement
  <2>9. Round(g, s) = t
    BY <1>1, <1>3 DEF t, c
  <2> QED
    BY <1>3, <2>3, <2>7, <2>8, <2>9
<1> QED
  BY <1>2, <1>3

(* After k rounds at most k components are laid out, fewer only when none is ready. *)
LEMMA RoundsLayOut ==
  ASSUME NEW g, NEW l, Rounds(g, l)
  PROVE  \A k \in 0..N :
           /\ LaidOut(g, l[k])
           /\ IsFiniteSet(SetOf(l[k])) /\ Cardinality(SetOf(l[k])) = Len(l[k])
           /\ Len(l[k]) <= k
           /\ Len(l[k]) < k => ReadyAfter(g, SetOf(l[k])) = {}
<1> DEFINE P(k) == /\ LaidOut(g, l[k])
                   /\ IsFiniteSet(SetOf(l[k])) /\ Cardinality(SetOf(l[k])) = Len(l[k])
                   /\ Len(l[k]) <= k
                   /\ Len(l[k]) < k => ReadyAfter(g, SetOf(l[k])) = {}
           S == {k \in 0..N : P(k)}
<1>1. N \in Nat
  BY KernelAssumption
<1>2. 0 \in S
  <2>1. l[0] = <<>>
    BY <1>1 DEF Rounds
  <2>2. SetOf(<<>>) = {}
    BY DEF SetOf
  <2>3. IsFiniteSet(SetOf(l[0])) /\ Cardinality(SetOf(l[0])) = 0
    BY <2>1, <2>2, FS_EmptySet
  <2>4. LaidOut(g, l[0]) /\ Len(l[0]) = 0
    BY <2>1 DEF LaidOut
  <2> QED
    BY <1>1, <2>3, <2>4
<1>3. ASSUME NEW k \in 0..N, k \in S, k < N PROVE k + 1 \in S
  <2>1. l[k + 1] = Round(g, l[k])
    BY <1>1, <1>3 DEF Rounds
  <2>2. P(k)
    BY <1>3
  <2>3. Len(l[k]) \in Nat
    BY <2>2, LenProperties DEF LaidOut
  <2>4. P(k + 1)
    BY <2>1, <2>2, <2>3, RoundStep
  <2> QED
    BY <1>1, <1>3, <2>4
<1> HIDE DEF P
<1>4. \A k \in 0..N : k \in S
  <2> HIDE DEF S
  <2> QED
    BY <1>1, <1>2, <1>3, UpTo
<1> QED
  BY <1>4 DEF P

(* resolve_order() lays the components out by the rule, all of them or as many as it can. *)
LEMMA OrderedLaidOut ==
  ASSUME NEW g
  PROVE  /\ LaidOut(g, Ordered(g))
         /\ SetOf(Ordered(g)) \subseteq Components
         /\ Len(Ordered(g)) = N => SetOf(Ordered(g)) = Components
         /\ Len(Ordered(g)) # N => /\ ReadyAfter(g, SetOf(Ordered(g))) = {}
                                   /\ SetOf(Ordered(g)) # Components
<1>1. PICK l : Rounds(g, l)
  BY RoundsExist
<1> DEFINE s == Ordered(g)
<1>2. N \in Nat /\ s = l[N]
  BY <1>1, KernelAssumption DEF Rounds
<1>3. /\ LaidOut(g, s) /\ IsFiniteSet(SetOf(s)) /\ Cardinality(SetOf(s)) = Len(s)
      /\ Len(s) <= N /\ (Len(s) < N => ReadyAfter(g, SetOf(s)) = {})
  BY <1>1, <1>2, RoundsLayOut
<1> HIDE DEF s
<1>4. s \in Seq(Components) /\ Len(s) \in Nat /\ DOMAIN s = 1..Len(s)
  BY <1>3, LenProperties DEF LaidOut
<1>5. SetOf(s) \subseteq Components
  BY <1>4, ElementOfSeq DEF SetOf
<1>6. IsFiniteSet(Components) /\ Cardinality(Components) = N
  BY <1>2, FS_Interval DEF Components
<1>7. Len(s) = N => SetOf(s) = Components
  BY <1>3, <1>5, <1>6, FS_Subset
<1>8. SetOf(s) = Components => Len(s) = N
  BY <1>3, <1>6
<1> QED
  BY <1>2, <1>3, <1>4, <1>5, <1>7, <1>8 DEF s

\* The orders that respect a graph.
Legal(g) == {p \in Orders : \A c \in Components : Respects(p, c, g.requires[c] \cup g.optional[c])}

(* An order names each component once. *)
LEMMA OrderOnce ==
  ASSUME NEW p \in Orders, NEW i \in Components, NEW j \in Components, p[i] = p[j]
  PROVE  i = j
<1>1. IsFiniteSet(Components)
  BY KernelAssumption, FS_Interval DEF Components
<1>2. p \in Surjection(Components, Components)
  BY DEF Orders, SetOf, Surjection
<1>3. p \in Injection(Components, Components)
  BY <1>1, <1>2, FS_Surjection
<1> QED
  BY <1>3 DEF Injection, IsInjective

(* In a legal order what a component needs stands before it. *)
LEMMA LegalPlaces ==
  ASSUME NEW g, NEW p \in Legal(g), NEW i \in Components
  PROVE  p[i] \in Components /\ Needs(g, p[i]) \subseteq Placed(p, i) /\ p[i] \notin Placed(p, i)
<1>1. p \in Orders /\ p[i] \in Components
  BY DEF Legal, Orders
<1>2. ASSUME NEW d \in Needs(g, p[i]) PROVE d \in Placed(p, i)
  <2>1. Before(p, d, p[i])
    BY <1>1, <1>2 DEF Legal, Needs, Respects
  <2>2. PICK a \in Components, b \in Components : a < b /\ p[a] = d /\ p[b] = p[i]
    BY <2>1 DEF Before
  <2>3. b = i
    BY <1>1, <2>2, OrderOnce
  <2>4. a \in 1..(i - 1)
    BY <2>2, <2>3, KernelAssumption DEF Components
  <2> QED
    BY <2>2, <2>4 DEF Placed
<1>3. \A j \in 1..(i - 1) : p[j] # p[i]
  <2>1. \A j \in 1..(i - 1) : j \in Components /\ j # i
    BY KernelAssumption DEF Components
  <2> QED
    BY <1>1, <2>1, OrderOnce
<1> QED
  BY <1>1, <1>2, <1>3 DEF Placed

(* When components are left and none of them is ready there is no legal order: its first
   component that is left would be ready. *)
LEMMA StuckNoneLegal ==
  ASSUME NEW g, NEW S, S \subseteq Components, S # Components, ReadyAfter(g, S) = {}
  PROVE  Legal(g) = {}
<1> SUFFICES ASSUME NEW p \in Legal(g) PROVE FALSE
  OBVIOUS
<1> DEFINE T == {i \in Components : p[i] \notin S}
<1>1. p \in Orders
  BY DEF Legal
<1>2. T \subseteq Nat
  BY KernelAssumption DEF Components
<1>3. T # {}
  <2>1. PICK c \in Components : c \notin S
    OBVIOUS
  <2>2. PICK i \in Components : p[i] = c
    BY <1>1 DEF Orders, SetOf
  <2> QED
    BY <2>1, <2>2
<1>4. PICK i \in T : \A j \in T : i <= j
  <2> HIDE DEF T
  <2> QED
    BY <1>2, <1>3, LeastNumber
<1>5. \A j \in 1..(i - 1) : p[j] \in S
  BY <1>4, KernelAssumption DEF Components
<1>6. Needs(g, p[i]) \subseteq S
  BY <1>5, LegalPlaces DEF Placed
<1>7. p[i] \in ReadyAfter(g, S)
  BY <1>6, LegalPlaces DEF ReadyAfter
<1> QED
  BY <1>7

(* What resolve_order() answers is a legal order ... *)
LEMMA OrderedIsLegal ==
  ASSUME NEW g, Resolvable(g)
  PROVE  Ordered(g) \in Legal(g)
<1> DEFINE s == Ordered(g)
<1>1. LaidOut(g, s) /\ SetOf(s) = Components /\ Len(s) = N
  BY OrderedLaidOut DEF Resolvable
<1> HIDE DEF s
<1>2. s \in [Components -> Components] /\ s \in Orders
  <2>1. s \in Seq(Components) /\ DOMAIN s = 1..N
    BY <1>1, LenProperties DEF LaidOut
  <2>2. s \in [Components -> Components]
    BY <1>1, <2>1, ElementOfSeq DEF Components
  <2> QED
    BY <1>1, <2>2 DEF Orders
<1>3. ASSUME NEW c \in Components, NEW d \in Needs(g, c) PROVE Before(s, d, c)
  <2>1. PICK i \in Components : s[i] = c
    BY <1>1, <1>2 DEF SetOf
  <2>2. Needs(g, c) \subseteq Placed(s, i)
    BY <1>1, <2>1 DEF LaidOut, ReadyAfter, Components
  <2>3. PICK j \in 1..(i - 1) : s[j] = d
    BY <1>3, <2>2 DEF Placed
  <2>4. j \in Components /\ j < i
    BY <2>3, KernelAssumption DEF Components
  <2> QED
    BY <2>1, <2>3, <2>4 DEF Before
<1> QED
  BY <1>2, <1>3 DEF s, Legal, Respects, Needs

(* ... and the first of them. *)
LEMMA OrderedIsFirst ==
  ASSUME NEW g, Resolvable(g), NEW p \in Legal(g)
  PROVE  ~Earlier(p, Ordered(g))
<1> DEFINE s == Ordered(g)
<1>1. LaidOut(g, s) /\ Len(s) = N
  BY OrderedLaidOut DEF Resolvable
<1> HIDE DEF s
<1> SUFFICES ASSUME NEW i \in Components, p[i] < s[i], \A j \in 1..(i - 1) : p[j] = s[j]
             PROVE  FALSE
  BY DEF Earlier, s
<1>2. Placed(p, i) = Placed(s, i)
  BY DEF Placed
<1>3. p[i] \in ReadyAfter(g, Placed(s, i))
  BY <1>2, LegalPlaces DEF ReadyAfter
<1>4. s[i] <= p[i] /\ s[i] \in Components
  BY <1>1, <1>3 DEF LaidOut, Components, ReadyAfter
<1>5. p[i] \in Components
  BY LegalPlaces
<1> QED
  BY <1>4, <1>5, KernelAssumption DEF Components

(* A build that fails has a missing dependency or no legal order. *)
LEMMA RejectedNoneLegal ==
  ASSUME NEW g, ~Resolvable(g), ~\E c \in Components : Absent \in g.requires[c]
  PROVE  Legal(g) = {}
<1>1. CASE \E c \in Components : c \in Needs(g, c)
  <2> SUFFICES ASSUME NEW p \in Legal(g) PROVE FALSE
    OBVIOUS
  <2>1. PICK c \in Components : c \in Needs(g, c)
    BY <1>1
  <2>2. PICK i \in Components : p[i] = c
    BY DEF Legal, Orders, SetOf
  <2> QED
    BY <2>1, <2>2, LegalPlaces
<1>2. CASE Len(Ordered(g)) # N
  BY <1>2, OrderedLaidOut, StuckNoneLegal
<1> QED
  BY <1>1, <1>2 DEF Resolvable

(* build() succeeds exactly when nothing required is missing and some order respects every
   dependency, and then answers the first such order: for any number of components and any
   descriptors, so a start-up never depends on the order of registration. *)
THEOREM OrderLeast == Spec => []OrderIsTheLeast
<1> DEFINE Built == /\ OrderIsTheLeast
                    /\ kernel \in {"rejected", "created", "starting", "running", "stopping",
                                   "stopped", "failed"}
<1>1. Init => Built
  <2> SUFFICES ASSUME Init PROVE Built
    OBVIOUS
  <2>1. CASE Resolvable(graph)
    <3>1. order = Ordered(graph) /\ kernel = "created"
      BY <2>1 DEF Init
    <3>2. ~\E c \in Components : Absent \in graph.requires[c]
      BY <2>1 DEF Resolvable
    <3> QED
      BY <2>1, <3>1, <3>2, OrderedIsLegal, OrderedIsFirst DEF OrderIsTheLeast, Legal
  <2>2. CASE ~Resolvable(graph)
    BY <2>2, RejectedNoneLegal DEF Init, OrderIsTheLeast, Legal
  <2> QED
    BY <2>1, <2>2
<1>2. Built /\ [Next]_vars => Built'
  <2> SUFFICES ASSUME Built, [Next]_vars PROVE Built'
    OBVIOUS
  <2>1. UNCHANGED <<graph, order>>
    BY DEF Next, Steps, Call, EnterStart, EnterShutdown, InitPhase, StartPhase, Serve, StopPhase,
           Waited, TaskEnds, RequestShutdown, Drop, vars
  <2>2. /\ (kernel' = "rejected") <=> (kernel = "rejected")
        /\ kernel' \in {"rejected", "created", "starting", "running", "stopping", "stopped", "failed"}
    BY ZenonT(60) DEF Next, Steps, Call, EnterStart, EnterShutdown, InitPhase, StartPhase, RollbackAll, Rollback,
           Serve, StopPhase, Waited, TaskEnds, RequestShutdown, Drop, vars
  <2> QED
    BY <2>1, <2>2 DEF OrderIsTheLeast
<1> QED
  BY <1>1, <1>2, PTL DEF Spec

---------------------------------------------------------------------------
(* start(), rollback(), shutdown(): the inductive invariant.  The places of the order take
   the part of the graph: what is up is up in the order, and the walk that holds the mutex
   knows what lies on either side of the place it has reached. *)

StateAt(i) == comp[order[i]]
UpAt(i) == StateAt(i) \in {"initialized", "running"}

\* What was built is an order that respects the graph.
Sorted == kernel # "rejected" => order \in Legal(graph)

\* The mutex has one holder.
OneHolder == \A o, p \in Callers : at[o].pc \in Holding /\ at[p].pc \in Holding => o = p

\* How far the holder has come.
Held(o) ==
  /\ at[o].pc \in {"init", "start", "unwind", "unwait"} => kernel = "starting"
  /\ at[o].pc \in {"stop", "wait"} => kernel = "stopping"
  /\ at[o].pc \in {"init", "start", "unwind", "stop"} => at[o].i \in Components
  /\ at[o].pc = "init" =>
       /\ task = {}
       /\ \A j \in Components : StateAt(j) = IF j < at[o].i THEN "initialized" ELSE "registered"
  /\ at[o].pc = "start" =>
       \A j \in Components : StateAt(j) = IF j < at[o].i THEN "running" ELSE "initialized"
  /\ at[o].pc \in {"unwind", "stop"} => \A j \in Components : j > at[o].i => ~UpAt(j)
  /\ at[o].pc \in {"wait", "unwait"} => cancelled = Components /\ \A j \in Components : ~UpAt(j)

\* Whoever held the mutex last, what is running is a first part of the order, and what is up
\* stands behind nothing that was never reached or is stopped.
UpInOrder ==
  kernel # "rejected" => \A i, j \in Components : i < j =>
    /\ StateAt(j) = "running" => StateAt(i) = "running"
    /\ UpAt(j) => StateAt(i) \notin {"registered", "stopped"}

\* A kernel that was never started, or is over.
AtRest ==
  /\ kernel \in {"rejected", "created"} => task = {} /\ \A c \in Components : comp[c] = "registered"
  /\ NothingLeftUp

\* While no caller was dropped, what was not stopped yet was not asked to.
StopCount ==
  (\A o \in Callers : at[o].pc # "dropped") =>
    \A c \in Components : stops[c] <= 1 /\ (comp[c] \notin {"stopped", "failed"} => stops[c] = 0)

KernelInv ==
  TypeOK /\ Sorted /\ OneHolder /\ (\A o \in Callers : Held(o)) /\ UpInOrder /\ AtRest /\ StopCount

(* The order is a permutation of the components. *)
LEMMA OrderFacts ==
  ASSUME Sorted, kernel # "rejected"
  PROVE  /\ \A i \in Components : order[i] \in Components
         /\ \A i, j \in Components : order[i] = order[j] => i = j
         /\ \A c \in Components : \E i \in Components : order[i] = c
<1>1. order \in Orders
  BY DEF Sorted, Legal
<1> QED
  BY <1>1, OrderOnce DEF Orders, SetOf

(* A phase changes the state at its own place only. *)
LEMMA PhaseAt ==
  ASSUME TypeOK, Sorted, kernel # "rejected", NEW i \in Components, NEW x,
         comp' = [comp EXCEPT ![order[i]] = x], UNCHANGED order
  PROVE  /\ \A j \in Components : StateAt(j)' = IF j = i THEN x ELSE StateAt(j)
         /\ \A j \in Components : UpAt(j)' <=> IF j = i THEN x \in {"initialized", "running"} ELSE UpAt(j)
<1>1. \A j \in Components : StateAt(j)' = IF j = i THEN x ELSE StateAt(j)
  BY OrderFacts DEF TypeOK, StateAt
<1> QED
  BY <1>1 DEF UpAt

(* What the inductive invariant is for. *)
LEMMA KernelInvSuffices == KernelInv => LifecycleInv
<1> SUFFICES ASSUME KernelInv PROVE LifecycleInv
  OBVIOUS
<1>1. DependenciesOutlive
  <2> SUFFICES ASSUME NEW c \in Components, NEW d \in Needs(graph, c)
               PROVE  /\ comp[c] = "running" => comp[d] = "running"
                      /\ Up(c) => comp[d] \notin {"registered", "stopped"}
    BY DEF DependenciesOutlive
  <2>1. CASE kernel = "rejected"
    BY <2>1 DEF KernelInv, AtRest, Up
  <2>2. CASE kernel # "rejected"
    <3>1. PICK j \in Components : order[j] = c
      BY <2>2, OrderFacts DEF KernelInv
    <3>2. d \in Placed(order, j)
      BY <2>2, <3>1, LegalPlaces DEF KernelInv, Sorted
    <3>3. PICK i \in Components : i < j /\ order[i] = d
      BY <3>2, KernelAssumption DEF Placed, Components
    <3> QED
      BY <2>2, <3>1, <3>3 DEF KernelInv, UpInOrder, UpAt, StateAt, Up
  <2> QED
    BY <2>1, <2>2
<1>2. NothingLeftUp /\ StoppedOnce
  BY DEF KernelInv, AtRest, StopCount, StoppedOnce
<1> QED
  BY <1>1, <1>2 DEF KernelInv, LifecycleInv

LEMMA KernelInvInit == Init => KernelInv
<1> SUFFICES ASSUME Init PROVE KernelInv
  OBVIOUS
<1>1. Sorted
  BY OrderedIsLegal DEF Init, Sorted
<1>2. order \in Seq(Components)
  BY OrderedLaidOut DEF Init, LaidOut
<1>3. TypeOK
  <2>1. 0 \in 0..N /\ 0 \in Nat
    BY KernelAssumption
  <2>2. at \in [Callers -> [pc : Holding \cup Ended \cup {"idle", "lock_start", "lock_stop", "serving"},
                            i : 0..N, error : BOOLEAN]]
    BY <2>1 DEF Init
  <2>3. stops \in [Components -> Nat]
    BY <2>1 DEF Init
  <2> QED
    BY <1>2, <2>2, <2>3 DEF Init, TypeOK
<1>4. OneHolder /\ \A o \in Callers : Held(o)
  BY DEF Init, OneHolder, Held, Holding
<1>5. AtRest
  BY DEF Init, AtRest, NothingLeftUp
<1>6. UpInOrder
  BY <1>1, OrderFacts DEF Init, UpInOrder, UpAt, StateAt
<1>7. StopCount
  BY DEF Init, StopCount
<1> QED
  BY <1>1, <1>3, <1>4, <1>5, <1>6, <1>7 DEF KernelInv

PCs == Holding \cup Ended \cup {"idle", "lock_start", "lock_stop", "serving"}
CallerStates == [Callers -> [pc : PCs, i : 0..N, error : BOOLEAN]]

(* A caller's step moves that caller. *)
LEMMA Moves ==
  ASSUME TypeOK, NEW o \in Callers, NEW x \in PCs, NEW k \in 0..N, Goto(o, x) \/ Visit(o, x, k)
  PROVE  /\ at' \in CallerStates /\ at'[o].pc = x
         /\ Visit(o, x, k) => at'[o].i = k
         /\ \A p \in Callers : p # o => at'[p] = at[p]
<1>1. at \in CallerStates
  BY DEF TypeOK, CallerStates, PCs
<1> QED
  BY <1>1 DEF Goto, Visit, CallerStates

(* A step that changes no component and no kernel state, and enters nothing. *)
LEMMA QuietStep ==
  ASSUME KernelInv, at' \in CallerStates, requested' \in BOOLEAN,
         UNCHANGED <<graph, order, kernel, comp, cancelled, stops, timedOut>>, task' \subseteq task,
         \A p \in Callers : at'[p] = at[p] \/ (at'[p].pc \notin Holding /\ at[p].pc # "dropped")
  PROVE  KernelInv'
<1>1. TypeOK'
  BY DEF KernelInv, TypeOK, CallerStates, PCs
<1>2. Sorted' /\ UpInOrder'
  BY DEF KernelInv, Sorted, UpInOrder, UpAt, StateAt
<1>3. OneHolder'
  BY DEF KernelInv, OneHolder
<1>4. ASSUME NEW p \in Callers PROVE Held(p)'
  <2>1. CASE at'[p] = at[p]
    BY <2>1 DEF KernelInv, Held, UpAt, StateAt
  <2>2. CASE at'[p].pc \notin Holding
    BY <2>2 DEF Held, Holding
  <2> QED
    BY <2>1, <2>2
<1>5. AtRest'
  BY DEF KernelInv, AtRest, NothingLeftUp, Up
<1>6. StopCount'
  BY DEF KernelInv, StopCount
<1> QED
  BY <1>1, <1>2, <1>3, <1>4, <1>5, <1>6 DEF KernelInv

(* A caller arrives, run() goes on to shut down, a task ends, a shutdown is asked for. *)
LEMMA QuietActions ==
  ASSUME KernelInv, NEW o \in Callers,
         \/ Call(o) \/ Serve(o) \/ RequestShutdown \/ \E c \in Components : TaskEnds(c)
         \/ UNCHANGED vars
  PROVE  KernelInv'
<1>1. TypeOK /\ at \in CallerStates /\ requested \in BOOLEAN
  BY DEF KernelInv, TypeOK, CallerStates, PCs
<1>2. CASE Call(o)
  <2>1. PICK x \in {"lock_stop", "lock_start"} : Goto(o, x)
    BY <1>2 DEF Call
  <2>2. /\ at' \in CallerStates /\ at'[o].pc = x /\ at[o].pc = "idle"
        /\ \A p \in Callers : p # o => at'[p] = at[p]
    BY <1>1, <1>2, <2>1, Moves, KernelAssumption DEF PCs, Call
  <2> QED
    BY <1>1, <1>2, <2>2, QuietStep DEF Call, Holding
<1>3. CASE Serve(o)
  <2>1. /\ at' \in CallerStates /\ at'[o].pc = "lock_stop" /\ at[o].pc = "serving"
        /\ \A p \in Callers : p # o => at'[p] = at[p]
    BY <1>1, <1>3, Moves, KernelAssumption DEF PCs, Serve
  <2> QED
    BY <1>1, <1>3, <2>1, QuietStep DEF Serve, Holding
<1>4. CASE RequestShutdown \/ (\E c \in Components : TaskEnds(c)) \/ UNCHANGED vars
  BY <1>1, <1>4, QuietStep DEF RequestShutdown, TaskEnds, vars
<1> QED
  BY <1>2, <1>3, <1>4

(* The mutex is taken: start() finds a kernel nobody started, shutdown() begins a walk from
   the last component, or there is nothing to do. *)
LEMMA EnterStep ==
  ASSUME KernelInv, kernel # "rejected", NEW o \in Callers, EnterStart(o) \/ EnterShutdown(o)
  PROVE  KernelInv'
<1>1. TypeOK /\ Sorted /\ N \in 0..N /\ 1 \in 0..N /\ N \in Components /\ 1 \in Components /\ N \in Nat
  BY KernelAssumption DEF KernelInv, Components
<1>2. CASE (EnterStart(o) /\ kernel # "created") \/ (EnterShutdown(o) /\ kernel = "stopped")
  <2>1. PICK x \in {"err", "ok"} : Goto(o, x)
    BY <1>2 DEF EnterStart, EnterShutdown
  <2>2. /\ at' \in CallerStates /\ at'[o].pc = x /\ at[o].pc \in {"lock_start", "lock_stop"}
        /\ \A p \in Callers : p # o => at'[p] = at[p]
    BY <1>1, <1>2, <2>1, Moves DEF PCs, Ended, EnterStart, EnterShutdown
  <2>3. /\ UNCHANGED <<graph, order, kernel, comp, task, cancelled, requested, stops, timedOut>>
        /\ requested \in BOOLEAN
    BY <1>1, <1>2 DEF EnterStart, EnterShutdown, TypeOK
  <2> QED
    BY <1>1, <2>2, <2>3, QuietStep DEF Holding
<1>3. ASSUME NEW x \in PCs, NEW k \in 0..N, Goto(o, x) \/ Visit(o, x, k), MutexFree, x # "dropped",
             at[o].pc # "dropped",
             kernel' \in {"starting", "stopping", "stopped"}, Held(o)', AtRest', 
             UNCHANGED <<graph, order, comp, task, cancelled, requested, stops, timedOut>>
      PROVE  KernelInv'
  <2>1. /\ at' \in CallerStates /\ at'[o].pc = x
        /\ \A p \in Callers : p # o => at'[p] = at[p]
    BY <1>1, <1>3, Moves
  <2>2. TypeOK'
    BY <1>1, <1>3, <2>1 DEF TypeOK, CallerStates, PCs
  <2>3. OneHolder'
    BY <1>3, <2>1 DEF OneHolder, MutexFree
  <2>4. \A p \in Callers : Held(p)'
    <3>1. ASSUME NEW p \in Callers, p # o PROVE Held(p)'
      BY <1>3, <2>1, <3>1 DEF Held, MutexFree, Holding
    <3> QED
      BY <1>3, <3>1
  <2>5. Sorted' /\ UpInOrder'
    BY <1>3 DEF KernelInv, Sorted, UpInOrder, UpAt, StateAt
  <2>6. StopCount'
    BY <1>3, <2>1 DEF KernelInv, StopCount
  <2> QED
    BY <1>3, <2>2, <2>3, <2>4, <2>5, <2>6 DEF KernelInv
<1>4. CASE EnterStart(o) /\ kernel = "created"
  <2>1. /\ Visit(o, "init", 1) /\ kernel' = "starting" /\ MutexFree
        /\ at'[o].pc = "init" /\ at'[o].i = 1
    BY <1>1, <1>4, Moves DEF EnterStart, PCs, Holding
  <2>2. Held(o)'
    <3>1. task' = {} /\ \A j \in Components : StateAt(j)' = "registered"
      BY <1>1, <1>4, OrderFacts DEF KernelInv, AtRest, StateAt, EnterStart
    <3>2. \A j \in Components : ~(j < 1)
      BY <1>1 DEF Components
    <3> QED
      BY <1>1, <2>1, <3>1, <3>2 DEF Held
  <2>3. AtRest'
    BY <2>1 DEF AtRest, NothingLeftUp
  <2> QED
    BY <1>1, <1>3, <1>4, <2>1, <2>2, <2>3 DEF EnterStart, PCs, Holding
<1>5. CASE EnterShutdown(o) /\ kernel = "created"
  <2>1. /\ Goto(o, "ok") /\ kernel' = "stopped" /\ MutexFree /\ at'[o].pc = "ok"
    BY <1>1, <1>5, Moves DEF EnterShutdown, PCs, Ended
  <2>2. Held(o)'
    BY <2>1 DEF Held
  <2>3. AtRest'
    BY <1>5, <2>1 DEF KernelInv, AtRest, NothingLeftUp, Up, EnterShutdown
  <2> QED
    BY <1>1, <1>3, <1>5, <2>1, <2>2, <2>3 DEF EnterShutdown, PCs, Ended
<1>6. CASE EnterShutdown(o) /\ kernel \notin {"created", "stopped"}
  <2>1. /\ Visit(o, "stop", N) /\ kernel' = "stopping" /\ MutexFree
        /\ at'[o].pc = "stop" /\ at'[o].i = N
    BY <1>1, <1>6, Moves DEF EnterShutdown, PCs, Holding
  <2>2. Held(o)'
    <3>1. \A j \in Components : ~(j > N)
      BY <1>1 DEF Components
    <3> QED
      BY <1>1, <2>1, <3>1 DEF Held
  <2>3. AtRest'
    BY <2>1 DEF AtRest, NothingLeftUp
  <2> QED
    BY <1>1, <1>3, <1>6, <2>1, <2>2, <2>3 DEF EnterShutdown, PCs, Holding
<1> QED
  BY <1>2, <1>4, <1>5, <1>6

CompStates == {"registered", "initialized", "running", "stopped", "failed"}

(* A step of the holder: nobody else is in the way, so only what it reaches has to be shown. *)
LEMMA HolderStep ==
  ASSUME KernelInv, kernel # "rejected", NEW o \in Callers, at[o].pc \in Holding,
         at' \in CallerStates, \A p \in Callers : p # o => at'[p] = at[p],
         UNCHANGED <<graph, order, requested>>,
         kernel' \in {"starting", "running", "stopping", "stopped", "failed"},
         comp' \in [Components -> CompStates], task' \subseteq Components,
         cancelled' \subseteq Components, timedOut' \in BOOLEAN, stops' \in [Components -> Nat],
         Held(o)', UpInOrder', NothingLeftUp', StopCount'
  PROVE  KernelInv'
<1>1. TypeOK'
  BY DEF KernelInv, TypeOK, CallerStates, PCs, CompStates
<1>2. Sorted' /\ AtRest'
  BY DEF KernelInv, Sorted, AtRest
<1>3. \A p \in Callers : p # o => at'[p].pc \notin Holding
  BY DEF KernelInv, OneHolder
<1>4. OneHolder' /\ \A p \in Callers : Held(p)'
  BY <1>3 DEF OneHolder, Held, Holding
<1> QED
  BY <1>1, <1>2, <1>4 DEF KernelInv

(* What a phase at the place the holder has reached leaves alone, and the bookkeeping of
   stops while none is called. *)
LEMMA PhaseFacts ==
  ASSUME KernelInv, kernel # "rejected", NEW o \in Callers,
         at[o].pc \in {"init", "start", "unwind", "stop"}
  PROVE  /\ N \in Nat /\ 1 \in Components /\ N \in Components
         /\ at[o].i \in Components /\ order[at[o].i] \in Components /\ at[o].i - 1 \in 0..N
         /\ at[o].i < N => at[o].i + 1 \in Components
         /\ \A x \in CompStates : [comp EXCEPT ![order[at[o].i]] = x] \in [Components -> CompStates]
<1>1. N \in Nat /\ 1 \in Components /\ N \in Components
  BY KernelAssumption DEF Components
<1>2. at[o].i \in Components
  BY DEF KernelInv, Held
<1>3. order[at[o].i] \in Components
  BY <1>2, OrderFacts DEF KernelInv
<1>4. at[o].i - 1 \in 0..N /\ (at[o].i < N => at[o].i + 1 \in Components)
  BY <1>1, <1>2 DEF Components
<1>5. comp \in [Components -> CompStates]
  BY DEF KernelInv, TypeOK, CompStates
<1> QED
  BY <1>1, <1>2, <1>3, <1>4, <1>5

LEMMA CountsStay ==
  ASSUME KernelInv, NEW c \in Components, comp[c] \notin {"stopped", "failed"}, NEW x \in CompStates,
         comp' = [comp EXCEPT ![c] = x], UNCHANGED stops,
         NEW o \in Callers, at[o].pc # "dropped", \A p \in Callers : p # o => at'[p] = at[p]
  PROVE  StopCount'
<1> SUFFICES ASSUME \A p \in Callers : at'[p].pc # "dropped", NEW d \in Components
             PROVE  stops'[d] <= 1 /\ (comp'[d] \notin {"stopped", "failed"} => stops'[d] = 0)
  BY DEF StopCount
<1>1. \A p \in Callers : at[p].pc # "dropped"
  OBVIOUS
<1>2. \A e \in Components : stops[e] <= 1 /\ (comp[e] \notin {"stopped", "failed"} => stops[e] = 0)
  BY <1>1 DEF KernelInv, StopCount
<1> QED
  BY <1>2 DEF KernelInv, TypeOK

(* init() of the next component: it is initialised, or what was is unwound. *)
LEMMA InitStep ==
  ASSUME KernelInv, kernel # "rejected", NEW o \in Callers, InitPhase(o)
  PROVE  KernelInv'
<1> DEFINE i == at[o].i
<1>1. at[o].pc = "init" /\ at[o].pc \in Holding
  BY DEF InitPhase, Holding
<1>2. /\ N \in Nat /\ 1 \in Components /\ N \in Components /\ i \in Components /\ i \in Nat
      /\ order[i] \in Components /\ i - 1 \in 0..N /\ (i < N => i + 1 \in Components)
      /\ \A x \in CompStates : [comp EXCEPT ![order[i]] = x] \in [Components -> CompStates]
  BY <1>1, PhaseFacts DEF Components
<1>a. i \in Nat /\ N \in Nat /\ \A j \in Components : j \in Nat /\ j \in 0..N
  BY <1>2 DEF Components
<1>3. /\ kernel = "starting" /\ task = {}
      /\ \A j \in Components : StateAt(j) = IF j < i THEN "initialized" ELSE "registered"
  BY <1>1 DEF KernelInv, Held
<1>4. UNCHANGED <<graph, order, task, cancelled, requested, stops, timedOut>>
  BY DEF InitPhase
<1>5. /\ TypeOK /\ Sorted /\ cancelled \subseteq Components /\ timedOut \in BOOLEAN
      /\ stops \in [Components -> Nat] /\ \A j \in Components : j \in 0..N /\ j \in Nat
  <2>1. \A j \in Components : j \in 0..N /\ j \in Nat
    BY <1>2 DEF Components
  <2> QED
    BY <2>1 DEF KernelInv, TypeOK
<1>6. comp[order[i]] = "registered"
  BY <1>2, <1>3 DEF StateAt
<1>7. CASE comp' = [comp EXCEPT ![order[i]] = "initialized"] /\ UNCHANGED kernel
           /\ IF i < N THEN Visit(o, "init", i + 1) ELSE Visit(o, "start", 1)
  <2>1. \A j \in Components : StateAt(j)' = IF j <= i THEN "initialized" ELSE "registered"
    <3>1. \A j \in Components : StateAt(j)' = IF j = i THEN "initialized" ELSE StateAt(j)
      BY <1>2, <1>4, <1>5, <1>7, PhaseAt
    <3> QED
      BY <1>2, <1>3, <1>5, <3>1
  <2>2. /\ at' \in CallerStates /\ \A p \in Callers : p # o => at'[p] = at[p]
        /\ at'[o].pc # "dropped"
        /\ \/ at'[o].pc = "init" /\ at'[o].i = i + 1 /\ i < N
           \/ at'[o].pc = "start" /\ at'[o].i = 1 /\ i = N
    <3>1. CASE i < N
      <4>1. Visit(o, "init", i + 1) /\ i + 1 \in 0..N /\ "init" \in PCs
        BY <1>2, <1>5, <1>7, <3>1 DEF PCs, Holding
      <4> HIDE DEF i
      <4> QED
        BY <1>5, <3>1, <4>1, Moves
    <3>2. CASE ~(i < N)
      <4>1. i = N
        BY <1>2, <3>2 DEF Components
      <4> QED
        BY <1>2, <1>5, <1>7, <3>2, <4>1, Moves DEF PCs, Holding
    <3> QED
      BY <3>1, <3>2
  <2>3. Held(o)'
    <3>1. CASE at'[o].pc = "init" /\ at'[o].i = i + 1 /\ i < N
      <4>1. \A j \in Components : (j < i + 1) <=> (j <= i)
        <5> HIDE DEF i
        <5> QED
          BY <1>a
      <4> QED
        BY <1>2, <1>3, <1>4, <1>7, <2>1, <3>1, <4>1 DEF Held
    <3>2. CASE at'[o].pc = "start" /\ at'[o].i = 1 /\ i = N
      <4>1. \A j \in Components : j <= N /\ ~(j < 1)
        BY <1>2 DEF Components
      <4> QED
        BY <1>2, <1>3, <1>4, <1>7, <2>1, <3>2, <4>1 DEF Held
    <3> QED
      BY <2>2, <3>1, <3>2
  <2>4. UpInOrder' /\ NothingLeftUp'
    BY <1>2, <1>3, <1>5, <1>7, <2>1 DEF UpInOrder, UpAt, NothingLeftUp
  <2>5. StopCount'
    BY <1>1, <1>2, <1>4, <1>6, <1>7, <2>2, CountsStay DEF CompStates
  <2>6. comp' \in [Components -> CompStates] /\ kernel' = "starting"
    BY <1>2, <1>3, <1>7 DEF CompStates
  <2> QED
    BY <1>1, <1>3, <1>4, <1>5, <2>2, <2>3, <2>4, <2>5, <2>6, HolderStep
<1>8. CASE comp' = [comp EXCEPT ![order[i]] = "failed"] /\ Rollback(o, i - 1)
  <2>1. \A j \in Components : StateAt(j)' = IF j = i THEN "failed" ELSE StateAt(j)
    BY <1>2, <1>4, <1>5, <1>8, PhaseAt
  <2>2. \A j \in Components : j > i - 1 => StateAt(j)' \in {"failed", "registered"}
    BY <1>2, <1>3, <1>5, <2>1
  <2>3. /\ at' \in CallerStates /\ \A p \in Callers : p # o => at'[p] = at[p]
        /\ at'[o].pc # "dropped"
        /\ \/ at'[o].pc = "err" /\ i = 1 /\ kernel' = "failed"
           \/ at'[o].pc = "unwind" /\ at'[o].i = i - 1 /\ i - 1 \in Components /\ kernel' = kernel
    <3>1. CASE i - 1 = 0
      BY <1>2, <1>5, <1>8, <3>1, Moves DEF PCs, Ended, Rollback
    <3>2. CASE i - 1 # 0
      <4>1. i - 1 \in Components
        BY <1>2, <3>2 DEF Components
      <4> QED
        BY <1>2, <1>5, <1>8, <3>2, <4>1, Moves DEF PCs, Holding, Rollback
    <3> QED
      BY <3>1, <3>2
  <2>4. Held(o)'
    BY <1>3, <2>2, <2>3 DEF Held, UpAt
  <2>5. UpInOrder'
    <3>1. \A j \in Components : StateAt(j)' = IF j < i THEN "initialized"
                                              ELSE IF j = i THEN "failed" ELSE "registered"
      BY <1>2, <1>3, <1>5, <2>1
    <3> HIDE DEF i
    <3> QED
      BY <1>a, <3>1 DEF UpInOrder, UpAt
  <2>6. NothingLeftUp'
    <3>1. CASE i = 1
      <4>1. \A j \in Components : StateAt(j)' \in {"failed", "registered"}
        BY <1>2, <1>5, <2>2, <3>1 DEF Components
      <4>2. \A c \in Components : ~Up(c)'
        BY <1>3, <1>4, <1>5, <4>1, OrderFacts DEF StateAt, Up
      <4> QED
        BY <1>3, <1>4, <4>2 DEF NothingLeftUp
    <3>2. CASE i # 1
      BY <1>3, <2>3, <3>2 DEF NothingLeftUp
    <3> QED
      BY <3>1, <3>2
  <2>7. StopCount'
    BY <1>1, <1>2, <1>4, <1>6, <1>8, <2>3, CountsStay DEF CompStates
  <2>8. comp' \in [Components -> CompStates] /\ kernel' \in {"starting", "failed"}
    BY <1>2, <1>3, <1>8, <2>3 DEF CompStates
  <2> QED
    BY <1>1, <1>3, <1>4, <1>5, <2>3, <2>4, <2>5, <2>6, <2>7, <2>8, HolderStep
<1> QED
  BY <1>7, <1>8 DEF InitPhase

(* start() of the next component: it runs, or everything is unwound from the last place. *)
LEMMA StartStep ==
  ASSUME KernelInv, kernel # "rejected", NEW o \in Callers, StartPhase(o)
  PROVE  KernelInv'
<1> DEFINE i == at[o].i
<1>1. at[o].pc = "start" /\ at[o].pc \in Holding
  BY DEF StartPhase, Holding
<1>2. /\ N \in Nat /\ 1 \in Components /\ N \in Components /\ i \in Components
      /\ order[i] \in Components /\ (i < N => i + 1 \in Components)
      /\ \A x \in CompStates : [comp EXCEPT ![order[i]] = x] \in [Components -> CompStates]
  BY <1>1, PhaseFacts
<1>a. i \in Nat /\ N \in Nat /\ \A j \in Components : j \in Nat /\ j \in 0..N /\ j <= N
  BY <1>2 DEF Components
<1>3. /\ kernel = "starting"
      /\ \A j \in Components : StateAt(j) = IF j < i THEN "running" ELSE "initialized"
  BY <1>1 DEF KernelInv, Held
<1>4. UNCHANGED <<graph, order, cancelled, requested, stops, timedOut>>
  BY DEF StartPhase
<1>5. /\ TypeOK /\ Sorted /\ cancelled \subseteq Components /\ timedOut \in BOOLEAN
      /\ stops \in [Components -> Nat] /\ task' \subseteq Components
  BY <1>2 DEF KernelInv, TypeOK, StartPhase, MaySpawn
<1>6. comp[order[i]] = "initialized"
  BY <1>2, <1>3, <1>a DEF StateAt
<1>7. CASE /\ comp' = [comp EXCEPT ![order[i]] = "running"]
           /\ IF i < N THEN Visit(o, "start", i + 1) /\ UNCHANGED kernel
              ELSE kernel' = "running" /\ Goto(o, IF Kind[o] = "run" THEN "serving" ELSE "ok")
  <2>1. \A j \in Components : StateAt(j)' = IF j <= i THEN "running" ELSE "initialized"
    <3>1. \A j \in Components : StateAt(j)' = IF j = i THEN "running" ELSE StateAt(j)
      BY <1>2, <1>4, <1>5, <1>7, PhaseAt
    <3> HIDE DEF i
    <3> QED
      BY <1>a, <1>3, <3>1
  <2>2. /\ at' \in CallerStates /\ \A p \in Callers : p # o => at'[p] = at[p]
        /\ \/ at'[o].pc = "start" /\ at'[o].i = i + 1 /\ i < N /\ kernel' = kernel
           \/ at'[o].pc \in {"serving", "ok"} /\ kernel' = "running"
    <3>1. CASE i < N
      <4>1. Visit(o, "start", i + 1) /\ i + 1 \in 0..N /\ "start" \in PCs /\ kernel' = kernel
        BY <1>2, <1>a, <1>7, <3>1 DEF PCs, Holding
      <4> HIDE DEF i
      <4> QED
        BY <1>5, <3>1, <4>1, Moves
    <3>2. CASE ~(i < N)
      <4>1. PICK x \in {"serving", "ok"} : Goto(o, x) /\ kernel' = "running"
        BY <1>7, <3>2
      <4>2. x \in PCs /\ 1 \in 0..N
        BY <1>2, <1>a DEF PCs, Ended
      <4> QED
        BY <1>5, <4>1, <4>2, Moves
    <3> QED
      BY <3>1, <3>2
  <2>3. Held(o)'
    <3>1. CASE at'[o].pc = "start" /\ at'[o].i = i + 1 /\ i < N /\ kernel' = kernel
      <4>1. \A j \in Components : (j < i + 1) <=> (j <= i)
        <5> HIDE DEF i
        <5> QED
          BY <1>a
      <4> QED
        BY <1>2, <1>3, <2>1, <3>1, <4>1 DEF Held
    <3>2. CASE at'[o].pc \in {"serving", "ok"}
      BY <3>2 DEF Held
    <3> QED
      BY <2>2, <3>1, <3>2
  <2>4. UpInOrder'
    <3> HIDE DEF i
    <3> QED
      BY <1>a, <2>1 DEF UpInOrder, UpAt
  <2>5. NothingLeftUp' /\ kernel' \in {"starting", "running"}
    BY <1>3, <2>2 DEF NothingLeftUp
  <2>6. StopCount' /\ comp' \in [Components -> CompStates]
    BY <1>1, <1>2, <1>4, <1>6, <1>7, <2>2, CountsStay DEF CompStates
  <2> QED
    BY <1>1, <1>4, <1>5, <2>2, <2>3, <2>4, <2>5, <2>6, HolderStep
<1>8. CASE comp' = [comp EXCEPT ![order[i]] = "failed"] /\ RollbackAll(o)
  <2>1. \A j \in Components : StateAt(j)' = IF j < i THEN "running"
                                            ELSE IF j = i THEN "failed" ELSE "initialized"
    <3>1. \A j \in Components : StateAt(j)' = IF j = i THEN "failed" ELSE StateAt(j)
      BY <1>2, <1>4, <1>5, <1>8, PhaseAt
    <3> HIDE DEF i
    <3> QED
      BY <1>a, <1>3, <3>1
  <2>2. Visit(o, "unwind", N) /\ kernel' = kernel /\ N \in 0..N /\ "unwind" \in PCs
    BY <1>2, <1>a, <1>8, KernelAssumption DEF RollbackAll, Rollback, PCs, Holding
  <2>3. /\ at' \in CallerStates /\ \A p \in Callers : p # o => at'[p] = at[p]
        /\ at'[o].pc = "unwind" /\ at'[o].i = N
    BY <1>5, <2>2, Moves
  <2>4. Held(o)'
    <3>1. \A j \in Components : ~(j > N)
      BY <1>a
    <3> QED
      BY <1>2, <1>3, <2>2, <2>3, <3>1 DEF Held
  <2>5. UpInOrder'
    <3> HIDE DEF i
    <3> QED
      BY <1>a, <2>1 DEF UpInOrder, UpAt
  <2>6. NothingLeftUp' /\ kernel' = "starting"
    BY <1>3, <2>2 DEF NothingLeftUp
  <2>7. StopCount' /\ comp' \in [Components -> CompStates]
    BY <1>1, <1>2, <1>4, <1>6, <1>8, <2>3, CountsStay DEF CompStates
  <2> QED
    BY <1>1, <1>4, <1>5, <2>3, <2>4, <2>5, <2>6, <2>7, HolderStep
<1> QED
  BY <1>7, <1>8 DEF StartPhase

(* stop() of the component at hand, if it is up, whether the walk is a rollback's or a
   shutdown's: afterwards nothing from this place on is up. *)
LEMMA StopStep ==
  ASSUME KernelInv, kernel # "rejected", NEW o \in Callers, StopPhase(o)
  PROVE  KernelInv'
<1> DEFINE i == at[o].i
           c == order[i]
<1>1. at[o].pc \in {"unwind", "stop"} /\ at[o].pc \in Holding
  BY DEF StopPhase, Holding
<1>2. /\ N \in Nat /\ i \in Components /\ c \in Components /\ i - 1 \in 0..N
      /\ \A x \in CompStates : [comp EXCEPT ![c] = x] \in [Components -> CompStates]
  BY <1>1, PhaseFacts
<1>a. i \in Nat /\ N \in Nat /\ \A j \in Components : j \in Nat
  BY <1>2 DEF Components
<1>3. \A j \in Components : j > i => ~UpAt(j)
  BY <1>1 DEF KernelInv, Held
<1>4. /\ at[o].pc = "unwind" => kernel = "starting"
      /\ at[o].pc = "stop" => kernel = "stopping"
      /\ UNCHANGED <<graph, order, kernel, requested, timedOut>>
  BY <1>1 DEF KernelInv, Held, StopPhase
<1>5. /\ TypeOK /\ Sorted /\ UpInOrder /\ cancelled \subseteq Components /\ task \subseteq Components
      /\ timedOut \in BOOLEAN /\ stops \in [Components -> Nat] /\ comp \in [Components -> CompStates]
      /\ at \in CallerStates
  BY DEF KernelInv, TypeOK, CompStates, CallerStates, PCs
<1>6. \E f \in BOOLEAN :
        at' = [at EXCEPT ![o] =
                 [error |-> @.error \/ f, i |-> i - 1,
                  pc |-> IF i > 1 THEN @.pc ELSE IF @.pc = "stop" THEN "wait" ELSE "unwait"]]
  BY DEF StopPhase, AfterStop
<1>7. /\ at' \in CallerStates /\ \A p \in Callers : p # o => at'[p] = at[p]
      /\ at'[o].i = i - 1
      /\ at'[o].pc = IF i > 1 THEN at[o].pc ELSE IF at[o].pc = "stop" THEN "wait" ELSE "unwait"
  <2>1. PICK f \in BOOLEAN :
          at' = [at EXCEPT ![o] =
                   [error |-> @.error \/ f, i |-> i - 1,
                    pc |-> IF i > 1 THEN @.pc ELSE IF @.pc = "stop" THEN "wait" ELSE "unwait"]]
    BY <1>6
  <2>2. at[o] \in [pc : PCs, i : 0..N, error : BOOLEAN] /\ {"wait", "unwait"} \subseteq PCs
    BY <1>5 DEF CallerStates, PCs, Holding
  <2>3. [error |-> at[o].error \/ f, i |-> i - 1,
         pc |-> IF i > 1 THEN at[o].pc ELSE IF at[o].pc = "stop" THEN "wait" ELSE "unwait"]
          \in [pc : PCs, i : 0..N, error : BOOLEAN]
    BY <1>2, <2>2
  <2> QED
    BY <1>5, <2>1, <2>3 DEF CallerStates
<1>8. \/ NothingToUnwind(c) /\ UNCHANGED <<comp, task, stops>>
      \/ /\ ~NothingToUnwind(c) /\ task' \subseteq Components
         /\ stops' = [stops EXCEPT ![c] = @ + 1]
         /\ \E x \in {"stopped", "failed"} : comp' = [comp EXCEPT ![c] = x]
  BY <1>2, <1>5 DEF StopPhase, MaySpawn
<1>9. /\ \A j \in Components : j # i => StateAt(j)' = StateAt(j)
      /\ \A j \in Components : j = i => StateAt(j)' \in {"registered", "stopped", "failed"}
      /\ comp' \in [Components -> CompStates] /\ task' \subseteq Components
  <2>1. CASE NothingToUnwind(c) /\ UNCHANGED <<comp, task, stops>>
    BY <1>4, <1>5, <2>1 DEF StateAt, NothingToUnwind
  <2>2. ASSUME NEW x \in {"stopped", "failed"}, comp' = [comp EXCEPT ![c] = x]
        PROVE  /\ \A j \in Components : j # i => StateAt(j)' = StateAt(j)
               /\ \A j \in Components : j = i => StateAt(j)' \in {"registered", "stopped", "failed"}
               /\ comp' \in [Components -> CompStates]
    BY <1>2, <1>4, <1>5, <2>2, PhaseAt DEF CompStates
  <2> QED
    BY <1>5, <1>8, <2>1, <2>2
<1>10. cancelled' \subseteq Components /\ (at'[o].pc \in {"wait", "unwait"} => cancelled' = Components)
  BY <1>2, <1>5 DEF StopPhase
<1>11. stops' \in [Components -> Nat] /\ StopCount'
  <2>1. CASE NothingToUnwind(c) /\ UNCHANGED <<comp, task, stops>>
    BY <1>1, <1>5, <1>7, <2>1 DEF KernelInv, StopCount
  <2>2. CASE /\ ~NothingToUnwind(c) /\ stops' = [stops EXCEPT ![c] = @ + 1]
             /\ \E x \in {"stopped", "failed"} : comp' = [comp EXCEPT ![c] = x]
    <3>1. stops' \in [Components -> Nat]
      BY <1>2, <1>5, <2>2
    <3>2. ASSUME \A p \in Callers : at'[p].pc # "dropped", NEW d \in Components
          PROVE  stops'[d] <= 1 /\ (comp'[d] \notin {"stopped", "failed"} => stops'[d] = 0)
      <4>1. \A p \in Callers : at[p].pc # "dropped"
        BY <1>1, <1>7, <3>2
      <4>2. \A e \in Components : stops[e] <= 1 /\ (comp[e] \notin {"stopped", "failed"} => stops[e] = 0)
        BY <4>1 DEF KernelInv, StopCount
      <4>3. comp[c] \notin {"stopped", "failed"}
        BY <2>2 DEF NothingToUnwind
      <4> HIDE DEF c
      <4> QED
        BY <1>2, <1>5, <2>2, <4>2, <4>3
    <3> QED
      BY <3>1, <3>2 DEF StopCount
  <2> QED
    BY <1>8, <2>1, <2>2
<1> HIDE DEF i, c
<1>12. \A j \in Components : j > i - 1 => ~UpAt(j)'
  BY <1>a, <1>3, <1>9 DEF UpAt
<1>13. Held(o)'
  <2>1. CASE i > 1
    <3>1. i - 1 \in Components
      BY <1>2, <1>a, <2>1 DEF Components
    <3> QED
      BY <1>1, <1>4, <1>7, <1>12, <2>1, <3>1 DEF Held
  <2>2. CASE ~(i > 1)
    <3>1. \A j \in Components : j > i - 1
      BY <1>a, <2>2 DEF Components
    <3> QED
      BY <1>1, <1>4, <1>7, <1>10, <1>12, <2>2, <3>1 DEF Held
  <2> QED
    BY <2>1, <2>2
<1>14. UpInOrder'
  <2> SUFFICES ASSUME NEW a \in Components, NEW b \in Components, a < b
               PROVE  /\ StateAt(b)' = "running" => StateAt(a)' = "running"
                      /\ UpAt(b)' => StateAt(a)' \notin {"registered", "stopped"}
    BY DEF UpInOrder
  <2>1. CASE b > i - 1
    BY <1>12, <2>1 DEF UpAt
  <2>2. CASE ~(b > i - 1)
    <3>1. a # i /\ b # i
      BY <1>a, <2>2
    <3> QED
      BY <1>4, <1>5, <1>9, <3>1 DEF UpInOrder, UpAt
  <2> QED
    BY <2>1, <2>2
<1>15. NothingLeftUp' /\ kernel' \in {"starting", "stopping"}
  BY <1>1, <1>4 DEF NothingLeftUp
<1> QED
  BY <1>1, <1>4, <1>5, <1>7, <1>9, <1>10, <1>11, <1>13, <1>14, <1>15, HolderStep

(* The wait for the tasks ends: none is left, or the timeout passed. *)
LEMMA WaitStep ==
  ASSUME KernelInv, kernel # "rejected", NEW o \in Callers, Waited(o)
  PROVE  KernelInv'
<1>1. at[o].pc \in {"wait", "unwait"} /\ at[o].pc \in Holding
  BY DEF Waited, Holding
<1>2. cancelled = Components /\ \A j \in Components : ~UpAt(j)
  BY <1>1 DEF KernelInv, Held
<1>3. /\ UNCHANGED <<graph, order, comp, task, cancelled, requested, stops>>
      /\ timedOut' \in BOOLEAN /\ (task = {} \/ timedOut') /\ kernel' \in {"stopped", "failed"}
  BY DEF Waited, MayTimeOut, KernelInv, TypeOK
<1>4. /\ TypeOK /\ Sorted /\ comp \in [Components -> CompStates] /\ task \subseteq Components
      /\ stops \in [Components -> Nat] /\ 0 \in 0..N
  BY KernelAssumption DEF KernelInv, TypeOK, CompStates
<1>5. PICK x \in {"ok", "err"} : Goto(o, x)
  BY DEF Waited
<1>6. /\ at' \in CallerStates /\ \A p \in Callers : p # o => at'[p] = at[p]
      /\ at'[o].pc = x
  BY <1>4, <1>5, Moves DEF PCs, Ended
<1>7. Held(o)'
  BY <1>6 DEF Held
<1>8. UpInOrder'
  BY <1>3 DEF KernelInv, UpInOrder, UpAt, StateAt
<1>9. NothingLeftUp'
  <2>1. \A c \in Components : ~Up(c)
    BY <1>2, <1>4, OrderFacts DEF Up, UpAt, StateAt
  <2> QED
    BY <1>2, <1>3, <1>4, <2>1 DEF NothingLeftUp, Up
<1>10. StopCount'
  BY <1>1, <1>3, <1>6 DEF KernelInv, StopCount
<1> QED
  BY <1>1, <1>2, <1>3, <1>4, <1>6, <1>7, <1>8, <1>9, <1>10, HolderStep

(* A caller goes away: whatever its walk had reached stays as it is. *)
LEMMA DropStep ==
  ASSUME KernelInv, kernel # "rejected", NEW o \in Callers, Drop(o)
  PROVE  KernelInv'
<1>1. Goto(o, "dropped") /\ UNCHANGED <<graph, order, kernel, comp, cancelled, requested, timedOut>>
  BY DEF Drop
<1>2. TypeOK /\ "dropped" \in PCs /\ 0 \in 0..N
  BY KernelAssumption DEF KernelInv, PCs, Ended
<1>3. /\ at' \in CallerStates /\ \A p \in Callers : p # o => at'[p] = at[p]
      /\ at'[o].pc = "dropped"
  BY <1>1, <1>2, Moves
<1>4. at[o].pc \in {"init", "start", "unwind", "stop"} => order[at[o].i] \in Components
  BY PhaseFacts
<1>5. /\ task' \subseteq Components /\ (at[o].pc # "start" => task' = task)
      /\ stops' \in [Components -> Nat]
  <2>1. task' \subseteq Components /\ (at[o].pc # "start" => task' = task)
    BY <1>2, <1>4 DEF Drop, MaySpawn, TypeOK
  <2>2. CASE UNCHANGED stops
    BY <1>2, <2>1, <2>2 DEF TypeOK
  <2>3. CASE /\ at[o].pc \in {"unwind", "stop"}
             /\ stops' = [stops EXCEPT ![order[at[o].i]] = @ + 1]
    BY <1>2, <1>4, <2>1, <2>3 DEF TypeOK
  <2> QED
    BY <2>2, <2>3 DEF Drop
<1>6. TypeOK' /\ Sorted'
  BY <1>1, <1>2, <1>3, <1>5 DEF KernelInv, TypeOK, Sorted, CallerStates, PCs
<1>7. OneHolder' /\ UpInOrder'
  BY <1>1, <1>3 DEF KernelInv, OneHolder, Holding, UpInOrder, UpAt, StateAt
<1>8. \A p \in Callers : Held(p)'
  <2>1. Held(o)'
    BY <1>3 DEF Held
  <2>2. ASSUME NEW p \in Callers, p # o, at[p].pc \in Holding PROVE Held(p)'
    <3>1. at[o].pc # "start"
      BY <2>2 DEF KernelInv, OneHolder, Holding
    <3> QED
      BY <1>1, <1>3, <1>5, <2>2, <3>1 DEF KernelInv, Held, UpAt, StateAt
  <2>3. ASSUME NEW p \in Callers, p # o, at[p].pc \notin Holding PROVE Held(p)'
    BY <1>3, <2>3 DEF Held, Holding
  <2> QED
    BY <2>1, <2>2, <2>3
<1>9. AtRest'
  <2>1. CASE at[o].pc = "start"
    <3>1. kernel' = "starting"
      BY <1>1, <2>1 DEF KernelInv, Held
    <3> QED
      BY <3>1 DEF AtRest, NothingLeftUp
  <2>2. CASE at[o].pc # "start"
    BY <1>1, <1>5, <2>2 DEF KernelInv, AtRest, NothingLeftUp, Up
  <2> QED
    BY <2>1, <2>2
<1>10. StopCount'
  BY <1>3 DEF StopCount
<1> QED
  BY <1>6, <1>7, <1>8, <1>9, <1>10 DEF KernelInv

(* Every step keeps the inductive invariant. *)
LEMMA KernelInvStep == KernelInv /\ [Next]_vars => KernelInv'
<1> SUFFICES ASSUME KernelInv, [Next]_vars PROVE KernelInv'
  OBVIOUS
<1>1. CASE UNCHANGED vars \/ RequestShutdown \/ \E c \in Components : TaskEnds(c)
  <2>1. at' \in CallerStates /\ requested' \in BOOLEAN
    BY <1>1 DEF KernelInv, TypeOK, CallerStates, PCs, vars, RequestShutdown, TaskEnds
  <2> QED
    BY <1>1, <2>1, QuietStep DEF vars, RequestShutdown, TaskEnds
<1>2. ASSUME NEW o \in Callers, kernel # "rejected", Call(o) \/ Steps(o) \/ Drop(o) PROVE KernelInv'
  BY <1>2, QuietActions, EnterStep, InitStep, StartStep, StopStep, WaitStep, DropStep DEF Steps
<1> QED
  BY <1>1, <1>2 DEF Next

(* For any graph that can be built, any number of components and callers, and phases, tasks
   and dropped callers at their worst: components run only while what they need runs, a
   kernel that says it is over has nothing up and no task that was not told to stop, and
   stop() is called once. *)
THEOREM LifecycleHolds == Spec => []LifecycleInv
<1>1. Spec => []KernelInv
  BY KernelInvInit, KernelInvStep, PTL DEF Spec
<1> QED
  BY <1>1, KernelInvSuffices, PTL
=============================================================================
