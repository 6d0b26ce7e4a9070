----------------------------- MODULE Induction -----------------------------
(* Induction over the naturals in the form the proofs about recursive functions use it: on
   a set of numbers instead of a predicate; and what it shows of sums over finite sets. *)
EXTENDS Integers, FiniteSetsExt, FiniteSetTheorems, WellFoundedInduction, TLAPS

(* A set of naturals has a least element, so a claim is proved from its least
   counterexample. *)
LEMMA LeastNumber ==
  ASSUME NEW T, T \subseteq Nat, T # {}
  PROVE  \E x \in T : \A y \in T : x <= y
<1>1. \A x, y \in Nat : y < x => <<y, x>> \in OpToRel(<, Nat)
  BY DEF OpToRel
<1>2. PICK R : IsWellFoundedOn(R, Nat) /\ \A x, y \in Nat : y < x => <<y, x>> \in R
  BY <1>1, NatLessThanWellFounded, Zenon
<1>3. PICK x \in T : \A y \in T : ~ (<<y, x>> \in R)
  BY <1>2, WFMin
<1>4. \A y \in T : ~(y < x)
  BY <1>2, <1>3
<1> QED
  BY <1>4

(* If 0 belongs to a set of numbers up to n, and with k also k + 1, all of them do. *)
LEMMA UpTo ==
  ASSUME NEW n \in Nat, NEW S, 0 \in S,
         \A k \in 0..n : k \in S /\ k < n => k + 1 \in S
  PROVE  \A k \in 0..n : k \in S
<1> DEFINE T == (0..n) \ S
<1> SUFFICES ASSUME T # {} PROVE FALSE
  OBVIOUS
<1>0. T \subseteq Nat
  OBVIOUS
<1>1. PICK m \in T : \A y \in T : m <= y
  <2> HIDE DEF T
  <2> QED
    BY <1>0, LeastNumber
<1>2. m # 0 /\ m - 1 \in 0..n /\ m - 1 < n
  BY <1>1
<1>3. m - 1 \in S
  BY <1>1, <1>2
<1>4. (m - 1) + 1 \in S
  BY <1>2, <1>3
<1> QED
  BY <1>1, <1>4

(* The least of some numbers. *)
LEMMA MinOf ==
  ASSUME NEW T \in SUBSET Nat, T # {}
  PROVE  Min(T) \in T /\ \A y \in T : Min(T) <= y
<1>1. \E x \in T : \A y \in T : x <= y
  BY LeastNumber
<1> QED
  BY <1>1, Zenon DEF Min

---------------------------------------------------------------------------
(* Sums.  A sum over a finite set is taken element by element in an order CHOOSE fixes; that
   the order does not matter is what the tables' totals rest on. *)

Choice(s) == CHOOSE x \in s : TRUE

\* g is the sum of f over each part of S.
Adds(g, f, S) ==
  g = [s \in SUBSET S |-> IF s = {} THEN 0 ELSE f[Choice(s)] + g[s \ {Choice(s)}]]

Totals(f) == CHOOSE g : Adds(g, f, DOMAIN f)

(* The recursion has a solution. *)
LEMMA AdderExists ==
  ASSUME NEW S, IsFiniteSet(S), NEW f \in [S -> Nat]
  PROVE  \E g \in [SUBSET S -> Nat] : Adds(g, f, S)
<1> DEFINE Rest(s) == s \ {Choice(s)}
           Good(g, n) == \A s \in SUBSET S : Cardinality(s) <= n =>
                           g[s] = IF s = {} THEN 0 ELSE f[Choice(s)] + g[Rest(s)]
           T == {n \in 0..Cardinality(S) : \E g \in [SUBSET S -> Nat] : Good(g, n)}
<1>1. Cardinality(S) \in Nat
  BY FS_CardinalityType
<1>2. \A s \in SUBSET S : IsFiniteSet(s) /\ Cardinality(s) \in Nat /\ Cardinality(s) <= Cardinality(S)
  BY FS_Subset, FS_CardinalityType
<1>3. \A s \in SUBSET S : s # {} =>
        /\ Choice(s) \in s /\ f[Choice(s)] \in Nat /\ Rest(s) \in SUBSET S
        /\ Cardinality(Rest(s)) = Cardinality(s) - 1
  <2> SUFFICES ASSUME NEW s \in SUBSET S, s # {}
               PROVE  /\ Choice(s) \in s /\ f[Choice(s)] \in Nat /\ Rest(s) \in SUBSET S
                      /\ Cardinality(Rest(s)) = Cardinality(s) - 1
    OBVIOUS
  <2>1. Choice(s) \in s
    BY DEF Choice
  <2>2. Cardinality(Rest(s)) = Cardinality(s) - 1
    BY <1>2, <2>1, FS_RemoveElement
  <2> QED
    BY <2>1, <2>2
<1>4. 0 \in T
  <2> DEFINE g == [s \in SUBSET S |-> 0]
  <2>1. g \in [SUBSET S -> Nat]
    OBVIOUS
  <2>2. \A s \in SUBSET S : Cardinality(s) <= 0 => s = {}
    BY <1>2, FS_EmptySet
  <2>3. Good(g, 0)
    BY <2>2
  <2> HIDE DEF g, Good
  <2> QED
    BY <1>1, <2>1, <2>3
<1>5. \A n \in 0..Cardinality(S) : n \in T /\ n < Cardinality(S) => n + 1 \in T
  <2> SUFFICES ASSUME NEW n \in 0..Cardinality(S), n \in T, n < Cardinality(S) PROVE n + 1 \in T
    OBVIOUS
  <2>1. PICK g \in [SUBSET S -> Nat] : Good(g, n)
    OBVIOUS
  <2> DEFINE h == [s \in SUBSET S |->
                     IF Cardinality(s) = n + 1 THEN f[Choice(s)] + g[Rest(s)] ELSE g[s]]
  <2> HIDE DEF Rest
  <2>2. \A s \in SUBSET S : Cardinality(s) = n + 1 => s # {}
    <3>1. n + 1 # 0 /\ Cardinality({}) = 0
      BY <1>1, FS_EmptySet
    <3> QED
      BY <3>1
  <2>3. h \in [SUBSET S -> Nat]
    BY <1>1, <1>3, <2>2
  <2>4. ASSUME NEW s \in SUBSET S, Cardinality(s) <= n + 1
        PROVE  h[s] = IF s = {} THEN 0 ELSE f[Choice(s)] + h[Rest(s)]
    <3>1. CASE Cardinality(s) = n + 1
      <4>1. s # {} /\ Rest(s) \in SUBSET S /\ Cardinality(Rest(s)) = n
        BY <1>1, <1>3, <2>2, <3>1
      <4> QED
        BY <1>1, <3>1, <4>1
    <3>2. CASE Cardinality(s) # n + 1
      <4>1. Cardinality(s) <= n /\ Cardinality(s) \in Nat
        BY <1>1, <1>2, <2>4, <3>2
      <4>2. CASE s = {}
        BY <2>1, <3>2, <4>1, <4>2
      <4>3. CASE s # {}
        <5>1. Rest(s) \in SUBSET S /\ Cardinality(Rest(s)) # n + 1
          BY <1>1, <1>3, <4>1, <4>3
        <5> QED
          BY <2>1, <3>2, <4>1, <4>3, <5>1
      <4> QED
        BY <4>2, <4>3
    <3> QED
      BY <3>1, <3>2
  <2>5. Good(h, n + 1)
    BY <2>4
  <2> HIDE DEF h, Good
  <2> QED
    BY <1>1, <2>3, <2>5
<1>6. Cardinality(S) \in T
  <2> HIDE DEF T
  <2> QED
    BY <1>1, <1>4, <1>5, UpTo
<1>7. PICK g \in [SUBSET S -> Nat] : Good(g, Cardinality(S))
  BY <1>6
<1>8. g = [s \in SUBSET S |-> IF s = {} THEN 0 ELSE f[Choice(s)] + g[Rest(s)]]
  BY <1>2, <1>7
<1> QED
  BY <1>8 DEF Adds

(* A sum is the sum without an element, and that element. *)
LEMMA SumWithout ==
  ASSUME NEW S, IsFiniteSet(S), NEW f \in [S -> Nat], NEW g, Adds(g, f, S)
  PROVE  /\ \A s \in SUBSET S : g[s] \in Nat
         /\ g[{}] = 0
         /\ \A s \in SUBSET S : \A x \in s : g[s] = f[x] + g[s \ {x}]
<1> DEFINE Rest(s) == s \ {Choice(s)}
           Fine(s) == g[s] \in Nat /\ \A x \in s : g[s] = f[x] + g[s \ {x}]
           T == {n \in 0..Cardinality(S) : \A s \in SUBSET S : Cardinality(s) <= n => Fine(s)}
<1>1. Cardinality(S) \in Nat
  BY FS_CardinalityType
<1>2. \A s \in SUBSET S : IsFiniteSet(s) /\ Cardinality(s) \in Nat /\ Cardinality(s) <= Cardinality(S)
  BY FS_Subset, FS_CardinalityType
<1>3. \A s \in SUBSET S : \A x \in s :
        s \ {x} \in SUBSET S /\ Cardinality(s \ {x}) = Cardinality(s) - 1 /\ f[x] \in Nat
  BY <1>2, FS_RemoveElement
<1>4. \A s \in SUBSET S : g[s] = IF s = {} THEN 0 ELSE f[Choice(s)] + g[Rest(s)]
  BY DEF Adds
<1>5. g[{}] = 0
  BY <1>4
<1>6. 0 \in T
  <2>1. \A s \in SUBSET S : Cardinality(s) <= 0 => s = {}
    BY <1>2, FS_EmptySet
  <2>2. \A s \in SUBSET S : Cardinality(s) <= 0 => Fine(s)
    BY <1>5, <2>1
  <2> HIDE DEF Fine
  <2> QED
    BY <1>1, <2>2
<1>7. \A n \in 0..Cardinality(S) : n \in T /\ n < Cardinality(S) => n + 1 \in T
  <2> SUFFICES ASSUME NEW n \in 0..Cardinality(S), n \in T, n < Cardinality(S),
                      NEW s \in SUBSET S, Cardinality(s) <= n + 1
               PROVE  Fine(s)
    <3> HIDE DEF Fine
    <3> QED
      BY <1>1
  <2>0. \A t \in SUBSET S : Cardinality(t) <= n => Fine(t)
    OBVIOUS
  <2>1. CASE Cardinality(s) <= n
    BY <2>0, <2>1
  <2>2. CASE Cardinality(s) = n + 1
    <3> DEFINE c == Choice(s)
    <3>1. s # {}
      <4>1. n + 1 # 0 /\ Cardinality({}) = 0
        BY <1>1, FS_EmptySet
      <4> QED
        BY <2>2, <4>1
    <3>2. c \in s
      BY <3>1 DEF Choice
    <3>3. g[s] = f[c] + g[s \ {c}]
      BY <1>4, <3>1
    <3>4. g[s \ {c}] \in Nat /\ f[c] \in Nat
      BY <1>1, <1>3, <2>0, <2>2, <3>2
    <3> HIDE DEF c
    <3>5. ASSUME NEW x \in s PROVE g[s] = f[x] + g[s \ {x}]
      <4>1. CASE x = c
        BY <3>3, <4>1
      <4>2. CASE x # c
        <5> DEFINE sc == s \ {c}
                   sx == s \ {x}
        <5>1. sc \in SUBSET S /\ sx \in SUBSET S /\ x \in sc /\ c \in sx
          BY <3>2, <4>2
        <5>2. Cardinality(sc) <= n /\ Cardinality(sx) <= n
          BY <1>1, <1>3, <2>2, <3>2
        <5>3. g[sc] = f[x] + g[sc \ {x}] /\ g[sx] = f[c] + g[sx \ {c}]
          BY <2>0, <5>1, <5>2
        <5>4. sc \ {x} = sx \ {c}
          OBVIOUS
        <5> HIDE DEF sc, sx
        <5>5. sc \ {x} \in SUBSET S /\ Cardinality(sc \ {x}) <= n
          BY <1>1, <1>2, <1>3, <5>1, <5>2
        <5>6. g[sc \ {x}] \in Nat /\ f[x] \in Nat
          BY <1>3, <2>0, <5>5
        <5>7. g[s] = f[c] + g[sc] /\ g[sx] = f[c] + g[sc \ {x}]
          BY <3>3, <5>3, <5>4 DEF sc
        <5>8. f[c] + (f[x] + g[sc \ {x}]) = f[x] + (f[c] + g[sc \ {x}])
          BY <3>4, <5>6
        <5>9. g[s] = f[x] + g[sx]
          BY <5>3, <5>7, <5>8
        <5> QED
          BY <5>9 DEF sx
      <4> QED
        BY <4>1, <4>2
    <3>6. g[s] \in Nat
      BY <3>3, <3>4
    <3> QED
      BY <3>5, <3>6
  <2>3. Cardinality(s) <= n \/ Cardinality(s) = n + 1
    BY <1>1, <1>2
  <2> QED
    BY <2>1, <2>2, <2>3
<1>8. Cardinality(S) \in T
  <2> HIDE DEF T
  <2> QED
    BY <1>1, <1>6, <1>7, UpTo
<1>9. \A s \in SUBSET S : Fine(s)
  BY <1>2, <1>8
<1> QED
  BY <1>5, <1>9

\* A total is nothing for the empty set, and otherwise an element and the total without it.
Adding(F, f, S) ==
  /\ \A s \in SUBSET S : F[s] \in Nat
  /\ F[{}] = 0
  /\ \A s \in SUBSET S : \A x \in s : F[s] = f[x] + F[s \ {x}]

LEMMA TotalsAdd ==
  ASSUME NEW S, IsFiniteSet(S), NEW f \in [S -> Nat]
  PROVE  Adding(Totals(f), f, S)
<1>1. Adds(Totals(f), f, S)
  <2>1. DOMAIN f = S
    OBVIOUS
  <2>2. \E g : Adds(g, f, S)
    BY AdderExists
  <2> QED
    BY <2>1, <2>2, Zenon DEF Totals
<1>2. /\ \A s \in SUBSET S : Totals(f)[s] \in Nat
      /\ Totals(f)[{}] = 0
      /\ \A s \in SUBSET S : \A x \in s : Totals(f)[s] = f[x] + Totals(f)[s \ {x}]
  BY <1>1, SumWithout
<1> QED
  BY <1>2 DEF Adding

(* Induction on a finite set, one element at a time. *)
LEMMA OneByOne ==
  ASSUME NEW S, IsFiniteSet(S), NEW P, {} \in P,
         \A s \in SUBSET S : \A x \in S \ s : s \in P => s \cup {x} \in P
  PROVE  S \in P
<1> DEFINE T == {n \in 0..Cardinality(S) : \A s \in SUBSET S : Cardinality(s) = n => s \in P}
<1>1. Cardinality(S) \in Nat
  BY FS_CardinalityType
<1>2. \A s \in SUBSET S : IsFiniteSet(s) /\ Cardinality(s) \in Nat /\ Cardinality(s) <= Cardinality(S)
  BY FS_Subset, FS_CardinalityType
<1>3. 0 \in T
  <2>1. \A s \in SUBSET S : Cardinality(s) = 0 => s = {}
    BY <1>2, FS_EmptySet
  <2>2. \A s \in SUBSET S : Cardinality(s) = 0 => s \in P
    BY <2>1, Zenon
  <2>3. 0 \in 0..Cardinality(S)
    BY <1>1
  <2> QED
    BY <2>2, <2>3
<1>4. \A n \in 0..Cardinality(S) : n \in T /\ n < Cardinality(S) => n + 1 \in T
  <2> SUFFICES ASSUME NEW n \in 0..Cardinality(S), n \in T, n < Cardinality(S),
                      NEW s \in SUBSET S, Cardinality(s) = n + 1
               PROVE  s \in P
    BY <1>1
  <2>1. s # {}
    <3>1. n + 1 # 0 /\ Cardinality({}) = 0
      BY <1>1, FS_EmptySet
    <3> QED
      BY <3>1
  <2>2. PICK x \in s : TRUE
    BY <2>1
  <2> DEFINE u == s \ {x}
  <2>3. u \in SUBSET S /\ x \in S \ u /\ s = u \cup {x}
    OBVIOUS
  <2>5. Cardinality(u) = n
    <3>1. IsFiniteSet(s)
      BY <1>2
    <3>2. Cardinality(u) = Cardinality(s) - 1
      BY <3>1, FS_RemoveElement
    <3> QED
      BY <1>1, <3>2
  <2>4. u \in P
    BY <2>3, <2>5
  <2> HIDE DEF u
  <2> QED
    BY <2>3, <2>4
<1>5. Cardinality(S) \in T
  <2> HIDE DEF T
  <2> QED
    BY <1>1, <1>3, <1>4, UpTo
<1> QED
  BY <1>5

(* The sum over two disjoint parts. *)
LEMMA SumOfParts ==
  ASSUME NEW S, IsFiniteSet(S), NEW f \in [S -> Nat],
         NEW s \in SUBSET S, NEW t \in SUBSET S, s \cap t = {}
  PROVE  Totals(f)[s \cup t] = Totals(f)[s] + Totals(f)[t]
<1> DEFINE G == Totals(f)
           P == {u \in SUBSET t : G[s \cup u] = G[s] + G[u]}
<1>1. /\ \A u \in SUBSET S : G[u] \in Nat
      /\ G[{}] = 0
      /\ \A u \in SUBSET S : \A x \in u : G[u] = f[x] + G[u \ {x}]
  BY TotalsAdd DEF Adding
<1> HIDE DEF G
<1>2. {} \in P
  <2>1. s \cup {} = s
    OBVIOUS
  <2> QED
    BY <1>1, <2>1
<1>3. ASSUME NEW u \in SUBSET t, NEW x \in t \ u, u \in P PROVE u \cup {x} \in P
  <2> DEFINE a == s \cup (u \cup {x})
             b == u \cup {x}
  <2>1. a \in SUBSET S /\ b \in SUBSET S /\ x \in a /\ x \in b /\ a \ {x} = s \cup u /\ b \ {x} = u
    OBVIOUS
  <2> HIDE DEF a, b
  <2>2. G[a] = f[x] + G[s \cup u] /\ G[b] = f[x] + G[u]
    BY <1>1, <2>1
  <2>3. G[s \cup u] = G[s] + G[u] /\ G[s] \in Nat /\ G[u] \in Nat /\ f[x] \in Nat
    BY <1>1, <1>3
  <2>4. G[a] = G[s] + G[b]
    BY <2>2, <2>3
  <2> QED
    BY <2>4 DEF a, b
<1>4. IsFiniteSet(t)
  BY FS_Subset
<1>5. t \in P
  <2> HIDE DEF P
  <2> QED
    BY <1>2, <1>3, <1>4, OneByOne
<1> QED
  BY <1>5 DEF G

\* e gives the elements of T the values f gives those of u, which is part of S, one for one.
Renames(h, e, T, f, u, S) ==
  /\ IsFiniteSet(T) /\ e \in [T -> Nat] /\ IsFiniteSet(S) /\ f \in [S -> Nat] /\ u \in SUBSET S
  /\ h \in [T -> u] /\ \A x, y \in T : h[x] = h[y] => x = y
  /\ \A y \in u : \E x \in T : h[x] = y
  /\ \A x \in T : e[x] = f[h[x]]

(* The sum after the elements were given other names. *)
LEMMA SumRenamed ==
  ASSUME NEW h, NEW e, NEW T, NEW f, NEW u0, NEW S, Renames(h, e, T, f, u0, S)
  PROVE  Totals(e)[T] = Totals(f)[u0]
<1>14. IsFiniteSet(T) /\ e \in [T -> Nat] /\ IsFiniteSet(S) /\ f \in [S -> Nat]
  BY DEF Renames
<1>0. /\ h \in [T -> S] /\ \A x, y \in T : h[x] = h[y] => x = y
      /\ \A x \in T : e[x] = f[h[x]]
      /\ {h[x] : x \in T} = u0
  BY DEF Renames
<1> DEFINE F == Totals(f)
           E == Totals(e)
           Im(u) == {h[x] : x \in u}
           P == {u \in SUBSET T : E[u] = F[Im(u)]}
<1>1. /\ \A u \in SUBSET S : F[u] \in Nat
      /\ F[{}] = 0
      /\ \A u \in SUBSET S : \A x \in u : F[u] = f[x] + F[u \ {x}]
  <2>1. Adding(Totals(f), f, S)
    BY <1>14, TotalsAdd
  <2> QED
    BY <2>1 DEF Adding
<1>2. /\ \A u \in SUBSET T : E[u] \in Nat
      /\ E[{}] = 0
      /\ \A u \in SUBSET T : \A x \in u : E[u] = e[x] + E[u \ {x}]
  <2>1. Adding(Totals(e), e, T)
    BY <1>14, TotalsAdd
  <2> QED
    BY <2>1 DEF Adding
<1> HIDE DEF F, E
<1>3. {} \in P
  <2>1. Im({}) = {}
    OBVIOUS
  <2> QED
    BY <1>1, <1>2, <2>1
<1>4. ASSUME NEW u \in SUBSET T, NEW x \in T \ u, u \in P PROVE u \cup {x} \in P
  <2> DEFINE v == u \cup {x}
  <2>1. v \in SUBSET T /\ x \in v /\ v \ {x} = u
    OBVIOUS
  <2>2. Im(v) \in SUBSET S /\ h[x] \in Im(v) /\ Im(v) \ {h[x]} = Im(u)
    BY <1>0
  <2>3. E[u] = F[Im(u)]
    BY <1>4
  <2> HIDE DEF v, Im
  <2>4. E[v] = e[x] + E[u]
    BY <1>2, <2>1
  <2>6. F[Im(v)] = f[h[x]] + F[Im(u)]
    BY <1>1, <2>2
  <2>5. E[v] = F[Im(v)]
    BY <1>0, <2>3, <2>4, <2>6
  <2> QED
    BY <2>1, <2>5 DEF v
<1>5. T \in P
  <2> HIDE DEF P
  <2> QED
    BY <1>14, <1>3, <1>4, OneByOne
<1> QED
  BY <1>0, <1>5 DEF E, F
(* There is one sum. *)
LEMMA SumUnique ==
  ASSUME NEW S, IsFiniteSet(S), NEW f \in [S -> Nat], NEW g, Adds(g, f, S)
  PROVE  g[S] = Totals(f)[S]
<1> DEFINE G == Totals(f)
           P == {u \in SUBSET S : g[u] = G[u]}
<1>1. /\ G[{}] = 0
      /\ \A u \in SUBSET S : \A x \in u : G[u] = f[x] + G[u \ {x}]
  BY TotalsAdd DEF Adding
<1>2. /\ \A u \in SUBSET S : g[u] \in Nat
      /\ g[{}] = 0
      /\ \A u \in SUBSET S : \A x \in u : g[u] = f[x] + g[u \ {x}]
  <2> HIDE DEF G, P
  <2> QED
    BY SumWithout
<1> HIDE DEF G
<1>3. {} \in P
  BY <1>1, <1>2
<1>4. ASSUME NEW u \in SUBSET S, NEW x \in S \ u, u \in P PROVE u \cup {x} \in P
  <2> DEFINE v == u \cup {x}
  <2>1. v \in SUBSET S /\ x \in v /\ v \ {x} = u
    OBVIOUS
  <2> HIDE DEF v
  <2>2. g[v] = f[x] + g[u] /\ G[v] = f[x] + G[u]
    BY <1>1, <1>2, <2>1
  <2> QED
    BY <1>4, <2>1, <2>2 DEF v
<1>5. S \in P
  <2> HIDE DEF P
  <2> QED
    BY <1>3, <1>4, OneByOne
<1> QED
  BY <1>5 DEF G
============================================================================
