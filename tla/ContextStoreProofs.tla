------------------------- MODULE ContextStoreProofs -------------------------
(* Theorems about ContextStore and the Summariser that works on it, for any sessions,
   principals, writers, rounds, limits and batch size. *)
EXTENDS Summariser, Induction, FiniteSetTheorems, SequenceTheorems, TLAPS

---------------------------------------------------------------------------
(* Transcripts *)

TokensOf(rows) == [i \in DOMAIN rows |-> rows[i].tokens]

LEMMA RowsFinite ==
  ASSUME NEW rows \in Seq(Row)
  PROVE  /\ Len(rows) \in Nat /\ DOMAIN rows = 1..Len(rows)
         /\ IsFiniteSet(DOMAIN rows) /\ Cardinality(DOMAIN rows) = Len(rows)
         /\ \A i \in DOMAIN rows : rows[i] \in Row
         /\ TokensOf(rows) \in [DOMAIN rows -> Nat]
<1>1. Len(rows) \in Nat /\ DOMAIN rows = 1..Len(rows)
  OBVIOUS
<1>2. IsFiniteSet(1..Len(rows)) /\ Cardinality(1..Len(rows)) = Len(rows)
  BY <1>1, FS_Interval
<1>3. \A i \in DOMAIN rows : rows[i] \in Row
  BY <1>1
<1>4. TokensOf(rows) \in [DOMAIN rows -> Nat]
  BY <1>3 DEF TokensOf, Row
<1> QED
  BY <1>1, <1>2, <1>3, <1>4

(* What the header's total is compared with. *)
LEMMA SumTokensIs ==
  ASSUME NEW rows \in Seq(Row)
  PROVE  /\ SumTokens(rows) = Totals(TokensOf(rows))[DOMAIN rows]
         /\ Log!SumTokens(rows) = SumTokens(rows)
<1> DEFINE D == DOMAIN rows
           f == TokensOf(rows)
           G(g) == g = [s \in SUBSET D |-> IF s = {} THEN 0
                                         ELSE rows[Choice(s)].tokens + g[s \ {Choice(s)}]]
<1>1. SumTokens(rows) = (CHOOSE g : G(g))[D]
  BY Zenon DEF SumTokens, MapThenSumSet, MapThenFoldSet, Choice
<1>2. Log!SumTokens(rows) = (CHOOSE g : G(g))[D]
  BY Zenon DEF Log!SumTokens, Log!MapThenSumSet, Log!MapThenFoldSet, Choice
<1>3. IsFiniteSet(D) /\ f \in [D -> Nat]
  BY RowsFinite
<1>4. \A s \in SUBSET D : s # {} => f[Choice(s)] = rows[Choice(s)].tokens
  BY DEF Choice, TokensOf
<1>5. \A g : Adds(g, f, D) <=> G(g)
  <2> TAKE g
  <2> HIDE DEF f, D
  <2>1. [s \in SUBSET D |-> IF s = {} THEN 0 ELSE rows[Choice(s)].tokens + g[s \ {Choice(s)}]]
        = [s \in SUBSET D |-> IF s = {} THEN 0 ELSE f[Choice(s)] + g[s \ {Choice(s)}]]
    BY <1>4
  <2> QED
    BY <2>1 DEF Adds
<1>6. \E g : Adds(g, f, D)
  BY <1>3, AdderExists
<1> HIDE DEF G, D, f
<1>7. Adds(CHOOSE g : G(g), f, D)
  BY <1>5, <1>6, Zenon
<1>8. (CHOOSE g : G(g))[D] = Totals(f)[D]
  BY <1>3, <1>7, SumUnique
<1> QED
  BY <1>1, <1>2, <1>8 DEF f, D

(* The rows at the places of S, in order: they are read through a strictly increasing
   enumeration of S. *)
LEMMA InOrderReads ==
  ASSUME NEW rows \in Seq(Row), NEW S \in SUBSET DOMAIN rows
  PROVE  /\ IsFiniteSet(S) /\ Cardinality(S) \in Nat /\ Cardinality(S) <= Len(rows)
         /\ InOrder(rows, S) \in Seq(Row) /\ Len(InOrder(rows, S)) = Cardinality(S)
         /\ \E h \in [1..Cardinality(S) -> S] :
              /\ \A i \in 1..Cardinality(S) : InOrder(rows, S)[i] = rows[h[i]]
              /\ \A i, k \in 1..Cardinality(S) : i < k => h[i] < h[k]
              /\ {h[i] : i \in 1..Cardinality(S)} = S
<1> DEFINE c == Cardinality(S)
           Below(n) == {m \in S : m < n}
           rank == [n \in S |-> Cardinality(Below(n))]
           h == [i \in 1..c |-> CHOOSE n \in S : Cardinality({m \in S : m < n}) = i - 1]
<1>1. IsFiniteSet(S) /\ c \in Nat /\ c <= Len(rows) /\ S \subseteq Nat
  BY RowsFinite, FS_Subset, FS_CardinalityType
<1>2. \A n \in S : IsFiniteSet(Below(n)) /\ Cardinality(Below(n)) \in Nat
  BY <1>1, FS_Subset, FS_CardinalityType
<1>3. ASSUME NEW n \in S PROVE rank[n] \in 0..(c - 1)
  <2>1. Below(n) \in SUBSET (S \ {n})
    BY <1>1
  <2>2. IsFiniteSet(S \ {n}) /\ Cardinality(S \ {n}) = c - 1
    BY <1>1, FS_RemoveElement
  <2>3. Cardinality(Below(n)) <= Cardinality(S \ {n})
    <3> HIDE DEF Below
    <3> QED
      BY <2>1, <2>2, FS_Subset
  <2> HIDE DEF Below
  <2> QED
    BY <1>1, <1>2, <2>2, <2>3
<1>4. ASSUME NEW n \in S, NEW k \in S, n < k PROVE rank[n] < rank[k]
  <2>1. Below(n) \cup {n} \in SUBSET Below(k) /\ n \notin Below(n)
    BY <1>1, <1>4
  <2> HIDE DEF Below
  <2>2. Cardinality(Below(n) \cup {n}) = Cardinality(Below(n)) + 1
    BY <1>2, <2>1, FS_AddElement
  <2>3. Cardinality(Below(n) \cup {n}) <= Cardinality(Below(k))
    BY <1>2, <2>1, FS_Subset
  <2> QED
    BY <1>2, <2>2, <2>3
<1>5. \A n, k \in S : rank[n] = rank[k] => n = k
  <2> SUFFICES ASSUME NEW n \in S, NEW k \in S, rank[n] = rank[k], n # k PROVE FALSE
    OBVIOUS
  <2>1. n < k \/ k < n
    BY <1>1
  <2> HIDE DEF rank
  <2> QED
    BY <1>3, <1>4, <2>1
<1>6. \A i \in 1..c : \E n \in S : rank[n] = i - 1
  <2> HIDE DEF rank
  <2>1. rank \in Injection(S, 0..(c - 1))
    <3>1. rank \in [S -> 0..(c - 1)] /\ DOMAIN rank = S
      BY <1>3 DEF rank
    <3> QED
      BY <1>5, <3>1 DEF Injection, IsInjective
  <2>2. IsFiniteSet(0..(c - 1)) /\ Cardinality(0..(c - 1)) = c
    <3> HIDE DEF c
    <3>1. c - 1 \in Int /\ (IF 0 > c - 1 THEN 0 ELSE (c - 1) - 0 + 1) = c
      BY <1>1
    <3> QED
      BY <3>1, FS_Interval
  <2>3. rank \in Surjection(S, 0..(c - 1))
    BY <2>1, <2>2, FS_Injection
  <2>4. \A i \in 1..c : i - 1 \in 0..(c - 1)
    BY <1>1
  <2> QED
    BY <2>3, <2>4 DEF Surjection
<1>7. \A i \in 1..c : h[i] \in S /\ rank[h[i]] = i - 1
  <2> SUFFICES ASSUME NEW i \in 1..c PROVE h[i] \in S /\ rank[h[i]] = i - 1
    OBVIOUS
  <2>1. \E n \in S : Cardinality({m \in S : m < n}) = i - 1
    BY <1>6
  <2>2. h[i] \in S /\ Cardinality({m \in S : m < h[i]}) = i - 1
    BY <2>1
  <2> QED
    BY <2>2
<1>8. h \in [1..c -> S]
  BY <1>7
<1>9. \A i \in 1..c : InOrder(rows, S)[i] = rows[h[i]]
  BY DEF InOrder
<1>10. InOrder(rows, S) \in [1..c -> Row]
  <2> HIDE DEF h
  <2>1. \A i \in 1..c : rows[h[i]] \in Row
    BY <1>7, RowsFinite
  <2> QED
    BY <1>9, <2>1 DEF InOrder
<1>11. InOrder(rows, S) \in Seq(Row) /\ Len(InOrder(rows, S)) = c
  BY <1>1, <1>10
<1>12. \A i, k \in 1..c : i < k => h[i] < h[k]
  <2> SUFFICES ASSUME NEW i \in 1..c, NEW k \in 1..c, i < k, ~(h[i] < h[k]) PROVE FALSE
    OBVIOUS
  <2> HIDE DEF h, rank
  <2>1. h[i] \in S /\ h[k] \in S /\ rank[h[i]] = i - 1 /\ rank[h[k]] = k - 1
    BY <1>7
  <2>2. h[i] = h[k] \/ h[k] < h[i]
    BY <1>1, <2>1
  <2>3. ~(rank[h[k]] < rank[h[i]]) /\ rank[h[i]] # rank[h[k]]
    BY <1>1, <2>1
  <2> QED
    BY <1>4, <2>1, <2>2, <2>3
<1>13. {h[i] : i \in 1..c} = S
  <2> HIDE DEF h, rank
  <2>1. ASSUME NEW n \in S PROVE \E i \in 1..c : h[i] = n
    <3>1. rank[n] \in 0..(c - 1)
      BY <1>3
    <3>2. rank[n] + 1 \in 1..c /\ (rank[n] + 1) - 1 = rank[n]
      BY <1>1, <3>1
    <3>3. rank[h[rank[n] + 1]] = rank[n] /\ h[rank[n] + 1] \in S
      BY <1>7, <3>2
    <3> QED
      BY <1>5, <3>2, <3>3
  <2> QED
    BY <1>7, <2>1
<1> HIDE DEF h
<1> QED
  BY <1>1, <1>8, <1>9, <1>11, <1>12, <1>13

(* What compaction takes off the header's total. *)
LEMMA ReclaimedIs ==
  ASSUME NEW doomed \in SUBSET Row, IsFiniteSet(doomed)
  PROVE  Reclaimed(doomed) = Totals([r \in doomed |-> r.tokens])[doomed]
<1> DEFINE f == [r \in doomed |-> r.tokens]
           G(g) == g = [s \in SUBSET doomed |->
                          IF s = {} THEN 0 ELSE Choice(s).tokens + g[s \ {Choice(s)}]]
<1>1. Reclaimed(doomed) = (CHOOSE g : G(g))[doomed]
  BY Zenon DEF Reclaimed, MapThenSumSet, MapThenFoldSet, Choice
<1>2. f \in [doomed -> Nat]
  BY DEF Row
<1>3. \A s \in SUBSET doomed : s # {} => f[Choice(s)] = Choice(s).tokens
  BY DEF Choice
<1>4. \A g : Adds(g, f, doomed) <=> G(g)
  <2> TAKE g
  <2> HIDE DEF f
  <2>1. [s \in SUBSET doomed |-> IF s = {} THEN 0 ELSE Choice(s).tokens + g[s \ {Choice(s)}]]
        = [s \in SUBSET doomed |-> IF s = {} THEN 0 ELSE f[Choice(s)] + g[s \ {Choice(s)}]]
    BY <1>3
  <2> QED
    BY <2>1 DEF Adds
<1>5. \E g : Adds(g, f, doomed)
  BY <1>2, AdderExists
<1> HIDE DEF G, f
<1>6. Adds(CHOOSE g : G(g), f, doomed)
  BY <1>4, <1>5, Zenon
<1>7. (CHOOSE g : G(g))[doomed] = Totals(f)[doomed]
  BY <1>2, <1>6, SumUnique
<1> QED
  BY <1>1, <1>7 DEF f

LEMMA SumIsNat ==
  ASSUME NEW rows \in Seq(Row)
  PROVE  SumTokens(rows) \in Nat /\ SumTokens(<< >>) = 0
<1>1. SumTokens(rows) \in Nat
  <2>1. IsFiniteSet(DOMAIN rows) /\ TokensOf(rows) \in [DOMAIN rows -> Nat]
    BY RowsFinite
  <2>2. Totals(TokensOf(rows))[DOMAIN rows] \in Nat
    BY <2>1, TotalsAdd DEF Adding
  <2> QED
    BY <2>2, SumTokensIs
<1>2. SumTokens(<< >>) = 0
  <2>1. << >> \in Seq(Row) /\ DOMAIN << >> = {}
    OBVIOUS
  <2>2. IsFiniteSet(DOMAIN << >>) /\ TokensOf(<< >>) \in [DOMAIN << >> -> Nat]
    BY <2>1, RowsFinite
  <2>3. Totals(TokensOf(<< >>))[{}] = 0
    BY <2>2, TotalsAdd DEF Adding
  <2> QED
    BY <2>1, <2>3, SumTokensIs
<1> QED
  BY <1>1, <1>2

(* One more row. *)
LEMMA AppendedRow ==
  ASSUME NEW rows \in Seq(Row), NEW r \in Row
  PROVE  /\ Append(rows, r) \in Seq(Row) /\ Len(Append(rows, r)) = Len(rows) + 1
         /\ DOMAIN Append(rows, r) = (DOMAIN rows) \cup {Len(rows) + 1}
         /\ \A i \in DOMAIN rows : Append(rows, r)[i] = rows[i] /\ i < Len(rows) + 1
         /\ Append(rows, r)[Len(rows) + 1] = r
         /\ SumTokens(Append(rows, r)) = SumTokens(rows) + r.tokens
<1> DEFINE n == Len(rows)
           more == Append(rows, r)
           D == DOMAIN rows
           M == DOMAIN more
           f == TokensOf(rows)
           m == TokensOf(more)
           h == [i \in D |-> i]
<1>1. n \in Nat /\ D = 1..n /\ IsFiniteSet(D) /\ f \in [D -> Nat]
  BY RowsFinite
<1>2. /\ more \in Seq(Row) /\ Len(more) = n + 1 /\ M = 1..(n + 1)
      /\ \A i \in 1..n : more[i] = rows[i]
      /\ more[n + 1] = r
  BY <1>1, AppendProperties
<1>3. M = D \cup {n + 1} /\ n + 1 \notin D /\ \A i \in D : i < n + 1
  BY <1>1, <1>2
<1>4. IsFiniteSet(M) /\ m \in [M -> Nat]
  BY <1>2, RowsFinite
<1>5. m[n + 1] = r.tokens /\ \A i \in D : f[i] = m[h[i]]
  BY <1>1, <1>2, <1>3 DEF TokensOf
<1>6. Renames(h, f, D, m, D, M) /\ D \in SUBSET M /\ M \ {n + 1} = D
  BY <1>1, <1>3, <1>4, <1>5 DEF Renames
<1> HIDE DEF h, m, f, M, D, more, n
<1>7. Adding(Totals(m), m, M)
  BY <1>4, TotalsAdd
<1>8. Totals(f)[D] = Totals(m)[D]
  BY <1>6, SumRenamed
<1>9. Totals(m)[M] = m[n + 1] + Totals(m)[D] /\ Totals(m)[D] \in Nat
  BY <1>3, <1>6, <1>7 DEF Adding
<1>10. SumTokens(more) = Totals(m)[M] /\ SumTokens(rows) = Totals(f)[D]
  BY <1>2, SumTokensIs DEF m, M, f, D
<1>11. r.tokens \in Nat
  BY DEF Row
<1>12. SumTokens(more) = SumTokens(rows) + r.tokens
  BY <1>5, <1>8, <1>9, <1>10, <1>11
<1> QED
  BY <1>1, <1>2, <1>3, <1>12 DEF n, more, D, M

\* The keys of a session's rows: their places ascend with their sequence numbers.
Ascending(rows) == \A i, j \in DOMAIN rows : i < j => rows[i].seq < rows[j].seq

Removed(rows, K) == {rows[i] : i \in (DOMAIN rows) \ K}

(* What is left when the rows outside K are removed. *)
LEMMA RowsLeft ==
  ASSUME NEW rows \in Seq(Row), Ascending(rows), NEW K \in SUBSET DOMAIN rows
  PROVE  /\ InOrder(rows, K) \in Seq(Row) /\ Ascending(InOrder(rows, K))
         /\ Len(InOrder(rows, K)) = Len(rows) - Cardinality(Removed(rows, K))
         /\ Len(InOrder(rows, K)) <= Len(rows)
         /\ SumTokens(InOrder(rows, K)) = SumTokens(rows) - Reclaimed(Removed(rows, K))
         /\ \A i \in DOMAIN InOrder(rows, K) : \E k \in K : InOrder(rows, K)[i] = rows[k]
         /\ \A k \in K : \E i \in DOMAIN InOrder(rows, K) : InOrder(rows, K)[i] = rows[k]
<1> DEFINE D == DOMAIN rows
           R == D \ K
           left == InOrder(rows, K)
           L == DOMAIN left
           gone == Removed(rows, K)
           tok == TokensOf(rows)
           e == [i \in R |-> rows[i].tokens]
           g == [i \in R |-> rows[i]]
           i0 == [i \in R |-> i]
           cost == [r \in gone |-> r.tokens]
<1>1. /\ D = 1..Len(rows) /\ IsFiniteSet(D) /\ Cardinality(D) = Len(rows) /\ Len(rows) \in Nat
      /\ tok \in [D -> Nat] /\ \A i \in D : rows[i] \in Row
  BY RowsFinite
<1>2. /\ left \in Seq(Row) /\ Len(left) = Cardinality(K) /\ Len(left) <= Len(rows)
      /\ IsFiniteSet(K) /\ Cardinality(K) \in Nat
  BY InOrderReads
<1>3. PICK h \in [1..Cardinality(K) -> K] :
              /\ \A i \in 1..Cardinality(K) : left[i] = rows[h[i]]
              /\ \A i, k \in 1..Cardinality(K) : i < k => h[i] < h[k]
              /\ {h[i] : i \in 1..Cardinality(K)} = K
  BY InOrderReads
<1>4. /\ L = 1..Cardinality(K) /\ IsFiniteSet(L) /\ TokensOf(left) \in [L -> Nat]
  BY <1>2, RowsFinite
<1>5. \A i, j \in D : rows[i] = rows[j] => i = j
  <2> SUFFICES ASSUME NEW i \in D, NEW j \in D, rows[i] = rows[j], i # j PROVE FALSE
    OBVIOUS
  <2>1. i < j \/ j < i
    BY <1>1
  <2>2. rows[i].seq < rows[j].seq \/ rows[j].seq < rows[i].seq
    BY <2>1 DEF Ascending
  <2>3. rows[i].seq \in Nat
    BY <1>1 DEF Row
  <2> QED
    BY <2>2, <2>3
<1>6. IsFiniteSet(R) /\ Cardinality(R) = Len(rows) - Cardinality(K)
  <2>1. D \cap K = K
    OBVIOUS
  <2>2. IsFiniteSet(R) /\ Cardinality(R) = Cardinality(D) - Cardinality(D \cap K)
    BY <1>1, FS_Difference
  <2> QED
    BY <1>1, <2>1, <2>2
<1>7. IsFiniteSet(gone) /\ Cardinality(gone) = Cardinality(R)
  <2>1. g \in [R -> gone] /\ (\A y \in gone : \E x \in R : g[x] = y) /\ DOMAIN g = R
    BY DEF Removed
  <2>2. \A x, y \in R : g[x] = g[y] => x = y
    BY <1>5
  <2> HIDE DEF g, R, gone
  <2>3. g \in Bijection(R, gone)
    BY <2>1, <2>2 DEF Bijection, Injection, Surjection, IsInjective
  <2>4. ExistsBijection(R, gone)
    BY <2>3 DEF ExistsBijection
  <2> QED
    BY <1>6, <2>4, FS_Bijection
<1>8. Len(left) = Len(rows) - Cardinality(gone)
  <2> HIDE DEF left, gone
  <2> QED
    BY <1>1, <1>2, <1>6, <1>7
<1>9. Totals(TokensOf(left))[L] = Totals(tok)[K]
  <2>1. \A i \in L : TokensOf(left)[i] = tok[h[i]]
    BY <1>3, <1>4 DEF TokensOf
  <2>2. \A x, y \in L : h[x] = h[y] => x = y
    <3> SUFFICES ASSUME NEW x \in L, NEW y \in L, h[x] = h[y], x # y PROVE FALSE
      OBVIOUS
    <3>1. x < y \/ y < x
      BY <1>4
    <3>2. h[x] < h[y] \/ h[y] < h[x]
      BY <1>3, <1>4, <3>1
    <3>3. h[x] \in D
      BY <1>3, <1>4
    <3> QED
      BY <1>1, <3>2, <3>3
  <2>3. h \in [L -> K] /\ \A y \in K : \E x \in L : h[x] = y
    BY <1>3, <1>4
  <2> HIDE DEF L, left, tok, D
  <2>4. Renames(h, TokensOf(left), L, tok, K, D)
    BY <1>1, <1>4, <2>1, <2>2, <2>3 DEF Renames, D
  <2> QED
    BY <2>4, SumRenamed
<1>10. e \in [R -> Nat] /\ cost \in [gone -> Nat] /\ gone \subseteq Row
  BY <1>1 DEF Row, Removed
<1>11. Totals(e)[R] = Totals(tok)[R]
  <2>1. \A i \in R : e[i] = tok[i0[i]]
    BY DEF TokensOf
  <2>2. Renames(i0, e, R, tok, R, D)
    BY <1>1, <1>6, <1>10, <2>1 DEF Renames
  <2> QED
    BY <2>2, SumRenamed
<1>12. Totals(e)[R] = Totals(cost)[gone]
  <2>1. \A i \in R : g[i] \in gone /\ e[i] = cost[g[i]]
    BY DEF Removed
  <2>2. \A x, y \in R : g[x] = g[y] => x = y
    BY <1>5
  <2>3. g \in [R -> gone] /\ (\A y \in gone : \E x \in R : g[x] = y)
    BY DEF Removed
  <2> HIDE DEF gone, g, e, cost, R
  <2>4. Renames(g, e, R, cost, gone, gone)
    BY <1>6, <1>7, <1>10, <2>1, <2>2, <2>3 DEF Renames
  <2> QED
    BY <2>4, SumRenamed
<1>13. Totals(tok)[D] = Totals(tok)[K] + Totals(tok)[R]
  <2>1. K \cup R = D /\ K \cap R = {} /\ R \in SUBSET D /\ K \in SUBSET D
    OBVIOUS
  <2> HIDE DEF R, tok, D
  <2>2. Totals(tok)[K \cup R] = Totals(tok)[K] + Totals(tok)[R]
    BY <1>1, <2>1, SumOfParts
  <2> QED
    BY <2>1, <2>2
<1>14. Totals(tok)[K] \in Nat /\ Totals(tok)[R] \in Nat
  <2>1. R \in SUBSET D /\ K \in SUBSET D
    OBVIOUS
  <2> HIDE DEF R, tok, D
  <2>2. Adding(Totals(tok), tok, D)
    BY <1>1, TotalsAdd
  <2> QED
    BY <2>1, <2>2 DEF Adding
<1>15. SumTokens(left) = SumTokens(rows) - Reclaimed(gone)
  <2>1. SumTokens(left) = Totals(TokensOf(left))[L] /\ SumTokens(rows) = Totals(tok)[D]
    BY <1>2, SumTokensIs
  <2>2. Reclaimed(gone) = Totals(cost)[gone]
    BY <1>7, <1>10, ReclaimedIs
  <2> HIDE DEF left, gone, L, tok, D, e, R, cost
  <2>3. \A m, n \in Nat : m = (m + n) - n
    OBVIOUS
  <2>4. Totals(tok)[K] = (Totals(tok)[K] + Totals(tok)[R]) - Totals(tok)[R]
    BY <1>14, <2>3
  <2> QED
    BY <1>9, <1>11, <1>12, <1>13, <2>1, <2>2, <2>4, Zenon
<1>16. Ascending(left)
  <2> SUFFICES ASSUME NEW i \in L, NEW j \in L, i < j PROVE left[i].seq < left[j].seq
    BY DEF Ascending
  <2>1. h[i] < h[j] /\ h[i] \in D /\ h[j] \in D
    BY <1>3, <1>4
  <2>2. left[i] = rows[h[i]] /\ left[j] = rows[h[j]]
    BY <1>3, <1>4
  <2> HIDE DEF left
  <2> QED
    BY <2>1, <2>2 DEF Ascending
<1>17. /\ \A i \in L : \E k \in K : left[i] = rows[k]
       /\ \A k \in K : \E i \in L : left[i] = rows[k]
  <2> HIDE DEF left, L
  <2> QED
    BY <1>3, <1>4
<1> QED
  BY <1>2, <1>8, <1>15, <1>16, <1>17

---------------------------------------------------------------------------
(* The tables.  The invariant takes TablesAgree apart: what a header says of its session's
   rows, what the table of ids says of all rows, what the two indexes say of the headers. *)

TablesTyped ==
  /\ sessions \in [Sessions -> Header \cup {NoSession}]
  /\ records \in [Sessions -> Seq(Row)]
  /\ used \in Nat

\* A header counts its rows, and a session without one has none.
Counted(h, rows) ==
  /\ h = NoSession => rows = << >>
  /\ h # NoSession => /\ h.records = Len(rows) /\ h.tokens = SumTokens(rows)
                      /\ h.records <= MaxRecords
                      /\ \A i \in DOMAIN rows : rows[i].seq < h.next
                      /\ Ascending(rows)

AllCounted == \A s \in Sessions : Counted(sessions[s], records[s])

Keys(s, rows) == {<<s, rows[i].id, rows[i].seq>> : i \in DOMAIN rows}

IdsNameRows == ids = UNION {Keys(s, records[s]) : s \in Sessions}

Indexes ==
  /\ by_owner = {<<sessions[s].owner, s>> : s \in HeldSessions}
  /\ by_updated = {<<sessions[s].updated, s>> : s \in HeldSessions}

TablesInv == TablesTyped /\ AllCounted /\ IdsNameRows /\ (open => Indexes)

(* The tables in that form are what TablesAgree asks for. *)
LEMMA TablesInvSuffices == TablesInv => TablesAgree
<1> SUFFICES ASSUME TablesInv PROVE TablesAgree
  OBVIOUS
<1>1. open => /\ by_owner = {<<sessions[s].owner, s>> : s \in HeldSessions}
              /\ by_updated = {<<sessions[s].updated, s>> : s \in HeldSessions}
  BY DEF TablesInv, Indexes
<1>2. ids = UNION {{<<s, records[s][i].id, records[s][i].seq>> : i \in DOMAIN records[s]} :
                 s \in Sessions}
  BY DEF TablesInv, IdsNameRows, Keys
<1>3. \A s \in HeldSessions :
       /\ sessions[s].records = Len(records[s])
       /\ sessions[s].tokens = SumTokens(records[s])
       /\ \A i \in DOMAIN records[s] : records[s][i].seq < sessions[s].next
       /\ \A i, j \in DOMAIN records[s] : i < j => records[s][i].seq < records[s][j].seq
       /\ sessions[s].records <= MaxRecords
  BY DEF TablesInv, AllCounted, Counted, HeldSessions, Ascending
<1>4. \A s \in Sessions \ HeldSessions : records[s] = <<>>
  BY DEF TablesInv, AllCounted, Counted, HeldSessions
<1>5. \A s \in Sessions, x \in ids : get(s, x[2]) # "corrupt"
  <2> SUFFICES ASSUME NEW s \in Sessions, NEW x \in ids, get(s, x[2]) = "corrupt" PROVE FALSE
    OBVIOUS
  <2> DEFINE hit == {y \in ids : y[1] = s /\ y[2] = x[2]}
  <2>1. hit # {} /\ ~ \E i \in DOMAIN records[s], y \in hit : records[s][i].seq = y[3]
    BY DEF get
  <2>2. PICK y \in hit : TRUE
    BY <2>1
  <2>3. PICK t \in Sessions : y \in Keys(t, records[t])
    BY <2>2 DEF TablesInv, IdsNameRows
  <2>4. PICK i \in DOMAIN records[t] : y = <<t, records[t][i].id, records[t][i].seq>>
    BY <2>3 DEF Keys
  <2>5. t = s /\ y[3] = records[t][i].seq
    BY <2>2, <2>4
  <2> QED
    BY <2>1, <2>2, <2>5
<1>6. open => \A p \in Principals : Nothing \notin sessions_listed(p)
  <2> SUFFICES ASSUME open, NEW p \in Principals, Nothing \in sessions_listed(p) PROVE FALSE
    OBVIOUS
  <2>1. PICK x \in by_owner : Nothing = IF sessions[x[2]] = NoSession THEN Nothing ELSE x[2]
    BY DEF sessions_listed
  <2>2. PICK s \in HeldSessions : x = <<sessions[s].owner, s>>
    BY <1>1, <2>1
  <2>3. x[2] = s /\ s \in Sessions /\ sessions[s] # NoSession
    BY <2>2 DEF HeldSessions
  <2> QED
    BY <2>1, <2>3, ContextAssumption
<1> QED
  BY <1>1, <1>2, <1>3, <1>4, <1>5, <1>6 DEF TablesAgree

(* One session's header and rows change; the others, and their keys, do not. *)
LEMMA OneSessionChanges ==
  ASSUME TablesTyped, AllCounted, NEW s \in Sessions, NEW h \in Header \cup {NoSession},
         NEW rows \in Seq(Row), Counted(h, rows),
         sessions' = [sessions EXCEPT ![s] = h], records' = [records EXCEPT ![s] = rows]
  PROVE  /\ AllCounted'
         /\ \A t \in Sessions : /\ sessions'[t] = IF t = s THEN h ELSE sessions[t]
                                /\ records'[t] = IF t = s THEN rows ELSE records[t]
         /\ sessions' \in [Sessions -> Header \cup {NoSession}]
         /\ records' \in [Sessions -> Seq(Row)]
<1>1. \A t \in Sessions : /\ sessions'[t] = IF t = s THEN h ELSE sessions[t]
                          /\ records'[t] = IF t = s THEN rows ELSE records[t]
  BY DEF TablesTyped
<1>2. AllCounted'
  BY <1>1 DEF AllCounted
<1>3. sessions' \in [Sessions -> Header \cup {NoSession}] /\ records' \in [Sessions -> Seq(Row)]
  BY DEF TablesTyped
<1> QED
  BY <1>1, <1>2, <1>3

(* The ids follow the rows of the one session. *)
LEMMA IdsFollow ==
  ASSUME IdsNameRows, NEW s \in Sessions, NEW rows,
         \A t \in Sessions : records'[t] = IF t = s THEN rows ELSE records[t],
         \A x : x \in ids' <=> (x \in ids /\ x[1] # s) \/ x \in Keys(s, rows)
  PROVE  IdsNameRows'
<1>1. \A x : x \in ids <=> \E t \in Sessions : x \in Keys(t, records[t])
  BY DEF IdsNameRows
<1>2. \A t \in Sessions : \A x \in Keys(t, records[t]) : x[1] = t
  BY DEF Keys
<1>3. \A x : x \in ids' <=> \E t \in Sessions : x \in Keys(t, records'[t])
  <2> SUFFICES ASSUME NEW x
               PROVE  x \in ids' <=> \E t \in Sessions : x \in Keys(t, records'[t])
    OBVIOUS
  <2>1. ASSUME x \in ids' PROVE \E t \in Sessions : x \in Keys(t, records'[t])
    <3>1. CASE x \in Keys(s, rows)
      BY <3>1
    <3>2. CASE x \in ids /\ x[1] # s
      <4>1. PICK t \in Sessions : x \in Keys(t, records[t])
        BY <1>1, <3>2
      <4>2. t # s
        BY <1>2, <3>2, <4>1
      <4> QED
        BY <4>1, <4>2
    <3> QED
      BY <2>1, <3>1, <3>2
  <2>2. ASSUME NEW t \in Sessions, x \in Keys(t, records'[t]) PROVE x \in ids'
    <3>1. CASE t = s
      BY <2>2, <3>1
    <3>2. CASE t # s
      <4>1. x \in Keys(t, records[t])
        BY <2>2, <3>2
      <4>2. x \in ids /\ x[1] # s
        BY <1>1, <1>2, <3>2, <4>1
      <4> QED
        BY <4>2
    <3> QED
      BY <3>1, <3>2
  <2> QED
    BY <2>1, <2>2
<1> QED
  BY <1>3 DEF IdsNameRows

(* append_blocking() *)
LEMMA AppendKeeps ==
  ASSUME TablesInv, Indexes, NEW s \in Sessions, NEW p \in Principals, NEW e \in Entry,
         NEW at \in Nat, append_blocking(s, p, e, at)
  PROVE  TablesTyped' /\ AllCounted' /\ IdsNameRows' /\ Indexes'
<1> DEFINE h == HeaderFor(s, p, at)
           id == used + 1
           r == StoredRecord(e, id, h.next, p, at)
           rows == Append(records[s], r)
           new == [h EXCEPT !.next = @ + 1, !.records = @ + 1, !.tokens = @ + e.tokens, !.updated = at]
<1>1. /\ records' = [records EXCEPT ![s] = rows] /\ sessions' = [sessions EXCEPT ![s] = new]
      /\ ids' = ids \cup {<<s, id, h.next>>} /\ used' = id
      /\ by_owner' = IF sessions[s] = NoSession THEN by_owner \cup {<<h.owner, s>>} ELSE by_owner
      /\ by_updated' = Reindexed(s, h, at)
  <2>1. records' = [records EXCEPT ![s] = rows]
    BY DEF append_blocking, TablesInv, TablesTyped
  <2> QED
    BY <2>1 DEF append_blocking
<1>2. MayAppend(s, p)
  BY DEF append_blocking
<1>3. /\ records[s] \in Seq(Row) /\ used \in Nat /\ Counted(sessions[s], records[s])
      /\ sessions[s] \in Header \cup {NoSession}
  BY DEF TablesInv, TablesTyped, AllCounted
<1>4. /\ h \in Header /\ h.records = Len(records[s]) /\ h.tokens = SumTokens(records[s])
      /\ h.records < MaxRecords
      /\ (\A i \in DOMAIN records[s] : records[s][i].seq < h.next) /\ Ascending(records[s])
      /\ (sessions[s] # NoSession => h = sessions[s])
  <2>1. CASE sessions[s] = NoSession
    <3>1. records[s] = << >> /\ h = SessionHeader(p, at)
      BY <1>3, <2>1 DEF Counted, HeaderFor
    <3>2. SumTokens(<< >>) = 0
      BY <1>3, SumIsNat
    <3>3. h.records < MaxRecords
      BY <1>2, <2>1, <3>1 DEF MayAppend, HeaderFor, SessionHeader
    <3>4. h \in Header /\ h.records = 0 /\ h.tokens = 0
      BY <3>1 DEF SessionHeader, Header
    <3> QED
      BY <2>1, <3>1, <3>2, <3>3, <3>4 DEF Ascending
  <2>2. CASE sessions[s] # NoSession
    BY <1>2, <1>3, <2>2 DEF Counted, HeaderFor, MayAppend
  <2> QED
    BY <2>1, <2>2
<1> HIDE DEF h
<1>5. /\ h.owner \in Principals /\ h.created \in Nat /\ h.updated \in Nat /\ h.next \in Nat
      /\ h.records \in Nat /\ h.tokens \in Nat /\ e.tokens \in Nat
  BY <1>4 DEF Header, Entry
<1>6. /\ new \in Header /\ new.next = h.next + 1 /\ new.records = h.records + 1
      /\ new.tokens = h.tokens + e.tokens /\ new.updated = at /\ new.owner = h.owner
      /\ new # NoSession
  <2>1. /\ new \in Header /\ new.next = h.next + 1 /\ new.records = h.records + 1
        /\ new.tokens = h.tokens + e.tokens /\ new.updated = at /\ new.owner = h.owner
    <3> DEFINE n == h.next + 1
               k == h.records + 1
               t == h.tokens + e.tokens
    <3>1. n \in Nat /\ k \in Nat /\ t \in Nat
      BY <1>5
    <3>2. new = [h EXCEPT !.next = n, !.records = k, !.tokens = t, !.updated = at]
      OBVIOUS
    <3> HIDE DEF n, k, t
    <3>3. /\ new \in Header /\ new.next = n /\ new.records = k
          /\ new.tokens = t /\ new.updated = at /\ new.owner = h.owner
      BY <1>4, <3>1, <3>2 DEF Header
    <3> QED
      BY <3>3 DEF n, k, t
  <2>2. NoSession \notin Header
    BY ContextAssumption DEF Header
  <2> QED
    BY <2>1, <2>2
<1>7. r \in Row /\ r.seq = h.next /\ r.id = id /\ r.tokens = e.tokens
  BY <1>3, <1>5 DEF Row, StoredRecord, Entry
<1> HIDE DEF new, r
<1>8. /\ rows \in Seq(Row) /\ Len(rows) = Len(records[s]) + 1
      /\ DOMAIN rows = (DOMAIN records[s]) \cup {Len(records[s]) + 1}
      /\ \A i \in DOMAIN records[s] : rows[i] = records[s][i] /\ i < Len(records[s]) + 1
      /\ rows[Len(records[s]) + 1] = r
      /\ SumTokens(rows) = SumTokens(records[s]) + r.tokens
  BY <1>3, <1>7, AppendedRow
<1>9. Len(records[s]) \in Nat /\ DOMAIN records[s] = 1..Len(records[s])
  BY <1>3, RowsFinite
<1>10. \A i \in DOMAIN records[s] : records[s][i].seq \in Nat
  BY <1>3, RowsFinite DEF Row
<1> HIDE DEF rows
<1>11. Counted(new, rows)
  <2>1. \A i \in DOMAIN rows : rows[i].seq < new.next
    BY <1>4, <1>5, <1>6, <1>7, <1>8, <1>10
  <2>2. Ascending(rows)
    <3> SUFFICES ASSUME NEW i \in DOMAIN rows, NEW j \in DOMAIN rows, i < j
                 PROVE  rows[i].seq < rows[j].seq
      BY DEF Ascending
    <3>1. i \in DOMAIN records[s]
      BY <1>8, <1>9
    <3>2. CASE j \in DOMAIN records[s]
      BY <1>4, <1>8, <3>1, <3>2 DEF Ascending
    <3>3. CASE j = Len(records[s]) + 1
      BY <1>4, <1>7, <1>8, <3>1, <3>3
    <3> QED
      BY <1>8, <3>2, <3>3
  <2>3. new.records = Len(rows) /\ new.records <= MaxRecords
    BY <1>4, <1>5, <1>6, <1>8, ContextAssumption
  <2>4. new.tokens = SumTokens(rows)
    BY <1>4, <1>6, <1>7, <1>8
  <2> QED
    BY <1>6, <2>1, <2>2, <2>3, <2>4 DEF Counted
<1>12. /\ AllCounted'
       /\ \A t \in Sessions : /\ sessions'[t] = IF t = s THEN new ELSE sessions[t]
                              /\ records'[t] = IF t = s THEN rows ELSE records[t]
       /\ sessions' \in [Sessions -> Header \cup {NoSession}]
       /\ records' \in [Sessions -> Seq(Row)]
  BY <1>1, <1>6, <1>8, <1>11, OneSessionChanges DEF TablesInv
<1>13. TablesTyped'
  BY <1>1, <1>3, <1>12 DEF TablesTyped
<1>14. IdsNameRows'
  <2>1. \A x : x \in Keys(s, rows) <=> x \in Keys(s, records[s]) \/ x = <<s, id, h.next>>
    <3>1. Keys(s, rows) = Keys(s, records[s]) \cup {<<s, r.id, r.seq>>}
      BY <1>8 DEF Keys
    <3> QED
      BY <1>7, <3>1
  <2>2. \A x : x \in Keys(s, records[s]) <=> x \in ids /\ x[1] = s
    <3>1. \A x : x \in ids <=> \E t \in Sessions : x \in Keys(t, records[t])
      BY DEF TablesInv, IdsNameRows
    <3>2. \A t \in Sessions : \A x \in Keys(t, records[t]) : x[1] = t
      BY DEF Keys
    <3> QED
      BY <3>1, <3>2
  <2>3. \A x : x \in ids' <=> (x \in ids /\ x[1] # s) \/ x \in Keys(s, rows)
    BY <1>1, <2>1, <2>2
  <2> QED
    BY <1>12, <2>3, IdsFollow DEF TablesInv
<1>15. HeldSessions' = HeldSessions \cup {s}
  BY <1>6, <1>12 DEF HeldSessions
<1>16. \A t \in HeldSessions : t # s => sessions'[t] = sessions[t] /\ t \in Sessions
  BY <1>12 DEF HeldSessions
<1>17. sessions'[s] = new
  BY <1>12
<1>18. by_owner' = {<<sessions'[t].owner, t>> : t \in HeldSessions'}
  <2>0. by_owner = {<<sessions[t].owner, t>> : t \in HeldSessions}
    BY DEF Indexes
  <2>1. CASE sessions[s] = NoSession
    <3>1. s \notin HeldSessions
      BY <2>1 DEF HeldSessions
    <3> QED
      BY <1>1, <1>6, <1>15, <1>16, <1>17, <2>0, <2>1, <3>1
  <2>2. CASE sessions[s] # NoSession
    <3>1. s \in HeldSessions /\ sessions[s].owner = new.owner
      BY <1>4, <1>6, <2>2 DEF HeldSessions
    <3> QED
      BY <1>1, <1>15, <1>16, <1>17, <2>0, <2>2, <3>1
  <2> QED
    BY <2>1, <2>2
<1>19. by_updated' = {<<sessions'[t].updated, t>> : t \in HeldSessions'}
  <2>0. by_updated = {<<sessions[t].updated, t>> : t \in HeldSessions}
    BY DEF Indexes
  <2>1. CASE sessions[s] = NoSession
    <3>1. s \notin HeldSessions /\ by_updated' = by_updated \cup {<<at, s>>}
      BY <1>1, <2>1 DEF HeldSessions, Reindexed
    <3> QED
      BY <1>6, <1>15, <1>16, <1>17, <2>0, <3>1
  <2>2. CASE sessions[s] # NoSession
    <3>1. s \in HeldSessions /\ sessions[s].updated = h.updated
      BY <1>4, <2>2 DEF HeldSessions
    <3>2. CASE h.updated = at
      <4>1. by_updated' = by_updated \cup {<<at, s>>}
        BY <1>1, <3>2 DEF Reindexed
      <4> QED
        BY <1>6, <1>15, <1>16, <1>17, <2>0, <3>1, <3>2, <4>1
    <3>3. CASE h.updated # at
      <4>1. by_updated' = (by_updated \ {<<h.updated, s>>}) \cup {<<at, s>>}
        BY <1>1, <2>2, <3>3 DEF Reindexed
      <4> QED
        BY <1>6, <1>15, <1>16, <1>17, <2>0, <3>1, <4>1
    <3> QED
      BY <3>2, <3>3
  <2> QED
    BY <2>1, <2>2
<1> QED
  BY <1>12, <1>13, <1>14, <1>18, <1>19 DEF Indexes

(* remove_session_rows(), for a clear and for a batch of a sweep *)
LEMMA RemoveKeeps ==
  ASSUME TablesInv, Indexes, NEW gone \in SUBSET HeldSessions, remove_session_rows(gone),
         UNCHANGED used
  PROVE  TablesTyped' /\ AllCounted' /\ IdsNameRows' /\ Indexes'
<1> USE DEF remove_session_rows
<1>1. \A s \in Sessions : /\ sessions'[s] = IF s \in gone THEN NoSession ELSE sessions[s]
                          /\ records'[s] = IF s \in gone THEN << >> ELSE records[s]
  OBVIOUS
<1>2. TablesTyped'
  <2>1. << >> \in Seq(Row)
    OBVIOUS
  <2> QED
    BY <2>1 DEF TablesInv, TablesTyped
<1>3. AllCounted'
  BY <1>1 DEF TablesInv, AllCounted, Counted
<1>4. IdsNameRows'
  <2>1. \A x : x \in ids <=> \E t \in Sessions : x \in Keys(t, records[t])
    BY DEF TablesInv, IdsNameRows
  <2>2. \A t \in Sessions : \A x \in Keys(t, records[t]) : x[1] = t
    BY DEF Keys
  <2>3. \A t : Keys(t, << >>) = {}
    BY DEF Keys
  <2>4. \A x : x \in ids' <=> \E t \in Sessions : x \in Keys(t, records'[t])
    <3> SUFFICES ASSUME NEW x
                 PROVE  x \in ids' <=> \E t \in Sessions : x \in Keys(t, records'[t])
      OBVIOUS
    <3>1. x \in ids' <=> x \in ids /\ x[1] \notin gone
      OBVIOUS
    <3>2. ASSUME x \in ids' PROVE \E t \in Sessions : x \in Keys(t, records'[t])
      BY <1>1, <2>1, <2>2, <3>1, <3>2
    <3>3. ASSUME NEW t \in Sessions, x \in Keys(t, records'[t]) PROVE x \in ids'
      <4>1. t \notin gone /\ x \in Keys(t, records[t])
        BY <1>1, <2>3, <3>3
      <4> QED
        BY <2>1, <2>2, <3>1, <4>1
    <3> QED
      BY <3>2, <3>3
  <2> QED
    BY <2>4 DEF IdsNameRows
<1>5. HeldSessions' = HeldSessions \ gone
  BY <1>1 DEF HeldSessions
<1>6. \A t \in HeldSessions' : sessions'[t] = sessions[t]
  BY <1>1 DEF HeldSessions
<1>7. by_owner' = {<<sessions'[t].owner, t>> : t \in HeldSessions'}
  <2>1. by_owner = {<<sessions[t].owner, t>> : t \in HeldSessions}
    BY DEF Indexes
  <2>2. \A x \in by_owner : x \in by_owner' <=> x[2] \notin gone
    BY <2>1
  <2>3. by_owner' \subseteq by_owner
    OBVIOUS
  <2> HIDE DEF remove_session_rows
  <2>4. ASSUME NEW x \in by_owner' PROVE \E t \in HeldSessions' : x = <<sessions'[t].owner, t>>
    <3>1. PICK t \in HeldSessions : x = <<sessions[t].owner, t>>
      BY <2>1, <2>3
    <3>2. t \notin gone
      BY <2>2, <2>3, <3>1
    <3> QED
      BY <1>5, <1>6, <3>1, <3>2
  <2>5. ASSUME NEW t \in HeldSessions' PROVE <<sessions'[t].owner, t>> \in by_owner'
    BY <1>5, <1>6, <2>1, <2>2
  <2> QED
    BY <2>4, <2>5
<1>8. by_updated' = {<<sessions'[t].updated, t>> : t \in HeldSessions'}
  <2>1. by_updated = {<<sessions[t].updated, t>> : t \in HeldSessions}
    BY DEF Indexes
  <2>2. \A x \in by_updated : x \in by_updated' <=> x[2] \notin gone
    BY <2>1
  <2>3. by_updated' \subseteq by_updated
    OBVIOUS
  <2> HIDE DEF remove_session_rows
  <2>4. ASSUME NEW x \in by_updated' PROVE \E t \in HeldSessions' : x = <<sessions'[t].updated, t>>
    <3>1. PICK t \in HeldSessions : x = <<sessions[t].updated, t>>
      BY <2>1, <2>3
    <3>2. t \notin gone
      BY <2>2, <2>3, <3>1
    <3> QED
      BY <1>5, <1>6, <3>1, <3>2
  <2>5. ASSUME NEW t \in HeldSessions' PROVE <<sessions'[t].updated, t>> \in by_updated'
    BY <1>5, <1>6, <2>1, <2>2
  <2> QED
    BY <2>4, <2>5
<1> QED
  BY <1>2, <1>3, <1>4, <1>7, <1>8 DEF Indexes

\* The places of the rows compaction keeps.
Kept(s, keep) == {i \in DOMAIN records[s] : records[s][i] \notin Doomed(s, keep)}

(* Keys are distinct, so the rows that go are those that are not kept. *)
LEMMA DoomedRows ==
  ASSUME NEW s \in Sessions, NEW keep
  PROVE  Doomed(s, keep) = Removed(records[s], Kept(s, keep))
BY DEF Doomed, Removed, Kept, read_session

(* compact_blocking() *)
(* What a compaction makes of a session's header: the totals of the rows it leaves. *)
LEMMA CompactedIs ==
  ASSUME TablesInv, NEW s \in HeldSessions, NEW keep
  PROVE  LET left == InOrder(records[s], Kept(s, keep))
             h == sessions[s]
             new == CompactedHeader(h, Doomed(s, keep))
         IN  /\ new \in Header /\ new.records = Len(left) /\ new.tokens = SumTokens(left)
             /\ new.next = h.next /\ new.owner = h.owner /\ new.updated = h.updated
             /\ new.created = h.created
             /\ left \in Seq(Row) /\ Len(left) <= Len(records[s])
<1> DEFINE K == Kept(s, keep)
           doomed == Doomed(s, keep)
           rows == records[s]
           left == InOrder(rows, K)
           h == sessions[s]
           new == CompactedHeader(h, doomed)
<1>1. s \in Sessions /\ h \in Header /\ rows \in Seq(Row) /\ Counted(h, rows) /\ h # NoSession
  BY DEF HeldSessions, TablesInv, TablesTyped, AllCounted
<1>2. Ascending(rows) /\ K \in SUBSET DOMAIN rows
  BY <1>1 DEF Counted, Kept
<1>3. /\ left \in Seq(Row) /\ Len(left) <= Len(rows)
      /\ Len(left) = Len(rows) - Cardinality(doomed)
      /\ SumTokens(left) = SumTokens(rows) - Reclaimed(doomed)
  <2>1. doomed = Removed(rows, K)
    BY <1>1, DoomedRows
  <2> HIDE DEF doomed, K, rows
  <2> QED
    BY <1>1, <1>2, <2>1, RowsLeft
<1> HIDE DEF left, doomed, K
<1>4. /\ new \in Header /\ new.records = Len(left) /\ new.tokens = SumTokens(left)
      /\ new.next = h.next /\ new.owner = h.owner /\ new.updated = h.updated
      /\ new.created = h.created
  <2> DEFINE n == h.records - Cardinality(doomed)
             t == h.tokens - Reclaimed(doomed)
  <2>1. n = Len(left) /\ t = SumTokens(left)
    BY <1>1, <1>3 DEF Counted
  <2>2. n \in Nat /\ t \in Nat
    BY <1>3, <2>1, RowsFinite, SumIsNat
  <2>3. new = [h EXCEPT !.records = n, !.tokens = t]
    BY DEF CompactedHeader
  <2> HIDE DEF n, t, new, h
  <2>4. /\ new \in Header /\ new.records = n /\ new.tokens = t
        /\ new.next = h.next /\ new.owner = h.owner /\ new.updated = h.updated
        /\ new.created = h.created
    BY <1>1, <2>2, <2>3 DEF Header
  <2> QED
    BY <2>1, <2>4
<1> QED
  BY <1>3, <1>4 DEF left, doomed, K

LEMMA CompactKeeps ==
  ASSUME TablesInv, NEW s \in HeldSessions, NEW keep, compact_blocking(s, keep), UNCHANGED used
  PROVE  TablesTyped' /\ AllCounted' /\ IdsNameRows' /\ (Indexes => Indexes')
<1> DEFINE K == Kept(s, keep)
           doomed == Doomed(s, keep)
           rows == records[s]
           left == InOrder(rows, K)
           h == sessions[s]
           new == CompactedHeader(h, doomed)
<1>1. s \in Sessions /\ h \in Header /\ rows \in Seq(Row) /\ Counted(h, rows) /\ h # NoSession
  BY DEF HeldSessions, TablesInv, TablesTyped, AllCounted
<1>2. /\ records' = [records EXCEPT ![s] = left] /\ sessions' = [sessions EXCEPT ![s] = new]
      /\ ids' = ids \ {<<s, r.id, r.seq>> : r \in doomed} /\ UNCHANGED <<by_owner, by_updated>>
  BY <1>1 DEF compact_blocking, Kept, TablesInv, TablesTyped
<1>3. Ascending(rows) /\ K \in SUBSET DOMAIN rows
  BY <1>1 DEF Counted, Kept
<1>4. /\ left \in Seq(Row) /\ Ascending(left)
      /\ Len(left) = Len(rows) - Cardinality(doomed)
      /\ Len(left) <= Len(rows)
      /\ SumTokens(left) = SumTokens(rows) - Reclaimed(doomed)
      /\ \A i \in DOMAIN left : \E k \in K : left[i] = rows[k]
      /\ \A k \in K : \E i \in DOMAIN left : left[i] = rows[k]
  <2>1. doomed = Removed(rows, K)
    BY <1>1, DoomedRows
  <2> HIDE DEF doomed, K, rows
  <2> QED
    BY <1>1, <1>3, <2>1, RowsLeft
<1>5. doomed = {rows[i] : i \in (DOMAIN rows) \ K} /\ \A i \in K : rows[i] \notin doomed
  <2>1. doomed = Removed(rows, K)
    BY <1>1, DoomedRows
  <2> QED
    BY <2>1 DEF Removed, Kept
<1>6. \A i \in DOMAIN rows : rows[i].seq \in Nat
  BY <1>1, RowsFinite DEF Row
<1>7. \A i, j \in DOMAIN rows : rows[i].seq = rows[j].seq => i = j
  <2> SUFFICES ASSUME NEW i \in DOMAIN rows, NEW j \in DOMAIN rows, rows[i].seq = rows[j].seq, i # j
               PROVE  FALSE
    OBVIOUS
  <2>1. i < j \/ j < i
    BY <1>1, RowsFinite
  <2> QED
    BY <1>3, <1>6, <2>1 DEF Ascending
<1> HIDE DEF left, doomed, K
<1>8. /\ new \in Header /\ new.records = Len(left) /\ new.tokens = SumTokens(left)
      /\ new.next = h.next /\ new.owner = h.owner /\ new.updated = h.updated
  BY CompactedIs DEF left, doomed, K
<1>9. new # NoSession
  BY <1>8, ContextAssumption DEF Header
<1> HIDE DEF new
<1>10. Counted(new, left)
  <2>1. \A i \in DOMAIN left : left[i].seq < new.next
    BY <1>1, <1>3, <1>4, <1>8 DEF Counted
  <2>2. new.records <= MaxRecords
    <3>1. Len(left) \in Nat /\ Len(rows) \in Nat /\ Len(rows) <= MaxRecords
      BY <1>1, <1>4, RowsFinite DEF Counted
    <3> QED
      BY <1>4, <1>8, <3>1, ContextAssumption
  <2> QED
    BY <1>4, <1>8, <1>9, <2>1, <2>2 DEF Counted
<1>11. /\ AllCounted'
       /\ \A t \in Sessions : /\ sessions'[t] = IF t = s THEN new ELSE sessions[t]
                              /\ records'[t] = IF t = s THEN left ELSE records[t]
       /\ sessions' \in [Sessions -> Header \cup {NoSession}]
       /\ records' \in [Sessions -> Seq(Row)]
  BY <1>1, <1>2, <1>4, <1>8, <1>10, OneSessionChanges DEF TablesInv
<1>12. TablesTyped'
  BY <1>11 DEF TablesTyped, TablesInv
<1>13. IdsNameRows'
  <2>1. \A x : x \in ids <=> \E t \in Sessions : x \in Keys(t, records[t])
    BY DEF TablesInv, IdsNameRows
  <2>2. \A t \in Sessions : \A x \in Keys(t, records[t]) : x[1] = t
    BY DEF Keys
  <2>3. \A x : x \in Keys(s, left) <=> \E i \in K : x = <<s, rows[i].id, rows[i].seq>>
    BY <1>4 DEF Keys
  <2>4. \A x : x \in {<<s, r.id, r.seq>> : r \in doomed} <=>
               \E i \in (DOMAIN rows) \ K : x = <<s, rows[i].id, rows[i].seq>>
    BY <1>5
  <2>5. \A x : x \in Keys(s, rows) <=> \E i \in DOMAIN rows : x = <<s, rows[i].id, rows[i].seq>>
    BY DEF Keys
  <2>6. \A x : x \in ids' <=> (x \in ids /\ x[1] # s) \/ x \in Keys(s, left)
    <3> SUFFICES ASSUME NEW x
                 PROVE  x \in ids' <=> (x \in ids /\ x[1] # s) \/ x \in Keys(s, left)
      OBVIOUS
    <3>1. CASE x \in ids /\ x[1] = s
      <4>1. PICK i \in DOMAIN rows : x = <<s, rows[i].id, rows[i].seq>>
        BY <1>1, <2>1, <2>2, <2>5, <3>1
      <4>2. \A j \in DOMAIN rows : x = <<s, rows[j].id, rows[j].seq>> => i = j
        BY <1>7, <4>1
      <4>3. x \in Keys(s, left) <=> i \in K
        BY <1>3, <2>3, <4>1, <4>2
      <4>4. x \in {<<s, r.id, r.seq>> : r \in doomed} <=> i \notin K
        BY <2>4, <4>1, <4>2
      <4> QED
        BY <1>2, <3>1, <4>3, <4>4
    <3>2. CASE x \in ids /\ x[1] # s
      <4>1. x \notin {<<s, r.id, r.seq>> : r \in doomed}
        BY <2>4, <3>2
      <4> QED
        BY <1>2, <3>2, <4>1
    <3>3. CASE x \notin ids
      <4>1. x \notin Keys(s, left)
        BY <1>1, <1>3, <2>1, <2>3, <2>5, <3>3
      <4> QED
        BY <1>2, <3>3, <4>1
    <3> QED
      BY <3>1, <3>2, <3>3
  <2> QED
    BY <1>1, <1>11, <2>6, IdsFollow DEF TablesInv
<1>14. HeldSessions' = HeldSessions
  BY <1>1, <1>9, <1>11 DEF HeldSessions
<1>15. \A t \in HeldSessions : sessions'[t].owner = sessions[t].owner /\ sessions'[t].updated = sessions[t].updated
  BY <1>8, <1>11 DEF HeldSessions
<1>16. Indexes => Indexes'
  BY <1>2, <1>14, <1>15 DEF Indexes
<1> QED
  BY <1>11, <1>12, <1>13, <1>16

---------------------------------------------------------------------------
(* plan(): what it says is a number, is one *)

LEMMA MaxOfTwo ==
  ASSUME NEW a \in Nat, NEW b \in Nat
  PROVE  Max({a, b}) \in Nat
<1>1. \E x \in {a, b} : \A y \in {a, b} : x >= y
  OBVIOUS
<1>2. Max({a, b}) \in {a, b}
  BY <1>1, Zenon DEF Max
<1> QED
  BY <1>2

LEMMA PartsOfRows ==
  ASSUME NEW rows \in Seq(Row)
  PROVE  /\ Unpinned(rows) \in SUBSET DOMAIN rows /\ Pinned(rows) \in SUBSET DOMAIN rows
         /\ Cardinality(Unpinned(rows)) \in Nat /\ Cardinality(Pinned(rows)) \in Nat
<1>1. Unpinned(rows) \in SUBSET DOMAIN rows /\ Pinned(rows) \in SUBSET DOMAIN rows
  BY DEF Unpinned, Pinned
<1> QED
  BY <1>1, RowsFinite, FS_Subset, FS_CardinalityType

LEMMA RetainedTyped ==
  ASSUME NEW rows \in Seq(Row), NEW budget \in Budgets
  PROVE  /\ retained(rows, budget) \in Nat
         /\ retained(rows, budget) <= Cardinality(Unpinned(rows))
<1> DEFINE U == Unpinned(rows)
           n == Cardinality(U)
           allowance == (Left(budget.max_tokens, CostOf(rows, Pinned(rows), Unlimited)) * RetainPercent) \div 100
           fitting == Cardinality({i \in U : CostOf(rows, {j \in U : j >= i}, Unlimited) <= allowance})
           wanted == {KeepRecent, n}
                     \cup (IF budget.max_records = Nothing THEN {}
                           ELSE {Left(budget.max_records, Cardinality(Pinned(rows)))})
                     \cup (IF budget.max_tokens = Nothing THEN {} ELSE {fitting})
           least == Max({Min(wanted), MinRetained})
<1>1. n \in Nat /\ Cardinality(Pinned(rows)) \in Nat /\ IsFiniteSet(U)
  BY PartsOfRows, RowsFinite, FS_Subset
<1>2. fitting \in Nat
  <2> DEFINE some == {i \in U : CostOf(rows, {j \in U : j >= i}, Unlimited) <= allowance}
  <2>1. some \in SUBSET U
    OBVIOUS
  <2> HIDE DEF some, U
  <2>2. IsFiniteSet(some)
    BY <1>1, <2>1, FS_Subset
  <2>3. Cardinality(some) \in Nat
    BY <2>2, FS_CardinalityType
  <2> QED
    BY <2>3 DEF some
<1>3. budget.max_records # Nothing => Left(budget.max_records, Cardinality(Pinned(rows))) \in Nat
  <2>1. budget.max_records \in Nat \cup {Nothing}
    BY SummariserAssumption
  <2> QED
    BY <1>1, <2>1 DEF Left
<1>4. KeepRecent \in Nat /\ MinRetained \in Nat
  BY SummaryAssumption
<1> HIDE DEF fitting, n
<1>5. wanted \in SUBSET Nat /\ wanted # {}
  BY <1>1, <1>2, <1>3, <1>4
<1> HIDE DEF wanted
<1>6. Min(wanted) \in Nat
  BY <1>5, MinOf
<1>7. least \in Nat
  BY <1>4, <1>6, MaxOfTwo
<1> HIDE DEF least
<1>8. Min({least, n}) \in {least, n} /\ \A y \in {least, n} : Min({least, n}) <= y
  <2>1. {least, n} \in SUBSET Nat /\ {least, n} # {}
    BY <1>1, <1>7
  <2> QED
    BY <2>1, MinOf
<1>9. retained(rows, budget) = Min({least, n})
  BY DEF retained, least, n, wanted, fitting
<1> QED
  BY <1>1, <1>7, <1>8, <1>9 DEF n

Progress == [n : Nat, body : Nat, full : BOOLEAN]

\* One candidate more.
Shown(was, r) ==
  IF was.full THEN was
  ELSE IF r.kind = "blank" THEN [was EXCEPT !.n = @ + 1]
  ELSE IF AtCap(was, r.tokens) THEN [was EXCEPT !.full = TRUE]
  ELSE [was EXCEPT !.n = @ + 1, !.body = IF @ = 0 THEN r.tokens ELSE @ + 1 + r.tokens]

LEMMA ShownTyped ==
  ASSUME NEW was \in Progress, NEW r \in Row
  PROVE  Shown(was, r) \in Progress /\ Shown(was, r).n \in {was.n, was.n + 1}
<1>1. was.n \in Nat /\ was.body \in Nat /\ was.full \in BOOLEAN /\ r.tokens \in Nat
  BY DEF Progress, Row
<1> DEFINE a == was.n + 1
           b == IF was.body = 0 THEN r.tokens ELSE was.body + 1 + r.tokens
<1>2. a \in Nat /\ b \in Nat
  BY <1>1
<1>3. Shown(was, r) \in {was, [was EXCEPT !.n = a], [was EXCEPT !.full = TRUE],
                         [was EXCEPT !.n = a, !.body = b]}
  BY DEF Shown
<1> HIDE DEF a, b
<1>4. [was EXCEPT !.n = a] \in Progress /\ [was EXCEPT !.n = a].n = a
  BY <1>2 DEF Progress
<1>5. [was EXCEPT !.full = TRUE] \in Progress /\ [was EXCEPT !.full = TRUE].n = was.n
  BY DEF Progress
<1>6. [was EXCEPT !.n = a, !.body = b] \in Progress /\ [was EXCEPT !.n = a, !.body = b].n = a
  BY <1>2 DEF Progress
<1> QED
  BY <1>3, <1>4, <1>5, <1>6 DEF a

(* The excerpt's recursion has a solution, and covers at most what it was given. *)
LEMMA ExcerptTyped ==
  ASSUME NEW c \in Seq(Row)
  PROVE  Excerpt(c) \in Progress /\ Excerpt(c).n <= Len(c)
<1> DEFINE N == Len(c)
           Zero == [n |-> 0, body |-> 0, full |-> FALSE]
           Solves(f, k) == f = [i \in 0..k |-> IF i = 0 THEN Zero ELSE Shown(f[i - 1], c[i])]
           S == {k \in 0..N : \E f : Solves(f, k)}
<1>1. N \in Nat /\ \A i \in 1..N : c[i] \in Row
  BY RowsFinite
<1>2. Zero \in Progress /\ Zero.n = 0
  BY DEF Progress
<1>3. 0 \in S
  <2> DEFINE f == [i \in 0..0 |-> Zero]
  <2>1. Solves(f, 0)
    OBVIOUS
  <2> HIDE DEF Solves, f
  <2> QED
    BY <1>1, <2>1
<1>4. \A k \in 0..N : k \in S /\ k < N => k + 1 \in S
  <2> SUFFICES ASSUME NEW k \in 0..N, k \in S, k < N PROVE k + 1 \in S
    OBVIOUS
  <2>1. PICK f : Solves(f, k)
    OBVIOUS
  <2> DEFINE g == [i \in 0..(k + 1) |-> IF i = k + 1 THEN Shown(f[k], c[k + 1]) ELSE f[i]]
  <2>2. k \in Nat /\ k + 1 \in 1..N /\ (k + 1) - 1 = k /\ k \in 0..k /\ k + 1 \in 0..N
    BY <1>1
  <2>3. g[k + 1] = Shown(f[k], c[k + 1]) /\ \A i \in 0..k : g[i] = f[i]
    BY <2>2
  <2>6. \A i \in 0..k : f[i] = IF i = 0 THEN Zero ELSE Shown(f[i - 1], c[i])
    BY <2>1
  <2>7. \A i \in 0..(k + 1) : g[i] = IF i = 0 THEN Zero ELSE Shown(g[i - 1], c[i])
    <3> SUFFICES ASSUME NEW i \in 0..(k + 1)
                 PROVE  g[i] = IF i = 0 THEN Zero ELSE Shown(g[i - 1], c[i])
      OBVIOUS
    <3> HIDE DEF g, Zero
    <3>1. CASE i = k + 1
      <4>1. g[k] = f[k] /\ i # 0 /\ i - 1 = k
        BY <2>2, <2>3, <3>1
      <4> QED
        BY <2>3, <3>1, <4>1
    <3>2. CASE i # k + 1
      <4>1. i \in 0..k /\ (i # 0 => i - 1 \in 0..k)
        BY <2>2, <3>2
      <4> QED
        BY <2>3, <2>6, <4>1
    <3> QED
      BY <3>1, <3>2
  <2>8. Solves(g, k + 1)
    <3>1. g = [i \in 0..(k + 1) |-> g[i]]
      OBVIOUS
    <3> HIDE DEF g, Zero
    <3> QED
      BY <2>7, <3>1
  <2> HIDE DEF g, Solves
  <2> QED
    BY <2>2, <2>8
<1>5. N \in S
  <2> HIDE DEF S, N
  <2>1. \A k \in 0..N : k \in S
    BY <1>1, <1>3, <1>4, UpTo
  <2> QED
    BY <1>1, <2>1
<1>6. PICK f : Solves(f, N)
  BY <1>5
<1> DEFINE x == CHOOSE g : Solves(g, N)
<1>7. Solves(x, N)
  <2> HIDE DEF Solves
  <2> QED
    BY <1>6, Zenon
<1>8. Excerpt(c) = x[N]
  BY Zenon DEF Excerpt, Shown
<1>9. \A i \in 0..N : x[i] = IF i = 0 THEN Zero ELSE Shown(x[i - 1], c[i])
  <2> HIDE DEF x, Zero
  <2> QED
    BY <1>7
<1>10. \A i \in 0..N : x[i] \in Progress /\ x[i].n <= i
  <2> DEFINE T == {i \in 0..N : x[i] \in Progress /\ x[i].n <= i}
  <2> HIDE DEF x
  <2>1. 0 \in T
    <3>1. x[0] = Zero
      BY <1>1, <1>9
    <3> QED
      BY <1>1, <1>2, <3>1
  <2>2. \A k \in 0..N : k \in T /\ k < N => k + 1 \in T
    <3> SUFFICES ASSUME NEW k \in 0..N, k \in T, k < N PROVE k + 1 \in T
      OBVIOUS
    <3>1. k \in Nat /\ k + 1 \in 0..N /\ (k + 1) - 1 = k /\ k + 1 # 0 /\ c[k + 1] \in Row
      BY <1>1
    <3>2. x[k + 1] = Shown(x[k], c[k + 1])
      BY <1>9, <3>1
    <3>3. x[k] \in Progress /\ x[k].n <= k /\ x[k].n \in Nat
      BY DEF Progress
    <3>4. Shown(x[k], c[k + 1]) \in Progress /\ Shown(x[k], c[k + 1]).n \in {x[k].n, x[k].n + 1}
      BY <3>1, <3>3, ShownTyped
    <3>5. x[k + 1].n <= k + 1
      BY <3>1, <3>2, <3>3, <3>4
    <3> QED
      BY <3>1, <3>2, <3>4, <3>5
  <2> HIDE DEF T
  <2>3. \A k \in 0..N : k \in T
    BY <1>1, <2>1, <2>2, UpTo
  <2> QED
    BY <2>3 DEF T
<1> QED
  BY <1>1, <1>8, <1>10
(* A plan's counts are numbers. *)
LEMMA PlanTyped ==
  ASSUME NEW rows \in Seq(Row), NEW budget \in Budgets, plan(rows, budget) # Nothing
  PROVE  plan(rows, budget).n \in Nat /\ plan(rows, budget).pinned \in Nat
<1> DEFINE U == InOrder(rows, Unpinned(rows))
           c == SubSeq(U, 1, Len(U) - retained(rows, budget))
<1>1. U \in Seq(Row) /\ Len(U) = Cardinality(Unpinned(rows))
  BY InOrderReads, PartsOfRows
<1>2. Len(U) - retained(rows, budget) \in 0..Len(U)
  <2> HIDE DEF U
  <2> QED
    BY <1>1, RetainedTyped
<1>3. c \in Seq(Row)
  <2> HIDE DEF U
  <2> QED
    BY <1>1, <1>2
<1>4. Excerpt(c).n \in Nat
  <2> HIDE DEF c
  <2> QED
    BY <1>3, ExcerptTyped DEF Progress
<1>5. plan(rows, budget).n = Excerpt(c).n /\ plan(rows, budget).pinned = Cardinality(Pinned(rows))
  BY DEF plan
<1> QED
  BY <1>4, <1>5, PartsOfRows

---------------------------------------------------------------------------
(* The inductive invariant: the tables, and what the calls and the rounds under way carry. *)

Pending == [s : Sessions, p : Principals, e : Entries, at : 0..MaxTime]

Served ==
  /\ now \in 0..MaxTime /\ open \in BOOLEAN
  /\ call \in [Writers -> Pending \cup {Nothing}]
  /\ sweep \in 0..MaxTime \cup {Nothing}
  /\ ~open => sweep = Nothing /\ \A w \in Writers : call[w] = Nothing

\* What a round has in hand, by the phase it is in.
Fits(q) ==
  /\ q.phase \in {"idle", "listed", "planned", "written", "recapped", "counted"}
  /\ q.phase = "idle" => q = Idle
  /\ q.phase # "idle" => open /\ q.s \in Sessions /\ q.p \in Principals
  /\ q.phase = "listed" => q.budget \in Budgets /\ q.rows \in Seq(Row)
  /\ q.phase \in {"planned", "written", "recapped", "counted"}
       => q.plan.n \in Nat /\ q.plan.pinned \in Nat
  /\ q.phase = "written" => q.at \in 0..MaxTime
  /\ q.phase = "counted" => q.keep \in 0..MaxRecords

RoundsFit == DOMAIN round = Rounds /\ \A r \in Rounds : Fits(round[r])

StoreInv == TablesInv /\ Served /\ RoundsFit

LEMMA EntriesTyped == Entries \subseteq Entry /\ Recap \in Entry
<1>1. "text" \in Kinds /\ "none" \in Calls /\ RecapTokens \in Nat
  BY SummariserAssumption DEF Kinds, Calls
<1> QED
  BY <1>1, ContextAssumption DEF Recap, Entry

LEMMA NothingIsApart ==
  /\ Nothing \notin Nat /\ Nothing \notin 0..MaxTime
  /\ MaxTime \in Nat \ {0} /\ MaxRecords \in Nat \ {0} /\ MaxIds \in Nat
BY ContextAssumption, SummaryAssumption

(* A new file, and one an older build wrote, before it is opened. *)
LEMMA InitHolds == Init => StoreInv
<1> SUFFICES ASSUME Init PROVE StoreInv
  OBVIOUS
<1>1. PICK old \in SUBSET Sessions, p \in Principals :
        /\ Cardinality(old) <= 1 /\ used = Cardinality(old)
        /\ sessions = [s \in Sessions |-> IF s \in old THEN LegacyHeader(p) ELSE NoSession]
        /\ records = [s \in Sessions |-> IF s \in old THEN <<LegacyRecord(p)>> ELSE <<>>]
        /\ ids = {<<s, 1, 0>> : s \in old}
  BY DEF Init, StoreInit
<1>2. /\ LegacyHeader(p) \in Header /\ LegacyHeader(p).records = 1 /\ LegacyHeader(p).tokens = 1
      /\ LegacyHeader(p).next = 1
  <2> DEFINE h == SessionHeader(p, 0)
  <2>1. h \in Header
    BY DEF Header, SessionHeader
  <2>2. LegacyHeader(p) = [h EXCEPT !.next = 1, !.records = 1, !.tokens = 1]
    BY DEF LegacyHeader
  <2>3. 1 \in Nat
    OBVIOUS
  <2> HIDE DEF h
  <2> QED
    BY <2>1, <2>2, <2>3, Zenon DEF Header
<1>3. LegacyRecord(p) = [kind |-> "text", call |-> "none", pinned |-> FALSE, tokens |-> 1,
                         id |-> 1, seq |-> 0, by |-> p, at |-> 0]
  BY DEF LegacyRecord, StoredRecord
<1>4. LegacyHeader(p) \in Header /\ LegacyRecord(p) \in Row
  <2>1. "text" \in Kinds /\ "none" \in Calls
    BY DEF Kinds, Calls
  <2>2. LegacyRecord(p) \in Row
    BY <1>3, <2>1 DEF Row
  <2> QED
    BY <1>2, <2>2
<1>5. LegacyHeader(p) # NoSession
  BY <1>4, ContextAssumption DEF Header
<1>6. Len(<<LegacyRecord(p)>>) = 1 /\ SumTokens(<<LegacyRecord(p)>>) = 1
  <2>1. <<LegacyRecord(p)>> = Append(<< >>, LegacyRecord(p)) /\ << >> \in Seq(Row)
    OBVIOUS
  <2>2. SumTokens(Append(<< >>, LegacyRecord(p))) = SumTokens(<< >>) + LegacyRecord(p).tokens
    BY <1>4, <2>1, AppendedRow
  <2>3. SumTokens(<< >>) = 0
    BY <2>1, SumIsNat, Zenon
  <2>4. LegacyRecord(p).tokens = 1
    BY <1>3
  <2> QED
    BY <2>1, <2>2, <2>3, <2>4
<1>7. Counted(LegacyHeader(p), <<LegacyRecord(p)>>)
  <2>1. \A i \in DOMAIN <<LegacyRecord(p)>> : i = 1 /\ <<LegacyRecord(p)>>[i].seq = 0
    BY <1>3
  <2>2. Ascending(<<LegacyRecord(p)>>)
    BY <2>1 DEF Ascending
  <2>3. /\ LegacyHeader(p).records = 1 /\ LegacyHeader(p).tokens = 1 /\ LegacyHeader(p).next = 1
    BY <1>2
  <2>4. 1 <= MaxRecords
    BY NothingIsApart
  <2> QED
    BY <1>5, <1>6, <2>1, <2>2, <2>3, <2>4 DEF Counted
<1>8. Counted(NoSession, << >>)
  BY DEF Counted
<1>9. TablesTyped
  <2>1. used \in Nat
    BY <1>1, FS_Subset, FS_CardinalityType, ContextAssumption
  <2> QED
    BY <1>1, <1>4, <2>1 DEF TablesTyped
<1>10. AllCounted
  BY <1>1, <1>7, <1>8, Zenon DEF AllCounted
<1>11. IdsNameRows
  <2>1. \A s \in Sessions : Keys(s, records[s]) = IF s \in old THEN {<<s, 1, 0>>} ELSE {}
    <3> SUFFICES ASSUME NEW s \in Sessions
                 PROVE  Keys(s, records[s]) = IF s \in old THEN {<<s, 1, 0>>} ELSE {}
      OBVIOUS
    <3>1. CASE s \in old
      <4>1. records[s] = <<LegacyRecord(p)>> /\ DOMAIN records[s] = {1}
        BY <1>1, <3>1
      <4>2. records[s][1].id = 1 /\ records[s][1].seq = 0
        BY <1>3, <4>1
      <4> QED
        BY <3>1, <4>1, <4>2 DEF Keys
    <3>2. CASE s \notin old
      BY <1>1, <3>2 DEF Keys
    <3> QED
      BY <3>1, <3>2
  <2>2. \A x : x \in ids <=> \E s \in old : x = <<s, 1, 0>>
    BY <1>1
  <2>3. \A x : x \in UNION {Keys(s, records[s]) : s \in Sessions}
               <=> \E s \in Sessions : x \in Keys(s, records[s])
    OBVIOUS
  <2>4. \A x : (\E s \in Sessions : x \in Keys(s, records[s])) <=> \E s \in old : x = <<s, 1, 0>>
    BY <2>1
  <2> QED
    BY <2>2, <2>3, <2>4 DEF IdsNameRows
<1>12. ~open /\ Served
  <2>1. now = 1 /\ open = FALSE /\ sweep = Nothing /\ call = [w \in Writers |-> Nothing]
    BY DEF Init, StoreInit
  <2>2. 1 \in 0..MaxTime
    BY NothingIsApart
  <2> QED
    BY <2>1, <2>2 DEF Served
<1>13. RoundsFit
  BY DEF Init, RoundsFit, Fits, Idle
<1> QED
  BY <1>9, <1>10, <1>11, <1>12, <1>13 DEF StoreInv, TablesInv

(* The rounds while the store serves others, and when one of them moves. *)
LEMMA RoundsStay ==
  ASSUME RoundsFit, UNCHANGED round, open => open'
  PROVE  RoundsFit'
BY DEF RoundsFit, Fits

LEMMA RoundMoves ==
  ASSUME RoundsFit, NEW r \in Rounds, NEW q, Fits(q), round' = [round EXCEPT ![r] = q],
         UNCHANGED open
  PROVE  RoundsFit'
<1>1. DOMAIN round' = Rounds
  BY DEF RoundsFit
<1>2. \A x \in Rounds : round'[x] = IF x = r THEN q ELSE round[x]
  BY DEF RoundsFit
<1>3. \A x \in Rounds : Fits(round'[x])
  BY <1>2 DEF RoundsFit
<1> QED
  BY <1>1, <1>3 DEF RoundsFit, Fits

LEMMA IdleFits == Fits(Idle)
BY DEF Fits, Idle

LEMMA TablesStay ==
  ASSUME TablesInv, UNCHANGED <<tables, used>>, open' => open
  PROVE  TablesInv'
<1>1. TablesTyped' /\ AllCounted' /\ IdsNameRows' /\ (Indexes => Indexes')
  BY DEF TablesInv, TablesTyped, AllCounted, IdsNameRows, Indexes, HeldSessions, tables
<1> QED
  BY <1>1 DEF TablesInv

LEMMA StutterHolds == StoreInv /\ UNCHANGED allVars => StoreInv'
<1> SUFFICES ASSUME StoreInv, UNCHANGED allVars PROVE StoreInv'
  OBVIOUS
<1>1. TablesInv'
  BY TablesStay DEF StoreInv, allVars, storeVars, tables
<1>2. RoundsFit'
  BY RoundsStay DEF StoreInv, allVars, storeVars
<1>3. Served'
  BY DEF StoreInv, Served, allVars, storeVars
<1> QED
  BY <1>1, <1>2, <1>3 DEF StoreInv

(* The operations of the store. *)
LEMMA AppendBeginHolds ==
  ASSUME StoreInv, NEW w \in Writers, NEW s \in Sessions, NEW p \in Principals, NEW e \in Entries,
         AppendBegin(w, s, p, e), UNCHANGED round
  PROVE  StoreInv'
<1>1. TablesInv'
  BY TablesStay DEF StoreInv, AppendBegin
<1>2. RoundsFit'
  BY RoundsStay DEF StoreInv, AppendBegin
<1>3. Served'
  <2>1. [s |-> s, p |-> p, e |-> e, at |-> now] \in Pending
    BY DEF StoreInv, Served, Pending
  <2> QED
    BY <2>1 DEF StoreInv, Served, AppendBegin
<1> QED
  BY <1>1, <1>2, <1>3 DEF StoreInv

LEMMA AppendCommitHolds ==
  ASSUME StoreInv, NEW w \in Writers, AppendCommit(w), UNCHANGED round
  PROVE  StoreInv'
<1> DEFINE c == call[w]
<1>1. open /\ c \in Pending
  BY DEF StoreInv, Served, AppendCommit
<1>2. TablesInv'
  <2>1. CASE MayAppend(c.s, c.p)
    <3>1. append_blocking(c.s, c.p, c.e, c.at) /\ UNCHANGED open
      BY <2>1 DEF AppendCommit
    <3>2. c.s \in Sessions /\ c.p \in Principals /\ c.e \in Entry /\ c.at \in Nat
      BY <1>1, EntriesTyped, NothingIsApart DEF Pending
    <3>3. Indexes
      BY <1>1 DEF StoreInv, TablesInv
    <3> HIDE DEF c
    <3> QED
      BY <3>1, <3>2, <3>3, AppendKeeps DEF StoreInv, TablesInv
  <2>2. CASE ~MayAppend(c.s, c.p)
    BY <2>2, TablesStay DEF StoreInv, AppendCommit
  <2> QED
    BY <2>1, <2>2
<1>3. RoundsFit'
  BY RoundsStay DEF StoreInv, AppendCommit
<1>4. Served'
  BY DEF StoreInv, Served, AppendCommit
<1> QED
  BY <1>2, <1>3, <1>4 DEF StoreInv

LEMMA ClearHolds ==
  ASSUME StoreInv, NEW s \in Sessions, NEW p \in Principals, Clear(s, p), UNCHANGED round
  PROVE  StoreInv'
<1>1. TablesInv'
  <2>1. {s} \in SUBSET HeldSessions /\ Indexes
    BY DEF Clear, HeldSessions, StoreInv, TablesInv
  <2>2. remove_session_rows({s}) /\ UNCHANGED used
    BY DEF Clear
  <2> QED
    BY <2>1, <2>2, RemoveKeeps DEF StoreInv, TablesInv
<1>2. RoundsFit'
  BY RoundsStay DEF StoreInv, Clear
<1>3. Served'
  BY DEF StoreInv, Served, Clear
<1> QED
  BY <1>1, <1>2, <1>3 DEF StoreInv

LEMMA SweepBeginHolds == ASSUME StoreInv, SweepBegin, UNCHANGED round PROVE StoreInv'
<1>1. TablesInv'
  BY TablesStay DEF StoreInv, SweepBegin
<1>2. RoundsFit'
  BY RoundsStay DEF StoreInv, SweepBegin
<1>3. Served'
  <2>1. retention_cutoff \in 0..MaxTime
    BY ContextAssumption DEF StoreInv, Served, retention_cutoff
  <2> QED
    BY <2>1 DEF StoreInv, Served, SweepBegin
<1> QED
  BY <1>1, <1>2, <1>3 DEF StoreInv

(* A batch holds sessions the idle index names, which are sessions there are. *)
LEMMA BatchIsHeld ==
  ASSUME Indexes, NEW cutoff, NEW d \in DueBatches(cutoff)
  PROVE  /\ {x[2] : x \in d} \in SUBSET HeldSessions
         /\ \A x \in d : x[2] \in HeldSessions /\ x = <<sessions[x[2]].updated, x[2]>> /\ x[1] <= cutoff
<1>1. \A x \in d : x \in by_updated /\ x[1] <= cutoff
  BY DEF DueBatches
<1>2. \A x \in d : \E s \in HeldSessions : x = <<sessions[s].updated, s>>
  BY <1>1 DEF Indexes
<1>3. \A x \in d : x[2] \in HeldSessions /\ x = <<sessions[x[2]].updated, x[2]>>
  <2> SUFFICES ASSUME NEW x \in d PROVE x[2] \in HeldSessions /\ x = <<sessions[x[2]].updated, x[2]>>
    OBVIOUS
  <2>1. PICK s \in HeldSessions : x = <<sessions[s].updated, s>>
    BY <1>2
  <2>2. x[2] = s
    BY <2>1
  <2> QED
    BY <2>1, <2>2
<1> QED
  BY <1>1, <1>3

LEMMA SweepBatchHolds == ASSUME StoreInv, SweepBatch, UNCHANGED round PROVE StoreInv'
<1>1. open /\ Indexes /\ sweep \in 0..MaxTime
  BY DEF StoreInv, TablesInv, Served, SweepBatch
<1>2. PICK d \in DueBatches(sweep) :
        IF \E x \in d : sessions[x[2]] = NoSession
        THEN sweep' = Nothing /\ UNCHANGED tables
        ELSE /\ remove_session_rows({x[2] : x \in d})
             /\ sweep' = IF LastBatch(Cardinality(d)) THEN Nothing ELSE sweep
  BY DEF SweepBatch
<1>3. UNCHANGED <<now, open, used, call>>
  BY DEF SweepBatch
<1>4. {x[2] : x \in d} \in SUBSET HeldSessions
  BY <1>1, <1>2, BatchIsHeld
<1>5. TablesInv'
  <2>1. CASE UNCHANGED tables
    BY <1>3, <2>1, TablesStay DEF StoreInv
  <2>2. CASE remove_session_rows({x[2] : x \in d})
    <3> DEFINE gone == {x[2] : x \in d}
    <3>1. remove_session_rows(gone) /\ gone \in SUBSET HeldSessions
      BY <1>4, <2>2
    <3> HIDE DEF gone
    <3> QED
      BY <1>1, <1>3, <3>1, RemoveKeeps DEF StoreInv, TablesInv
  <2> QED
    BY <1>2, <2>1, <2>2
<1>6. RoundsFit'
  BY <1>3, RoundsStay DEF StoreInv
<1>7. Served'
  <2>1. sweep' \in {sweep, Nothing}
    BY <1>2
  <2> QED
    BY <1>1, <1>3, <2>1 DEF StoreInv, Served
<1> QED
  BY <1>5, <1>6, <1>7 DEF StoreInv

LEMMA TickHolds == ASSUME StoreInv, Tick, UNCHANGED round PROVE StoreInv'
<1>1. TablesInv'
  BY TablesStay DEF StoreInv, Tick
<1>2. RoundsFit'
  BY RoundsStay DEF StoreInv, Tick
<1>3. Served'
  BY NothingIsApart DEF StoreInv, Served, Tick
<1> QED
  BY <1>1, <1>2, <1>3 DEF StoreInv

LEMMA CrashHolds ==
  ASSUME StoreInv, StoreCrash, round' = [r \in Rounds |-> Idle] PROVE StoreInv'
<1>1. TablesInv'
  BY TablesStay DEF StoreInv, StoreCrash
<1>2. RoundsFit'
  BY DEF RoundsFit, Fits, Idle
<1>3. Served'
  BY DEF StoreInv, Served, StoreCrash
<1> QED
  BY <1>1, <1>2, <1>3 DEF StoreInv

LEMMA OpenHolds == ASSUME StoreInv, Open, UNCHANGED round PROVE StoreInv'
<1>1. TablesTyped' /\ AllCounted' /\ IdsNameRows'
  BY DEF StoreInv, TablesInv, TablesTyped, AllCounted, IdsNameRows, Open
<1>2. Indexes'
  BY DEF Indexes, HeldSessions, Open, reconcile_indexes
<1>3. RoundsFit'
  BY RoundsStay DEF StoreInv, Open
<1>4. Served'
  BY DEF StoreInv, Served, Open
<1> QED
  BY <1>1, <1>2, <1>3, <1>4 DEF StoreInv, TablesInv

(* The steps of a round: what each leaves in its hands. *)
LEMMA RoundReads ==
  ASSUME StoreInv, NEW r \in Rounds, UNCHANGED storeVars, NEW q, Fits(q),
         round' = [round EXCEPT ![r] = q]
  PROVE  StoreInv'
<1>1. TablesInv'
  BY TablesStay DEF StoreInv, storeVars, tables
<1>2. RoundsFit'
  BY RoundMoves DEF StoreInv, storeVars
<1>3. Served'
  BY DEF StoreInv, Served, storeVars
<1> QED
  BY <1>1, <1>2, <1>3 DEF StoreInv

(* A round that reads on has rows in hand, and one that has read them all has a plan or ends. *)
LEMMA OnwardFits ==
  ASSUME NEW q, open, q.s \in Sessions, q.p \in Principals, q.budget \in Budgets,
         NEW left, NEW rows \in Seq(Row)
  PROVE  Fits(Onward(q, left, rows))
<1> DEFINE todo == plan(rows, q.budget)
<1>1. todo # Nothing => todo.n \in Nat /\ todo.pinned \in Nat
  BY PlanTyped
<1>2. CASE left # <<>>
  <2> DEFINE next == [phase |-> "listed", s |-> q.s, p |-> q.p, budget |-> q.budget,
                      ids |-> left, rows |-> rows]
  <2>1. Onward(q, left, rows) = next
    BY <1>2 DEF Onward
  <2>2. Fits(next)
    BY DEF Fits
  <2> QED
    BY <2>1, <2>2
<1>3. CASE left = <<>>
  <2>1. Onward(q, left, rows) =
          IF todo = Nothing THEN Idle ELSE [phase |-> "planned", s |-> q.s, p |-> q.p, plan |-> todo]
    BY <1>3 DEF Onward
  <2> HIDE DEF todo
  <2>2. todo # Nothing => Fits([phase |-> "planned", s |-> q.s, p |-> q.p, plan |-> todo])
    BY <1>1 DEF Fits
  <2> QED
    BY <2>1, <2>2, IdleFits
<1> QED
  BY <1>2, <1>3

LEMMA RoundListHolds ==
  ASSUME StoreInv, NEW r \in Rounds, NEW s \in Sessions, NEW p \in Principals, NEW b \in Budgets,
         RoundList(r, s, p, b)
  PROVE  StoreInv'
<1> DEFINE window == InOrder(read_session(s), assemble(read_session(s), Unlimited))
           left == [i \in DOMAIN window |-> window[i].id]
           who == [s |-> s, p |-> p, budget |-> b]
           q == Onward(who, left, <<>>)
<1>1. round' = [round EXCEPT ![r] = q] /\ UNCHANGED storeVars /\ open
  BY DEF RoundList
<1>2. Fits(q)
  <2>1. who.s \in Sessions /\ who.p \in Principals /\ who.budget \in Budgets /\ <<>> \in Seq(Row)
    OBVIOUS
  <2> HIDE DEF who, left
  <2> QED
    BY <1>1, <2>1, OnwardFits
<1> HIDE DEF q
<1> QED
  BY <1>1, <1>2, RoundReads

LEMMA RoundPlanHolds == ASSUME StoreInv, NEW r \in Rounds, RoundPlan(r) PROVE StoreInv'
<1> DEFINE was == round[r]
           session == records[was.s]
           named == {i \in DOMAIN session : session[i].id = Head(was.ids)}
           rows == was.rows \o InOrder(session, named)
           next == Onward(was, Tail(was.ids), rows)
           q == IF sessions[was.s] # NoSession /\ ~authorize(was.s, was.p) THEN Idle ELSE next
<1>1. round' = [round EXCEPT ![r] = q] /\ UNCHANGED storeVars
  BY DEF RoundPlan, read_session
<1>2. /\ was.phase = "listed" /\ open /\ was.s \in Sessions /\ was.p \in Principals
      /\ was.budget \in Budgets /\ was.rows \in Seq(Row)
  BY DEF RoundPlan, StoreInv, RoundsFit, Fits
<1>3. rows \in Seq(Row)
  <2>1. session \in Seq(Row)
    BY <1>2 DEF StoreInv, TablesInv, TablesTyped
  <2> HIDE DEF session
  <2>2. named \in SUBSET DOMAIN session
    OBVIOUS
  <2>3. InOrder(session, named) \in Seq(Row)
    BY <2>1, <2>2, InOrderReads
  <2> HIDE DEF named
  <2> QED
    BY <1>2, <2>3
<1> HIDE DEF rows
<1>4. Fits(next)
  BY <1>2, <1>3, OnwardFits
<1> HIDE DEF next
<1>5. Fits(q)
  BY <1>4, IdleFits
<1> HIDE DEF q
<1> QED
  BY <1>1, <1>5, RoundReads

LEMMA RoundWriteHolds == ASSUME StoreInv, NEW r \in Rounds, RoundWrite(r) PROVE StoreInv'
<1> DEFINE was == round[r]
           q == [phase |-> "written", s |-> was.s, p |-> was.p, plan |-> was.plan, at |-> now]
<1>1. UNCHANGED storeVars /\ \E answer \in {Idle, q} : round' = [round EXCEPT ![r] = answer]
  BY DEF RoundWrite
<1>2. Fits(q)
  <2>1. was.phase = "planned" /\ Fits(was) /\ now \in 0..MaxTime
    BY DEF RoundWrite, StoreInv, RoundsFit, Served
  <2> QED
    BY <2>1 DEF Fits
<1> HIDE DEF q
<1> QED
  BY <1>1, <1>2, IdleFits, RoundReads

LEMMA RoundRecapHolds == ASSUME StoreInv, NEW r \in Rounds, RoundRecap(r) PROVE StoreInv'
<1> DEFINE was == round[r]
           q == [phase |-> "recapped", s |-> was.s, p |-> was.p, plan |-> was.plan]
<1>1. was.phase = "written" /\ Fits(was) /\ UNCHANGED <<now, open, call, sweep>>
  BY DEF RoundRecap, StoreInv, RoundsFit
<1>2. open /\ was.s \in Sessions /\ was.p \in Principals /\ was.at \in Nat
  BY <1>1, NothingIsApart DEF Fits
<1>3. Fits(q)
  BY <1>1 DEF Fits
<1> HIDE DEF q
<1>4. RoundsFit'
  <2>1. round' = [round EXCEPT ![r] = q] \/ round' = [round EXCEPT ![r] = Idle]
    BY DEF RoundRecap, q
  <2> QED
    BY <1>1, <1>3, <2>1, IdleFits, RoundMoves DEF StoreInv
<1>5. TablesInv'
  <2>1. CASE MayAppend(was.s, was.p)
    <3>1. append_blocking(was.s, was.p, Recap, was.at)
      BY <2>1 DEF RoundRecap
    <3>2. Indexes /\ Recap \in Entry
      BY <1>2, EntriesTyped DEF StoreInv, TablesInv
    <3> HIDE DEF was
    <3> QED
      BY <1>1, <1>2, <3>1, <3>2, AppendKeeps DEF StoreInv, TablesInv
  <2>2. CASE ~MayAppend(was.s, was.p)
    BY <1>1, <2>2, TablesStay DEF StoreInv, RoundRecap
  <2> QED
    BY <2>1, <2>2
<1>6. Served'
  BY <1>1 DEF StoreInv, Served
<1> QED
  BY <1>4, <1>5, <1>6 DEF StoreInv

LEMMA RoundCountHolds == ASSUME StoreInv, NEW r \in Rounds, RoundCount(r) PROVE StoreInv'
<1> DEFINE was == round[r]
           k == keep_count(was.s, was.plan)
           q == IF sessions[was.s] = NoSession \/ ~authorize(was.s, was.p) THEN Idle
                ELSE [phase |-> "counted", s |-> was.s, p |-> was.p, plan |-> was.plan,
                      keep |-> k, held |-> UnpinnedIds(was.s)]
<1>1. was.phase = "recapped" /\ Fits(was) /\ UNCHANGED storeVars /\ round' = [round EXCEPT ![r] = q]
  BY DEF RoundCount, StoreInv, RoundsFit
<1>2. /\ open /\ was.s \in Sessions /\ was.p \in Principals
      /\ was.plan.n \in Nat /\ was.plan.pinned \in Nat
  BY <1>1 DEF Fits
<1>3. sessions[was.s] # NoSession => k \in 0..MaxRecords
  <2> SUFFICES ASSUME sessions[was.s] # NoSession PROVE k \in 0..MaxRecords
    OBVIOUS
  <2> DEFINE n == sessions[was.s].records
             a == was.plan.pinned
             b == was.plan.n
  <2>1. n \in Nat /\ n <= MaxRecords
    BY <1>2 DEF StoreInv, TablesInv, TablesTyped, AllCounted, Counted, Header
  <2>2. k = Left(Left(n, a), b)
    BY DEF keep_count, stats
  <2> HIDE DEF n, a, b, k
  <2>3. a \in Nat /\ b \in Nat
    BY <1>2 DEF a, b
  <2> QED
    BY <2>1, <2>2, <2>3, NothingIsApart DEF Left
<1> HIDE DEF k
<1>4. Fits(q)
  <2> DEFINE held == UnpinnedIds(was.s)
  <2> HIDE DEF held
  <2> QED
    BY <1>1, <1>2, <1>3, IdleFits DEF Fits
<1> HIDE DEF q
<1> QED
  BY <1>1, <1>4, RoundReads

LEMMA RoundReclaimHolds == ASSUME StoreInv, NEW r \in Rounds, RoundReclaim(r) PROVE StoreInv'
<1> DEFINE was == round[r]
<1>1. /\ was.phase = "counted" /\ Fits(was) /\ UNCHANGED <<now, open, used, call, sweep>>
      /\ round' = [round EXCEPT ![r] = Idle] /\ compact(was.s, was.p, was.keep)
  BY DEF RoundReclaim, StoreInv, RoundsFit
<1>2. open /\ was.s \in Sessions
  BY <1>1 DEF Fits
<1>3. TablesInv'
  <2>1. CASE UNCHANGED tables
    BY <1>1, <2>1, TablesStay DEF StoreInv
  <2>2. CASE ~UNCHANGED tables
    <3>1. compact_blocking(was.s, was.keep) /\ was.s \in HeldSessions
      BY <1>1, <1>2, <2>2 DEF compact, HeldSessions
    <3> HIDE DEF was
    <3> QED
      BY <1>1, <1>2, <3>1, CompactKeeps DEF StoreInv, TablesInv
  <2> QED
    BY <2>1, <2>2
<1>4. RoundsFit'
  BY <1>1, IdleFits, RoundMoves DEF StoreInv
<1>5. Served'
  BY <1>1 DEF StoreInv, Served
<1> QED
  BY <1>3, <1>4, <1>5 DEF StoreInv

LEMMA StepHolds == StoreInv /\ [Next]_allVars => StoreInv'
<1> SUFFICES ASSUME StoreInv, [Next]_allVars PROVE StoreInv'
  OBVIOUS
<1>1. CASE StoreCrash /\ round' = [r \in Rounds |-> Idle]
  BY <1>1, CrashHolds
<1>2. CASE StoreNext /\ UNCHANGED round
  BY <1>2, AppendBeginHolds, AppendCommitHolds, ClearHolds, SweepBeginHolds, SweepBatchHolds,
     TickHolds DEF StoreNext
<1>3. CASE Open /\ UNCHANGED round
  BY <1>3, OpenHolds
<1>4. CASE \E r \in Rounds :
             \/ \E s \in Sessions, p \in Principals, b \in Budgets : RoundList(r, s, p, b)
             \/ RoundPlan(r) \/ RoundWrite(r) \/ RoundRecap(r) \/ RoundCount(r) \/ RoundReclaim(r)
  BY <1>4, RoundListHolds, RoundPlanHolds, RoundWriteHolds, RoundRecapHolds, RoundCountHolds,
     RoundReclaimHolds
<1>5. CASE UNCHANGED allVars
  BY <1>5, StutterHolds
<1> QED
  BY <1>1, <1>2, <1>3, <1>4, <1>5 DEF Next

(* The inductive invariant holds. *)
LEMMA StoreHolds == Spec => []StoreInv
BY InitHolds, StepHolds, PTL DEF Spec

(* The five tables of the context store always agree: every total is that of the rows, every
   row is found by its id and nothing else is, and the owner and idle indexes name exactly
   the sessions there are, whatever appends, clears, sweeps, compactions and crashes were
   interleaved, for any number of sessions, writers and rounds. *)
THEOREM TablesHold == Spec => []TablesAgree
<1>1. StoreInv => TablesAgree
  BY TablesInvSuffices DEF StoreInv
<1> QED
  BY <1>1, StoreHolds, PTL

(* A batch that came up short of the limit holds all that was due. *)
LEMMA ShortBatchIsAll ==
  ASSUME Indexes, NEW cutoff, NEW d \in DueBatches(cutoff), LastBatch(Cardinality(d))
  PROVE  d = {x \in by_updated : x[1] <= cutoff}
<1> DEFINE due == {x \in by_updated : x[1] <= cutoff}
<1>1. IsFiniteSet(by_updated)
  <2> DEFINE f == [s \in HeldSessions |-> <<sessions[s].updated, s>>]
  <2>1. IsFiniteSet(HeldSessions)
    BY FS_Subset, ContextAssumption DEF HeldSessions
  <2>2. by_updated = {f[s] : s \in HeldSessions}
    BY DEF Indexes
  <2>3. f \in Surjection(HeldSessions, by_updated)
    <3>1. f \in [HeldSessions -> by_updated]
      BY <2>2
    <3> HIDE DEF f
    <3> QED
      BY <2>2, <3>1 DEF Surjection
  <2> QED
    BY <2>1, <2>3, FS_Surjection
<1>2. IsFiniteSet(due) /\ Cardinality(due) \in Nat
  BY <1>1, FS_Subset, FS_CardinalityType
<1>3. d \in SUBSET due /\ Cardinality(d) = Min({Batch, Cardinality(due)})
  BY DEF DueBatches
<1> HIDE DEF due
<1>4. Cardinality(d) = Cardinality(due)
  <2> DEFINE T == {Batch, Cardinality(due)}
  <2>1. T \in SUBSET Nat /\ T # {}
    BY <1>2, ContextAssumption
  <2>2. Min(T) \in T
    <3> HIDE DEF T
    <3> QED
      BY <2>1, MinOf
  <2>3. Cardinality(d) # Batch
    BY <1>3, <2>1, <2>2 DEF LastBatch
  <2> QED
    BY <1>3, <2>2, <2>3
<1> QED
  BY <1>2, <1>3, <1>4, FS_Subset DEF due

(* A sweep ends, the store still up, only by a short batch or not at all: a batch never
   fails, as the index it reads names nothing that is not stored. *)
LEMMA SweepEnds ==
  ASSUME StoreInv, [Next]_allVars, sweep # Nothing, sweep' = Nothing, open'
  PROVE  SweepBatch
<1>1. CASE StoreCrash
  BY <1>1 DEF StoreCrash
<1>2. CASE StoreNext
  BY <1>2 DEF StoreNext, AppendBegin, AppendCommit, Clear, SweepBegin, Tick
<1>3. CASE Open
  BY <1>3 DEF Open
<1>4. CASE \E r \in Rounds :
             \/ \E s \in Sessions, p \in Principals, b \in Budgets : RoundList(r, s, p, b)
             \/ RoundPlan(r) \/ RoundWrite(r) \/ RoundRecap(r) \/ RoundCount(r) \/ RoundReclaim(r)
  BY <1>4 DEF RoundList, RoundPlan, RoundWrite, RoundRecap, RoundCount, RoundReclaim, storeVars
<1>5. CASE UNCHANGED allVars
  BY <1>5 DEF allVars, storeVars
<1> QED
  BY <1>1, <1>2, <1>3, <1>4, <1>5 DEF Next

LEMMA NothingDueIsLeft ==
  ASSUME StoreInv, [Next]_allVars, sweep # Nothing, sweep' = Nothing, open',
         NEW s \in Sessions, sessions'[s] # NoSession
  PROVE  sessions'[s].updated > sweep
<1>1. SweepBatch
  BY SweepEnds
<1>2. open /\ Indexes /\ sweep \in Nat
  BY NothingIsApart DEF StoreInv, TablesInv, Served
<1>3. PICK d \in DueBatches(sweep) :
        IF \E x \in d : sessions[x[2]] = NoSession
        THEN sweep' = Nothing /\ UNCHANGED tables
        ELSE /\ remove_session_rows({x[2] : x \in d})
             /\ sweep' = IF LastBatch(Cardinality(d)) THEN Nothing ELSE sweep
  BY <1>1 DEF SweepBatch
<1>4. \A x \in d : sessions[x[2]] # NoSession
  BY <1>2, BatchIsHeld DEF HeldSessions
<1>5. remove_session_rows({x[2] : x \in d}) /\ LastBatch(Cardinality(d))
  BY <1>3, <1>4
<1>6. d = {x \in by_updated : x[1] <= sweep}
  BY <1>2, <1>5, ShortBatchIsAll
<1>7. s \notin {x[2] : x \in d} /\ sessions'[s] = sessions[s]
  BY <1>5 DEF remove_session_rows
<1>8. <<sessions[s].updated, s>> \in by_updated
  BY <1>2, <1>7 DEF Indexes, HeldSessions
<1>9. ~(sessions[s].updated <= sweep)
  <2> SUFFICES ASSUME sessions[s].updated <= sweep PROVE FALSE
    OBVIOUS
  <2>1. <<sessions[s].updated, s>> \in d
    BY <1>6, <1>8
  <2> QED
    BY <1>7, <2>1
<1>10. sessions[s].updated \in Nat
  BY <1>7 DEF StoreInv, TablesInv, TablesTyped, Header
<1> QED
  BY <1>2, <1>7, <1>9, <1>10

(* When a sweep returns, no session that was due at its cutoff is left, although the cutoff
   was computed before the sweep queued for the database and appends, clears and compactions
   ran between its batches; for any size of batch. *)
THEOREM SweepsCompletely == Spec => SweepLeavesNothingDue
<1>1. StoreInv /\ [Next]_allVars =>
        [(sweep # Nothing /\ sweep' = Nothing /\ open')
           => \A s \in Sessions : sessions'[s] # NoSession => sessions'[s].updated > sweep]_storeVars
  BY NothingDueIsLeft
<1> QED
  BY <1>1, StoreHolds, PTL DEF Spec, SweepLeavesNothingDue

---------------------------------------------------------------------------
(* The persistent store implements the in-memory one.  View is the map of sessions the
   header and the rows spell out, Told one session of it. *)

Told(h, rows) ==
  [owner |-> h.owner, created |-> h.created, updated |-> h.updated, next |-> h.next,
   tokens |-> h.tokens, records |-> rows]

Seen(h, rows) == IF h = NoSession THEN NoSession ELSE Told(h, rows)

View == [s \in Sessions |-> Seen(sessions[s], records[s])]

LEMMA ToldIs ==
  ASSUME NEW h \in Header, NEW rows \in Seq(Row)
  PROVE  /\ Told(h, rows) # NoSession /\ Told(h, rows).owner = h.owner
         /\ Told(h, rows).updated = h.updated /\ Told(h, rows).next = h.next
         /\ Told(h, rows).tokens = h.tokens /\ Told(h, rows).records = rows
         /\ Told(h, rows).created = h.created
<1> DEFINE Told_ == [owner : Principals, created : Nat, updated : Nat, next : Nat,
                     tokens : Nat, records : Seq(Row)]
<1>1. Told(h, rows) \in Told_
  <2> DEFINE Q == Seq(Row)
  <2>1. rows \in Q
    OBVIOUS
  <2> HIDE DEF Q
  <2> QED
    BY <2>1 DEF Told, Header
<1>2. Told(h, rows) # NoSession
  BY <1>1, ContextAssumption
<1> QED
  BY <1>2 DEF Told

LEMMA ViewOf ==
  ASSUME TablesTyped, NEW s \in Sessions
  PROVE  /\ View[s] = Seen(sessions[s], records[s])
         /\ View[s] = NoSession <=> sessions[s] = NoSession
         /\ sessions[s] # NoSession =>
              /\ View[s] = Told(sessions[s], records[s]) /\ View[s].owner = sessions[s].owner
              /\ View[s].updated = sessions[s].updated /\ View[s].records = records[s]
              /\ View[s].tokens = sessions[s].tokens /\ View[s].next = sessions[s].next
<1>1. View[s] = Seen(sessions[s], records[s])
  BY DEF View
<1>2. sessions[s] # NoSession => sessions[s] \in Header /\ records[s] \in Seq(Row)
  BY DEF TablesTyped
<1> QED
  BY <1>1, <1>2, ToldIs DEF Seen

(* The steps of the abstract store, told of View. *)
LEMMA LogAppends ==
  ASSUME NEW s, NEW p, NEW e, NEW id, NEW at, NEW was,
         was = IF View[s] = NoSession THEN Log!NewSession(p, at) ELSE View[s],
         was.owner \in MayActFor[p], Len(was.records) < MaxRecords,
         View' = [View EXCEPT ![s] =
           [was EXCEPT !.next = @ + 1, !.updated = at, !.tokens = @ + e.tokens,
                       !.records = Append(@, Log!Record(e, id, was.next, p, at))]]
  PROVE  Log!AppendRecord(s, p, e, id, at)
BY ZenonT(60) DEF Log!AppendRecord, View, Seen, Told, read_session

LEMMA LogClears ==
  ASSUME NEW s, NEW p, View[s] # NoSession, View[s].owner \in MayActFor[p],
         View' = [View EXCEPT ![s] = NoSession]
  PROVE  Log!ClearSession(s, p)
BY Zenon DEF Log!ClearSession, Log!authorize, View, Seen, Told, read_session

LEMMA LogSweeps ==
  ASSUME NEW cutoff, NEW gone,
         \A s \in gone : View[s] # NoSession /\ View[s].updated <= cutoff,
         View' = [s \in Sessions |-> IF s \in gone THEN NoSession ELSE View[s]]
  PROVE  Log!SweepStale(cutoff, gone)
BY Zenon DEF Log!SweepStale, View, Seen, Told, read_session

Boundary(rows, keep) == Log!compaction_boundary(rows, keep)

LEMMA LogCompacts ==
  ASSUME NEW s, NEW p, NEW keep, NEW rows, NEW left, View[s] # NoSession,
         View[s].owner \in MayActFor[p], rows = View[s].records,
         left = Log!At(rows, {i \in DOMAIN rows : i > Boundary(rows, keep) \/ rows[i].pinned}),
         View' = [View EXCEPT ![s].records = left, ![s].tokens = Log!SumTokens(left)]
  PROVE  Log!CompactSession(s, p, keep)
BY ZenonT(60) DEF Log!CompactSession, Log!authorize, Boundary, View, Seen, Told, read_session

LEMMA AppendIsNext ==
  ASSUME NEW s \in Sessions, NEW p \in Principals, NEW e \in Entries \cup {Recap},
         NEW id \in 1..MaxIds, NEW at \in 0..MaxTime, Log!AppendRecord(s, p, e, id, at),
         Log!Length(View', s) = Log!Length(View, s) + 1, View'[s].updated = at
  PROVE  Log!LogNext
BY Zenon DEF Log!LogNext, View, Seen, Told, read_session

LEMMA ShrinkIsNext ==
  ASSUME NEW s \in Sessions, NEW p \in Principals, NEW keep \in 0..MaxRecords,
         Log!ClearSession(s, p) \/ Log!CompactSession(s, p, keep),
         View'[s] # View[s], Log!Length(View', s) <= Log!Length(View, s)
  PROVE  Log!LogNext
BY Zenon DEF Log!LogNext, View, Seen, Told, read_session

LEMMA SweepIsNext ==
  ASSUME NEW gone \in SUBSET Sessions, NEW cutoff \in 0..MaxTime, Log!SweepStale(cutoff, gone)
  PROVE  Log!LogNext
BY Zenon DEF Log!LogNext

(* A step of the store, as a step of the abstract one. *)
LogStep == Log!LogNext \/ UNCHANGED View

LEMMA ViewStays == ASSUME UNCHANGED <<sessions, records>> PROVE LogStep
BY DEF LogStep, View

(* Only one session is told otherwise. *)
LEMMA ViewChanges ==
  ASSUME TablesTyped, NEW s \in Sessions, NEW h, NEW rows,
         sessions' = [sessions EXCEPT ![s] = h], records' = [records EXCEPT ![s] = rows]
  PROVE  View' = [View EXCEPT ![s] = Seen(h, rows)]
<1>1. View' = [t \in Sessions |-> Seen(sessions'[t], records'[t])]
  BY DEF View, Seen, Told
<1>2. \A t \in Sessions : /\ sessions'[t] = IF t = s THEN h ELSE sessions[t]
                          /\ records'[t] = IF t = s THEN rows ELSE records[t]
  BY DEF TablesTyped
<1>3. \A t \in Sessions :
        Seen(sessions'[t], records'[t]) = IF t = s THEN Seen(h, rows) ELSE Seen(sessions[t], records[t])
  BY <1>2
<1>4. View = [t \in Sessions |-> Seen(sessions[t], records[t])]
  BY DEF View
<1> QED
  BY <1>1, <1>3, <1>4

LEMMA AppendStep ==
  ASSUME StoreInv, open, NEW s \in Sessions, NEW p \in Principals, NEW e \in Entries \cup {Recap},
         NEW at \in 0..MaxTime, used < MaxIds, append_blocking(s, p, e, at)
  PROVE  LogStep
<1> DEFINE h == HeaderFor(s, p, at)
           id == used + 1
           r == StoredRecord(e, id, h.next, p, at)
           rows == records[s]
           n == h.next + 1
           k == h.records + 1
           t == h.tokens + e.tokens
           new == [h EXCEPT !.next = n, !.records = k, !.tokens = t, !.updated = at]
           was == Told(h, rows)
<1>1. TablesTyped /\ AllCounted /\ Indexes /\ TablesInv
  BY DEF StoreInv, TablesInv
<1>2. /\ rows \in Seq(Row) /\ used \in Nat /\ sessions[s] \in Header \cup {NoSession}
      /\ Counted(sessions[s], rows) /\ e \in Entry /\ at \in Nat /\ MaxIds \in Nat
  BY <1>1, EntriesTyped, NothingIsApart DEF TablesTyped, AllCounted
<1>3. /\ h \in Header /\ h.records = Len(rows) /\ (sessions[s] # NoSession => h = sessions[s])
      /\ (sessions[s] = NoSession => h = SessionHeader(p, at) /\ rows = << >>)
  <2>1. CASE sessions[s] = NoSession
    BY <1>2, <2>1 DEF Counted, HeaderFor, SessionHeader, Header
  <2>2. CASE sessions[s] # NoSession
    BY <1>2, <2>2 DEF Counted, HeaderFor
  <2> QED
    BY <2>1, <2>2
<1>4. h.owner \in MayActFor[p] /\ h.records < MaxRecords
  <2>1. HeaderFor(s, p, 0).owner = h.owner /\ HeaderFor(s, p, 0).records = h.records
    BY DEF HeaderFor, SessionHeader
  <2> QED
    BY <2>1 DEF append_blocking, MayAppend
<1>5. sessions' = [sessions EXCEPT ![s] = new] /\ records' = [records EXCEPT ![s] = Append(rows, r)]
  <2>1. records' = [records EXCEPT ![s] = Append(rows, r)]
    BY <1>1 DEF append_blocking, TablesTyped
  <2> QED
    BY <2>1 DEF append_blocking
<1>6. n \in Nat /\ k \in Nat /\ t \in Nat /\ h.next \in Nat /\ id \in Nat /\ id \in 1..MaxIds
  <2>1. h.next \in Nat /\ h.records \in Nat /\ h.tokens \in Nat
    BY <1>3 DEF Header
  <2>2. e.tokens \in Nat
    BY <1>2 DEF Entry
  <2> QED
    BY <1>2, <2>1, <2>2
<1>7. r \in Row /\ r = Log!Record(e, id, h.next, p, at)
  <2> HIDE DEF id, h
  <2> QED
    BY <1>2, <1>6 DEF Row, Entry, StoredRecord, Log!Record
<1>8. new \in Header /\ Told(new, Append(rows, r)) = [was EXCEPT !.next = n, !.updated = at,
                                                   !.tokens = t, !.records = Append(rows, r)]
  <2> HIDE DEF n, k, t, r, h
  <2>1. new \in Header /\ new.next = n /\ new.updated = at /\ new.tokens = t
        /\ new.owner = h.owner /\ new.created = h.created
    BY <1>2, <1>3, <1>6 DEF Header
  <2> DEFINE more == Append(rows, r)
  <2> HIDE DEF new, more, rows
  <2>2. Told(new, more) = [was EXCEPT !.next = n, !.updated = at, !.tokens = t, !.records = more]
    <3> DEFINE Q == Seq(Row)
    <3>1. was \in [owner : Principals, created : Nat, updated : Nat, next : Nat, tokens : Nat,
                   records : Q]
      BY <1>2, <1>3 DEF Told, Header
    <3>2. was.owner = h.owner /\ was.created = h.created
      BY DEF Told
    <3>3. more \in Q
      BY <1>2, <1>7 DEF more
    <3> HIDE DEF was, Q
    <3>4. [was EXCEPT !.next = n, !.updated = at, !.tokens = t, !.records = more]
          = [owner |-> was.owner, created |-> was.created, updated |-> at, next |-> n,
             tokens |-> t, records |-> more]
      <4> DEFINE a == [was EXCEPT !.next = n, !.updated = at, !.tokens = t, !.records = more]
                 b == [owner |-> was.owner, created |-> was.created, updated |-> at, next |-> n,
                       tokens |-> t, records |-> more]
                 R == [owner : Principals, created : Nat, updated : Nat, next : Nat, tokens : Nat,
                       records : Q]
      <4>1. n \in Nat /\ t \in Nat /\ at \in Nat
        BY <1>2, <1>6
      <4>2. /\ a \in R /\ a.owner = was.owner /\ a.created = was.created /\ a.updated = at
            /\ a.next = n /\ a.tokens = t /\ a.records = more
        BY <3>1, <3>3, <4>1
      <4>3. /\ b \in R /\ b.owner = was.owner /\ b.created = was.created /\ b.updated = at
            /\ b.next = n /\ b.tokens = t /\ b.records = more
        BY <3>1, <3>3, <4>1
      <4> HIDE DEF a, b
      <4>4. a = b
        BY <4>2, <4>3
      <4> QED
        BY <4>4 DEF a, b
    <3>5. Told(new, more) = [owner |-> h.owner, created |-> h.created, updated |-> at, next |-> n,
                             tokens |-> t, records |-> more]
      BY <2>1 DEF Told
    <3> QED
      BY <3>2, <3>4, <3>5
  <2> QED
    BY <2>1, <2>2 DEF more
<1>9. /\ was # NoSession /\ was.owner = h.owner /\ was.next = h.next
      /\ was.tokens = h.tokens /\ was.records = rows
  <2> HIDE DEF h
  <2> QED
    BY <1>2, <1>3, ToldIs
<1>10. was = IF View[s] = NoSession THEN Log!NewSession(p, at) ELSE View[s]
  <2>1. CASE sessions[s] = NoSession
    <3>1. was = Told(SessionHeader(p, at), << >>) /\ View[s] = NoSession
      BY <1>1, <1>3, <2>1, ViewOf
    <3>2. Told(SessionHeader(p, at), << >>) = Log!NewSession(p, at)
      BY DEF SessionHeader, Log!NewSession, Told
    <3> QED
      BY <3>1, <3>2
  <2>2. CASE sessions[s] # NoSession
    BY <1>1, <1>3, <2>2, ViewOf
  <2> QED
    BY <2>1, <2>2
<1>11. /\ View' = [View EXCEPT ![s] = Told(new, Append(rows, r))]
       /\ Append(rows, r) \in Seq(Row) /\ Len(Append(rows, r)) = Len(rows) + 1
  <2>1. new # NoSession
    BY <1>8, ContextAssumption
  <2>2. View' = [View EXCEPT ![s] = Seen(new, Append(rows, r))]
    <3> HIDE DEF new, rows, r
    <3> QED
      BY <1>1, <1>5, ViewChanges
  <2>3. Append(rows, r) \in Seq(Row) /\ Len(Append(rows, r)) = Len(rows) + 1
    <3> HIDE DEF r, rows
    <3> QED
      BY <1>2, <1>7
  <2> HIDE DEF new
  <2> QED
    BY <2>1, <2>2, <2>3 DEF Seen
<1>12. Log!AppendRecord(s, p, e, id, at)
  <2>1. View' = [View EXCEPT ![s] =
           [was EXCEPT !.next = @ + 1, !.updated = at, !.tokens = @ + e.tokens,
                       !.records = Append(@, Log!Record(e, id, was.next, p, at))]]
    <3> HIDE DEF was, new, h, r, rows, id
    <3> QED
      BY <1>7, <1>8, <1>9, <1>11
  <2>2. was.owner \in MayActFor[p] /\ Len(was.records) < MaxRecords
    BY <1>3, <1>4, <1>9
  <2> HIDE DEF was, id
  <2> QED
    BY <1>10, <2>1, <2>2, LogAppends
<1>13. Log!Length(View', s) = Log!Length(View, s) + 1 /\ View'[s].updated = at
  <2> DEFINE more == Append(rows, r)
  <2>1. View'[s] = Told(new, more)
    BY <1>11 DEF View
  <2>2. more \in Seq(Row) /\ Len(more) = Len(rows) + 1 /\ new \in Header /\ new.updated = at
    <3>1. new.updated = at
      <4> HIDE DEF n, k, t, h
      <4> QED
        BY <1>3 DEF Header
    <3> QED
      BY <1>8, <1>11, <3>1
  <2> HIDE DEF more, new
  <2>3. Told(new, more) # NoSession /\ Told(new, more).updated = at /\ Told(new, more).records = more
    BY <2>2, ToldIs
  <2>4. Log!Length(View', s) = Len(more)
    BY <2>1, <2>3 DEF Log!Length
  <2>5. Log!Length(View, s) = Len(rows)
    BY <1>1, <1>3, ViewOf DEF Log!Length
  <2> QED
    BY <2>1, <2>2, <2>3, <2>4, <2>5
<1> HIDE DEF id
<1> QED
  BY <1>6, <1>12, <1>13, AppendIsNext DEF LogStep

LEMMA ClearStep ==
  ASSUME StoreInv, NEW s \in Sessions, NEW p \in Principals, Clear(s, p)
  PROVE  LogStep
<1>1. TablesTyped /\ sessions[s] # NoSession /\ sessions[s].owner \in MayActFor[p]
  BY DEF StoreInv, TablesInv, Clear, authorize
<1>2. /\ sessions' = [t \in Sessions |-> IF t \in {s} THEN NoSession ELSE sessions[t]]
      /\ records' = [t \in Sessions |-> IF t \in {s} THEN <<>> ELSE records[t]]
  BY DEF Clear, remove_session_rows
<1>3. /\ sessions' = [sessions EXCEPT ![s] = NoSession]
      /\ records' = [records EXCEPT ![s] = << >>]
  BY <1>1, <1>2 DEF TablesTyped
<1>4. View' = [View EXCEPT ![s] = NoSession]
  <2>1. Seen(NoSession, << >>) = NoSession
    BY DEF Seen
  <2>2. View' = [View EXCEPT ![s] = Seen(NoSession, << >>)]
    BY <1>1, <1>3, ViewChanges
  <2> QED
    BY <2>1, <2>2
<1>5. View[s] # NoSession /\ View[s].owner \in MayActFor[p] /\ View[s].records = records[s]
  BY <1>1, ViewOf
<1>6. Log!ClearSession(s, p)
  BY <1>4, <1>5, LogClears
<1>7. View'[s] = NoSession
  BY <1>4 DEF View
<1>8. Log!Length(View', s) <= Log!Length(View, s)
  <2>1. Log!Length(View', s) = 0
    BY <1>7 DEF Log!Length
  <2>2. Log!Length(View, s) = Len(records[s])
    BY <1>5 DEF Log!Length
  <2>3. Len(records[s]) \in Nat
    BY <1>1 DEF TablesTyped
  <2> QED
    BY <2>1, <2>2, <2>3
<1>9. 0 \in 0..MaxRecords
  BY NothingIsApart
<1> QED
  BY <1>5, <1>6, <1>7, <1>8, <1>9, ShrinkIsNext DEF LogStep

LEMMA SweepStep == ASSUME StoreInv, SweepBatch PROVE LogStep
<1>1. open /\ Indexes /\ sweep \in 0..MaxTime /\ TablesTyped
  BY DEF StoreInv, TablesInv, Served, SweepBatch
<1>2. PICK d \in DueBatches(sweep) :
        IF \E x \in d : sessions[x[2]] = NoSession
        THEN sweep' = Nothing /\ UNCHANGED tables
        ELSE /\ remove_session_rows({x[2] : x \in d})
             /\ sweep' = IF LastBatch(Cardinality(d)) THEN Nothing ELSE sweep
  BY DEF SweepBatch
<1> DEFINE gone == {x[2] : x \in d}
<1>3. CASE UNCHANGED tables
  BY <1>3, ViewStays DEF tables
<1>4. CASE remove_session_rows(gone)
  <2>1. \A s \in gone : s \in HeldSessions /\ sessions[s].updated <= sweep
    <3> SUFFICES ASSUME NEW x \in d PROVE x[2] \in HeldSessions /\ sessions[x[2]].updated <= sweep
      OBVIOUS
    <3>1. x[2] \in HeldSessions /\ x = <<sessions[x[2]].updated, x[2]>> /\ x[1] <= sweep
      BY <1>1, BatchIsHeld
    <3> QED
      BY <3>1
  <2>2. /\ sessions' = [s \in Sessions |-> IF s \in gone THEN NoSession ELSE sessions[s]]
        /\ records' = [s \in Sessions |-> IF s \in gone THEN <<>> ELSE records[s]]
    BY <1>4 DEF remove_session_rows
  <2> HIDE DEF gone
  <2>3. \A s \in gone : s \in Sessions /\ View[s] # NoSession /\ View[s].updated <= sweep
    BY <1>1, <2>1, ViewOf DEF HeldSessions
  <2>4. View' = [s \in Sessions |-> IF s \in gone THEN NoSession ELSE View[s]]
    <3>1. View' = [s \in Sessions |-> Seen(sessions'[s], records'[s])]
      BY DEF View, Seen, Told
    <3>2. \A s \in Sessions :
            Seen(sessions'[s], records'[s]) = IF s \in gone THEN NoSession ELSE View[s]
      BY <2>2 DEF View, Seen
    <3> QED
      BY <3>1, <3>2
  <2>5. Log!SweepStale(sweep, gone)
    BY <2>3, <2>4, LogSweeps
  <2> QED
    BY <1>1, <2>3, <2>5, SweepIsNext DEF LogStep
<1> QED
  BY <1>2, <1>3, <1>4

(* The instance counts as its host does. *)
LEMMA CardinalityShared == \A S : Log!Cardinality(S) = Cardinality(S)
BY Zenon DEF Cardinality, Log!Cardinality

(* The boundary of a compaction is a number, the same for both stores. *)
LEMMA BoundaryIs ==
  ASSUME NEW rows \in Seq(Row), NEW keep
  PROVE  /\ compaction_boundary(rows, keep) \in Nat
         /\ Boundary(rows, keep) = compaction_boundary(rows, keep)
<1> DEFINE last == {i \in Unpinned(rows) : Cardinality({j \in Unpinned(rows) : j > i}) >= keep}
<1>1. compaction_boundary(rows, keep) = IF last = {} THEN 0 ELSE Max(last)
  BY DEF compaction_boundary
<1>2. Boundary(rows, keep) = compaction_boundary(rows, keep)
  <2>1. Log!Unpinned(rows) = Unpinned(rows)
    BY DEF Log!Unpinned, Unpinned
  <2>2. Boundary(rows, keep) = IF last = {} THEN 0 ELSE Log!Max(last)
    <3>1. \A S : Log!Cardinality(S) = Cardinality(S)
      BY CardinalityShared
    <3>2. {i \in Log!Unpinned(rows) : Log!Cardinality({j \in Log!Unpinned(rows) : j > i}) >= keep}
          = last
      BY <2>1, <3>1
    <3> HIDE DEF last
    <3> QED
      BY <3>2, Zenon DEF Boundary, Log!compaction_boundary
  <2>3. Log!Max(last) = Max(last)
    <3> HIDE DEF last
    <3> QED
      BY DEF Log!Max, Max
  <2> QED
    BY <1>1, <2>2, <2>3
<1>3. last \in SUBSET (1..Len(rows)) /\ Len(rows) \in Nat
  BY RowsFinite DEF Unpinned
<1> HIDE DEF last
<1>4. last # {} => Max(last) \in Nat
  <2> SUFFICES ASSUME last # {} PROVE Max(last) \in Nat
    OBVIOUS
  <2> DEFINE T == {n \in Nat : \A i \in last : i <= n}
  <2>1. Len(rows) \in T
    BY <1>3
  <2>2. PICK m \in T : \A n \in T : m <= n
    <3>1. T \subseteq Nat /\ T # {}
      BY <2>1
    <3> HIDE DEF T
    <3> QED
      BY <3>1, LeastNumber
  <2>3. m \in last
    <3> SUFFICES ASSUME m \notin last PROVE FALSE
      OBVIOUS
    <3>1. PICK i \in last : TRUE
      OBVIOUS
    <3>2. \A k \in last : k \in Nat /\ k <= m /\ k # m /\ k >= 1
      BY <1>3, <2>2
    <3>3. m \in Nat /\ m >= 1
      BY <2>2, <3>1, <3>2
    <3>4. m - 1 \in T
      BY <3>2, <3>3
    <3> QED
      BY <2>2, <3>3, <3>4
  <2>4. \A i \in last : m >= i
    BY <1>3, <2>2
  <2>5. \E x \in last : \A y \in last : x >= y
    BY <2>3, <2>4
  <2>6. Max(last) \in last
    BY <2>5, Zenon DEF Max
  <2>7. \A i \in 1..Len(rows) : i \in Nat
    BY <1>3
  <2> QED
    BY <1>3, <2>6, <2>7, Zenon
<1> QED
  BY <1>1, <1>2, <1>4

LEMMA AtIsInOrder == ASSUME NEW rows, NEW K PROVE Log!At(rows, K) = InOrder(rows, K)
BY Zenon DEF Log!At, InOrder, Log!Cardinality, Cardinality

(* A row is doomed when it is unpinned and at or before the boundary: no two rows are equal. *)
LEMMA KeptIs ==
  ASSUME TablesTyped, NEW s \in Sessions, Ascending(records[s]), NEW keep
  PROVE  Kept(s, keep) = {i \in DOMAIN records[s] :
                            i > Boundary(records[s], keep) \/ records[s][i].pinned}
<1> DEFINE rows == records[s]
           b == compaction_boundary(rows, keep)
<1>1. rows \in Seq(Row)
  BY DEF TablesTyped
<1>2. b \in Nat /\ Boundary(rows, keep) = b
  <2> HIDE DEF rows
  <2> QED
    BY <1>1, BoundaryIs
<1>3. (\A i \in DOMAIN rows : i \in Nat /\ rows[i].seq \in Nat) /\ Ascending(rows)
  <2>1. Ascending(rows)
    OBVIOUS
  <2> HIDE DEF rows
  <2>2. DOMAIN rows = 1..Len(rows) /\ Len(rows) \in Nat /\ \A i \in DOMAIN rows : rows[i] \in Row
    BY <1>1, RowsFinite
  <2>3. \A x \in Row : x.seq \in Nat
    BY DEF Row
  <2>4. \A i \in DOMAIN rows : i \in Nat /\ rows[i].seq \in Nat
    BY <2>2, <2>3
  <2> QED
    BY <2>1, <2>4
<1>4. Doomed(s, keep) = {rows[i] : i \in {j \in DOMAIN rows : j <= b /\ ~rows[j].pinned}}
  BY DEF Doomed, read_session
<1>5. Kept(s, keep) = {i \in DOMAIN rows : rows[i] \notin Doomed(s, keep)}
  BY DEF Kept
<1> HIDE DEF rows, b
<1>6. \A i, j \in DOMAIN rows : rows[i] = rows[j] => i = j
  <2> SUFFICES ASSUME NEW i \in DOMAIN rows, NEW j \in DOMAIN rows, rows[i] = rows[j], i # j
               PROVE  FALSE
    OBVIOUS
  <2>1. i < j \/ j < i
    BY <1>3
  <2> QED
    BY <1>3, <2>1 DEF Ascending
<1>7. \A i \in DOMAIN rows : rows[i] \in Doomed(s, keep) <=> i <= b /\ ~rows[i].pinned
  BY <1>4, <1>6
<1>8. \A i \in DOMAIN rows : i > b <=> ~(i <= b)
  BY <1>2, <1>3
<1>9. Kept(s, keep) = {i \in DOMAIN rows : i > b \/ rows[i].pinned}
  BY <1>5, <1>7, <1>8
<1> QED
  BY <1>2, <1>9 DEF rows

LEMMA CompactStep ==
  ASSUME StoreInv, open, NEW s \in HeldSessions, NEW p \in Principals, authorize(s, p),
         NEW keep \in 0..MaxRecords, compact_blocking(s, keep), UNCHANGED used
  PROVE  LogStep
<1> DEFINE rows == records[s]
           left == InOrder(rows, Kept(s, keep))
           h == sessions[s]
           new == CompactedHeader(h, Doomed(s, keep))
<1>1. /\ TablesInv /\ TablesTyped /\ s \in Sessions /\ h # NoSession /\ h \in Header
      /\ rows \in Seq(Row) /\ Counted(h, rows) /\ Ascending(rows)
  BY DEF StoreInv, TablesInv, TablesTyped, AllCounted, Counted, HeldSessions
<1>2. TablesTyped' /\ AllCounted'
  BY <1>1, CompactKeeps
<1>3. sessions' = [sessions EXCEPT ![s] = new] /\ records' = [records EXCEPT ![s] = left]
  BY <1>1 DEF compact_blocking, TablesTyped, Kept
<1>4. sessions'[s] = new /\ records'[s] = left
  BY <1>1, <1>3 DEF TablesTyped
<1>5. /\ left \in Seq(Row) /\ Len(left) <= Len(rows) /\ new \in Header
      /\ new.tokens = SumTokens(left) /\ new.next = h.next /\ new.owner = h.owner
      /\ new.updated = h.updated /\ new.created = h.created
  BY <1>1, CompactedIs
<1>6. left = Log!At(rows, {i \in DOMAIN rows : i > Boundary(rows, keep) \/ rows[i].pinned})
  BY <1>1, AtIsInOrder, KeptIs
<1>7. Log!SumTokens(left) = SumTokens(left)
  <2> HIDE DEF left
  <2> QED
    BY <1>5, SumTokensIs
<1> HIDE DEF new, left, h, rows
<1>8. /\ View[s] = Told(h, rows) /\ View[s] # NoSession /\ View[s].owner \in MayActFor[p]
      /\ View[s].records = rows
  BY <1>1, ViewOf DEF h, rows, authorize
<1>9. View' = [View EXCEPT ![s] = Told(new, left)] /\ View'[s] = Told(new, left)
  <2>1. new # NoSession
    BY <1>5, ContextAssumption
  <2>2. View' = [View EXCEPT ![s] = Seen(new, left)]
    BY <1>1, <1>3, ViewChanges
  <2> QED
    BY <1>1, <2>1, <2>2 DEF Seen, View
<1>10. Told(new, left) = [Told(h, rows) EXCEPT !.records = left, !.tokens = Log!SumTokens(left)]
  <2> DEFINE was == Told(h, rows)
             t == Log!SumTokens(left)
             Q == Seq(Row)
             R == [owner : Principals, created : Nat, updated : Nat, next : Nat, tokens : Nat,
                   records : Q]
             a == [was EXCEPT !.records = left, !.tokens = t]
             b == Told(new, left)
  <2>1. t = new.tokens /\ left \in Q /\ rows \in Q
    BY <1>1, <1>5, <1>7
  <2> HIDE DEF t, Q
  <2>2. t \in Nat
    BY <1>5, <2>1 DEF Header
  <2>3. /\ was \in R /\ was.owner = h.owner /\ was.created = h.created
        /\ was.updated = h.updated /\ was.next = h.next
    BY <1>1, <2>1 DEF Told, Header
  <2>4. /\ b \in R /\ b.owner = h.owner /\ b.created = h.created /\ b.updated = h.updated
        /\ b.next = h.next /\ b.tokens = t /\ b.records = left
    BY <1>5, <2>1 DEF Told, Header
  <2> HIDE DEF was, b
  <2>5. /\ a \in R /\ a.owner = h.owner /\ a.created = h.created /\ a.updated = h.updated
        /\ a.next = h.next /\ a.tokens = t /\ a.records = left
    BY <2>1, <2>2, <2>3
  <2> HIDE DEF a
  <2>6. a = b
    BY <2>4, <2>5
  <2> QED
    BY <2>6 DEF a, b, was, t
<1>11. View' = [View EXCEPT ![s].records = left, ![s].tokens = Log!SumTokens(left)]
  BY <1>8, <1>9, <1>10
<1>12. Log!CompactSession(s, p, keep)
  BY <1>6, <1>8, <1>11, LogCompacts
<1>13. Log!Length(View', s) <= Log!Length(View, s)
  <2>1. Told(new, left) # NoSession /\ Told(new, left).records = left
    BY <1>5, ToldIs
  <2> QED
    BY <1>5, <1>8, <1>9, <2>1 DEF Log!Length
<1>14. CASE View'[s] # View[s]
  BY <1>1, <1>12, <1>13, <1>14, ShrinkIsNext DEF LogStep
<1>15. CASE View'[s] = View[s]
  BY <1>9, <1>15 DEF LogStep, View
<1> QED
  BY <1>14, <1>15

LEMMA LogStarts == Init => Log!LogInit
<1> SUFFICES ASSUME Init PROVE Log!LogInit
  OBVIOUS
<1>1. TablesTyped /\ AllCounted
  BY InitHolds DEF StoreInv, TablesInv
<1>2. \A s \in Sessions : View[s] # NoSession =>
        /\ View[s].tokens = Log!SumTokens(View[s].records)
        /\ \A i \in DOMAIN View[s].records : View[s].records[i].seq < View[s].next
  <2> SUFFICES ASSUME NEW s \in Sessions, View[s] # NoSession
               PROVE  /\ View[s].tokens = Log!SumTokens(View[s].records)
                      /\ \A i \in DOMAIN View[s].records : View[s].records[i].seq < View[s].next
    OBVIOUS
  <2>1. /\ View[s].tokens = sessions[s].tokens /\ View[s].records = records[s]
        /\ View[s].next = sessions[s].next /\ sessions[s] # NoSession
    BY <1>1, ViewOf
  <2>2. Log!SumTokens(records[s]) = SumTokens(records[s])
    BY <1>1, SumTokensIs DEF TablesTyped
  <2> QED
    BY <1>1, <2>1, <2>2 DEF AllCounted, Counted
<1> QED
  BY <1>2, Zenon DEF Log!LogInit, View, Seen, Told, read_session

LEMMA NextIsLogStep == StoreInv /\ [Next]_allVars => LogStep
<1> SUFFICES ASSUME StoreInv, [Next]_allVars PROVE LogStep
  OBVIOUS
<1>1. CASE StoreCrash \/ Open \/ SweepBegin \/ Tick
  BY <1>1, ViewStays DEF StoreCrash, Open, SweepBegin, Tick, tables
<1>2. ASSUME NEW w \in Writers, NEW s \in Sessions, NEW p \in Principals, NEW e \in Entries,
             AppendBegin(w, s, p, e)
      PROVE  LogStep
  BY <1>2, ViewStays DEF AppendBegin, tables
<1>3. ASSUME NEW w \in Writers, AppendCommit(w) PROVE LogStep
  <2> DEFINE c == call[w]
  <2>1. open /\ c \in Pending
    BY <1>3 DEF StoreInv, Served, AppendCommit
  <2>2. c.s \in Sessions /\ c.p \in Principals /\ c.e \in Entries /\ c.at \in 0..MaxTime
    BY <2>1 DEF Pending
  <2>3. CASE MayAppend(c.s, c.p)
    <3>1. used < MaxIds /\ append_blocking(c.s, c.p, c.e, c.at)
      BY <1>3, <2>3 DEF AppendCommit
    <3> HIDE DEF c
    <3> QED
      BY <2>1, <2>2, <3>1, AppendStep
  <2>4. CASE ~MayAppend(c.s, c.p)
    BY <1>3, <2>4, ViewStays DEF AppendCommit, tables
  <2> QED
    BY <2>3, <2>4
<1>4. ASSUME NEW s \in Sessions, NEW p \in Principals, Clear(s, p) PROVE LogStep
  BY <1>4, ClearStep
<1>5. CASE SweepBatch
  BY <1>5, SweepStep
<1>6. ASSUME NEW r \in Rounds,
             \/ \E s \in Sessions, p \in Principals, b \in Budgets : RoundList(r, s, p, b)
             \/ RoundPlan(r) \/ RoundWrite(r) \/ RoundCount(r)
      PROVE  LogStep
  BY <1>6, ViewStays DEF RoundList, RoundPlan, RoundWrite, RoundCount, storeVars
<1>7. ASSUME NEW r \in Rounds, RoundRecap(r) PROVE LogStep
  <2> DEFINE q == round[r]
  <2>1. q.phase = "written" /\ Fits(q)
    BY <1>7 DEF RoundRecap, StoreInv, RoundsFit
  <2>2. open /\ q.s \in Sessions /\ q.p \in Principals /\ q.at \in 0..MaxTime
    BY <2>1 DEF Fits
  <2>3. CASE MayAppend(q.s, q.p)
    <3>1. used < MaxIds /\ append_blocking(q.s, q.p, Recap, q.at)
      BY <1>7, <2>3 DEF RoundRecap
    <3> HIDE DEF q
    <3> QED
      BY <2>2, <3>1, AppendStep
  <2>4. CASE ~MayAppend(q.s, q.p)
    BY <1>7, <2>4, ViewStays DEF RoundRecap, tables
  <2> QED
    BY <2>3, <2>4
<1>8. ASSUME NEW r \in Rounds, RoundReclaim(r) PROVE LogStep
  <2> DEFINE q == round[r]
  <2>1. q.phase = "counted" /\ Fits(q) /\ compact(q.s, q.p, q.keep) /\ UNCHANGED used
    BY <1>8 DEF RoundReclaim, StoreInv, RoundsFit
  <2>2. open /\ q.s \in Sessions /\ q.p \in Principals /\ q.keep \in 0..MaxRecords
    BY <2>1 DEF Fits
  <2> HIDE DEF q
  <2>3. CASE UNCHANGED tables
    BY <2>3, ViewStays DEF tables
  <2>4. CASE ~UNCHANGED tables
    <3>1. compact_blocking(q.s, q.keep) /\ q.s \in HeldSessions /\ authorize(q.s, q.p)
      BY <2>1, <2>2, <2>4 DEF compact, HeldSessions
    <3> QED
      BY <2>1, <2>2, <3>1, CompactStep
  <2> QED
    BY <2>3, <2>4
<1>9. CASE UNCHANGED allVars
  BY <1>9, ViewStays DEF allVars, storeVars
<1> QED
  BY <1>1, <1>2, <1>3, <1>4, <1>5, <1>6, <1>7, <1>8, <1>9 DEF Next, StoreNext

(* The persistent store implements the in-memory one: behind any interleaving of appends,
   clears, sweeps and compactions, and across crashes, each transaction is one step on the map
   of transcripts, and everything else leaves the map alone. *)
THEOREM StoreImplementsLog == Spec => ImplementsSessionLog
<1>1. StoreInv /\ [Next]_allVars => Log!LogNext \/ UNCHANGED View
  BY NextIsLogStep DEF LogStep
<1>2. UNCHANGED View => UNCHANGED
        [s \in Sessions |->
            IF sessions[s] = NoSession THEN NoSession
            ELSE [owner |-> sessions[s].owner, created |-> sessions[s].created,
                  updated |-> sessions[s].updated, next |-> sessions[s].next,
                  tokens |-> sessions[s].tokens, records |-> read_session(s)]]
  BY Zenon DEF View, Seen, Told, read_session
<1> QED
  BY <1>1, <1>2, LogStarts, StoreHolds, PTL DEF Spec, ImplementsSessionLog, Log!LogSpec

=============================================================================
