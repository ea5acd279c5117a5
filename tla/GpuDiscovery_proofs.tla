------------------------- MODULE GpuDiscovery_proofs -------------------------
(***************************************************************************)
(* Proofs about GpuDiscovery: the loop sums and maxima of the code, the    *)
(* type invariant, and the bound of the usage that DiscoverUsage reports   *)
(* by the capacity that Discover reports, for clusters whose GPU nodes     *)
(* carry one vendor, as discoverNodeGPUTypes expects.                      *)
(*                                                                         *)
(* The loops are recursive functions; what they compute is proved by       *)
(* induction on the length of the list, written as the choice of a least   *)
(* counterexample (LeastNat), since the induction theorems of the library  *)
(* take an operator parameter.                                             *)
(***************************************************************************)
EXTENDS GpuDiscovery, WellFoundedInduction, TLAPS

(***************************************************************************)
(* A non-empty set of naturals has a least element.                        *)
(***************************************************************************)
LEMMA LeastNat ==
  ASSUME NEW T \in SUBSET Nat, T # {}
  PROVE  \E x \in T : \A y \in T : ~(y < x)
<1>1. PICK x \in T : \A y \in T : <<y, x>> \notin OpToRel(<, Nat)
  BY WFMin, NatLessThanWellFounded, Zenon
<1>2. QED
  BY <1>1 DEF OpToRel

-----------------------------------------------------------------------------
(* The accumulators of the two loops, as the fixpoints SumTo and MaxTo     *)
(* choose.                                                                 *)
IsSumAcc(f, n, a) == a = [i \in 0..n |-> IF i = 0 THEN 0 ELSE a[i - 1] + f[i]]
IsMaxAcc(f, n, a) ==
  a = [i \in 0..n |-> IF i = 0 THEN 0 ELSE IF f[i] > a[i - 1] THEN f[i] ELSE a[i - 1]]

(***************************************************************************)
(* The sum loop has an accumulator for every length.                       *)
(***************************************************************************)
LEMMA SumAccExists ==
  ASSUME NEW f, NEW n \in Nat
  PROVE  \E a : IsSumAcc(f, n, a)
<1> DEFINE Bad == {m \in Nat : ~\E a : IsSumAcc(f, m, a)}
<1> SUFFICES ASSUME Bad # {} PROVE FALSE
  OBVIOUS
<1>1. PICK m \in Bad : \A y \in Bad : ~(y < m)
  BY LeastNat
<1>2. CASE m = 0
  <2>1. IsSumAcc(f, 0, [j \in 0..0 |-> 0])
    BY DEF IsSumAcc
  <2>2. QED
    BY <1>1, <1>2, <2>1
<1>3. CASE m # 0
  <2>1. m - 1 \in Nat /\ m - 1 < m
    BY <1>3
  <2>2. PICK g : IsSumAcc(f, m - 1, g)
    BY <1>1, <2>1
  <2>3. IsSumAcc(f, m, [j \in 0..m |-> IF j < m THEN g[j] ELSE g[m - 1] + f[m]])
    BY <2>1, <2>2 DEF IsSumAcc
  <2>4. QED
    BY <1>1, <2>3
<1>4. QED
  BY <1>2, <1>3

(***************************************************************************)
(* Two accumulators of the sum loop agree where both are defined.          *)
(***************************************************************************)
LEMMA SumAccAgree ==
  ASSUME NEW f, NEW n \in Nat, NEW m \in Nat, NEW a, NEW b,
         IsSumAcc(f, n, a), IsSumAcc(f, m, b)
  PROVE  \A i \in 0..n : i <= m => a[i] = b[i]
<1> DEFINE Bad == {i \in Nat : i <= n /\ i <= m /\ a[i] # b[i]}
<1> SUFFICES ASSUME Bad # {} PROVE FALSE
  OBVIOUS
<1>1. PICK i \in Bad : \A y \in Bad : ~(y < i)
  BY LeastNat
<1>2. CASE i = 0
  BY <1>1, <1>2 DEF IsSumAcc
<1>3. CASE i # 0
  <2>1. i - 1 \in Nat /\ i - 1 < i /\ a[i - 1] = b[i - 1]
    BY <1>1, <1>3
  <2>2. a[i] = a[i - 1] + f[i] /\ b[i] = b[i - 1] + f[i]
    BY <1>1, <1>3 DEF IsSumAcc
  <2>3. QED
    BY <1>1, <2>1, <2>2
<1>4. QED
  BY <1>2, <1>3

(***************************************************************************)
(* The sum loop unrolled: nothing for the empty list, and one more term    *)
(* for one more item.                                                      *)
(***************************************************************************)
LEMMA SumToZero ==
  ASSUME NEW f
  PROVE  SumTo(f, 0) = 0
<1> DEFINE a == CHOOSE x : IsSumAcc(f, 0, x)
<1>1. IsSumAcc(f, 0, a)
  BY SumAccExists
<1>2. SumTo(f, 0) = a[0]
  BY DEF SumTo, IsSumAcc
<1> HIDE DEF a
<1>3. QED
  BY <1>1, <1>2 DEF IsSumAcc

LEMMA SumToStep ==
  ASSUME NEW f, NEW n \in Nat, n # 0
  PROVE  SumTo(f, n) = SumTo(f, n - 1) + f[n]
<1> DEFINE a == CHOOSE x : IsSumAcc(f, n, x)
           b == CHOOSE x : IsSumAcc(f, n - 1, x)
<1>1. IsSumAcc(f, n, a) /\ IsSumAcc(f, n - 1, b)
  BY SumAccExists
<1>2. SumTo(f, n) = a[n] /\ SumTo(f, n - 1) = b[n - 1]
  BY DEF SumTo, IsSumAcc
<1> HIDE DEF a, b
<1>3. a[n] = a[n - 1] + f[n]
  BY <1>1 DEF IsSumAcc
<1>4. a[n - 1] = b[n - 1]
  BY <1>1, SumAccAgree
<1>5. QED
  BY <1>2, <1>3, <1>4

(***************************************************************************)
(* The same for the running maximum.                                       *)
(***************************************************************************)
LEMMA MaxAccExists ==
  ASSUME NEW f, NEW n \in Nat
  PROVE  \E a : IsMaxAcc(f, n, a)
<1> DEFINE Bad == {m \in Nat : ~\E a : IsMaxAcc(f, m, a)}
<1> SUFFICES ASSUME Bad # {} PROVE FALSE
  OBVIOUS
<1>1. PICK m \in Bad : \A y \in Bad : ~(y < m)
  BY LeastNat
<1>2. CASE m = 0
  <2>1. IsMaxAcc(f, 0, [j \in 0..0 |-> 0])
    BY DEF IsMaxAcc
  <2>2. QED
    BY <1>1, <1>2, <2>1
<1>3. CASE m # 0
  <2>1. m - 1 \in Nat /\ m - 1 < m
    BY <1>3
  <2>2. PICK g : IsMaxAcc(f, m - 1, g)
    BY <1>1, <2>1
  <2>3. IsMaxAcc(f, m, [j \in 0..m |-> IF j < m THEN g[j]
                                      ELSE IF f[m] > g[m - 1] THEN f[m] ELSE g[m - 1]])
    BY <2>1, <2>2 DEF IsMaxAcc
  <2>4. QED
    BY <1>1, <2>3
<1>4. QED
  BY <1>2, <1>3

LEMMA MaxAccAgree ==
  ASSUME NEW f, NEW n \in Nat, NEW m \in Nat, NEW a, NEW b,
         IsMaxAcc(f, n, a), IsMaxAcc(f, m, b)
  PROVE  \A i \in 0..n : i <= m => a[i] = b[i]
<1> DEFINE Bad == {i \in Nat : i <= n /\ i <= m /\ a[i] # b[i]}
<1> SUFFICES ASSUME Bad # {} PROVE FALSE
  OBVIOUS
<1>1. PICK i \in Bad : \A y \in Bad : ~(y < i)
  BY LeastNat
<1>2. CASE i = 0
  BY <1>1, <1>2 DEF IsMaxAcc
<1>3. CASE i # 0
  <2>1. i - 1 \in Nat /\ i - 1 < i /\ a[i - 1] = b[i - 1]
    BY <1>1, <1>3
  <2>2. /\ a[i] = IF f[i] > a[i - 1] THEN f[i] ELSE a[i - 1]
        /\ b[i] = IF f[i] > b[i - 1] THEN f[i] ELSE b[i - 1]
    BY <1>1, <1>3 DEF IsMaxAcc
  <2>3. QED
    BY <1>1, <2>1, <2>2
<1>4. QED
  BY <1>2, <1>3

LEMMA MaxToZero ==
  ASSUME NEW f
  PROVE  MaxTo(f, 0) = 0
<1> DEFINE a == CHOOSE x : IsMaxAcc(f, 0, x)
<1>1. IsMaxAcc(f, 0, a)
  BY MaxAccExists
<1>2. MaxTo(f, 0) = a[0]
  BY DEF MaxTo, IsMaxAcc
<1> HIDE DEF a
<1>3. QED
  BY <1>1, <1>2 DEF IsMaxAcc

LEMMA MaxToStep ==
  ASSUME NEW f, NEW n \in Nat, n # 0
  PROVE  MaxTo(f, n) = IF f[n] > MaxTo(f, n - 1) THEN f[n] ELSE MaxTo(f, n - 1)
<1> DEFINE a == CHOOSE x : IsMaxAcc(f, n, x)
           b == CHOOSE x : IsMaxAcc(f, n - 1, x)
<1>1. IsMaxAcc(f, n, a) /\ IsMaxAcc(f, n - 1, b)
  BY MaxAccExists
<1>2. MaxTo(f, n) = a[n] /\ MaxTo(f, n - 1) = b[n - 1]
  BY DEF MaxTo, IsMaxAcc
<1> HIDE DEF a, b
<1>3. a[n] = IF f[n] > a[n - 1] THEN f[n] ELSE a[n - 1]
  BY <1>1 DEF IsMaxAcc
<1>4. a[n - 1] = b[n - 1]
  BY <1>1, MaxAccAgree
<1>5. QED
  BY <1>2, <1>3, <1>4
(***************************************************************************)
(* A sum of naturals is a natural.                                         *)
(***************************************************************************)
LEMMA SumToNat ==
  ASSUME NEW f, NEW n \in Nat, \A i \in 1..n : f[i] \in Nat
  PROVE  SumTo(f, n) \in Nat
<1> DEFINE Bad == {m \in Nat : m <= n /\ SumTo(f, m) \notin Nat}
<1> SUFFICES ASSUME Bad # {} PROVE FALSE
  OBVIOUS
<1>1. PICK m \in Bad : \A y \in Bad : ~(y < m)
  BY LeastNat
<1>2. CASE m = 0
  BY <1>1, <1>2, SumToZero
<1>3. CASE m # 0
  <2>1. m - 1 \in 0..n /\ m - 1 < m
    BY <1>3
  <2>2. SumTo(f, m - 1) \in Nat
    BY <1>1, <2>1
  <2>3. SumTo(f, m) = SumTo(f, m - 1) + f[m]
    BY <1>3, SumToStep
  <2>4. QED
    BY <1>1, <1>3, <2>2, <2>3
<1>4. QED
  BY <1>2, <1>3

(***************************************************************************)
(* Sums of the same terms on 1..n are equal.                               *)
(***************************************************************************)
LEMMA SumToCong ==
  ASSUME NEW f, NEW g, NEW n \in Nat, \A i \in 1..n : f[i] = g[i]
  PROVE  SumTo(f, n) = SumTo(g, n)
<1> DEFINE Bad == {m \in Nat : m <= n /\ SumTo(f, m) # SumTo(g, m)}
<1> SUFFICES ASSUME Bad # {} PROVE FALSE
  OBVIOUS
<1>1. PICK m \in Bad : \A y \in Bad : ~(y < m)
  BY LeastNat
<1>2. CASE m = 0
  BY <1>1, <1>2, SumToZero
<1>3. CASE m # 0
  <2>1. m - 1 \in 0..n /\ m - 1 < m
    BY <1>3
  <2>2. SumTo(f, m - 1) = SumTo(g, m - 1)
    BY <1>1, <2>1
  <2>3. SumTo(f, m) = SumTo(f, m - 1) + f[m] /\ SumTo(g, m) = SumTo(g, m - 1) + g[m]
    BY <1>3, SumToStep
  <2>4. QED
    BY <1>1, <1>3, <2>2, <2>3
<1>4. QED
  BY <1>2, <1>3

(***************************************************************************)
(* The sum grows with its terms.                                           *)
(***************************************************************************)
LEMMA SumToMono ==
  ASSUME NEW f, NEW g, NEW n \in Nat,
         \A i \in 1..n : f[i] \in Nat /\ g[i] \in Nat /\ f[i] <= g[i]
  PROVE  SumTo(f, n) <= SumTo(g, n)
<1> DEFINE Bad == {m \in Nat : m <= n /\ ~(SumTo(f, m) <= SumTo(g, m))}
<1> SUFFICES ASSUME Bad # {} PROVE FALSE
  OBVIOUS
<1>1. PICK m \in Bad : \A y \in Bad : ~(y < m)
  BY LeastNat
<1>2. CASE m = 0
  BY <1>1, <1>2, SumToZero
<1>3. CASE m # 0
  <2>1. m - 1 \in 0..n /\ m - 1 < m
    BY <1>3
  <2>2. SumTo(f, m - 1) <= SumTo(g, m - 1)
    BY <1>1, <2>1
  <2>3. SumTo(f, m - 1) \in Nat /\ SumTo(g, m - 1) \in Nat
    BY <2>1, SumToNat
  <2>4. SumTo(f, m) = SumTo(f, m - 1) + f[m] /\ SumTo(g, m) = SumTo(g, m - 1) + g[m]
    BY <1>3, SumToStep
  <2>5. QED
    BY <1>1, <1>3, <2>2, <2>3, <2>4
<1>4. QED
  BY <1>2, <1>3

(***************************************************************************)
(* A sum of naturals is at least each of its terms.                        *)
(***************************************************************************)
LEMMA SumToTerm ==
  ASSUME NEW f, NEW n \in Nat, \A i \in 1..n : f[i] \in Nat, NEW k \in 1..n
  PROVE  f[k] <= SumTo(f, n)
<1> DEFINE Bad == {m \in Nat : k <= m /\ m <= n /\ ~(f[k] <= SumTo(f, m))}
<1> SUFFICES ASSUME Bad # {} PROVE FALSE
  OBVIOUS
<1>1. PICK m \in Bad : \A y \in Bad : ~(y < m)
  BY LeastNat
<1>2. m - 1 \in 0..n /\ SumTo(f, m - 1) \in Nat /\ f[m] \in Nat
  BY SumToNat
<1>3. SumTo(f, m) = SumTo(f, m - 1) + f[m]
  BY SumToStep
<1>4. CASE m = k
  BY <1>1, <1>2, <1>3, <1>4
<1>5. CASE m # k
  <2>1. m - 1 \in k..n /\ m - 1 < m
    BY <1>5
  <2>2. f[k] <= SumTo(f, m - 1)
    BY <1>1, <2>1
  <2>3. QED
    BY <1>1, <1>2, <1>3, <2>2
<1>6. QED
  BY <1>4, <1>5

(***************************************************************************)
(* A sum of zeros is zero, and a sum with one non-zero term is that term.  *)
(***************************************************************************)
LEMMA SumToZeros ==
  ASSUME NEW f, NEW n \in Nat, \A i \in 1..n : f[i] = 0
  PROVE  SumTo(f, n) = 0
<1> DEFINE Bad == {m \in Nat : m <= n /\ SumTo(f, m) # 0}
<1> SUFFICES ASSUME Bad # {} PROVE FALSE
  OBVIOUS
<1>1. PICK m \in Bad : \A y \in Bad : ~(y < m)
  BY LeastNat
<1>2. CASE m = 0
  BY <1>1, <1>2, SumToZero
<1>3. CASE m # 0
  <2>1. m - 1 \in 0..n /\ m - 1 < m
    BY <1>3
  <2>2. SumTo(f, m - 1) = 0
    BY <1>1, <2>1
  <2>3. SumTo(f, m) = SumTo(f, m - 1) + f[m]
    BY <1>3, SumToStep
  <2>4. QED
    BY <1>1, <1>3, <2>2, <2>3
<1>4. QED
  BY <1>2, <1>3

LEMMA SumToSingle ==
  ASSUME NEW f, NEW n \in Nat, NEW k \in 1..n, f[k] \in Nat,
         \A i \in 1..n : i # k => f[i] = 0
  PROVE  SumTo(f, n) = f[k]
<1>1. SumTo(f, k - 1) = 0
  BY SumToZeros
<1> DEFINE Bad == {m \in Nat : k <= m /\ m <= n /\ SumTo(f, m) # f[k]}
<1> SUFFICES ASSUME Bad # {} PROVE FALSE
  OBVIOUS
<1>2. PICK m \in Bad : \A y \in Bad : ~(y < m)
  BY LeastNat
<1>3. SumTo(f, m) = SumTo(f, m - 1) + f[m]
  BY SumToStep
<1>4. CASE m = k
  BY <1>1, <1>2, <1>3, <1>4
<1>5. CASE m # k
  <2>1. m - 1 \in k..n /\ m - 1 < m
    BY <1>5
  <2>2. SumTo(f, m - 1) = f[k] /\ f[m] = 0
    BY <1>2, <1>5, <2>1
  <2>3. QED
    BY <1>2, <1>3, <2>2
<1>6. QED
  BY <1>4, <1>5

(***************************************************************************)
(* The sum of termwise sums is the sum of the two sums.                    *)
(***************************************************************************)
LEMMA SumToAdd ==
  ASSUME NEW f, NEW g, NEW h, NEW n \in Nat,
         \A i \in 1..n : f[i] \in Nat /\ g[i] \in Nat /\ h[i] = f[i] + g[i]
  PROVE  SumTo(h, n) = SumTo(f, n) + SumTo(g, n)
<1> DEFINE Bad == {m \in Nat : m <= n /\ SumTo(h, m) # SumTo(f, m) + SumTo(g, m)}
<1> SUFFICES ASSUME Bad # {} PROVE FALSE
  OBVIOUS
<1>1. PICK m \in Bad : \A y \in Bad : ~(y < m)
  BY LeastNat
<1>2. CASE m = 0
  BY <1>1, <1>2, SumToZero
<1>3. CASE m # 0
  <2>1. m - 1 \in 0..n /\ m - 1 < m
    BY <1>3
  <2>2. SumTo(h, m - 1) = SumTo(f, m - 1) + SumTo(g, m - 1)
    BY <1>1, <2>1
  <2>3. SumTo(f, m - 1) \in Nat /\ SumTo(g, m - 1) \in Nat
    BY <2>1, SumToNat
  <2>4. /\ SumTo(h, m) = SumTo(h, m - 1) + h[m]
        /\ SumTo(f, m) = SumTo(f, m - 1) + f[m]
        /\ SumTo(g, m) = SumTo(g, m - 1) + g[m]
    BY <1>3, SumToStep
  <2>5. QED
    BY <1>1, <1>3, <2>2, <2>3, <2>4
<1>4. QED
  BY <1>2, <1>3

(***************************************************************************)
(* The running maximum of naturals is a natural at least each of them.     *)
(***************************************************************************)
LEMMA MaxToNat ==
  ASSUME NEW f, NEW n \in Nat, \A i \in 1..n : f[i] \in Nat
  PROVE  MaxTo(f, n) \in Nat
<1> DEFINE Bad == {m \in Nat : m <= n /\ MaxTo(f, m) \notin Nat}
<1> SUFFICES ASSUME Bad # {} PROVE FALSE
  OBVIOUS
<1>1. PICK m \in Bad : \A y \in Bad : ~(y < m)
  BY LeastNat
<1>2. CASE m = 0
  BY <1>1, <1>2, MaxToZero
<1>3. CASE m # 0
  <2>1. m - 1 \in 0..n /\ m - 1 < m
    BY <1>3
  <2>2. MaxTo(f, m - 1) \in Nat
    BY <1>1, <2>1
  <2>3. MaxTo(f, m) = IF f[m] > MaxTo(f, m - 1) THEN f[m] ELSE MaxTo(f, m - 1)
    BY <1>3, MaxToStep
  <2>4. QED
    BY <1>1, <1>3, <2>2, <2>3
<1>4. QED
  BY <1>2, <1>3

LEMMA MaxToGe ==
  ASSUME NEW f, NEW n \in Nat, \A i \in 1..n : f[i] \in Nat, NEW k \in 1..n
  PROVE  f[k] <= MaxTo(f, n)
<1> DEFINE Bad == {m \in Nat : k <= m /\ m <= n /\ ~(f[k] <= MaxTo(f, m))}
<1> SUFFICES ASSUME Bad # {} PROVE FALSE
  OBVIOUS
<1>1. PICK m \in Bad : \A y \in Bad : ~(y < m)
  BY LeastNat
<1>2. m - 1 \in 0..n /\ MaxTo(f, m - 1) \in Nat /\ f[m] \in Nat
  BY MaxToNat
<1>3. MaxTo(f, m) = IF f[m] > MaxTo(f, m - 1) THEN f[m] ELSE MaxTo(f, m - 1)
  BY MaxToStep
<1>4. CASE m = k
  BY <1>1, <1>2, <1>3, <1>4
<1>5. CASE m # k
  <2>1. m - 1 \in k..n /\ m - 1 < m
    BY <1>5
  <2>2. f[k] <= MaxTo(f, m - 1)
    BY <1>1, <2>1
  <2>3. QED
    BY <1>1, <1>2, <1>3, <2>2
<1>6. QED
  BY <1>4, <1>5
(***************************************************************************)
(* A double sum over a rectangle may be taken in either order.             *)
(***************************************************************************)
LEMMA SumToExchange ==
  ASSUME NEW t, NEW P \in Nat, NEW N \in Nat,
         \A i \in 1..P, j \in 1..N : t[i][j] \in Nat
  PROVE  SumTo([i \in 1..P |-> SumTo(t[i], N)], P)
           = SumTo([j \in 1..N |-> SumTo([i \in 1..P |-> t[i][j]], P)], N)
<1> DEFINE L == [i \in 1..P |-> SumTo(t[i], N)]
           G == [j \in 1..N |-> [i \in 1..P |-> t[i][j]]]
           R == [q \in 0..P |-> [j \in 1..N |-> SumTo(G[j], q)]]
<1>1. \A q \in 0..P, j \in 1..N : R[q][j] = SumTo(G[j], q)
  OBVIOUS
<1>2. \A j \in 1..N, i \in 1..P : G[j][i] = t[i][j] /\ G[j][i] \in Nat
  OBVIOUS
<1>3. \A i \in 1..P : L[i] = SumTo(t[i], N)
  OBVIOUS
<1> HIDE DEF L, G, R
<1>4. \A q \in 0..P : SumTo(L, q) = SumTo(R[q], N)
  <2> DEFINE Bad == {q \in Nat : q <= P /\ SumTo(L, q) # SumTo(R[q], N)}
  <2> SUFFICES ASSUME Bad # {} PROVE FALSE
    OBVIOUS
  <2>1. PICK q \in Bad : \A y \in Bad : ~(y < q)
    BY LeastNat
  <2>2. CASE q = 0
    <3>1. SumTo(L, 0) = 0
      BY SumToZero
    <3>2. \A j \in 1..N : R[0][j] = 0
      BY <1>1, SumToZero
    <3>3. SumTo(R[0], N) = 0
      BY <3>2, SumToZeros
    <3>4. QED
      BY <2>1, <2>2, <3>1, <3>3
  <2>3. CASE q # 0
    <3>1. q - 1 \in 0..P /\ q - 1 \in Nat /\ q - 1 < q /\ q \in 1..P
      BY <2>1, <2>3
    <3>2. SumTo(L, q - 1) = SumTo(R[q - 1], N)
      BY <2>1, <3>1
    <3>3. SumTo(L, q) = SumTo(L, q - 1) + SumTo(t[q], N)
      BY <1>3, <2>3, <3>1, SumToStep
    <3>4. \A j \in 1..N : /\ R[q - 1][j] \in Nat
                          /\ t[q][j] \in Nat
                          /\ R[q][j] = R[q - 1][j] + t[q][j]
      <4> SUFFICES ASSUME NEW j \in 1..N
                   PROVE  /\ R[q - 1][j] \in Nat
                          /\ t[q][j] \in Nat
                          /\ R[q][j] = R[q - 1][j] + t[q][j]
        OBVIOUS
      <4>1. \A i \in 1..(q - 1) : G[j][i] \in Nat
        BY <1>2, <3>1
      <4>2. SumTo(G[j], q - 1) \in Nat
        BY <3>1, <4>1, SumToNat, Zenon
      <4>3. SumTo(G[j], q) = SumTo(G[j], q - 1) + G[j][q]
        BY <2>3, <3>1, SumToStep
      <4>4. QED
        BY <1>1, <1>2, <3>1, <4>2, <4>3
    <3>5. SumTo(R[q], N) = SumTo(R[q - 1], N) + SumTo(t[q], N)
      BY <3>4, SumToAdd
    <3>6. QED
      BY <2>1, <3>2, <3>3, <3>5
  <2>4. QED
    BY <2>2, <2>3
<1> DEFINE RHS == [j \in 1..N |-> SumTo([i \in 1..P |-> t[i][j]], P)]
<1>5. \A j \in 1..N : RHS[j] = SumTo(G[j], P)
  BY DEF RHS, G
<1> HIDE DEF RHS
<1>6. SumTo(R[P], N) = SumTo(RHS, N)
  <2>1. \A j \in 1..N : R[P][j] = RHS[j]
    BY <1>1, <1>5
  <2>2. QED
    BY <2>1, SumToCong
<1>7. QED
  BY <1>4, <1>6 DEF L, RHS

-----------------------------------------------------------------------------
(* Facts of the constants. *)

LEMMA VendorIndex ==
  ASSUME NEW v \in Vendors
  PROVE  \E k \in 1..Len(VendorOrder) : /\ VendorOrder[k] = v
                                       /\ \A i \in 1..Len(VendorOrder) : VendorOrder[i] = v => i = k
<1>1. DOMAIN VendorOrder = 1..Len(VendorOrder)
  BY VendorAssumption
<1>2. PICK k \in 1..Len(VendorOrder) : VendorOrder[k] = v
  BY <1>1 DEF Vendors
<1>3. \A i \in 1..Len(VendorOrder) : VendorOrder[i] = v => i = k
  BY <1>1, <1>2, VendorAssumption DEF Distinct
<1>4. QED
  BY <1>2, <1>3

(* The GPUs a container or a pod asks for are naturals.                    *)
LEMMA ContainerGPUsNat ==
  ASSUME NEW c \in Requests
  PROVE  ContainerGPUs(c) \in Nat
<1>1. \A k \in 1..Len(VendorOrder) : [k2 \in DOMAIN VendorOrder |-> c[VendorOrder[k2]]][k] \in Nat
  BY VendorAssumption DEF Requests, Vendors
<1>2. Len(VendorOrder) \in Nat
  BY VendorAssumption
<1>3. SumTo([k2 \in DOMAIN VendorOrder |-> c[VendorOrder[k2]]], Len(VendorOrder)) \in Nat
  BY <1>1, <1>2, SumToNat, Zenon
<1>4. QED
  BY <1>3 DEF ContainerGPUs

LEMMA GetPodNat ==
  ASSUME NEW p \in Pods
  PROVE  GetPodGPURequests(p) \in Nat
<1> DEFINE cs == PodSpec[p].containers
           is == PodSpec[p].init
<1>1. cs \in Seq(Requests) /\ is \in Seq(Requests)
  BY PodAssumption
<1>2. SumTo([i \in DOMAIN cs |-> ContainerGPUs(cs[i])], Len(cs)) \in Nat
  <2>1. \A i \in 1..Len(cs) : [i2 \in DOMAIN cs |-> ContainerGPUs(cs[i2])][i] \in Nat
    BY <1>1, ContainerGPUsNat
  <2>2. Len(cs) \in Nat
    BY <1>1
  <2>3. QED
    BY <2>1, <2>2, SumToNat, Zenon
<1>3. MaxTo([i \in DOMAIN is |-> ContainerGPUs(is[i])], Len(is)) \in Nat
  <2>1. \A i \in 1..Len(is) : [i2 \in DOMAIN is |-> ContainerGPUs(is[i2])][i] \in Nat
    BY <1>1, ContainerGPUsNat
  <2>2. Len(is) \in Nat
    BY <1>1
  <2>3. QED
    BY <2>1, <2>2, MaxToNat, Zenon
<1>4. QED
  BY <1>2, <1>3 DEF GetPodGPURequests

LEMMA EffectiveRequestNat ==
  ASSUME NEW p \in Pods, NEW v \in Vendors
  PROVE  EffectiveRequest(p, v) \in Nat
<1> DEFINE cs == PodSpec[p].containers
           is == PodSpec[p].init
<1>1. cs \in Seq(Requests) /\ is \in Seq(Requests)
  BY PodAssumption
<1>2. SumTo([i \in DOMAIN cs |-> cs[i][v]], Len(cs)) \in Nat
  <2>1. \A i \in 1..Len(cs) : [i2 \in DOMAIN cs |-> cs[i2][v]][i] \in Nat
    BY <1>1 DEF Requests
  <2>2. Len(cs) \in Nat
    BY <1>1
  <2>3. QED
    BY <2>1, <2>2, SumToNat, Zenon
<1>3. MaxTo([i \in DOMAIN is |-> is[i][v]], Len(is)) \in Nat
  <2>1. \A i \in 1..Len(is) : [i2 \in DOMAIN is |-> is[i2][v]][i] \in Nat
    BY <1>1 DEF Requests
  <2>2. Len(is) \in Nat
    BY <1>1
  <2>3. QED
    BY <2>1, <2>2, MaxToNat, Zenon
<1>4. QED
  BY <1>2, <1>3 DEF EffectiveRequest

(* The first vendor label of a GPU node, and the last vendor label of a    *)
(* model on a node, exist.                                                 *)
LEMMA FirstVendorIdxProp ==
  ASSUME NEW n \in Nodes, GpuNode(n)
  PROVE  /\ FirstVendorIdx(n) \in DOMAIN VendorOrder
         /\ HasProduct(n, VendorOrder[FirstVendorIdx(n)])
         /\ \A j \in DOMAIN VendorOrder : HasProduct(n, VendorOrder[j]) => FirstVendorIdx(n) <= j
<1> DEFINE T == {i \in Nat : i \in DOMAIN VendorOrder /\ HasProduct(n, VendorOrder[i])}
<1>1. T # {}
  BY VendorAssumption DEF GpuNode, Vendors
<1>2. PICK x \in T : \A y \in T : ~(y < x)
  BY <1>1, LeastNat
<1>3. /\ x \in DOMAIN VendorOrder
      /\ HasProduct(n, VendorOrder[x])
      /\ \A j \in DOMAIN VendorOrder : HasProduct(n, VendorOrder[j]) => x <= j
  BY <1>2, VendorAssumption
<1>4. QED
  BY <1>3 DEF FirstVendorIdx

LEMMA LastVendorIdxProp ==
  ASSUME NEW n \in Nodes, NEW m, NEW i0 \in DOMAIN VendorOrder,
         NodeProduct[n][VendorOrder[i0]] = m
  PROVE  /\ LastVendorIdx(n, m) \in DOMAIN VendorOrder
         /\ NodeProduct[n][VendorOrder[LastVendorIdx(n, m)]] = m
<1> DEFINE K == Len(VendorOrder)
           D == {d \in Nat : K - d \in DOMAIN VendorOrder /\ NodeProduct[n][VendorOrder[K - d]] = m}
<1>1. K - i0 \in D
  BY VendorAssumption
<1>2. PICK d \in D : \A y \in D : ~(y < d)
  BY <1>1, LeastNat
<1>3. \A j \in DOMAIN VendorOrder : NodeProduct[n][VendorOrder[j]] = m => j <= K - d
  <2> SUFFICES ASSUME NEW j \in DOMAIN VendorOrder, NodeProduct[n][VendorOrder[j]] = m
               PROVE  j <= K - d
    OBVIOUS
  <2>1. K - j \in D
    BY VendorAssumption
  <2>2. QED
    BY <1>2, <2>1, VendorAssumption
<1>4. QED
  BY <1>2, <1>3 DEF LastVendorIdx

-----------------------------------------------------------------------------
(* The types of what the reads return. *)

LEMMA ListedNodes ==
  ASSUME selector \in Selectors
  PROVE  ListGPUOperatorNodes \subseteq Nodes
BY SelectorAssumption DEF ListGPUOperatorNodes

LEMMA NodeGPUTypesType ==
  ASSUME NEW listed \in SUBSET Nodes
  PROVE  NodeGPUTypes(listed) \in [{n \in listed : GpuNode(n)} -> Models]
<1> SUFFICES ASSUME NEW n \in listed, GpuNode(n)
             PROVE  NodeProduct[n][VendorOrder[FirstVendorIdx(n)]] \in Models
  BY DEF NodeGPUTypes
<1>1. FirstVendorIdx(n) \in DOMAIN VendorOrder /\ HasProduct(n, VendorOrder[FirstVendorIdx(n)])
  BY FirstVendorIdxProp
<1>2. VendorOrder[FirstVendorIdx(n)] \in Vendors
  BY <1>1 DEF Vendors
<1>3. QED
  BY <1>1, <1>2, NodeAssumption DEF HasProduct

LEMMA InventoryType ==
  ASSUME NEW listed \in SUBSET Nodes
  PROVE  LET I == InventoryOf(listed)
         IN  /\ DOMAIN I \subseteq Nodes
             /\ \A n \in DOMAIN I : DOMAIN I[n] \subseteq Models /\ I[n] \in [DOMAIN I[n] -> Nat]
<1> DEFINE models(n) == {NodeProduct[n][v] : v \in {w \in Vendors : HasProduct(n, w)}}
<1>1. \A n \in listed : \A m \in models(n) :
        m \in Models /\ NodeAlloc[n][VendorOrder[LastVendorIdx(n, m)]] \in Nat
  <2> SUFFICES ASSUME NEW n \in listed, NEW v \in Vendors, HasProduct(n, v)
               PROVE  LET m == NodeProduct[n][v]
                      IN  m \in Models /\ NodeAlloc[n][VendorOrder[LastVendorIdx(n, m)]] \in Nat
    OBVIOUS
  <2>1. PICK i0 \in DOMAIN VendorOrder : VendorOrder[i0] = v
    BY DEF Vendors
  <2>2. LastVendorIdx(n, NodeProduct[n][v]) \in DOMAIN VendorOrder
    BY <2>1, LastVendorIdxProp
  <2>3. VendorOrder[LastVendorIdx(n, NodeProduct[n][v])] \in Vendors
    BY <2>2 DEF Vendors
  <2>4. QED
    BY <2>3, NodeAssumption DEF HasProduct, Requests
<1>2. QED
  BY <1>1 DEF InventoryOf


LEMMA UsageType ==
  ASSUME NEW D \in SUBSET Nodes, NEW types \in [D -> Models],
         pods \in [Pods -> [node : Nodes \cup {NoNode}, phase : Phases \cup {"Deleted"}]]
  PROVE  LET U == UsageByType(types)
         IN  DOMAIN U \subseteq Models /\ U \in [DOMAIN U -> Nat \ {0}]
<1> DEFINE counted == CountedPods(types)
           used == {types[pods[p].node] : p \in {q \in counted : GetPodGPURequests(q) > 0}}
<1>1. UsageByType(types) = [m \in used |-> SumTo(Charge(types, m), Len(PodList))]
  BY DEF UsageByType
<1>2. used \subseteq Models
  BY DEF CountedPods
<1>3. \A q \in counted : GetPodGPURequests(q) > 0 =>
        SumTo(Charge(types, types[pods[q].node]), Len(PodList)) \in Nat \ {0}
  <2> SUFFICES ASSUME NEW q \in counted, GetPodGPURequests(q) > 0
               PROVE  SumTo(Charge(types, types[pods[q].node]), Len(PodList)) \in Nat \ {0}
    OBVIOUS
  <2> DEFINE C == Charge(types, types[pods[q].node])
  <2>1. PICK k \in 1..Len(PodList) : PodList[k] = q
    BY PodAssumption DEF CountedPods, Pods
  <2>2. \A i \in 1..Len(PodList) : C[i] \in Nat
    BY GetPodNat, PodAssumption DEF Charge, Pods
  <2>3. C[k] = GetPodGPURequests(q)
    BY <2>1, PodAssumption DEF Charge
  <2>4. Len(PodList) \in Nat
    BY PodAssumption
  <2> HIDE DEF C
  <2>5. C[k] <= SumTo(C, Len(PodList))
    BY <2>1, <2>2, <2>4, SumToTerm, Zenon
  <2>6. SumTo(C, Len(PodList)) \in Nat
    BY <2>2, <2>4, SumToNat, Zenon
  <2>7. QED
    BY <2>3, <2>5, <2>6, GetPodNat DEF C, CountedPods
<1>4. QED
  BY <1>1, <1>2, <1>3

-----------------------------------------------------------------------------
(* Type correctness. *)

LEMMA InitTypeOK == Init => TypeOK
BY NodeAssumption DEF Init, TypeOK, Phases

LEMMA StepTypeOK == TypeOK /\ [Next]_vars => TypeOK'
<1> SUFFICES ASSUME TypeOK, [Next]_vars PROVE TypeOK'
  OBVIOUS
<1>1. CASE Discover
  <2>1. ListGPUOperatorNodes \subseteq Nodes
    BY ListedNodes DEF TypeOK
  <2>2. QED
    BY <1>1, <2>1, InventoryType DEF Discover, TypeOK
<1>2. CASE DiscoverFails
  BY <1>2 DEF DiscoverFails, TypeOK
<1>3. CASE DiscoverUsage
  <2> DEFINE listed == ListGPUOperatorNodes
  <2>1. listed \subseteq Nodes
    BY ListedNodes DEF TypeOK
  <2>2. NodeGPUTypes(listed) \in [{n \in listed : GpuNode(n)} -> Models]
    BY <2>1, NodeGPUTypesType
  <2>3. LET U == UsageByType(NodeGPUTypes(listed))
        IN  DOMAIN U \subseteq Models /\ U \in [DOMAIN U -> Nat \ {0}]
    BY <2>1, <2>2, UsageType DEF TypeOK
  <2>4. QED
    BY <1>3, <2>3 DEF DiscoverUsage, TypeOK
<1>4. CASE DiscoverUsageFails
  BY <1>4 DEF DiscoverUsageFails, TypeOK
<1>5. ASSUME NEW p \in Pods, NEW n \in Nodes, Schedule(p, n) PROVE TypeOK'
  BY <1>5 DEF Schedule, TypeOK
<1>6. ASSUME NEW p \in Pods, Start(p) PROVE TypeOK'
  BY <1>6 DEF Start, TypeOK, Phases
<1>7. ASSUME NEW p \in Pods, NEW ph \in Terminated, Terminate(p, ph) PROVE TypeOK'
  BY <1>7 DEF Terminate, TypeOK, Phases, Terminated
<1>8. ASSUME NEW p \in Pods, Delete(p) PROVE TypeOK'
  BY <1>8 DEF Delete, TypeOK
<1>9. CASE UNCHANGED vars
  BY <1>9 DEF vars, TypeOK
<1>10. QED
  BY <1>1, <1>2, <1>3, <1>4, <1>5, <1>6, <1>7, <1>8, <1>9 DEF Next

(***************************************************************************)
(* Every state of the discoverer and the cluster has the types of TypeOK:  *)
(* in particular Discover stores natural counts under product labels, and  *)
(* DiscoverUsage stores only positive counts under GPU types.              *)
(***************************************************************************)
THEOREM TypeCorrect == Spec => []TypeOK
BY InitTypeOK, StepTypeOK, PTL DEF Spec

-----------------------------------------------------------------------------
(***************************************************************************)
(* The hypothesis of the capacity bound, which discoverNodeGPUTypes states *)
(* at its break ("Only one GPU type per node expected"): the GPUs of every *)
(* node come from one vendor, and no other vendor labels the node.         *)
(***************************************************************************)
NodeVendor(n, v) == \A w \in Vendors \ {v} : ~HasProduct(n, w) /\ NodeAlloc[n][w] = 0
SingleVendor == \A n \in Nodes : \E v \in Vendors : NodeVendor(n, v)

(* The scheduler's bound: the pods that hold a node fit in it.             *)
SchedInv ==
  \A n \in Nodes, v \in Vendors : SumTo(HoldReq(n, v), Len(PodList)) <= NodeAlloc[n][v]

(* Capacity of model m in an inventory I.                                  *)
CapacityIn(I, m) ==
  SumTo([j \in DOMAIN NodeList |->
           IF NodeList[j] \in DOMAIN I /\ m \in DOMAIN I[NodeList[j]]
           THEN I[NodeList[j]][m] ELSE 0], Len(NodeList))

(***************************************************************************)
(* The inductive invariant: the scheduler's bound; an inventory that       *)
(* Discover stored is the inventory of the nodes it lists now (the         *)
(* selector is fixed); and a usage that DiscoverUsage stored is within the *)
(* capacity of that inventory, although the pods have moved on since.      *)
(***************************************************************************)
InvDiscovered == discovered = "ok" => inv = InventoryOf(ListGPUOperatorNodes)
UsageBounded ==
  usageState = "ok" =>
    \A m \in DOMAIN usage : usage[m] <= CapacityIn(InventoryOf(ListGPUOperatorNodes), m)
IInv == TypeOK /\ SchedInv /\ InvDiscovered /\ UsageBounded
-----------------------------------------------------------------------------
(* The scheduler's bound is inductive. *)

LEMMA InitSchedInv == Init => SchedInv
<1> SUFFICES ASSUME Init, NEW n \in Nodes, NEW v \in Vendors
             PROVE  SumTo(HoldReq(n, v), Len(PodList)) <= NodeAlloc[n][v]
  BY DEF SchedInv
<1>1. \A i \in 1..Len(PodList) : HoldReq(n, v)[i] = 0
  BY NodeAssumption, PodAssumption DEF Init, HoldReq, Holds, Pods
<1>2. SumTo(HoldReq(n, v), Len(PodList)) = 0
  BY <1>1, PodAssumption, SumToZeros
<1>3. QED
  BY <1>2, NodeAssumption DEF Requests

LEMMA StepSchedInv == TypeOK /\ SchedInv /\ [Next]_vars => SchedInv'
<1> SUFFICES ASSUME TypeOK, SchedInv, [Next]_vars, NEW n \in Nodes, NEW v \in Vendors
             PROVE  SumTo(HoldReq(n, v)', Len(PodList)) <= NodeAlloc[n][v]
  BY DEF SchedInv
<1> DEFINE L == Len(PodList)
           H == HoldReq(n, v)
           H1 == HoldReq(n, v)'
<1>1. /\ L \in Nat
      /\ \A i \in 1..L : PodList[i] \in Pods /\ H[i] \in Nat /\ H1[i] \in Nat
  BY PodAssumption, EffectiveRequestNat DEF HoldReq, Pods
<1>2. SumTo(H, L) <= NodeAlloc[n][v] /\ NodeAlloc[n][v] \in Nat
  BY NodeAssumption DEF SchedInv, Requests
<1>3. SumTo(H, L) \in Nat /\ SumTo(H1, L) \in Nat
  BY <1>1, SumToNat, Zenon
<1>4. CASE pods' = pods
  <2>1. H1 = H
    BY <1>4 DEF HoldReq, Holds
  <2>2. QED
    BY <1>2, <2>1
<1>5. CASE \E p \in Pods, n0 \in Nodes : Schedule(p, n0)
  <2>1. PICK p \in Pods, n0 \in Nodes : Schedule(p, n0)
    BY <1>5
  <2>2. PICK k \in 1..L : PodList[k] = p
    BY PodAssumption DEF Pods
  <2>3. \A i \in 1..L : i # k => PodList[i] # p
    BY <2>2, PodAssumption DEF Distinct
  <2>4. pods[p] = [node |-> NoNode, phase |-> "Pending"] /\ pods' = [pods EXCEPT ![p].node = n0]
    BY <2>1 DEF Schedule
  <2>5. CASE n0 # n
    <3>1. H1 = H
      BY <2>3, <2>4, <2>5, NodeAssumption DEF HoldReq, Holds, TypeOK
    <3>2. QED
      BY <1>2, <3>1
  <2>6. CASE n0 = n
    <3> DEFINE D == [i \in 1..L |-> IF i = k THEN EffectiveRequest(p, v) ELSE 0]
    <3>1. EffectiveRequest(p, v) \in Nat
      BY EffectiveRequestNat
    <3>2. \A i \in 1..L : H[i] \in Nat /\ D[i] \in Nat /\ H1[i] = H[i] + D[i]
      <4> SUFFICES ASSUME NEW i \in 1..L PROVE H[i] \in Nat /\ D[i] \in Nat /\ H1[i] = H[i] + D[i]
        OBVIOUS
      <4>1. CASE i = k
        <5>1. ~Holds(p, n) /\ Holds(p, n)'
          BY <2>4, <2>6, NodeAssumption DEF Holds, TypeOK, Phases, Terminated
        <5>2. H[i] = 0 /\ H1[i] = EffectiveRequest(p, v) /\ D[i] = EffectiveRequest(p, v)
          BY <2>2, <4>1, <5>1 DEF HoldReq
        <5>3. QED
          BY <3>1, <5>2
      <4>2. CASE i # k
        <5>1. PodList[i] \in Pods /\ PodList[i] # p
          BY <1>1, <2>3, <4>2
        <5>2. pods'[PodList[i]] = pods[PodList[i]]
          BY <2>4, <5>1 DEF TypeOK
        <5>3. H1[i] = H[i] /\ D[i] = 0
          BY <4>2, <5>2 DEF HoldReq, Holds
        <5>4. QED
          BY <1>1, <5>3
      <4>3. QED
        BY <4>1, <4>2
    <3> HIDE DEF D, H, H1
    <3>3. SumTo(H1, L) = SumTo(H, L) + SumTo(D, L)
      BY <1>1, <3>2, SumToAdd
    <3>4. SumTo(D, L) = EffectiveRequest(p, v)
      <4>1. D[k] \in Nat /\ \A i \in 1..L : i # k => D[i] = 0
        BY <3>1 DEF D
      <4>2. D[k] = EffectiveRequest(p, v)
        BY DEF D
      <4>3. QED
        BY <1>1, <4>1, <4>2, SumToSingle, Zenon
    <3>5. SumTo(H, L) + EffectiveRequest(p, v) <= NodeAlloc[n][v]
      BY <2>1, <2>6 DEF Schedule, Fits, H, L
    <3>6. QED
      BY <1>3, <3>1, <3>3, <3>4, <3>5 DEF H1
  <2>7. QED
    BY <2>5, <2>6
<1>6. CASE \E p \in Pods : Start(p)
  <2>1. PICK p \in Pods : Start(p)
    BY <1>6
  <2>2. H1 = H
    BY <2>1 DEF Start, HoldReq, Holds, TypeOK, Phases, Terminated
  <2>3. QED
    BY <1>2, <2>2
<1>7. CASE \E p \in Pods : \/ \E ph \in Terminated : Terminate(p, ph)
                           \/ Delete(p)
  <2>1. \A i \in 1..L : H1[i] <= H[i]
    <3> SUFFICES ASSUME NEW i \in 1..L PROVE H1[i] <= H[i]
      OBVIOUS
    <3>1. PICK p \in Pods : \/ \E ph \in Terminated : Terminate(p, ph)
                            \/ Delete(p)
      BY <1>7
    <3>2. /\ pods'[p].node = pods[p].node
          /\ pods'[p].phase \in Terminated \cup {"Deleted"}
          /\ \A q \in Pods \ {p} : pods'[q] = pods[q]
      BY <3>1 DEF Terminate, Delete, TypeOK
    <3>3. Holds(PodList[i], n)' => Holds(PodList[i], n)
      BY <1>1, <3>2 DEF Holds, Phases, Terminated
    <3>4. QED
      BY <1>1, <3>3 DEF HoldReq
  <2> HIDE DEF H, H1
  <2>2. SumTo(H1, L) <= SumTo(H, L)
    BY <1>1, <2>1, SumToMono, Zenon
  <2>3. QED
    BY <1>2, <1>3, <2>2 DEF H1
<1>8. QED
  <2>1. Discover \/ DiscoverFails \/ DiscoverUsage \/ DiscoverUsageFails \/ UNCHANGED vars
          => pods' = pods
    BY DEF Discover, DiscoverFails, DiscoverUsage, DiscoverUsageFails, vars
  <2>2. QED
    BY <1>4, <1>5, <1>6, <1>7, <2>1 DEF Next

-----------------------------------------------------------------------------
(* On a node with one vendor's GPUs, getPodGPURequests counts what the      *)
(* scheduler reserved of that vendor.                                       *)

LEMMA ContainerOneVendor ==
  ASSUME NEW c \in Requests, NEW v \in Vendors, \A w \in Vendors \ {v} : c[w] = 0
  PROVE  ContainerGPUs(c) = c[v]
<1> DEFINE F == [k2 \in DOMAIN VendorOrder |-> c[VendorOrder[k2]]]
           K == Len(VendorOrder)
<1>1. PICK k \in 1..K : VendorOrder[k] = v /\ \A i \in 1..K : VendorOrder[i] = v => i = k
  BY VendorIndex
<1>2. F[k] = c[v] /\ F[k] \in Nat
  BY <1>1, VendorAssumption DEF Requests
<1>3. \A i \in 1..K : i # k => F[i] = 0
  BY <1>1, VendorAssumption DEF Vendors
<1>4. K \in Nat
  BY VendorAssumption
<1> HIDE DEF F, K
<1>5. SumTo(F, K) = F[k]
  BY <1>2, <1>3, <1>4, SumToSingle, Zenon
<1>6. QED
  BY <1>2, <1>5 DEF ContainerGPUs, F, K

LEMMA PodOnVendorNode ==
  ASSUME NEW q \in Pods, NEW v \in Vendors,
         \A w \in Vendors \ {v} : EffectiveRequest(q, w) = 0
  PROVE  GetPodGPURequests(q) = EffectiveRequest(q, v)
<1> DEFINE cs == PodSpec[q].containers
           is == PodSpec[q].init
<1>1. cs \in Seq(Requests) /\ is \in Seq(Requests)
  BY PodAssumption
<1>2. \A w \in Vendors \ {v}, i \in 1..Len(cs) : cs[i][w] = 0
  <2> SUFFICES ASSUME NEW w \in Vendors \ {v}, NEW i \in 1..Len(cs) PROVE cs[i][w] = 0
    OBVIOUS
  <2> DEFINE F == [i2 \in DOMAIN cs |-> cs[i2][w]]
  <2>1. \A i2 \in 1..Len(cs) : F[i2] \in Nat
    BY <1>1 DEF Requests
  <2>2. Len(cs) \in Nat /\ F[i] = cs[i][w]
    BY <1>1
  <2> HIDE DEF F
  <2>3. F[i] <= SumTo(F, Len(cs))
    BY <2>1, <2>2, SumToTerm, Zenon
  <2>4. SumTo(F, Len(cs)) \in Nat
    BY <2>1, <2>2, SumToNat, Zenon
  <2>5. SumTo(F, Len(cs)) <= EffectiveRequest(q, w)
    <3>1. MaxTo([i2 \in DOMAIN is |-> is[i2][w]], Len(is)) \in Nat
      <4>1. \A i2 \in 1..Len(is) : [i3 \in DOMAIN is |-> is[i3][w]][i2] \in Nat
        BY <1>1 DEF Requests
      <4>2. Len(is) \in Nat
        BY <1>1
      <4>3. QED
        BY <4>1, <4>2, MaxToNat, Zenon
    <3>2. QED
      BY <2>4, <3>1 DEF EffectiveRequest, F
  <2>6. QED
    BY <1>1, <2>1, <2>2, <2>3, <2>4, <2>5
<1>3. \A w \in Vendors \ {v}, i \in 1..Len(is) : is[i][w] = 0
  <2> SUFFICES ASSUME NEW w \in Vendors \ {v}, NEW i \in 1..Len(is) PROVE is[i][w] = 0
    OBVIOUS
  <2> DEFINE F == [i2 \in DOMAIN is |-> is[i2][w]]
  <2>1. \A i2 \in 1..Len(is) : F[i2] \in Nat
    BY <1>1 DEF Requests
  <2>2. Len(is) \in Nat /\ F[i] = is[i][w]
    BY <1>1
  <2> HIDE DEF F
  <2>3. F[i] <= MaxTo(F, Len(is))
    BY <2>1, <2>2, MaxToGe, Zenon
  <2>4. MaxTo(F, Len(is)) \in Nat
    BY <2>1, <2>2, MaxToNat, Zenon
  <2>5. MaxTo(F, Len(is)) <= EffectiveRequest(q, w)
    <3>1. SumTo([i2 \in DOMAIN cs |-> cs[i2][w]], Len(cs)) \in Nat
      <4>1. \A i2 \in 1..Len(cs) : [i3 \in DOMAIN cs |-> cs[i3][w]][i2] \in Nat
        BY <1>1 DEF Requests
      <4>2. Len(cs) \in Nat
        BY <1>1
      <4>3. QED
        BY <4>1, <4>2, SumToNat, Zenon
    <3>2. QED
      BY <2>4, <3>1 DEF EffectiveRequest, F
  <2>6. QED
    BY <1>1, <2>1, <2>2, <2>3, <2>4, <2>5
<1>4. [i \in DOMAIN cs |-> ContainerGPUs(cs[i])] = [i \in DOMAIN cs |-> cs[i][v]]
  BY <1>1, <1>2, ContainerOneVendor
<1>5. [i \in DOMAIN is |-> ContainerGPUs(is[i])] = [i \in DOMAIN is |-> is[i][v]]
  BY <1>1, <1>3, ContainerOneVendor
<1>6. QED
  BY <1>4, <1>5 DEF GetPodGPURequests, EffectiveRequest

(***************************************************************************)
(* What the usage of model m counts on one node is within the capacity of  *)
(* m the inventory gives that node: the node's GPU type is m exactly when  *)
(* its vendor's label is m, and the pods counted there are those that hold *)
(* it, whose requests the scheduler fitted in its allocatable GPUs.        *)
(***************************************************************************)
LEMMA NodeUsageWithinCapacity ==
  ASSUME TypeOK, SchedInv, SingleVendor, NEW m, NEW n \in Nodes
  PROVE  LET types == NodeGPUTypes(ListGPUOperatorNodes)
             I == InventoryOf(ListGPUOperatorNodes)
         IN  SumTo([i \in 1..Len(PodList) |->
                      IF pods[PodList[i]].node = n THEN Charge(types, m)[i] ELSE 0], Len(PodList))
               <= IF n \in DOMAIN I /\ m \in DOMAIN I[n] THEN I[n][m] ELSE 0
<1> DEFINE listed == ListGPUOperatorNodes
           types == NodeGPUTypes(listed)
           I == InventoryOf(listed)
           LP == Len(PodList)
           C == Charge(types, m)
           T == [i \in 1..LP |-> IF pods[PodList[i]].node = n THEN C[i] ELSE 0]
           cap == IF n \in DOMAIN I /\ m \in DOMAIN I[n] THEN I[n][m] ELSE 0
<1> SUFFICES SumTo(T, LP) <= cap
  OBVIOUS
<1>1. listed \subseteq Nodes /\ LP \in Nat
  BY ListedNodes, PodAssumption DEF TypeOK
<1>2. \A i \in 1..LP : PodList[i] \in Pods /\ C[i] \in Nat /\ T[i] \in Nat
  BY GetPodNat, PodAssumption DEF Charge, Pods
<1>3. cap \in Nat
  BY <1>1, InventoryType
<1>4. SumTo(T, LP) \in Nat
  BY <1>1, <1>2, SumToNat, Zenon
<1>5. CASE n \in DOMAIN types /\ types[n] = m
  <2>1. n \in listed /\ GpuNode(n)
    BY <1>1, <1>5, NodeGPUTypesType
  <2>2. PICK v \in Vendors : NodeVendor(n, v)
    BY DEF SingleVendor
  <2>3. HasProduct(n, v)
    BY <2>1, <2>2 DEF GpuNode, NodeVendor
  <2>4. PICK kv \in DOMAIN VendorOrder : VendorOrder[kv] = v
    BY DEF Vendors
  <2>5. \A i \in DOMAIN VendorOrder : HasProduct(n, VendorOrder[i]) => VendorOrder[i] = v
    BY <2>2 DEF NodeVendor, Vendors
  <2>6. types[n] = NodeProduct[n][v]
    <3>1. FirstVendorIdx(n) \in DOMAIN VendorOrder /\ HasProduct(n, VendorOrder[FirstVendorIdx(n)])
      BY <2>1, FirstVendorIdxProp
    <3>2. QED
      BY <2>1, <2>5, <3>1 DEF NodeGPUTypes
  <2>7. m = NodeProduct[n][v]
    BY <1>5, <2>6
  <2>8. n \in DOMAIN I /\ m \in DOMAIN I[n] /\ I[n][m] = NodeAlloc[n][VendorOrder[LastVendorIdx(n, m)]]
    BY <2>1, <2>3, <2>7 DEF InventoryOf
  <2>9. VendorOrder[LastVendorIdx(n, m)] = v
    <3>1. LastVendorIdx(n, m) \in DOMAIN VendorOrder
          /\ NodeProduct[n][VendorOrder[LastVendorIdx(n, m)]] = m
      BY <2>4, <2>7, LastVendorIdxProp
    <3>2. HasProduct(n, VendorOrder[LastVendorIdx(n, m)])
      BY <2>3, <2>7, <3>1 DEF HasProduct
    <3>3. QED
      BY <2>5, <3>1, <3>2
  <2>10. cap = NodeAlloc[n][v]
    BY <2>8, <2>9
  <2>11. \A i \in 1..LP : HoldReq(n, v)[i] \in Nat /\ T[i] <= HoldReq(n, v)[i]
    <3> SUFFICES ASSUME NEW i \in 1..LP PROVE HoldReq(n, v)[i] \in Nat /\ T[i] <= HoldReq(n, v)[i]
      OBVIOUS
    <3> DEFINE q == PodList[i]
    <3>1. HoldReq(n, v)[i] \in Nat
      BY <1>2, EffectiveRequestNat DEF HoldReq
    <3>2. CASE pods[q].node = n /\ q \in CountedPods(types)
      <4>1. Holds(q, n)
        BY <3>2 DEF CountedPods, Holds
      <4>2. \A w \in Vendors \ {v} : EffectiveRequest(q, w) = 0
        <5> SUFFICES ASSUME NEW w \in Vendors \ {v} PROVE EffectiveRequest(q, w) = 0
          OBVIOUS
        <5>1. HoldReq(n, w)[i] = EffectiveRequest(q, w)
          BY <4>1 DEF HoldReq
        <5>2. \A i2 \in 1..LP : HoldReq(n, w)[i2] \in Nat
          BY PodAssumption, EffectiveRequestNat DEF HoldReq, Pods
        <5>3. HoldReq(n, w)[i] <= SumTo(HoldReq(n, w), LP)
          BY <1>1, <5>2, SumToTerm, Zenon
        <5>4. SumTo(HoldReq(n, w), LP) \in Nat
          BY <1>1, <5>2, SumToNat, Zenon
        <5>5. SumTo(HoldReq(n, w), LP) <= NodeAlloc[n][w] /\ NodeAlloc[n][w] = 0
          BY <2>2 DEF SchedInv, NodeVendor
        <5>6. EffectiveRequest(q, w) \in Nat
          BY <1>2, EffectiveRequestNat
        <5>7. QED
          BY <5>1, <5>3, <5>5, <5>6, <5>4
      <4>3. GetPodGPURequests(q) = EffectiveRequest(q, v)
        BY <1>2, <4>2, PodOnVendorNode
      <4>4. T[i] = GetPodGPURequests(q)
        BY <1>5, <3>2 DEF Charge
      <4>5. HoldReq(n, v)[i] = EffectiveRequest(q, v)
        BY <4>1 DEF HoldReq
      <4>6. QED
        BY <3>1, <4>3, <4>4, <4>5
    <3>3. CASE ~(pods[q].node = n /\ q \in CountedPods(types))
      <4>1. T[i] = 0
        BY <3>3 DEF Charge
      <4>2. QED
        BY <3>1, <4>1
    <3>4. QED
      BY <3>2, <3>3
  <2> HIDE DEF T, C, listed, types, I, cap
  <2>12. SumTo(T, LP) <= SumTo(HoldReq(n, v), LP)
    BY <1>1, <1>2, <2>11, SumToMono, Zenon
  <2>13. SumTo(HoldReq(n, v), LP) <= NodeAlloc[n][v] /\ SumTo(HoldReq(n, v), LP) \in Nat
    BY <1>1, <2>11, SumToNat, Zenon DEF SchedInv
  <2>14. QED
    BY <1>3, <1>4, <2>10, <2>12, <2>13
<1>6. CASE ~(n \in DOMAIN types /\ types[n] = m)
  <2>1. \A i \in 1..LP : T[i] = 0
    BY <1>6 DEF Charge, CountedPods
  <2> HIDE DEF T, C, listed, types, I, cap
  <2>2. SumTo(T, LP) = 0
    BY <1>1, <2>1, SumToZeros, Zenon
  <2>3. QED
    BY <1>3, <2>2
<1>7. QED
  BY <1>5, <1>6

(***************************************************************************)
(* The usage DiscoverUsage computes in a state of the cluster is within    *)
(* the capacity of the inventory Discover computes for the same nodes:     *)
(* the sum over the pod list regroups by node (each counted pod is on one  *)
(* listed node), and each node's part is within its capacity.              *)
(***************************************************************************)
LEMMA UsageWithinInventory ==
  ASSUME TypeOK, SchedInv, SingleVendor
  PROVE  LET U == UsageByType(NodeGPUTypes(ListGPUOperatorNodes))
         IN  \A m \in DOMAIN U : U[m] <= CapacityIn(InventoryOf(ListGPUOperatorNodes), m)
<1> DEFINE listed == ListGPUOperatorNodes
           types == NodeGPUTypes(listed)
           I == InventoryOf(listed)
           U == UsageByType(types)
           LP == Len(PodList)
           LN == Len(NodeList)
<1> SUFFICES ASSUME NEW m \in DOMAIN U PROVE U[m] <= CapacityIn(I, m)
  OBVIOUS
<1> DEFINE C == Charge(types, m)
           h == [i \in 1..LP |-> [j \in 1..LN |->
                   IF pods[PodList[i]].node = NodeList[j] THEN C[i] ELSE 0]]
           rowF == [i \in 1..LP |-> SumTo(h[i], LN)]
           colF == [j \in 1..LN |-> SumTo([i \in 1..LP |-> h[i][j]], LP)]
           capF == [j \in DOMAIN NodeList |->
                      IF NodeList[j] \in DOMAIN I /\ m \in DOMAIN I[NodeList[j]]
                      THEN I[NodeList[j]][m] ELSE 0]
<1>1. /\ LP \in Nat /\ LN \in Nat
      /\ DOMAIN PodList = 1..LP /\ DOMAIN NodeList = 1..LN
      /\ listed \subseteq Nodes
  BY PodAssumption, NodeAssumption, ListedNodes DEF TypeOK
<1>2. U[m] = SumTo(C, LP)
  BY DEF UsageByType
<1>3. \A i \in 1..LP : C[i] \in Nat /\ PodList[i] \in Pods
  BY GetPodNat, PodAssumption DEF Charge, Pods
<1>4. \A i \in 1..LP, j \in 1..LN : h[i][j] \in Nat
  BY <1>3
<1>5. \A i \in 1..LP : C[i] = SumTo(h[i], LN)
  <2> SUFFICES ASSUME NEW i \in 1..LP PROVE C[i] = SumTo(h[i], LN)
    OBVIOUS
  <2>1. CASE pods[PodList[i]].node \in Nodes
    <3>1. PICK j0 \in 1..LN : NodeList[j0] = pods[PodList[i]].node
      BY <1>1, <2>1 DEF Nodes
    <3>2. \A j \in 1..LN : j # j0 => NodeList[j] # pods[PodList[i]].node
      BY <1>1, <3>1, NodeAssumption DEF Distinct
    <3>3. h[i][j0] = C[i] /\ h[i][j0] \in Nat /\ \A j \in 1..LN : j # j0 => h[i][j] = 0
      BY <1>3, <3>1, <3>2
    <3> HIDE DEF h, C
    <3>4. QED
      BY <1>1, <3>3, SumToSingle, Zenon
  <2>2. CASE pods[PodList[i]].node \notin Nodes
    <3>1. DOMAIN types \subseteq Nodes
      BY <1>1, NodeGPUTypesType
    <3>2. C[i] = 0
      BY <2>2, <3>1 DEF Charge, CountedPods
    <3>3. \A j \in 1..LN : h[i][j] = 0
      BY <2>2, <1>1, NodeAssumption DEF Nodes
    <3> HIDE DEF h, C
    <3>4. QED
      BY <1>1, <3>2, <3>3, SumToZeros, Zenon
  <2>3. QED
    BY <2>1, <2>2
<1>6. SumTo(C, LP) = SumTo(rowF, LP)
  <2>1. \A i \in 1..LP : C[i] = rowF[i]
    BY <1>5
  <2> HIDE DEF C, rowF
  <2>2. QED
    BY <1>1, <2>1, SumToCong, Zenon
<1>7. SumTo(rowF, LP) = SumTo(colF, LN)
  <2> HIDE DEF C
  <2>1. QED
    BY <1>1, <1>4, SumToExchange
<1>8. \A j \in 1..LN : colF[j] \in Nat /\ capF[j] \in Nat /\ colF[j] <= capF[j]
  <2> SUFFICES ASSUME NEW j \in 1..LN PROVE colF[j] \in Nat /\ capF[j] \in Nat /\ colF[j] <= capF[j]
    OBVIOUS
  <2>1. NodeList[j] \in Nodes
    BY <1>1 DEF Nodes
  <2>2. [i \in 1..LP |-> h[i][j]]
          = [i \in 1..LP |-> IF pods[PodList[i]].node = NodeList[j] THEN C[i] ELSE 0]
    OBVIOUS
  <2>3. SumTo([i \in 1..LP |-> IF pods[PodList[i]].node = NodeList[j] THEN C[i] ELSE 0], LP)
          <= IF NodeList[j] \in DOMAIN I /\ m \in DOMAIN I[NodeList[j]] THEN I[NodeList[j]][m] ELSE 0
    BY <2>1, NodeUsageWithinCapacity
  <2>4. colF[j] <= capF[j]
    <3>1. colF[j] = SumTo([i \in 1..LP |-> IF pods[PodList[i]].node = NodeList[j] THEN C[i] ELSE 0], LP)
      BY <2>2
    <3>2. capF[j] = IF NodeList[j] \in DOMAIN I /\ m \in DOMAIN I[NodeList[j]] THEN I[NodeList[j]][m] ELSE 0
      BY <1>1
    <3> HIDE DEF colF, capF, C, I
    <3>3. QED
      BY <2>3, <3>1, <3>2
  <2>5. capF[j] \in Nat
    BY <1>1, InventoryType
  <2>6. colF[j] \in Nat
    <3>1. \A i \in 1..LP : [i2 \in 1..LP |-> h[i2][j]][i] \in Nat
      BY <1>4
    <3> HIDE DEF h
    <3>2. QED
      BY <1>1, <3>1, SumToNat, Zenon
  <2>7. QED
    BY <2>4, <2>5, <2>6
<1>9. SumTo(colF, LN) <= SumTo(capF, LN)
  <2> HIDE DEF colF, capF
  <2>1. QED
    BY <1>1, <1>8, SumToMono, Zenon
<1>10. QED
  BY <1>2, <1>6, <1>7, <1>9 DEF CapacityIn

-----------------------------------------------------------------------------
(* The inductive invariant and the capacity bound. *)

LEMMA InitIInv == Init => IInv
BY InitTypeOK, InitSchedInv DEF Init, IInv, InvDiscovered, UsageBounded

LEMMA StepIInv ==
  ASSUME SingleVendor
  PROVE  IInv /\ [Next]_vars => IInv'
<1> SUFFICES ASSUME IInv, [Next]_vars PROVE IInv'
  OBVIOUS
<1>1. TypeOK' /\ SchedInv'
  BY StepTypeOK, StepSchedInv DEF IInv
<1>2. selector' = selector => ListGPUOperatorNodes' = ListGPUOperatorNodes
  BY DEF ListGPUOperatorNodes
<1>3. InvDiscovered'
  <2>1. CASE Discover
    BY <1>2, <2>1 DEF Discover, InvDiscovered
  <2>2. CASE ~Discover
    <3>1. discovered' = "ok" => UNCHANGED <<discovered, inv, selector>>
      BY <2>2 DEF Next, vars, DiscoverFails, DiscoverUsage, DiscoverUsageFails,
                  Schedule, Start, Terminate, Delete
    <3>2. QED
      BY <1>2, <3>1 DEF IInv, InvDiscovered
  <2>3. QED
    BY <2>1, <2>2
<1>4. UsageBounded'
  <2>1. CASE DiscoverUsage
    <3>1. \A m \in DOMAIN usage' : usage'[m] <= CapacityIn(InventoryOf(ListGPUOperatorNodes), m)
      BY <2>1, UsageWithinInventory DEF DiscoverUsage, IInv
    <3>2. QED
      BY <1>2, <2>1, <3>1 DEF DiscoverUsage, UsageBounded
  <2>2. CASE ~DiscoverUsage
    <3>1. usageState' = "ok" => UNCHANGED <<usageState, usage, selector>>
      BY <2>2 DEF Next, vars, Discover, DiscoverFails, DiscoverUsageFails,
                  Schedule, Start, Terminate, Delete
    <3>2. QED
      BY <1>2, <3>1 DEF IInv, UsageBounded
  <2>3. QED
    BY <2>1, <2>2
<1>5. QED
  BY <1>1, <1>3, <1>4 DEF IInv

(***************************************************************************)
(* In a cluster whose GPU nodes carry one vendor each (what                *)
(* discoverNodeGPUTypes expects at its break), whatever the pods do        *)
(* around and between the two calls, the GPUs DiscoverUsage reports in use *)
(* of a model never exceed the GPUs of that model Discover reports, for    *)
(* every cluster, pod list and selector.  The run gpu_mixed shows the      *)
(* bound fails on a node with two vendors.                                 *)
(***************************************************************************)
THEOREM CapacityBoundsUsage ==
  ASSUME SingleVendor
  PROVE  Spec => []UsageWithinCapacity
<1>1. IInv => UsageWithinCapacity
  BY DEF IInv, InvDiscovered, UsageBounded, UsageWithinCapacity, Capacity, CapacityIn
<1>2. QED
  BY InitIInv, StepIInv, <1>1, PTL DEF Spec

=============================================================================
