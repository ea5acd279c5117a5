------------------- MODULE MD1ModelStateDependent_proofs -------------------
(***************************************************************************)
(* Proofs about the state-dependent M/D/1/K solver object, for every K,    *)
(* every set of service-rate vectors and every set of inputs.              *)
(***************************************************************************)
EXTENDS MD1ModelStateDependent, ExtRat_proofs, TLAPS

-----------------------------------------------------------------------------
(* Type correctness. *)

LEMMA StatisticsType ==
  ASSUME NEW lam, NEW sr, NEW prob
  PROVE  /\ Statistics(lam, sr, prob).throughput \in Value
         /\ Statistics(lam, sr, prob).avgNumInSystem \in Value
         /\ Statistics(lam, sr, prob).avgNumInServers \in Value
         /\ Statistics(lam, sr, prob).avgRespTime \in Value
         /\ Statistics(lam, sr, prob).avgServTime \in Value
         /\ Statistics(lam, sr, prob).avgWaitTime \in Value
         /\ Statistics(lam, sr, prob).avgQueueLength \in Value
<1> DEFINE num == Len(sr)
           sys[i \in States] == IF i = 0 THEN Zero ELSE Add(sys[i - 1], Mul(Int2Val(i), prob[i]))
           cum[i \in States] == IF i = 0 THEN prob[0] ELSE Add(cum[i - 1], prob[i])
           servers == IF num \in 1..K
                      THEN Add(sys[num], Mul(Sub(One, cum[num]), Int2Val(num)))
                      ELSE Zero
           x  == Mul(lam, Sub(One, prob[K]))
           s  == Div(servers, x)
           w0 == Mul(Half, Sub(Div(sys[K], x), s))
           w  == IF Lt(w0, Zero) THEN Zero ELSE w0
           r  == Add(w, s)
<1>1. Statistics(lam, sr, prob) =
        [throughput |-> x, avgNumInServers |-> servers, avgServTime |-> s,
         avgWaitTime |-> w, avgRespTime |-> r, avgNumInSystem |-> Mul(x, r),
         avgQueueLength |-> Mul(x, w)]
  BY DEF Statistics
<1>2. Zero \in Value
  BY ConstantsFin, FinIsNotSpecial
<1>3. x \in Value /\ s \in Value /\ w0 \in Value
  BY MulType, DivType
<1>4. servers \in Value
  BY <1>2, AddType
<1>5. w \in Value
  BY <1>2, <1>3
<1>6. r \in Value /\ Mul(x, r) \in Value /\ Mul(x, w) \in Value
  BY AddType, MulType
<1> HIDE DEF sys, cum, servers, x, s, w0, w, r
<1>7. /\ Statistics(lam, sr, prob).throughput = x
      /\ Statistics(lam, sr, prob).avgNumInSystem = Mul(x, r)
      /\ Statistics(lam, sr, prob).avgNumInServers = servers
      /\ Statistics(lam, sr, prob).avgRespTime = r
      /\ Statistics(lam, sr, prob).avgServTime = s
      /\ Statistics(lam, sr, prob).avgWaitTime = w
      /\ Statistics(lam, sr, prob).avgQueueLength = Mul(x, w)
  BY <1>1
<1>8. QED
  BY <1>3, <1>4, <1>5, <1>6, <1>7

LEMMA InitTypeOK == Init => TypeOK
BY ConstantsFin, FinIsNotSpecial DEF Init, TypeOK

LEMMA SolveTypeOK ==
  ASSUME TypeOK, NEW lam \in Lambdas, NEW m \in Mus, Solve(lam, m)
  PROVE  TypeOK'
<1> DEFINE prob == ProbabilitiesApprox(lam, servRate)
           st   == Statistics(lam, servRate, prob)
<1>1. lambda' \in Fin /\ mu' \in Fin /\ isValid' \in BOOLEAN /\ servRate' \in ServRates
  BY InputsAssumption DEF Solve, TypeOK
<1>2. prob \in [States -> Value]
  BY DivType DEF ProbabilitiesApprox
<1>3. /\ st.throughput \in Value /\ st.avgNumInSystem \in Value
      /\ st.avgNumInServers \in Value /\ st.avgRespTime \in Value
      /\ st.avgServTime \in Value /\ st.avgWaitTime \in Value
      /\ st.avgQueueLength \in Value
  BY StatisticsType
<1>4. ComputeRho(prob) \in Value /\ ComputeRho(p) \in Value
  BY SubType DEF ComputeRho
<1>5. CASE Lt(ComputeRho(p), GetRhoMax) /\ ~Lt(lam, Zero) /\ Lt(Zero, m)
  BY <1>1, <1>2, <1>3, <1>4, <1>5 DEF Solve, TypeOK
<1>6. CASE ~(Lt(ComputeRho(p), GetRhoMax) /\ ~Lt(lam, Zero) /\ Lt(Zero, m))
  BY <1>1, <1>4, <1>6 DEF Solve, TypeOK, metrics
<1>7. QED
  BY <1>5, <1>6

THEOREM TypeCorrect == Spec => []TypeOK
<1>1. Init => TypeOK
  BY InitTypeOK
<1>2. TypeOK /\ [Next]_vars => TypeOK'
  <2> SUFFICES ASSUME TypeOK, [Next]_vars PROVE TypeOK'
    OBVIOUS
  <2>1. CASE Next
    BY <2>1, SolveTypeOK DEF Next
  <2>2. CASE UNCHANGED vars
    BY <2>2 DEF vars, TypeOK, metrics
  <2>3. QED
    BY <2>1, <2>2
<1>3. QED
  BY <1>1, <1>2, PTL DEF Spec

-----------------------------------------------------------------------------
(***************************************************************************)
(* A model of capacity one is never valid.  NewMD1KModel zeroes p, so the  *)
(* first Solve computes the stale utilization 1 - p[0] = 1, which is not   *)
(* below GetRhoMax = K = 1; computeStatistics then returns without         *)
(* touching p, and every later Solve sees the same p[0] = 0.               *)
(***************************************************************************)
UnitCapacityInv == (K = 1) => (p[0] = Zero /\ ~isValid)

LEMMA UnitCapacityStep ==
  ASSUME UnitCapacityInv, NEW lam \in Lambdas, NEW m \in Mus, Solve(lam, m)
  PROVE  UnitCapacityInv'
<1> SUFFICES ASSUME K = 1 PROVE p'[0] = Zero /\ ~isValid'
  BY DEF UnitCapacityInv
<1>1. ComputeRho(p) = One
  BY OneMinusZero DEF UnitCapacityInv, ComputeRho
<1>2. ~Lt(One, GetRhoMax)
  <2>1. GetRhoMax = One
    BY DEF GetRhoMax, One
  <2>2. One \in Fin /\ ~(One.num * One.den < One.num * One.den)
    BY ConstantsFin DEF One, Int2Val
  <2>3. One # NegInf /\ One # PosInf
    BY DEF One, Int2Val, NegInf, PosInf
  <2>4. ~Lt(One, One)
    BY <2>2, <2>3 DEF Lt
  <2>5. QED
    BY <2>1, <2>4
<1>3. QED
  BY <1>1, <1>2 DEF Solve, UnitCapacityInv

THEOREM UnitCapacityNeverValid == Spec => [](K = 1 => ~isValid)
<1>1. Init => UnitCapacityInv
  BY DEF Init, UnitCapacityInv, States
<1>2. UnitCapacityInv /\ [Next]_vars => UnitCapacityInv'
  <2> SUFFICES ASSUME UnitCapacityInv, [Next]_vars PROVE UnitCapacityInv'
    OBVIOUS
  <2>1. CASE Next
    BY <2>1, UnitCapacityStep DEF Next
  <2>2. CASE UNCHANGED vars
    BY <2>2 DEF vars, UnitCapacityInv
  <2>3. QED
    BY <2>1, <2>2
<1>3. UnitCapacityInv => (K = 1 => ~isValid)
  BY DEF UnitCapacityInv
<1>4. QED
  BY <1>1, <1>2, <1>3, PTL DEF Spec

-----------------------------------------------------------------------------
(***************************************************************************)
(* Whenever the object reports itself valid, every published quantity is   *)
(* the one computeStatistics derives from the current inputs: no metric,   *)
(* probability or utilization of an earlier Solve survives a valid Solve.  *)
(***************************************************************************)
PublishedIsCurrent ==
  isValid =>
    LET st == Statistics(lambda, servRate, p)
    IN  /\ p = ProbabilitiesApprox(lambda, servRate)
        /\ rho = ComputeRho(p)
        /\ throughput = st.throughput
        /\ avgNumInSystem = st.avgNumInSystem
        /\ avgNumInServers = st.avgNumInServers
        /\ avgRespTime = st.avgRespTime
        /\ avgServTime = st.avgServTime
        /\ avgWaitTime = st.avgWaitTime
        /\ avgQueueLength = st.avgQueueLength

THEOREM ValidMetricsAreCurrent == Spec => []PublishedIsCurrent
<1>1. Init => PublishedIsCurrent
  BY DEF Init, PublishedIsCurrent
<1>2. PublishedIsCurrent /\ [Next]_vars => PublishedIsCurrent'
  <2> SUFFICES ASSUME PublishedIsCurrent, [Next]_vars PROVE PublishedIsCurrent'
    OBVIOUS
  <2>1. ASSUME NEW lam \in Lambdas, NEW m \in Mus, Solve(lam, m)
        PROVE  PublishedIsCurrent'
    BY <2>1 DEF Solve, PublishedIsCurrent
  <2>2. CASE UNCHANGED vars
    BY <2>2 DEF vars, metrics, PublishedIsCurrent
  <2>3. QED
    BY <2>1, <2>2 DEF Next
<1>3. QED
  BY <1>1, <1>2, PTL DEF Spec
-----------------------------------------------------------------------------
(***************************************************************************)
(* Signs and orders of the values a Solve at a positive arrival rate       *)
(* computes.  Each lemma works on the fractions the values stand for       *)
(* (Rep), so it holds whatever the reductions by GcdF give.               *)
(***************************************************************************)
LEMMA PosLt ==
  ASSUME NEW a \in PosVal
  PROVE  a \in Fin /\ Lt(Zero, a) /\ Leq(Zero, a)
<1>1. Rep(Zero, 0, 1) /\ Rep(a, a.num, a.den) /\ a.den \in Nat \ {0} /\ a.num \in Int
  BY FinRep, ConstantsFin DEF PosVal, Rep, Zero, Int2Val, Fin
<1>2. Lt(Zero, a) <=> 0 * a.den < a.num * 1
  BY <1>1, RepLt
<1>3. QED
  BY <1>1, <1>2 DEF PosVal, Leq

LEMMA FinClosed ==
  ASSUME NEW a \in Fin, NEW b \in Fin
  PROVE  Add(a, b) \in Fin /\ Mul(a, b) \in Fin /\ Sub(a, b) \in Fin
         /\ (b.num # 0 => Div(a, b) \in Fin)
<1>1. Neg(b) \in Fin
  BY NegFin
<1>2. QED
  BY <1>1, AddRep, MulRep, DivRep DEF Rep, Sub

LEMMA PosClosed ==
  ASSUME NEW a \in PosVal, NEW b \in PosVal
  PROVE  Mul(a, b) \in PosVal /\ Div(a, b) \in PosVal
<1>1. a \in Fin /\ b \in Fin /\ a.num > 0 /\ b.num > 0
      /\ a.den \in Nat \ {0} /\ b.den \in Nat \ {0} /\ a.num \in Int /\ b.num \in Int
  BY DEF PosVal, Fin
<1>2. Mul(a, b) \in PosVal
  <2>1. Rep(Mul(a, b), a.num * b.num, a.den * b.den)
    BY <1>1, MulRep
  <2>2. a.num * b.num > 0 /\ a.den * b.den \in Nat \ {0} /\ a.num * b.num \in Int
    BY <1>1
  <2>3. Mul(a, b).num > 0
    BY <2>1, <2>2, RepSign, Zenon
  <2>4. QED
    BY <2>1, <2>3 DEF Rep, PosVal
<1>3. Div(a, b) \in PosVal
  <2>1. Rep(Div(a, b), a.num * b.den, a.den * b.num)
    BY <1>1, DivRep
  <2>2. a.num * b.den > 0 /\ a.den * b.num \in Nat \ {0} /\ a.num * b.den \in Int
    BY <1>1
  <2>3. Div(a, b).num > 0
    BY <2>1, <2>2, RepSign, Zenon
  <2>4. QED
    BY <2>1, <2>3 DEF Rep, PosVal
<1>4. QED
  BY <1>2, <1>3

\* Adding a positive value to a non-negative one gives a positive value.
LEMMA AddPos ==
  ASSUME NEW a \in Fin, a.num >= 0, NEW b \in PosVal
  PROVE  Add(a, b) \in PosVal
<1>1. b \in Fin /\ b.num > 0 /\ a.den \in Nat \ {0} /\ b.den \in Nat \ {0}
      /\ a.num \in Int /\ b.num \in Int
  BY DEF PosVal, Fin
<1> DEFINE n == a.num * b.den + b.num * a.den
           d == a.den * b.den
<1>2. Rep(Add(a, b), n, d) /\ n \in Int /\ d \in Nat \ {0}
  BY <1>1, AddRep
<1>3. a.num * b.den >= 0 /\ b.num * a.den > 0
  BY <1>1
<1>4. n > 0
  BY <1>1, <1>3
<1>5. Add(a, b).num > 0
  BY <1>2, <1>4, RepSign, Zenon
<1>6. QED
  BY <1>2, <1>5 DEF Rep, PosVal

\* Adding a positive value makes a value larger.
LEMMA AddAbove ==
  ASSUME NEW a \in PosVal, NEW b \in Fin
  PROVE  Lt(b, Add(a, b))
<1>1. a \in Fin /\ a.num > 0 /\ a.den \in Nat \ {0} /\ b.den \in Nat \ {0}
      /\ a.num \in Int /\ b.num \in Int
  BY DEF PosVal, Fin
<1> DEFINE n == a.num * b.den + b.num * a.den
           d == a.den * b.den
<1>2. Rep(Add(a, b), n, d) /\ n \in Int /\ d \in Nat \ {0}
  BY <1>1, AddRep
<1>3. Lt(b, Add(a, b)) <=> b.num * d < n * b.den
  BY <1>1, <1>2, FinRep, RepLt, Zenon
<1>4. b.num * d < n * b.den
  <2>1. n * b.den = (a.num * b.den) * b.den + b.num * d
    BY <1>1
  <2>2. a.num * b.den > 0
    BY <1>1
  <2>3. (a.num * b.den) * b.den > 0
    BY <1>1, <2>2
  <2>4. QED
    BY <1>1, <2>1, <2>3
<1>5. QED
  BY <1>3, <1>4

\* a / b < 1 when a < b.
LEMMA DivBelowOne ==
  ASSUME NEW a \in PosVal, NEW b \in PosVal, Lt(a, b)
  PROVE  Lt(Div(a, b), One)
<1>1. a \in Fin /\ b \in Fin /\ b.num > 0 /\ a.den \in Nat \ {0} /\ b.den \in Nat \ {0}
      /\ a.num \in Int /\ b.num \in Int
  BY DEF PosVal, Fin
<1>2. a.den * b.num \in Nat \ {0} /\ a.num * b.den \in Int
  BY <1>1
<1>3. Rep(Div(a, b), a.num * b.den, a.den * b.num)
  BY <1>1, DivRep
<1>4. Div(a, b).num < Div(a, b).den <=> a.num * b.den < a.den * b.num
  BY <1>2, <1>3, RepBelowOne, Zenon
<1>5. a.num * b.den < b.num * a.den
  BY <1>1, LtFin
<1>6. Div(a, b) \in Fin
  BY <1>3 DEF Rep
<1>7. QED
  BY <1>1, <1>4, <1>5, <1>6, LtZeroOne

\* 1 - q is positive and below 1 when 0 < q < 1.
LEMMA OneMinusPos ==
  ASSUME NEW q \in PosVal, Lt(q, One)
  PROVE  Sub(One, q) \in PosVal /\ Lt(Sub(One, q), One)
<1>1. q \in Fin /\ q.num > 0 /\ q.den \in Nat \ {0} /\ q.num \in Int
  BY DEF PosVal, Fin
<1>2. Neg(q) = [k |-> "fin", num |-> -q.num, den |-> q.den] /\ Neg(q) \in Fin
  BY <1>1, NegFin
<1>3. One \in Fin /\ One.num = 1 /\ One.den = 1
  BY ConstantsFin DEF One, Int2Val
<1>4. Rep(Sub(One, q), 1 * q.den + (-q.num) * 1, 1 * q.den)
  BY <1>2, <1>3, AddRep DEF Sub
<1>5. q.num < q.den
  BY <1>1, LtZeroOne
<1>6. q.den - q.num \in Int /\ q.den - q.num > 0
  BY <1>1, <1>5
<1>7. Rep(Sub(One, q), q.den - q.num, q.den)
  BY <1>1, <1>4
<1>8. Sub(One, q).num > 0
  BY <1>1, <1>6, <1>7, RepSign, Zenon
<1>9. Sub(One, q).num < Sub(One, q).den <=> q.den - q.num < q.den
  BY <1>1, <1>6, <1>7, RepBelowOne, Zenon
<1>10. Sub(One, q) \in Fin
  BY <1>7 DEF Rep
<1>11. QED
  BY <1>1, <1>8, <1>9, <1>10, LtZeroOne DEF PosVal

\* a * q < a when 0 < q < 1 and a > 0.
LEMMA MulBelow ==
  ASSUME NEW a \in PosVal, NEW q \in PosVal, Lt(q, One)
  PROVE  Lt(Mul(a, q), a)
<1>1. a \in Fin /\ q \in Fin /\ a.num > 0 /\ q.num > 0
      /\ a.den \in Nat \ {0} /\ q.den \in Nat \ {0} /\ a.num \in Int /\ q.num \in Int
  BY DEF PosVal, Fin
<1>2. a.num * q.num \in Int /\ a.den * q.den \in Nat \ {0}
  BY <1>1
<1>3. Rep(Mul(a, q), a.num * q.num, a.den * q.den)
  BY <1>1, MulRep
<1>4. Lt(Mul(a, q), a) <=> (a.num * q.num) * a.den < a.num * (a.den * q.den)
  BY <1>1, <1>2, <1>3, FinRep, RepLt, Zenon
<1>5. q.num < q.den
  BY <1>1, LtZeroOne
<1>6. (a.num * a.den) * q.num < (a.num * a.den) * q.den
  <2>1. a.num * a.den \in Nat \ {0}
    BY <1>1
  <2>2. q.num * (a.num * a.den) < q.den * (a.num * a.den)
    BY <1>1, <1>5, <2>1, MulPosMono
  <2>3. QED
    BY <1>1, <2>1, <2>2
<1>7. QED
  BY <1>1, <1>4, <1>6

(***************************************************************************)
(* The floor of computeStatistics, avgWaitTime = max(0, w0), leaves a      *)
(* finite value that is not negative when w0 = 0.5 * y is finite.          *)
(***************************************************************************)
LEMMA FloorAtZero ==
  ASSUME NEW y \in Fin
  PROVE  LET w0 == Mul(Half, y)
             w  == IF Lt(w0, Zero) THEN Zero ELSE w0
         IN  w \in Fin /\ Leq(Zero, w)
<1> DEFINE w0 == Mul(Half, y)
<1>1. w0 \in Fin
  BY ConstantsFin, FinClosed
<1>2. Zero \in Fin /\ Zero # NaN
  BY ConstantsFin DEF Zero, Int2Val, NaN
<1>3. Lt(w0, Zero) <=> w0.num < 0
  BY <1>1, LtZeroOne
<1>4. Lt(Zero, w0) <=> w0.num > 0
  BY <1>1, LtZeroOne
<1>5. CASE Lt(w0, Zero)
  BY <1>2, <1>5 DEF Leq
<1>6. CASE ~Lt(w0, Zero) /\ w0.num > 0
  BY <1>1, <1>4, <1>6 DEF Leq
<1>7. CASE ~Lt(w0, Zero) /\ ~(w0.num > 0)
  <2>1. w0.num = 0
    BY <1>1, <1>3, <1>7 DEF Fin
  <2>2. w0 = Zero
    BY <2>1, ConstantsFin, MulZeroCanon
  <2>3. QED
    BY <1>2, <1>7, <2>2 DEF Leq
<1>8. QED
  BY <1>5, <1>6, <1>7

-----------------------------------------------------------------------------
(***************************************************************************)
(* The loops of computeProbabilitiesApprox and computeStatistics.  Each    *)
(* LET-recursive function of the model is described by an accumulator     *)
(* over 0..n that one exists for (built index by index, as for SumUpTo),   *)
(* and what the loop keeps (positive, finite) is shown by induction on the *)
(* least index where it would fail.                                        *)
(***************************************************************************)
\* f holds the unnormalized probabilities pu[0..n] of computeProbabilitiesApprox.
IsPuAcc(lam, sr, n, f) ==
  f = [i \in 0..n |-> IF i = 0 THEN One
                      ELSE Div(Mul(f[i - 1], lam), sr[MinI(i - 1, Len(sr) - 1) + 1])]

LEMMA PuAccExists ==
  ASSUME NEW lam, NEW sr, NEW n \in Nat
  PROVE  \E f : IsPuAcc(lam, sr, n, f)
<1> DEFINE Bad == {m \in Nat : ~\E f : IsPuAcc(lam, sr, m, f)}
<1> SUFFICES ASSUME Bad # {} PROVE FALSE
  OBVIOUS
<1>1. PICK m \in Bad : \A y \in Bad : ~(y < m)
  BY LeastNat
<1>2. CASE m = 0
  <2>1. IsPuAcc(lam, sr, 0, [i \in 0..0 |-> One])
    BY DEF IsPuAcc
  <2>2. QED
    BY <1>1, <1>2, <2>1
<1>3. CASE m # 0
  <2>1. m - 1 \in Nat /\ m - 1 < m
    BY <1>3
  <2>2. PICK g : IsPuAcc(lam, sr, m - 1, g)
    BY <1>1, <2>1
  <2> DEFINE h == [i \in 0..m |-> IF i < m THEN g[i]
                     ELSE Div(Mul(g[m - 1], lam), sr[MinI(m - 1, Len(sr) - 1) + 1])]
  <2>3. IsPuAcc(lam, sr, m, h)
    BY <2>1, <2>2 DEF IsPuAcc
  <2>4. QED
    BY <1>1, <2>3
<1>4. QED
  BY <1>2, <1>3

\* Every rate index min(i-1, num-1)+1 of the loop is a position of servRate.
LEMMA RateIndex ==
  ASSUME NEW sr \in ServRates, NEW i \in Nat \ {0}
  PROVE  /\ Len(sr) \in 1..K
         /\ MinI(i - 1, Len(sr) - 1) + 1 \in 1..Len(sr)
         /\ sr[MinI(i - 1, Len(sr) - 1) + 1] \in PosVal
<1>1. PICK n \in 1..K : sr \in [1..n -> PosVal]
  BY ServRatesAssumption
<1>2. Len(sr) = n
  BY <1>1
<1>3. MinI(i - 1, n - 1) + 1 \in 1..n
  BY <1>1 DEF MinI
<1>4. QED
  BY <1>1, <1>2, <1>3

\* With a positive rate, every unnormalized probability is positive.
LEMMA PuPos ==
  ASSUME NEW lam \in PosVal, NEW sr \in ServRates, NEW n \in Nat, NEW f,
         IsPuAcc(lam, sr, n, f)
  PROVE  \A i \in 0..n : f[i] \in PosVal
<1> DEFINE Bad == {i \in 0..n : f[i] \notin PosVal}
<1> SUFFICES ASSUME Bad # {} PROVE FALSE
  OBVIOUS
<1>0. Bad \in SUBSET Nat
  OBVIOUS
<1>1. PICK i \in Bad : \A y \in Bad : ~(y < i)
  BY <1>0, LeastNat
<1>2. f[i] = IF i = 0 THEN One
             ELSE Div(Mul(f[i - 1], lam), sr[MinI(i - 1, Len(sr) - 1) + 1])
  BY <1>1 DEF IsPuAcc
<1>3. CASE i = 0
  <2>1. One \in PosVal
    BY ConstantsFin DEF One, Int2Val, PosVal
  <2>2. QED
    BY <1>1, <1>2, <1>3, <2>1
<1>4. CASE i # 0
  <2>1. i - 1 \in 0..n /\ i - 1 < i
    BY <1>1, <1>4
  <2>2. f[i - 1] \in PosVal
    BY <1>1, <2>1
  <2>3. sr[MinI(i - 1, Len(sr) - 1) + 1] \in PosVal
    BY <1>1, <1>4, RateIndex
  <2>4. Mul(f[i - 1], lam) \in PosVal
    BY <2>2, PosClosed
  <2>5. f[i] \in PosVal
    BY <1>2, <1>4, <2>3, <2>4, PosClosed
  <2>6. QED
    BY <1>1, <2>5
<1>5. QED
  BY <1>3, <1>4

\* A sum of positive terms is positive and, past its first term, above its last.
LEMMA SumPos ==
  ASSUME NEW n \in Nat \ {0}, NEW t, \A i \in 0..n : t[i] \in PosVal
  PROVE  SumUpTo(t, n) \in PosVal /\ Lt(t[n], SumUpTo(t, n))
<1> DEFINE acc == CHOOSE f : IsSumAcc(t, n, f)
<1>1. IsSumAcc(t, n, acc)
  BY SumAccExists
<1>2. SumUpTo(t, n) = acc[n]
  BY DEF SumUpTo, IsSumAcc
<1> HIDE DEF acc
<1>3. \A j \in 0..n : acc[j] \in PosVal
  <2> DEFINE Bad == {j \in 0..n : acc[j] \notin PosVal}
  <2> SUFFICES ASSUME Bad # {} PROVE FALSE
    OBVIOUS
  <2>0. Bad \in SUBSET Nat
    OBVIOUS
  <2>1. PICK j \in Bad : \A y \in Bad : ~(y < j)
    BY <2>0, LeastNat
  <2>2. acc[j] = IF j = 0 THEN Add(Zero, t[0]) ELSE Add(acc[j - 1], t[j])
    BY <1>1, <2>1 DEF IsSumAcc
  <2>3. CASE j = 0
    <3>1. Zero \in Fin /\ Zero.num = 0
      BY ConstantsFin DEF Zero, Int2Val
    <3>2. Add(Zero, t[0]) \in PosVal
      BY <3>1, AddPos
    <3>3. QED
      BY <2>1, <2>2, <2>3, <3>2
  <2>4. CASE j # 0
    <3>1. j - 1 \in 0..n /\ j - 1 < j
      BY <2>1, <2>4
    <3>2. acc[j - 1] \in PosVal
      BY <2>1, <3>1
    <3>3. acc[j - 1] \in Fin /\ acc[j - 1].num >= 0
      BY <3>2 DEF PosVal, Fin
    <3>4. t[j] \in PosVal
      BY <2>1
    <3>5. Add(acc[j - 1], t[j]) \in PosVal
      BY <3>3, <3>4, AddPos
    <3>6. QED
      BY <2>1, <2>2, <2>4, <3>5
  <2>5. QED
    BY <2>3, <2>4
<1>4. acc[n] = Add(acc[n - 1], t[n])
  BY <1>1 DEF IsSumAcc
<1>5. acc[n - 1] \in PosVal /\ t[n] \in Fin
  BY <1>3 DEF PosVal
<1>6. Lt(t[n], Add(acc[n - 1], t[n]))
  BY <1>5, AddAbove
<1>7. QED
  BY <1>2, <1>3, <1>4, <1>6

(***************************************************************************)
(* At a positive arrival rate computeProbabilitiesApprox leaves every      *)
(* p[i] positive and p[K] below one: the normalizing sum has the positive  *)
(* p[0] = 1 besides p[K] (K >= 1).                                         *)
(***************************************************************************)
LEMMA ProbabilitiesPos ==
  ASSUME NEW lam \in PosVal, NEW sr \in ServRates
  PROVE  /\ ProbabilitiesApprox(lam, sr) \in [States -> PosVal]
         /\ Lt(ProbabilitiesApprox(lam, sr)[K], One)
<1> DEFINE pu   == CHOOSE f : IsPuAcc(lam, sr, K, f)
           sumP == SumUpTo(pu, K)
<1>1. ProbabilitiesApprox(lam, sr) = [i \in States |-> Div(pu[i], sumP)]
  BY DEF ProbabilitiesApprox, IsPuAcc, States
<1>2. IsPuAcc(lam, sr, K, pu)
  BY KAssumption, PuAccExists
<1> HIDE DEF pu
<1>3. \A i \in States : pu[i] \in PosVal
  BY <1>2, KAssumption, PuPos DEF States
<1>4. sumP \in PosVal /\ Lt(pu[K], sumP)
  BY <1>3, KAssumption, SumPos DEF States
<1> HIDE DEF sumP
<1>5. \A i \in States : Div(pu[i], sumP) \in PosVal
  BY <1>3, <1>4, PosClosed
<1>6. Lt(Div(pu[K], sumP), One)
  <2>1. K \in States
    BY KAssumption DEF States
  <2>2. QED
    BY <1>3, <1>4, <2>1, DivBelowOne
<1>7. QED
  BY <1>1, <1>5, <1>6, KAssumption DEF States

\* f holds the partial sums sum_{j<=i} j p[j] of computeStatistics (avgNumInSystem).
IsSysAcc(prob, n, f) ==
  f = [i \in 0..n |-> IF i = 0 THEN Zero ELSE Add(f[i - 1], Mul(Int2Val(i), prob[i]))]

\* f holds the partial sums sum_{j<=i} p[j] of computeStatistics (sumP).
IsCumAcc(prob, n, f) ==
  f = [i \in 0..n |-> IF i = 0 THEN prob[0] ELSE Add(f[i - 1], prob[i])]

LEMMA SysAccExists ==
  ASSUME NEW prob, NEW n \in Nat
  PROVE  \E f : IsSysAcc(prob, n, f)
<1> DEFINE Bad == {m \in Nat : ~\E f : IsSysAcc(prob, m, f)}
<1> SUFFICES ASSUME Bad # {} PROVE FALSE
  OBVIOUS
<1>1. PICK m \in Bad : \A y \in Bad : ~(y < m)
  BY LeastNat
<1>2. CASE m = 0
  <2>1. IsSysAcc(prob, 0, [i \in 0..0 |-> Zero])
    BY DEF IsSysAcc
  <2>2. QED
    BY <1>1, <1>2, <2>1
<1>3. CASE m # 0
  <2>1. m - 1 \in Nat /\ m - 1 < m
    BY <1>3
  <2>2. PICK g : IsSysAcc(prob, m - 1, g)
    BY <1>1, <2>1
  <2> DEFINE h == [i \in 0..m |-> IF i < m THEN g[i]
                     ELSE Add(g[m - 1], Mul(Int2Val(m), prob[m]))]
  <2>3. IsSysAcc(prob, m, h)
    BY <2>1, <2>2 DEF IsSysAcc
  <2>4. QED
    BY <1>1, <2>3
<1>4. QED
  BY <1>2, <1>3

LEMMA CumAccExists ==
  ASSUME NEW prob, NEW n \in Nat
  PROVE  \E f : IsCumAcc(prob, n, f)
<1> DEFINE Bad == {m \in Nat : ~\E f : IsCumAcc(prob, m, f)}
<1> SUFFICES ASSUME Bad # {} PROVE FALSE
  OBVIOUS
<1>1. PICK m \in Bad : \A y \in Bad : ~(y < m)
  BY LeastNat
<1>2. CASE m = 0
  <2>1. IsCumAcc(prob, 0, [i \in 0..0 |-> prob[0]])
    BY DEF IsCumAcc
  <2>2. QED
    BY <1>1, <1>2, <2>1
<1>3. CASE m # 0
  <2>1. m - 1 \in Nat /\ m - 1 < m
    BY <1>3
  <2>2. PICK g : IsCumAcc(prob, m - 1, g)
    BY <1>1, <2>1
  <2> DEFINE h == [i \in 0..m |-> IF i < m THEN g[i] ELSE Add(g[m - 1], prob[m])]
  <2>3. IsCumAcc(prob, m, h)
    BY <2>1, <2>2 DEF IsCumAcc
  <2>4. QED
    BY <1>1, <2>3
<1>4. QED
  BY <1>2, <1>3

\* Over finite probabilities both loops of computeStatistics stay finite.
LEMMA SysCumFin ==
  ASSUME NEW prob, NEW n \in Nat, \A i \in 0..n : prob[i] \in Fin,
         NEW sys, NEW cum, IsSysAcc(prob, n, sys), IsCumAcc(prob, n, cum)
  PROVE  \A i \in 0..n : sys[i] \in Fin /\ cum[i] \in Fin
<1> DEFINE Bad == {i \in 0..n : ~(sys[i] \in Fin /\ cum[i] \in Fin)}
<1> SUFFICES ASSUME Bad # {} PROVE FALSE
  OBVIOUS
<1>0. Bad \in SUBSET Nat
  OBVIOUS
<1>1. PICK i \in Bad : \A y \in Bad : ~(y < i)
  BY <1>0, LeastNat
<1>2. /\ sys[i] = IF i = 0 THEN Zero ELSE Add(sys[i - 1], Mul(Int2Val(i), prob[i]))
      /\ cum[i] = IF i = 0 THEN prob[0] ELSE Add(cum[i - 1], prob[i])
  BY <1>1 DEF IsSysAcc, IsCumAcc
<1>3. CASE i = 0
  BY <1>1, <1>2, <1>3, ConstantsFin
<1>4. CASE i # 0
  <2>1. i - 1 \in 0..n /\ i - 1 < i
    BY <1>1, <1>4
  <2>2. sys[i - 1] \in Fin /\ cum[i - 1] \in Fin /\ prob[i] \in Fin
    BY <1>1, <2>1
  <2>3. Int2Val(i) \in Fin
    BY <1>1 DEF Int2Val, Fin
  <2>4. Mul(Int2Val(i), prob[i]) \in Fin
    BY <2>2, <2>3, FinClosed
  <2>5. Add(sys[i - 1], Mul(Int2Val(i), prob[i])) \in Fin /\ Add(cum[i - 1], prob[i]) \in Fin
    BY <2>2, <2>4, FinClosed
  <2>6. QED
    BY <1>1, <1>2, <1>4, <2>5
<1>5. QED
  BY <1>3, <1>4

(***************************************************************************)
(* computeStatistics on a distribution with every p[i] > 0 and p[K] < 1,   *)
(* at a positive arrival rate, stores the metrics of a lawful queue: the   *)
(* throughput lambda (1 - p[K]) is between 0 and lambda, so the divisions  *)
(* by it are finite, and the floor at zero leaves a finite waiting time    *)
(* that is not negative; R, N and L_q are computed from W and S as the     *)
(* contract states.                                                        *)
(***************************************************************************)
LEMMA StatisticsLawful ==
  ASSUME NEW lam \in PosVal, NEW sr, NEW prob \in [States -> PosVal], Lt(prob[K], One)
  PROVE  LET st == Statistics(lam, sr, prob)
         IN  /\ Leq(Zero, st.throughput) /\ Leq(st.throughput, lam)
             /\ st.avgWaitTime \in Fin /\ Leq(Zero, st.avgWaitTime)
             /\ st.avgRespTime = Add(st.avgWaitTime, st.avgServTime)
             /\ st.avgNumInSystem = Mul(st.throughput, st.avgRespTime)
             /\ st.avgQueueLength = Mul(st.throughput, st.avgWaitTime)
<1> DEFINE num == Len(sr)
           sys == CHOOSE f : IsSysAcc(prob, K, f)
           cum == CHOOSE f : IsCumAcc(prob, K, f)
           servers == IF num \in 1..K
                      THEN Add(sys[num], Mul(Sub(One, cum[num]), Int2Val(num)))
                      ELSE Zero
           q  == Sub(One, prob[K])
           x  == Mul(lam, q)
           s  == Div(servers, x)
           y  == Sub(Div(sys[K], x), s)
           w0 == Mul(Half, y)
           w  == IF Lt(w0, Zero) THEN Zero ELSE w0
           r  == Add(w, s)
<1>1. Statistics(lam, sr, prob) =
        [throughput |-> x, avgNumInServers |-> servers, avgServTime |-> s,
         avgWaitTime |-> w, avgRespTime |-> r, avgNumInSystem |-> Mul(x, r),
         avgQueueLength |-> Mul(x, w)]
  BY DEF Statistics, IsSysAcc, IsCumAcc, States
<1>2. K \in States /\ K \in Nat
  BY KAssumption DEF States
<1>3. \A i \in 0..K : sys[i] \in Fin /\ cum[i] \in Fin
  <2>1. IsSysAcc(prob, K, sys) /\ IsCumAcc(prob, K, cum)
    BY <1>2, SysAccExists, CumAccExists
  <2>2. \A i \in 0..K : prob[i] \in Fin
    BY DEF States, PosVal
  <2>3. QED
    BY <1>2, <2>1, <2>2, SysCumFin
<1> HIDE DEF sys, cum
<1>4. q \in PosVal /\ Lt(q, One)
  BY <1>2, OneMinusPos
<1> HIDE DEF q
<1>5. x \in PosVal /\ Lt(x, lam)
  BY <1>4, PosClosed, MulBelow
<1>6. Leq(Zero, x) /\ Leq(x, lam)
  BY <1>5, PosLt DEF Leq
<1>7. servers \in Fin
  <2>1. CASE num \in 1..K
    <3>1. sys[num] \in Fin /\ cum[num] \in Fin /\ Int2Val(num) \in Fin
      BY <1>3, <2>1 DEF Int2Val, Fin
    <3>2. Sub(One, cum[num]) \in Fin
      BY <3>1, ConstantsFin, FinClosed
    <3>3. QED
      BY <2>1, <3>1, <3>2, FinClosed DEF servers
  <2>2. CASE num \notin 1..K
    BY <2>2, ConstantsFin DEF servers
  <2>3. QED
    BY <2>1, <2>2
<1> HIDE DEF servers
<1>8. x \in Fin /\ x.num # 0
  BY <1>5 DEF PosVal
<1>9. s \in Fin /\ Div(sys[K], x) \in Fin
  BY <1>2, <1>3, <1>7, <1>8, FinClosed
<1>10. y \in Fin
  BY <1>9, FinClosed
<1> HIDE DEF x, s, y
<1>11. w \in Fin /\ Leq(Zero, w)
  BY <1>10, FloorAtZero
<1>12. r = Add(w, s)
  BY DEF r
<1> HIDE DEF w0, w, r
<1>13. QED
  BY <1>1, <1>6, <1>11, <1>12

-----------------------------------------------------------------------------
(***************************************************************************)
(* Refinement of the queue-model contract (module QueueModel) under the    *)
(* mapping PublishedMetrics.  A Solve at a positive arrival rate is a      *)
(* contract Solve whatever p, rho and the metrics of earlier Solves: the   *)
(* validity check admits only lambda >= 0 and mu > 0, a valid Solve        *)
(* publishes the metrics computeStatistics just stored (lawful by          *)
(* ProbabilitiesPos and StatisticsLawful), and an invalid one publishes    *)
(* none.  The rates are positive in the hypothesis because at lambda = 0   *)
(* the throughput is 0 and the divisions by it are NaN (run md1sd_idle).   *)
(***************************************************************************)
(***************************************************************************)
(* The contract module extends the same number module: its copies of the   *)
(* operators the contract states are the ones the object computes with.    *)
(***************************************************************************)
LEMMA ContractNumbers ==
  /\ QM!Zero = Zero /\ QM!Fin = Fin /\ QM!Value = Value
  /\ \A a, b : QM!Lt(a, b) = Lt(a, b)
  /\ \A a, b : QM!Leq(a, b) = Leq(a, b)
  /\ \A a, b : QM!Add(a, b) = Add(a, b)
  /\ \A a, b : QM!Mul(a, b) = Mul(a, b)
<1>1. QM!Zero = Zero /\ QM!Fin = Fin /\ QM!Value = Value
      /\ QM!NaN = NaN /\ QM!PosInf = PosInf /\ QM!NegInf = NegInf /\ QM!Inf = Inf
  BY DEF QM!Zero, Zero, QM!Int2Val, Int2Val, QM!Fin, Fin, QM!Value, Value,
         QM!NaN, NaN, QM!PosInf, PosInf, QM!NegInf, NegInf, QM!Inf, Inf
<1>2. \A a, b : QM!Lt(a, b) = Lt(a, b)
  BY <1>1 DEF QM!Lt, Lt
<1>3. \A a, b : QM!Leq(a, b) = Leq(a, b)
  BY <1>1, <1>2 DEF QM!Leq, Leq
<1>4. QM!GcdF = GcdF
  BY DEF QM!GcdF, GcdF
<1>5. \A n, d : QM!MkRat(n, d) = MkRat(n, d)
  BY <1>1, <1>4 DEF QM!MkRat, MkRat, QM!ReduceBy, ReduceBy, QM!AbsI, AbsI, QM!SgnI, SgnI
<1>6. \A a, b : QM!Add(a, b) = Add(a, b)
  BY <1>1, <1>5 DEF QM!Add, Add
<1>7. \A a, b : QM!Mul(a, b) = Mul(a, b)
  <2>1. \A a : QM!IsPos(a) = IsPos(a)
    BY <1>1 DEF QM!IsPos, IsPos
  <2>2. \A x, y : QM!SignedInf(x, y) = SignedInf(x, y)
    BY <1>1 DEF QM!SignedInf, SignedInf
  <2>3. QED
    BY <1>1, <1>5, <2>1, <2>2 DEF QM!Mul, Mul
<1>8. QED
  BY <1>1, <1>2, <1>3, <1>6, <1>7

LEMMA SolveRefines ==
  ASSUME TypeOK, Lambdas \subseteq PosVal, NEW lam \in Lambdas, NEW m \in Mus,
         Solve(lam, m)
  PROVE  QM!Solve(lam, m)
<1> DEFINE prob  == ProbabilitiesApprox(lam, servRate)
           st    == Statistics(lam, servRate, prob)
           valid == Lt(ComputeRho(p), GetRhoMax) /\ ~Lt(lam, Zero) /\ Lt(Zero, m)
<1>1. lam \in PosVal /\ servRate \in ServRates
  BY DEF TypeOK
<1>2. lambda' = lam /\ mu' = m /\ isValid' = valid
  BY DEF Solve
<1>3. Leq(Zero, lam)
  BY <1>1, PosLt
<1>4. CASE valid
  <2>1. prob \in [States -> PosVal] /\ Lt(prob[K], One)
    BY <1>1, ProbabilitiesPos
  <2>2. /\ Leq(Zero, st.throughput) /\ Leq(st.throughput, lam)
        /\ st.avgWaitTime \in Fin /\ Leq(Zero, st.avgWaitTime)
        /\ st.avgRespTime = Add(st.avgWaitTime, st.avgServTime)
        /\ st.avgNumInSystem = Mul(st.throughput, st.avgRespTime)
        /\ st.avgQueueLength = Mul(st.throughput, st.avgWaitTime)
    BY <1>1, <2>1, StatisticsLawful
  <2>3. /\ st.throughput \in Value /\ st.avgNumInSystem \in Value
        /\ st.avgRespTime \in Value /\ st.avgServTime \in Value
        /\ st.avgWaitTime \in Value /\ st.avgQueueLength \in Value
    BY StatisticsType
  <2>4. /\ throughput' = st.throughput /\ avgNumInSystem' = st.avgNumInSystem
        /\ avgRespTime' = st.avgRespTime /\ avgServTime' = st.avgServTime
        /\ avgWaitTime' = st.avgWaitTime /\ avgQueueLength' = st.avgQueueLength
    BY <1>4 DEF Solve
  <2> HIDE DEF st
  <2>5. PublishedMetrics' =
          [throughput |-> st.throughput, avgNumInSystem |-> st.avgNumInSystem,
           avgRespTime |-> st.avgRespTime, avgServTime |-> st.avgServTime,
           avgWaitTime |-> st.avgWaitTime, avgQueueLength |-> st.avgQueueLength]
    BY <1>2, <1>4, <2>4 DEF PublishedMetrics
  <2>6. PublishedMetrics' \in [QM!MetricFields -> Value]
    BY <2>3, <2>5, ContractNumbers DEF QM!MetricFields
  <2>7. QM!Lawful(lam, PublishedMetrics')
    BY <2>2, <2>5, ContractNumbers DEF QM!Lawful
  <2>8. QED
    BY <1>2, <1>3, <1>4, <2>6, <2>7, ContractNumbers DEF QM!Solve
<1>5. CASE ~valid
  <2>1. PublishedMetrics' = QM!NoMetrics
    BY <1>2, <1>5, ContractNumbers DEF PublishedMetrics, QM!NoMetrics, QM!MetricFields
  <2>2. QED
    BY <1>2, <1>5, <2>1 DEF QM!Solve
<1>6. QED
  BY <1>4, <1>5

(***************************************************************************)
(* Every behaviour of the state-dependent M/D/1 object at positive arrival *)
(* rates is a behaviour of the queue-model contract when its metrics are   *)
(* read through IsValid (ImplementsQueueModel), for every K, every set of  *)
(* service-rate vectors and every set of inputs. Read through the getters  *)
(* alone it is not one: run md1sd_stale_getters.                           *)
(***************************************************************************)
THEOREM ImplementsContract ==
  ASSUME Lambdas \subseteq PosVal
  PROVE  Spec => ImplementsQueueModel
<1>1. Init => QM!Init
  BY ContractNumbers DEF Init, QM!Init, PublishedMetrics, QM!NoMetrics, QM!MetricFields
<1>2. TypeOK /\ [Next]_vars => [QM!Next]_<<lambda, mu, isValid, PublishedMetrics>>
  <2> SUFFICES ASSUME TypeOK, [Next]_vars
               PROVE  [QM!Next]_<<lambda, mu, isValid, PublishedMetrics>>
    OBVIOUS
  <2>1. CASE Next
    <3>1. PICK lam \in Lambdas, m \in Mus : Solve(lam, m)
      BY <2>1 DEF Next
    <3>2. QM!Solve(lam, m)
      BY <3>1, SolveRefines
    <3>3. QED
      BY <3>2 DEF QM!Next
  <2>2. CASE UNCHANGED vars
    BY <2>2 DEF vars, metrics, PublishedMetrics
  <2>3. QED
    BY <2>1, <2>2
<1>3. QED
  BY <1>1, <1>2, TypeCorrect, PTL DEF Spec, ImplementsQueueModel, QM!Spec

(***************************************************************************)
(* Spec 8.4 holds at positive arrival rates: whenever the object is valid  *)
(* its waiting time is a number and is not negative.  Run md1sd_idle shows *)
(* the same property fails once lambda = 0 is allowed.  The invariant is   *)
(* inductive with TypeOK: a valid Solve stores the W of StatisticsLawful,  *)
(* an invalid one makes isValid false.                                     *)
(***************************************************************************)
THEOREM WaitDefinedAtPositiveRates ==
  ASSUME Lambdas \subseteq PosVal
  PROVE  Spec => []WaitDefinedWhenValid
<1>1. Init => WaitDefinedWhenValid
  BY DEF Init, WaitDefinedWhenValid
<1>2. TypeOK /\ WaitDefinedWhenValid /\ [Next]_vars => WaitDefinedWhenValid'
  <2> SUFFICES ASSUME TypeOK, WaitDefinedWhenValid, [Next]_vars
               PROVE  WaitDefinedWhenValid'
    OBVIOUS
  <2>1. CASE Next
    <3>1. PICK lam \in Lambdas, m \in Mus : Solve(lam, m)
      BY <2>1 DEF Next
    <3> DEFINE prob == ProbabilitiesApprox(lam, servRate)
               st   == Statistics(lam, servRate, prob)
    <3>2. lam \in PosVal /\ servRate \in ServRates
      BY DEF TypeOK
    <3>3. CASE isValid'
      <4>1. avgWaitTime' = st.avgWaitTime
        BY <3>1, <3>3 DEF Solve
      <4>2. prob \in [States -> PosVal] /\ Lt(prob[K], One)
        BY <3>2, ProbabilitiesPos
      <4>3. st.avgWaitTime \in Fin /\ Leq(Zero, st.avgWaitTime)
        BY <3>2, <4>2, StatisticsLawful
      <4>4. QED
        BY <4>1, <4>3 DEF WaitDefinedWhenValid
    <3>4. QED
      BY <3>3 DEF WaitDefinedWhenValid
  <2>2. CASE UNCHANGED vars
    BY <2>2 DEF vars, metrics, WaitDefinedWhenValid
  <2>3. QED
    BY <2>1, <2>2
<1>3. QED
  BY <1>1, <1>2, TypeCorrect, PTL DEF Spec

=============================================================================
