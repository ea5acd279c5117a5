------------------------ MODULE MD1KModel_proofs ------------------------
(***************************************************************************)
(* Proofs about the M/D/1/K solver object, for every K, every set of       *)
(* inputs, every iteration bound and tolerance and every exp(-a).          *)
(***************************************************************************)
EXTENDS MD1KModel, ExtRat_proofs, TLAPS

(***************************************************************************)
(* Each field computeStatistics stores is a Value, whatever probabilities  *)
(* it reads: N is a SumUpTo and the others end in an ExtRat operation or   *)
(* the floor at Zero.                                                      *)
(***************************************************************************)
LEMMA StatisticsType ==
  ASSUME NEW lam, NEW m, NEW prob
  PROVE  /\ Statistics(lam, m, prob).throughput \in Value
         /\ Statistics(lam, m, prob).avgNumInSystem \in Value
         /\ Statistics(lam, m, prob).avgRespTime \in Value
         /\ Statistics(lam, m, prob).avgServTime \in Value
         /\ Statistics(lam, m, prob).avgWaitTime \in Value
         /\ Statistics(lam, m, prob).avgQueueLength \in Value
<1> DEFINE n  == SumUpTo([i \in States |-> Mul(Int2Val(i), prob[i])], K)
           x  == Mul(lam, Sub(One, prob[K]))
           r  == Div(n, x)
           s  == Div(One, m)
           w0 == Sub(r, s)
           w  == IF Lt(w0, Zero) THEN Zero ELSE w0
<1>1. Statistics(lam, m, prob) =
        [throughput |-> x, avgNumInSystem |-> n, avgRespTime |-> r,
         avgServTime |-> s, avgWaitTime |-> w, avgQueueLength |-> Mul(x, w)]
  BY DEF Statistics
<1>2. n \in Value
  BY KAssumption, SumUpToType
<1>3. x \in Value /\ r \in Value /\ s \in Value /\ w0 \in Value
  BY MulType, DivType, SubType
<1>4. w \in Value
  BY <1>3, ConstantsFin, FinIsNotSpecial
<1>5. Mul(x, w) \in Value
  BY MulType
<1> HIDE DEF n, x, r, s, w0, w
<1>6. QED
  BY <1>1, <1>2, <1>3, <1>4, <1>5

LEMMA InitTypeOK == Init => TypeOK
BY ConstantsFin, FinIsNotSpecial DEF Init, TypeOK

LEMMA SolveTypeOK ==
  ASSUME TypeOK, NEW in \in Inputs, Solve(in[1], in[2])
  PROVE  TypeOK'
<1> DEFINE lam  == in[1]
           m    == in[2]
           prob == Probabilities(lam, m)
           st   == Statistics(lam, m, prob)
<1>1. lam \in Fin /\ m \in Fin
  BY InputsAssumption
<1>2. lambda' \in Fin /\ mu' \in Fin /\ isValid' \in BOOLEAN
  BY <1>1 DEF Solve
<1>3. rho' \in Value
  <2>1. ComputeRho(lam, m) \in Value
    BY <1>1, DivType, ConstantsFin, FinIsNotSpecial DEF ComputeRho
  <2>2. QED
    BY <2>1 DEF Solve
<1>4. prob \in [States -> Value]
  BY DivType DEF Probabilities
<1>5. /\ st.throughput \in Value /\ st.avgNumInSystem \in Value
      /\ st.avgRespTime \in Value /\ st.avgServTime \in Value
      /\ st.avgWaitTime \in Value /\ st.avgQueueLength \in Value
  BY StatisticsType
<1> HIDE DEF prob, st
<1>6. CASE Lt(ComputeRho(lam, m), GetRhoMax) /\ ~Lt(lam, Zero) /\ Lt(Zero, m)
  BY <1>2, <1>3, <1>4, <1>5, <1>6 DEF Solve, TypeOK, prob, st
<1>7. CASE ~(Lt(ComputeRho(lam, m), GetRhoMax) /\ ~Lt(lam, Zero) /\ Lt(Zero, m))
  BY <1>2, <1>3, <1>7 DEF Solve, TypeOK, metrics
<1>8. QED
  BY <1>6, <1>7

(***************************************************************************)
(* The inputs, utilization, probabilities and metrics of the MD1KModel     *)
(* object stay in the ExtRat values over every sequence of Solve calls,    *)
(* valid or not, for every K: in particular the sums of computeStatistics  *)
(* and of the normalization are defined for every capacity.                *)
(***************************************************************************)
THEOREM TypeCorrect == Spec => []TypeOK
<1>1. Init => TypeOK
  BY InitTypeOK
<1>2. TypeOK /\ [Next]_vars => TypeOK'
  <2> SUFFICES ASSUME TypeOK, [Next]_vars PROVE TypeOK'
    OBVIOUS
  <2>1. CASE Next
    BY <2>1, SolveTypeOK DEF Next
  <2>2. CASE UNCHANGED vars
    BY <2>2 DEF vars, TypeOK, metrics
  <2>3. QED
    BY <2>1, <2>2
<1>3. QED
  BY <1>1, <1>2, PTL DEF Spec
=============================================================================
