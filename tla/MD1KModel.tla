------------------------------ MODULE MD1KModel ------------------------------
(***************************************************************************)
(* One MD1KModel object (pkg/analyzer/md1kmodel.go), the M/D/1/K solver    *)
(* with a single deterministic server, and the sequence of Solve calls     *)
(* made on it.  The QueueModel base template Solve is not in this          *)
(* repository's source; it is modelled from spec section 4.1 exactly as in *)
(* MD1ModelStateDependent: set the inputs, rho := ComputeRho(), isValid := *)
(* rho < GetRhoMax() /\ lambda >= 0 /\ mu > 0, then computeStatistics().   *)
(*                                                                         *)
(* computeProbabilities iterates the embedded chain at service-completion  *)
(* epochs from the uniform distribution.  The Poisson weights are          *)
(* exp(-a) a^j / j!; exp is irrational, so math.Exp(-a) is the constant    *)
(* operator ExpNeg, which a model instance gives as a rational close to    *)
(* it.  The code's 10000 iterations and tolerance 1e-8 are the constants   *)
(* MaxIter and Tolerance.                                                  *)
(***************************************************************************)
EXTENDS Integers, ExtRat

CONSTANTS
  K,          \* limit on number in system
  Inputs,     \* the (lambda, mu) pairs passed to Solve
  MaxIter,    \* maxIter of computeProbabilities
  Tolerance,  \* tolerance of computeProbabilities
  ExpNeg(_)   \* math.Exp(-a)

ASSUME KAssumption == K \in Nat \ {0}
ASSUME InputsAssumption == Inputs \subseteq Fin \X Fin
ASSUME IterAssumption == MaxIter \in Nat \ {0} /\ Tolerance \in Fin /\ Tolerance.num > 0

VARIABLES
  lambda, mu,   \* inputs of the last Solve
  rho,          \* utilization
  isValid,
  p,            \* state probabilities p[0..K]
  throughput, avgNumInSystem, avgRespTime, avgServTime, avgWaitTime, avgQueueLength

metrics == <<throughput, avgNumInSystem, avgRespTime, avgServTime, avgWaitTime,
             avgQueueLength>>
vars == <<lambda, mu, rho, isValid, p, metrics>>

States == 0..K

\* MD1KModel.ComputeRho and GetRhoMax.
ComputeRho(lam, m) == IF lam = m THEN One ELSE Div(lam, m)
GetRhoMax == Int2Val(K)

\* factorial(n): a table for n <= 20 and a product beyond; both exact for n <= K.
Factorial[n \in Nat] == IF n <= 1 THEN 1 ELSE n * Factorial[n - 1]

\* math.Pow(a, j) for a natural exponent; Pow(0, 0) = 1.
PowV(a, j) ==
  LET pw[i \in 0..j] == IF i = 0 THEN One ELSE Mul(pw[i - 1], a)
  IN  pw[j]

\* poissonProb = math.Exp(-a) * math.Pow(a, j) / factorial(j).
PoissonPmf(a, j) == Div(Mul(ExpNeg(a), PowV(a, j)), Int2Val(Factorial[j]))

AbsV(v) == IF Lt(v, Zero) THEN Neg(v) ELSE v

(***************************************************************************)
(* Fault variants of the definitions below.                                *)
(***************************************************************************)
\* p sized make([]float64, K): one state short.
InitShortP ==
  /\ lambda = Zero /\ mu = Zero /\ rho = Zero /\ isValid = FALSE
  /\ p = [i \in 0..(K - 1) |-> Zero]
  /\ throughput = Zero /\ avgNumInSystem = Zero /\ avgRespTime = Zero
  /\ avgServTime = Zero /\ avgWaitTime = Zero /\ avgQueueLength = Zero

(***************************************************************************)
(* One pass of the outer loop body: from state 0 the chain stays at 0      *)
(* (pNew[0] += p[0]); from n >= 1 it moves to min(K, n - 1 + j) with the   *)
(* Poisson weight of j arrivals, for j = 0..K only.                        *)
(***************************************************************************)
ChainStep(prob, pmf) ==
  [s \in States |->
     Add(IF s = 0 THEN prob[0] ELSE Zero,
         SumUpTo([n \in States |->
                    IF n = 0 THEN Zero
                    ELSE SumUpTo([j \in States |->
                                    IF MinI(n - 1 + j, K) = s
                                    THEN Mul(prob[n], pmf[j]) ELSE Zero], K)], K))]

\* maxDiff < tolerance.
Converged(old, new) == \A i \in States : Lt(AbsV(Sub(new[i], old[i])), Tolerance)

\* The loop of computeProbabilities up to its break, without the normalization.
IteratedChain(lam, m) ==
  LET a   == Mul(lam, Div(One, m))
      pmf == [j \in States |-> PoissonPmf(a, j)]
      it[t \in 0..MaxIter] ==
        IF t = 0 THEN [p |-> [i \in States |-> Div(One, Int2Val(K + 1))], done |-> FALSE]
        ELSE IF it[t - 1].done THEN it[t - 1]
        ELSE LET q == ChainStep(it[t - 1].p, pmf)
             IN  [p |-> q, done |-> Converged(it[t - 1].p, q)]
  IN  it[MaxIter].p

\* The normalization loops left out.
ProbabilitiesUnnormalized(lam, m) == IteratedChain(lam, m)

\* computeProbabilities: iterate, then divide by the sum.
Probabilities(lam, m) ==
  LET raw  == IteratedChain(lam, m)
      sumP == SumUpTo(raw, K)
  IN  [i \in States |-> Div(raw[i], sumP)]

(***************************************************************************)
(* computeStatistics after computeProbabilities: N by the sum of i p[i],   *)
(* X = lambda (1 - p[K]), R = N / X, S = 1 / mu, W = R - S floored at 0,   *)
(* L_q = X W.  R is not recomputed after the floor.                        *)
(***************************************************************************)
Statistics(lam, m, prob) ==
  LET n  == SumUpTo([i \in States |-> Mul(Int2Val(i), prob[i])], K)
      x  == Mul(lam, Sub(One, prob[K]))
      r  == Div(n, x)
      s  == Div(One, m)
      w0 == Sub(r, s)
      w  == IF Lt(w0, Zero) THEN Zero ELSE w0
  IN  [throughput |-> x, avgNumInSystem |-> n, avgRespTime |-> r,
       avgServTime |-> s, avgWaitTime |-> w, avgQueueLength |-> Mul(x, w)]

\* NewMD1KModel(K): QueueModel{} is all zero, p = make([]float64, K+1).
Init ==
  /\ lambda = Zero /\ mu = Zero /\ rho = Zero /\ isValid = FALSE
  /\ p = [i \in States |-> Zero]
  /\ throughput = Zero /\ avgNumInSystem = Zero /\ avgRespTime = Zero
  /\ avgServTime = Zero /\ avgWaitTime = Zero /\ avgQueueLength = Zero

(***************************************************************************)
(* Solve(lambda, mu): the base template, then computeStatistics, which     *)
(* returns at once when the model is invalid and leaves p and the metrics  *)
(* of the previous Solve.                                                  *)
(***************************************************************************)
Solve(lam, m) ==
  LET r     == ComputeRho(lam, m)
      valid == Lt(r, GetRhoMax) /\ ~Lt(lam, Zero) /\ Lt(Zero, m)
      prob  == Probabilities(lam, m)
      st    == Statistics(lam, m, prob)
  IN  /\ lambda' = lam /\ mu' = m /\ rho' = r /\ isValid' = valid
      /\ IF valid
           THEN /\ p' = prob
                /\ throughput' = st.throughput
                /\ avgNumInSystem' = st.avgNumInSystem
                /\ avgRespTime' = st.avgRespTime
                /\ avgServTime' = st.avgServTime
                /\ avgWaitTime' = st.avgWaitTime
                /\ avgQueueLength' = st.avgQueueLength
           ELSE UNCHANGED <<p, metrics>>

Next == \E in \in Inputs : Solve(in[1], in[2])

Spec == Init /\ [][Next]_vars

-----------------------------------------------------------------------------
(* Properties *)

TypeOK ==
  /\ lambda \in Fin /\ mu \in Fin
  /\ rho \in Value
  /\ isValid \in BOOLEAN
  /\ p \in [States -> Value]
  /\ throughput \in Value /\ avgNumInSystem \in Value /\ avgRespTime \in Value
  /\ avgServTime \in Value /\ avgWaitTime \in Value /\ avgQueueLength \in Value

(***************************************************************************)
(* Spec 8.1: after a valid Solve the probabilities are a distribution.     *)
(* The chain of computeProbabilities loses mass at every pass (the Poisson *)
(* weights stop at j = K), so this rests on the final normalization.       *)
(***************************************************************************)
NormalizedDistribution ==
  isValid =>
    /\ SumUpTo(p, K) = One
    /\ \A i \in States : Leq(Zero, p[i])

(***************************************************************************)
(* Spec 8.2 and TestQueueModelTypes: after a valid Solve at a positive     *)
(* rate the response time is the waiting time plus the service time.       *)
(***************************************************************************)
ResponseIsWaitPlusService ==
  (isValid /\ Lt(Zero, lambda)) => avgRespTime = Add(avgWaitTime, avgServTime)
=============================================================================
