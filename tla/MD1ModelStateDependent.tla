---------------------- MODULE MD1ModelStateDependent ----------------------
(***************************************************************************)
(* One MD1ModelStateDependent object (pkg/analyzer/md1modelstatedependent  *)
(* .go) and the sequence of Solve calls made on it.  The object embeds an  *)
(* MD1KModel (md1kmodel.go), which embeds the QueueModel base whose        *)
(* template Solve is not in this repository's source and is modelled from  *)
(* spec section 4.1: set the inputs, rho := ComputeRho(), isValid := rho < *)
(* GetRhoMax() /\ lambda >= 0 /\ mu > 0, then computeStatistics().         *)
(*                                                                         *)
(* The object is reused: the analyzer owns one model and solves it again   *)
(* for every candidate arrival rate, so whatever one Solve leaves behind   *)
(* (p, rho, the derived metrics) is the state the next Solve starts from.  *)
(***************************************************************************)
EXTENDS Integers, Sequences, ExtRat

CONSTANTS
  K,         \* limit on number in system (MaxQueueSize)
  ServRates, \* the state-dependent service-rate vectors an object may be built with
  Lambdas,   \* arrival rates passed to Solve
  Mus        \* service rates passed to Solve (the analyzer passes servRate[0])

PosVal == {v \in Fin : v.num > 0}

ASSUME KAssumption == K \in Nat \ {0}
\* The configuration keeps K >= MaxBatchSize = len(servRate) (spec section 3).
ASSUME ServRatesAssumption ==
  \A sr \in ServRates : \E n \in 1..K : sr \in [1..n -> PosVal]
ASSUME InputsAssumption == Lambdas \subseteq Fin /\ Mus \subseteq Fin

VARIABLES
  servRate,        \* state-dependent service rate, fixed at construction
  lambda, mu,      \* inputs of the last Solve
  rho,             \* utilization
  isValid,
  p,               \* state probabilities p[0..K]
  throughput,
  avgNumInSystem, avgNumInServers,
  avgRespTime, avgServTime, avgWaitTime, avgQueueLength

metrics == <<throughput, avgNumInSystem, avgNumInServers,
             avgRespTime, avgServTime, avgWaitTime, avgQueueLength>>
vars == <<servRate, lambda, mu, rho, isValid, p, metrics>>

States == 0..K

(***************************************************************************)
(* MD1KModel.GetRhoMax and MD1ModelStateDependent.ComputeRho.  ComputeRho  *)
(* reads p, so when the base Solve calls it before computeStatistics it    *)
(* sees the probabilities of the previous Solve.                           *)
(***************************************************************************)
GetRhoMax == Int2Val(K)
ComputeRho(prob) == Sub(One, prob[0])

(***************************************************************************)
(* Fault variants of the definitions below, each the kind of slip the Go   *)
(* code could make; the properties must tell each one from the original.   *)
(***************************************************************************)
\* p sized make([]float64, K): one state short.
InitShortP ==
  /\ servRate \in ServRates
  /\ lambda = Zero /\ mu = Zero /\ rho = Zero
  /\ isValid = FALSE
  /\ p = [i \in 0..(K - 1) |-> Zero]
  /\ throughput = Zero /\ avgNumInSystem = Zero /\ avgNumInServers = Zero
  /\ avgRespTime = Zero /\ avgServTime = Zero /\ avgWaitTime = Zero
  /\ avgQueueLength = Zero

\* Rate index min(i, num-1) instead of min(i-1, num-1).
ProbabilitiesShiftedRate(lam, sr) ==
  LET num == Len(sr)
      pu[i \in States] ==
        IF i = 0 THEN One
        ELSE Div(Mul(pu[i - 1], lam), sr[MinI(i, num - 1) + 1])
      sumP == SumUpTo(pu, K)
  IN  [i \in States |-> Div(pu[i], sumP)]

\* The normalization loop left out.
ProbabilitiesUnnormalized(lam, sr) ==
  LET num == Len(sr)
      pu[i \in States] ==
        IF i = 0 THEN One
        ELSE Div(Mul(pu[i - 1], lam), sr[MinI(i - 1, num - 1) + 1])
  IN  pu

\* avgNumInServers taken at i == num - 1.
StatisticsServersEarly(lam, sr, prob) ==
  LET num == Len(sr)
      sys[i \in States] == IF i = 0 THEN Zero ELSE Add(sys[i - 1], Mul(Int2Val(i), prob[i]))
      cum[i \in States] == IF i = 0 THEN prob[0] ELSE Add(cum[i - 1], prob[i])
      servers == IF num - 1 \in 1..K
                 THEN Add(sys[num - 1], Mul(Sub(One, cum[num - 1]), Int2Val(num)))
                 ELSE Zero
      x  == Mul(lam, Sub(One, prob[K]))
      r0 == Div(sys[K], x)
      s  == Div(servers, x)
      w0 == Mul(Half, Sub(r0, s))
      w  == IF Lt(w0, Zero) THEN Zero ELSE w0
      r  == Add(w, s)
  IN  [throughput |-> x, avgNumInServers |-> servers, avgServTime |-> s,
       avgWaitTime |-> w, avgRespTime |-> r, avgNumInSystem |-> Mul(x, r),
       avgQueueLength |-> Mul(x, w)]

\* computeProbabilitiesApprox: p[i] = p[i-1] * lambda / servRate[min(i-1, num-1)], normalized.
ProbabilitiesApprox(lam, sr) ==
  LET num == Len(sr)
      pu[i \in States] ==
        IF i = 0 THEN One
        ELSE Div(Mul(pu[i - 1], lam), sr[MinI(i - 1, num - 1) + 1])
      sumP == SumUpTo(pu, K)
  IN  [i \in States |-> Div(pu[i], sumP)]

(***************************************************************************)
(* computeStatistics, steps 2 to 9, from the probabilities prob.  The loop *)
(* over i = 1..K accumulates avgNumInSystem and sumP and takes             *)
(* avgNumInServers at i = num only; the record holds what the method       *)
(* stores.                                                                 *)
(***************************************************************************)
Statistics(lam, sr, prob) ==
  LET num == Len(sr)
      sys[i \in States] == IF i = 0 THEN Zero ELSE Add(sys[i - 1], Mul(Int2Val(i), prob[i]))
      cum[i \in States] == IF i = 0 THEN prob[0] ELSE Add(cum[i - 1], prob[i])
      servers == IF num \in 1..K
                 THEN Add(sys[num], Mul(Sub(One, cum[num]), Int2Val(num)))
                 ELSE Zero
      x  == Mul(lam, Sub(One, prob[K]))
      r0 == Div(sys[K], x)
      s  == Div(servers, x)
      w0 == Mul(Half, Sub(r0, s))
      w  == IF Lt(w0, Zero) THEN Zero ELSE w0
      r  == Add(w, s)
  IN  [throughput |-> x, avgNumInServers |-> servers, avgServTime |-> s,
       avgWaitTime |-> w, avgRespTime |-> r, avgNumInSystem |-> Mul(x, r),
       avgQueueLength |-> Mul(x, w)]

(***************************************************************************)
(* NewMD1ModelStateDependent(K, servRate): QueueModel{} is all zero,       *)
(* p = make([]float64, K+1).                                               *)
(***************************************************************************)
Init ==
  /\ servRate \in ServRates
  /\ lambda = Zero /\ mu = Zero /\ rho = Zero
  /\ isValid = FALSE
  /\ p = [i \in States |-> Zero]
  /\ throughput = Zero /\ avgNumInSystem = Zero /\ avgNumInServers = Zero
  /\ avgRespTime = Zero /\ avgServTime = Zero /\ avgWaitTime = Zero
  /\ avgQueueLength = Zero

(***************************************************************************)
(* Solve(lambda, mu): the base template, then computeStatistics.  When the *)
(* model is invalid computeStatistics returns at once and p and the        *)
(* metrics keep the values of the previous Solve.  When it is valid,       *)
(* computeProbabilitiesApprox ends with m.rho = m.ComputeRho() on the new  *)
(* probabilities.                                                          *)
(***************************************************************************)
\* The mu > 0 conjunct of the validity check left out.
SolveNoMuGuard(lam, m) ==
  LET rhoStale == ComputeRho(p)
      valid    == Lt(rhoStale, GetRhoMax) /\ ~Lt(lam, Zero)
      prob     == ProbabilitiesApprox(lam, servRate)
      st       == Statistics(lam, servRate, prob)
  IN  /\ lambda' = lam
      /\ mu' = m
      /\ isValid' = valid
      /\ IF valid
           THEN /\ p' = prob
                /\ rho' = ComputeRho(prob)
                /\ throughput' = st.throughput
                /\ avgNumInSystem' = st.avgNumInSystem
                /\ avgNumInServers' = st.avgNumInServers
                /\ avgRespTime' = st.avgRespTime
                /\ avgServTime' = st.avgServTime
                /\ avgWaitTime' = st.avgWaitTime
                /\ avgQueueLength' = st.avgQueueLength
           ELSE /\ rho' = rhoStale
                /\ UNCHANGED <<p, metrics>>
      /\ UNCHANGED servRate

Solve(lam, m) ==
  LET rhoStale == ComputeRho(p)
      valid    == Lt(rhoStale, GetRhoMax) /\ ~Lt(lam, Zero) /\ Lt(Zero, m)
      prob     == ProbabilitiesApprox(lam, servRate)
      st       == Statistics(lam, servRate, prob)
  IN  /\ lambda' = lam
      /\ mu' = m
      /\ isValid' = valid
      /\ IF valid
           THEN /\ p' = prob
                /\ rho' = ComputeRho(prob)
                /\ throughput' = st.throughput
                /\ avgNumInSystem' = st.avgNumInSystem
                /\ avgNumInServers' = st.avgNumInServers
                /\ avgRespTime' = st.avgRespTime
                /\ avgServTime' = st.avgServTime
                /\ avgWaitTime' = st.avgWaitTime
                /\ avgQueueLength' = st.avgQueueLength
           ELSE /\ rho' = rhoStale
                /\ UNCHANGED <<p, metrics>>
      /\ UNCHANGED servRate

Next == \E lam \in Lambdas, m \in Mus : Solve(lam, m)

Spec == Init /\ [][Next]_vars

(***************************************************************************)
(* The metrics a user of the object reads: those of the last Solve while   *)
(* the model is valid, none while it is not (Analyze returns               *)
(* ErrModelInvalid, spec 7).                                               *)
(***************************************************************************)
PublishedMetrics ==
  IF isValid
    THEN [throughput |-> throughput, avgNumInSystem |-> avgNumInSystem,
          avgRespTime |-> avgRespTime, avgServTime |-> avgServTime,
          avgWaitTime |-> avgWaitTime, avgQueueLength |-> avgQueueLength]
    ELSE [f \in {"throughput", "avgNumInSystem", "avgRespTime", "avgServTime",
                 "avgWaitTime", "avgQueueLength"} |-> Zero]

QM == INSTANCE QueueModel WITH published <- PublishedMetrics

(* The metrics the object's getters return, whatever isValid says. *)
GetterMetrics ==
  [throughput |-> throughput, avgNumInSystem |-> avgNumInSystem,
   avgRespTime |-> avgRespTime, avgServTime |-> avgServTime,
   avgWaitTime |-> avgWaitTime, avgQueueLength |-> avgQueueLength]

QG == INSTANCE QueueModel WITH published <- GetterMetrics

-----------------------------------------------------------------------------
(* Properties *)

TypeOK ==
  /\ servRate \in ServRates
  /\ lambda \in Fin /\ mu \in Fin
  /\ rho \in Value
  /\ isValid \in BOOLEAN
  /\ p \in [States -> Value]
  /\ throughput \in Value /\ avgNumInSystem \in Value /\ avgNumInServers \in Value
  /\ avgRespTime \in Value /\ avgServTime \in Value /\ avgWaitTime \in Value
  /\ avgQueueLength \in Value

\* Rate of the server when n requests are in the system (n >= 1).
RateAt(n) == servRate[MinI(n, Len(servRate))]

(***************************************************************************)
(* After a valid Solve at a positive rate, p is the steady state of the    *)
(* birth-death chain for the CURRENT lambda: it sums to one, it satisfies  *)
(* every balance equation lambda p[n] = mu(n+1) p[n+1] of spec 4.4, and    *)
(* the reported utilization is 1 - p[0] of that distribution, not the one  *)
(* ComputeRho saw before computeStatistics ran.                            *)
(***************************************************************************)
SteadyStateOfCurrentRate ==
  (isValid /\ Lt(Zero, lambda)) =>
    /\ SumUpTo(p, K) = One
    /\ \A n \in 0..(K - 1) : Mul(lambda, p[n]) = Mul(RateAt(n + 1), p[n + 1])
    /\ rho = Sub(One, p[0])

(***************************************************************************)
(* After a valid Solve at a positive rate, the metrics are those queueing  *)
(* theory gives for p: throughput lambda (1 - p[K]) <= lambda, the number  *)
(* in service N_s = sum of min(n, num) p[n] (spec 4.4), the waiting time   *)
(* half of the mean queue length sum of (n - num)^+ p[n] over the          *)
(* throughput (the 0.5 Pollaczek-Khintchine factor applied to Little's     *)
(* law), never negative, with R = W + S and N = X R.                       *)
(***************************************************************************)
MetricsMatchQueueingLaws ==
  (isValid /\ Lt(Zero, lambda)) =>
    LET num == Len(servRate)
        ns  == SumUpTo([n \in States |-> Mul(Int2Val(MinI(n, num)), p[n])], K)
        nq  == SumUpTo([n \in States |-> Mul(Int2Val(n - MinI(n, num)), p[n])], K)
    IN  /\ throughput = Mul(lambda, Sub(One, p[K]))
        /\ Lt(Zero, throughput) /\ Leq(throughput, lambda)
        /\ avgNumInServers = ns
        /\ avgWaitTime = Mul(Half, Div(nq, throughput))
        /\ Leq(Zero, avgWaitTime)
        /\ avgRespTime = Add(avgWaitTime, avgServTime)
        /\ avgNumInSystem = Mul(throughput, avgRespTime)

(***************************************************************************)
(* The sizing bisection of the analyzer assumes the model is monotone in   *)
(* the arrival rate (spec 4.5, 8.6): two valid Solves of the same object   *)
(* in a row, the second at a larger positive rate, never report a smaller  *)
(* throughput, utilization, number in system or waiting time.              *)
(***************************************************************************)
MonotoneInRate ==
  [][(isValid /\ isValid' /\ Lt(Zero, lambda) /\ Lt(lambda, lambda')) =>
       /\ Leq(throughput, throughput')
       /\ Leq(rho, rho')
       /\ Leq(avgNumInSystem, avgNumInSystem')
       /\ Leq(avgWaitTime, avgWaitTime')]_vars

(***************************************************************************)
(* TestQueueModelTypes: a model solved at 0 <= lambda < mu is valid.       *)
(***************************************************************************)
ValidBelowServiceRate ==
  (Leq(Zero, lambda) /\ Lt(lambda, mu)) => isValid

(***************************************************************************)
(* Spec 8.4 and 7: for every valid input (lambda >= 0, below capacity) the *)
(* waiting time is a number and is not negative.                           *)
(***************************************************************************)
WaitDefinedWhenValid ==
  isValid => (avgWaitTime \in Fin /\ Leq(Zero, avgWaitTime))

(***************************************************************************)
(* The state-dependent M/D/1 object implements the queue-model contract of *)
(* spec 3 and 4.1 (module QueueModel) under the mapping PublishedMetrics:  *)
(* every Solve, whatever p, rho and the metrics of the object's earlier    *)
(* Solves, is a contract Solve, which accepts only lambda >= 0 and mu > 0  *)
(* and publishes metrics obeying R = W + S, N = X R, L_q = X W, 0 <= X <=  *)
(* lambda and 0 <= W.                                                      *)
(***************************************************************************)
ImplementsQueueModel == QM!Spec

(***************************************************************************)
(* Spec 3: "if invalid, derived scalars are zero and isValid = false".     *)
(* The object implements the contract under the mapping of its read-only   *)
(* getters too: after a Solve the validity check rejects, every getter     *)
(* reads zero, even when an earlier Solve of the same object was valid.    *)
(***************************************************************************)
GettersImplementQueueModel == QG!Spec
=============================================================================
