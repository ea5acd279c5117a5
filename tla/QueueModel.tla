----------------------------- MODULE QueueModel -----------------------------
(***************************************************************************)
(* What a queue model object promises its user (spec 3 and 4.1), whatever *)
(* its subclass: a Solve(lambda, mu) records the inputs and decides        *)
(* validity; a valid model accepts only lambda >= 0 and mu > 0 and         *)
(* publishes metrics that obey the laws of spec 3 and 8: the throughput is *)
(* between 0 and lambda, the waiting time is a number >= 0, R = W + S,     *)
(* N = X R (Little's law) and L_q = X W.  An invalid model publishes no    *)
(* metrics; they read as zero.  How rho and the metrics are computed is    *)
(* left to the subclass, so a Solve may publish any lawful metrics.        *)
(***************************************************************************)
EXTENDS ExtRat

CONSTANTS Lambdas, Mus   \* the inputs passed to Solve

VARIABLES lambda, mu, isValid, published

MetricFields == {"throughput", "avgNumInSystem", "avgRespTime", "avgServTime",
                 "avgWaitTime", "avgQueueLength"}
NoMetrics == [f \in MetricFields |-> Zero]

(* The laws a valid Solve at arrival rate lam leaves the metrics in. *)
Lawful(lam, mt) ==
  /\ Leq(Zero, mt.throughput) /\ Leq(mt.throughput, lam)
  /\ mt.avgWaitTime \in Fin /\ Leq(Zero, mt.avgWaitTime)
  /\ mt.avgRespTime = Add(mt.avgWaitTime, mt.avgServTime)
  /\ mt.avgNumInSystem = Mul(mt.throughput, mt.avgRespTime)
  /\ mt.avgQueueLength = Mul(mt.throughput, mt.avgWaitTime)

Init ==
  /\ lambda = Zero /\ mu = Zero /\ isValid = FALSE
  /\ published = NoMetrics

Solve(lam, m) ==
  /\ lambda' = lam /\ mu' = m
  /\ isValid' \in BOOLEAN
  /\ isValid' => (Leq(Zero, lam) /\ Lt(Zero, m))
  /\ IF isValid' THEN published' \in [MetricFields -> Value] /\ Lawful(lam, published')
                 ELSE published' = NoMetrics

Next == \E lam \in Lambdas, m \in Mus : Solve(lam, m)

Spec == Init /\ [][Next]_<<lambda, mu, isValid, published>>
=============================================================================
