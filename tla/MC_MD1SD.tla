------------------------------ MODULE MC_MD1SD ------------------------------
(* Model-checking instance of MD1ModelStateDependent. *)
EXTENDS MD1ModelStateDependent

(* Service-rate vectors of every batch size 1..K over the rates {1, 2, 3}  *)
(* that do not decrease with the batch size: batching raises the service  *)
(* rate up to saturation (spec 4.4).                                       *)
MC_ServRates ==
  {sr \in UNION {[1..n -> {Int2Val(1), Int2Val(2), Int2Val(3)}] : n \in 1..K} :
     \A i \in 1..(Len(sr) - 1) : Leq(sr[i], sr[i + 1])}
\* Idle, light, medium, saturating and overloaded arrival rates.
MC_Lambdas == {Zero, Half, One, Int2Val(2), Int2Val(3), Int2Val(5)}
MC_Mus == {One}
\* Light to overloaded arrival rates, and a service rate of 0 beside 1.
MC_ContractLambdas == {Half, One, Int2Val(2), Int2Val(5)}
MC_ContractMus == {Zero, One}
=============================================================================
