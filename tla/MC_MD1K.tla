------------------------------- MODULE MC_MD1K -------------------------------
(* Model-checking instance of MD1KModel. *)
EXTENDS MD1KModel

(* Arrival rates from idle to overloaded against service rates 0 to 4;   *)
(* mu = 0 and lambda / mu >= K exercise the validity guard.  Only pairs   *)
(* with a = lambda / mu a multiple of 1/2 are kept: the Poisson weights   *)
(* of the others have denominators whose powers overflow TLC's integers   *)
(* within three passes.                                                   *)
MC_Inputs ==
  {in \in {Zero, Half, One, MkRat(3, 2), Int2Val(2), Int2Val(3), Int2Val(4)}
          \X {Zero, One, Int2Val(2), Int2Val(4)} :
     in[2] = Zero \/ Div(in[1], in[2]) \in {Zero, Half, One, MkRat(3, 2), Int2Val(2), Int2Val(3)}}
(* exp(-a) coarsened to rationals with small denominators: exp(-1/2) =   *)
(* 0.61 is taken as 1/2, exp(-1) = 0.37 as 1/3, exp(-3/2) = 0.22 and the  *)
(* larger loads as 1/4.  No property depends on the exact weights.        *)
MC_ExpNeg(a) ==
  CASE a = Zero -> One
    [] a = Half -> Half
    [] a = One -> MkRat(1, 3)
    [] OTHER -> MkRat(1, 4)
MC_Tolerance == MkRat(1, 100)
=============================================================================
