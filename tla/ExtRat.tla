------------------------------- MODULE ExtRat -------------------------------
(***************************************************************************)
(* The numbers of the queueing solvers.  The Go code computes in float32   *)
(* and float64; the model computes exactly, over the rationals, and keeps  *)
(* what IEEE 754 arithmetic does at the edges the code can reach: a        *)
(* division by zero gives NaN (0/0) or an infinity (x/0), NaN propagates   *)
(* through every operation, and every comparison with NaN is false.        *)
(* Rounding is abstracted away.                                            *)
(*                                                                         *)
(* A finite value is a reduced fraction n/d, d > 0, of kind "fin"; the    *)
(* three special values are records of the same shape.                    *)
(* Every operator is total: it returns a member of Value for any           *)
(* arguments, so the type of a computed quantity never depends on what a   *)
(* fold over its inputs computed.                                          *)
(***************************************************************************)
EXTENDS Integers

NaN    == [k |-> "nan", num |-> 0, den |-> 1]
PosInf == [k |-> "inf", num |-> 1, den |-> 1]
NegInf == [k |-> "inf", num |-> -1, den |-> 1]
Inf    == {PosInf, NegInf}
Fin    == [k : {"fin"}, num : Int, den : Nat \ {0}]
Value  == Fin \cup Inf \cup {NaN}

AbsI(n) == IF n < 0 THEN -n ELSE n
SgnI(n) == IF n < 0 THEN -1 ELSE 1

\* Euclid's algorithm; only used to put fractions in lowest terms.
GcdF[ab \in Nat \X Nat] ==
  IF ab[2] = 0 THEN ab[1] ELSE GcdF[<<ab[2], ab[1] % ab[2]>>]

\* n / d divided by g when g divides both; what IEEE division by an exact zero gives.
ReduceBy(n, d, g) ==
  CASE d = 0 /\ n = 0 -> NaN
    [] d = 0 /\ n > 0 -> PosInf
    [] d = 0 /\ n < 0 -> NegInf
    [] g \in 1..AbsI(d) -> [k |-> "fin", num |-> SgnI(d) * (n \div g), den |-> AbsI(d) \div g]
    [] OTHER -> [k |-> "fin", num |-> SgnI(d) * n, den |-> AbsI(d)]

\* n / d in lowest terms.
MkRat(n, d) == ReduceBy(n, d, GcdF[<<AbsI(n), AbsI(d)>>])

Int2Val(n) == [k |-> "fin", num |-> n, den |-> 1]
Zero == Int2Val(0)
One  == Int2Val(1)
Half == [k |-> "fin", num |-> 1, den |-> 2]

FlipInf(a) == IF a = PosInf THEN NegInf ELSE PosInf
\* The infinity whose sign is the sign of a times the sign of b.
SignedInf(aPos, bPos) == IF aPos = bPos THEN PosInf ELSE NegInf
IsPos(a) == a = PosInf \/ (a \in Fin /\ a.num > 0)

Add(a, b) ==
  CASE a \in Fin /\ b \in Fin -> MkRat(a.num * b.den + b.num * a.den, a.den * b.den)
    [] a \in Inf /\ (b \in Fin \/ b = a) -> a
    [] b \in Inf /\ a \in Fin -> b
    [] OTHER -> NaN

Neg(a) ==
  CASE a \in Fin -> [k |-> "fin", num |-> -a.num, den |-> a.den]
    [] a \in Inf -> FlipInf(a)
    [] OTHER -> NaN

Sub(a, b) == Add(a, Neg(b))

Mul(a, b) ==
  CASE a \in Fin /\ b \in Fin -> MkRat(a.num * b.num, a.den * b.den)
    [] a \in Inf /\ b \in Inf -> SignedInf(IsPos(a), IsPos(b))
    [] a \in Inf /\ b \in Fin /\ b.num # 0 -> SignedInf(IsPos(a), IsPos(b))
    [] b \in Inf /\ a \in Fin /\ a.num # 0 -> SignedInf(IsPos(a), IsPos(b))
    [] OTHER -> NaN

\* Division by an exact zero is taken as division by +0.
Div(a, b) ==
  CASE a \in Fin /\ b \in Fin -> MkRat(a.num * b.den, a.den * b.num)
    [] a \in Fin /\ b \in Inf -> Zero
    [] a \in Inf /\ b \in Fin -> IF b.num < 0 THEN FlipInf(a) ELSE a
    [] OTHER -> NaN

\* a < b; false whenever either side is NaN.
Lt(a, b) ==
  CASE a \in Fin /\ b \in Fin -> a.num * b.den < b.num * a.den
    [] a = NegInf -> b \in Fin \/ b = PosInf
    [] b = PosInf -> a \in Fin
    [] OTHER -> FALSE

Leq(a, b) == Lt(a, b) \/ (a = b /\ a # NaN)

MinI(a, b) == IF a < b THEN a ELSE b

\* s[0] + s[1] + ... + s[n], summed from Zero in index order.
SumUpTo(s, n) ==
  LET acc[j \in 0..n] == IF j = 0 THEN Add(Zero, s[0]) ELSE Add(acc[j - 1], s[j])
  IN  acc[n]
=============================================================================
