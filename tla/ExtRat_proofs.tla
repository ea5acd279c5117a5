-------------------------- MODULE ExtRat_proofs --------------------------
(***************************************************************************)
(* Lemmas on the arithmetic of ExtRat, shared by the solver proofs: every  *)
(* operator is total into Value.                                           *)
(***************************************************************************)
EXTENDS ExtRat, WellFoundedInduction, TLAPS

LEMMA FinIsNotSpecial ==
  ASSUME NEW a \in Fin
  PROVE  a \notin Inf /\ a # NaN /\ a \in Value
BY DEF Fin, Inf, PosInf, NegInf, NaN, Value

LEMMA ConstantsFin == Zero \in Fin /\ One \in Fin /\ Half \in Fin
BY DEF Zero, One, Half, Int2Val, Fin

LEMMA ReduceByType ==
  ASSUME NEW n \in Int, NEW d \in Int, NEW g
  PROVE  ReduceBy(n, d, g) \in Value
<1>1. CASE d = 0
  BY <1>1 DEF ReduceBy, Value, Inf, NaN, PosInf, NegInf, AbsI
<1>2. CASE d # 0 /\ g \in 1..AbsI(d)
  <2>1. SgnI(d) * (n \div g) \in Int /\ AbsI(d) \div g \in Nat \ {0}
    BY <1>2 DEF AbsI, SgnI
  <2>2. QED
    BY <1>2, <2>1 DEF ReduceBy, Value, Fin
<1>3. CASE d # 0 /\ g \notin 1..AbsI(d)
  <2>1. SgnI(d) * n \in Int /\ AbsI(d) \in Nat \ {0}
    BY <1>3 DEF AbsI, SgnI
  <2>2. QED
    BY <1>3, <2>1 DEF ReduceBy, Value, Fin
<1>4. QED
  BY <1>1, <1>2, <1>3

LEMMA MkRatType ==
  ASSUME NEW n \in Int, NEW d \in Int
  PROVE  MkRat(n, d) \in Value
BY ReduceByType DEF MkRat

LEMMA SignedInfType ==
  ASSUME NEW x, NEW y
  PROVE  SignedInf(x, y) \in Value
BY DEF SignedInf, Value, Inf

LEMMA AddType ==
  ASSUME NEW a, NEW b
  PROVE  Add(a, b) \in Value
<1>1. CASE a \in Fin /\ b \in Fin
  <2>1. a.num * b.den + b.num * a.den \in Int /\ a.den * b.den \in Int
    BY <1>1 DEF Fin
  <2>2. QED
    BY <1>1, <2>1, MkRatType, FinIsNotSpecial DEF Add
<1>2. CASE ~(a \in Fin /\ b \in Fin)
  BY <1>2 DEF Add, Value, NaN
<1>3. QED
  BY <1>1, <1>2

LEMMA NegType ==
  ASSUME NEW a
  PROVE  Neg(a) \in Value
BY DEF Neg, Value, Fin, Inf, FlipInf, NaN

LEMMA SubType ==
  ASSUME NEW a, NEW b
  PROVE  Sub(a, b) \in Value
BY AddType DEF Sub

LEMMA MulType ==
  ASSUME NEW a, NEW b
  PROVE  Mul(a, b) \in Value
<1>1. CASE a \in Fin /\ b \in Fin
  <2>1. a.num * b.num \in Int /\ a.den * b.den \in Int
    BY <1>1 DEF Fin
  <2>2. QED
    BY <1>1, <2>1, MkRatType, FinIsNotSpecial DEF Mul
<1>2. CASE ~(a \in Fin /\ b \in Fin)
  BY <1>2, SignedInfType DEF Mul, Value, NaN
<1>3. QED
  BY <1>1, <1>2

LEMMA DivType ==
  ASSUME NEW a, NEW b
  PROVE  Div(a, b) \in Value
<1>1. CASE a \in Fin /\ b \in Fin
  <2>1. a.num * b.den \in Int /\ a.den * b.num \in Int
    BY <1>1 DEF Fin
  <2>2. QED
    BY <1>1, <2>1, MkRatType, FinIsNotSpecial DEF Div
<1>2. CASE ~(a \in Fin /\ b \in Fin)
  BY <1>2 DEF Div, Value, Fin, Inf, NaN, Zero, Int2Val, FlipInf
<1>3. QED
  BY <1>1, <1>2

\* 1 - 0 computes to exactly 1, whatever GcdF returns.
LEMMA OneMinusZero == Sub(One, Zero) = One
<1>1. Neg(Zero) = [k |-> "fin", num |-> 0, den |-> 1]
  BY ConstantsFin, FinIsNotSpecial DEF Neg, Zero, Int2Val
<1>2. Sub(One, Zero) = MkRat(1, 1)
  <2>1. [k |-> "fin", num |-> 0, den |-> 1] \in Fin
    BY DEF Fin
  <2>2. Add(One, [k |-> "fin", num |-> 0, den |-> 1]) = MkRat(1 * 1 + 0 * 1, 1 * 1)
    BY <2>1, ConstantsFin, FinIsNotSpecial DEF Add, One, Int2Val
  <2>3. QED
    BY <1>1, <2>2 DEF Sub
<1>3. \A g : ReduceBy(1, 1, g) = One
  BY DEF ReduceBy, AbsI, SgnI, One, Int2Val
<1>4. QED
  BY <1>2, <1>3 DEF MkRat


-----------------------------------------------------------------------------
(***************************************************************************)
(* Induction without an operator parameter: a non-empty set of naturals    *)
(* has a least element (WFMin on the well-founded < of Nat).  The proofs   *)
(* below apply it to the set of counterexamples of the fact they prove.    *)
(***************************************************************************)
LEMMA LeastNat ==
  ASSUME NEW T \in SUBSET Nat, T # {}
  PROVE  \E x \in T : \A y \in T : ~(y < x)
<1>1. PICK x \in T : \A y \in T : <<y, x>> \notin OpToRel(<, Nat)
  BY WFMin, NatLessThanWellFounded, Zenon
<1>2. QED
  BY <1>1 DEF OpToRel

\* f is the accumulator of SumUpTo(s, n): the loop sum after each index.
IsSumAcc(s, n, f) ==
  f = [j \in 0..n |-> IF j = 0 THEN Add(Zero, s[0]) ELSE Add(f[j - 1], s[j])]

(***************************************************************************)
(* The recursive function of SumUpTo exists for every bound: the           *)
(* accumulator up to m - 1 extends by one more Add to the one up to m.     *)
(***************************************************************************)
LEMMA SumAccExists ==
  ASSUME NEW s, NEW n \in Nat
  PROVE  \E f : IsSumAcc(s, n, f)
<1> DEFINE Bad == {m \in Nat : ~\E f : IsSumAcc(s, m, f)}
<1> SUFFICES ASSUME Bad # {} PROVE FALSE
  OBVIOUS
<1>1. PICK m \in Bad : \A y \in Bad : ~(y < m)
  BY LeastNat
<1>2. CASE m = 0
  <2>1. IsSumAcc(s, 0, [j \in 0..0 |-> Add(Zero, s[0])])
    BY <1>2 DEF IsSumAcc
  <2>2. QED
    BY <1>1, <1>2, <2>1
<1>3. CASE m # 0
  <2>1. m - 1 \in Nat /\ m - 1 < m
    BY <1>3
  <2>2. PICK g : IsSumAcc(s, m - 1, g)
    BY <1>1, <2>1
  <2> DEFINE h == [j \in 0..m |-> IF j < m THEN g[j] ELSE Add(g[m - 1], s[m])]
  <2>3. IsSumAcc(s, m, h)
    BY <2>1, <2>2 DEF IsSumAcc
  <2>4. QED
    BY <1>1, <2>3
<1>4. QED
  BY <1>2, <1>3

(***************************************************************************)
(* A sum of the solvers is a Value whatever it adds up: its last step is   *)
(* an Add.                                                                 *)
(***************************************************************************)
LEMMA SumUpToType ==
  ASSUME NEW s, NEW n \in Nat
  PROVE  SumUpTo(s, n) \in Value
<1> DEFINE acc == CHOOSE f : IsSumAcc(s, n, f)
<1>1. IsSumAcc(s, n, acc)
  BY SumAccExists
<1>2. SumUpTo(s, n) = acc[n]
  BY DEF SumUpTo, IsSumAcc
<1> HIDE DEF acc
<1>3. acc[n] = IF n = 0 THEN Add(Zero, s[0]) ELSE Add(acc[n - 1], s[n])
  BY <1>1 DEF IsSumAcc
<1>4. acc[n] \in Value
  BY <1>3, AddType
<1>5. QED
  BY <1>2, <1>4
-----------------------------------------------------------------------------
(***************************************************************************)
(* Euclid's GcdF.  Its recursive definition is first described by an       *)
(* accumulator bounded in the second argument, as for SumUpTo: one exists *)
(* for every bound, any two agree where both are defined, and so GcdF      *)
(* satisfies its defining equation.                                        *)
(***************************************************************************)
LEMMA ModFacts ==
  ASSUME NEW a \in Nat, NEW b \in Nat \ {0}
  PROVE  /\ a % b \in 0..(b - 1)
         /\ a \div b \in Nat
         /\ a = (a \div b) * b + (a % b)
OBVIOUS

IsGcdAcc(h, n) ==
  h = [ab \in Nat \X (0..n) |->
         IF ab[2] = 0 THEN ab[1] ELSE h[<<ab[2], ab[1] % ab[2]>>]]

\* One unfolding of an accumulator.
LEMMA GcdAccStep ==
  ASSUME NEW h, NEW n \in Nat, IsGcdAcc(h, n), NEW a \in Nat, NEW b \in 0..n
  PROVE  h[<<a, b>>] = IF b = 0 THEN a ELSE h[<<b, a % b>>]
<1>1. <<a, b>> \in Nat \X (0..n)
  OBVIOUS
<1>2. QED
  BY <1>1, Zenon DEF IsGcdAcc

LEMMA GcdAccExists ==
  ASSUME NEW n \in Nat
  PROVE  \E h : IsGcdAcc(h, n)
<1> DEFINE Bad == {m \in Nat : ~\E h : IsGcdAcc(h, m)}
<1> SUFFICES ASSUME Bad # {} PROVE FALSE
  OBVIOUS
<1>1. PICK m \in Bad : \A y \in Bad : ~(y < m)
  BY LeastNat
<1>2. CASE m = 0
  <2>1. IsGcdAcc([ab \in Nat \X (0..0) |-> ab[1]], 0)
    BY DEF IsGcdAcc
  <2>2. QED
    BY <1>1, <1>2, <2>1
<1>3. CASE m # 0
  <2>1. m - 1 \in Nat /\ m - 1 < m
    BY <1>3
  <2>2. PICK g : IsGcdAcc(g, m - 1)
    BY <1>1, <2>1
  <2> DEFINE h == [ab \in Nat \X (0..m) |->
                     IF ab[2] < m THEN g[ab] ELSE g[<<ab[2], ab[1] % ab[2]>>]]
  <2>3. ASSUME NEW a \in Nat, NEW b \in 0..m
        PROVE  h[<<a, b>>] = IF b = 0 THEN a ELSE h[<<b, a % b>>]
    <3>1. h[<<a, b>>] = IF b < m THEN g[<<a, b>>] ELSE g[<<b, a % b>>]
      BY Zenon
    <3>2. CASE b = 0
      <4>0. 0 \in 0..(m - 1)
        BY <2>1
      <4>1. g[<<a, 0>>] = a
        BY <2>1, <2>2, <4>0, GcdAccStep, Zenon
      <4>2. QED
        BY <1>3, <3>1, <3>2, <4>1
    <3>3. CASE b # 0
      <4>1. a % b \in 0..(b - 1)
        BY <3>3, ModFacts
      <4>2. h[<<b, a % b>>] = g[<<b, a % b>>]
        <5>1. <<b, a % b>> \in Nat \X (0..m) /\ a % b < m
          BY <4>1
        <5>2. QED
          BY <5>1, Zenon
      <4>3. CASE b < m
        <5>1. b \in 0..(m - 1)
          BY <4>3
        <5>2. g[<<a, b>>] = g[<<b, a % b>>]
          BY <2>1, <2>2, <3>3, <5>1, GcdAccStep
        <5>3. QED
          BY <3>1, <3>3, <4>2, <4>3, <5>2
      <4>4. CASE ~(b < m)
        BY <3>1, <3>3, <4>2, <4>4
      <4>5. QED
        BY <4>3, <4>4
    <3>4. QED
      BY <3>2, <3>3
  <2>4. ASSUME NEW ab \in Nat \X (0..m)
        PROVE  h[ab] = IF ab[2] = 0 THEN ab[1] ELSE h[<<ab[2], ab[1] % ab[2]>>]
    <3>1. ab = <<ab[1], ab[2]>> /\ ab[1] \in Nat /\ ab[2] \in 0..m
      OBVIOUS
    <3>2. h[<<ab[1], ab[2]>>] =
            IF ab[2] = 0 THEN ab[1] ELSE h[<<ab[2], ab[1] % ab[2]>>]
      BY <3>1, <2>3
    <3>3. QED
      BY <3>1, <3>2, Zenon
  <2>5. IsGcdAcc(h, m)
    BY <2>4, Zenon DEF IsGcdAcc
  <2>6. QED
    BY <1>1, <2>5
<1>4. QED
  BY <1>2, <1>3

LEMMA GcdAccAgree ==
  ASSUME NEW n1 \in Nat, NEW n2 \in Nat, NEW h1, NEW h2,
         IsGcdAcc(h1, n1), IsGcdAcc(h2, n2)
  PROVE  \A a \in Nat, b \in Nat : b <= n1 /\ b <= n2 => h1[<<a, b>>] = h2[<<a, b>>]
<1> DEFINE Bad == {b \in Nat : b <= n1 /\ b <= n2 /\ \E a \in Nat : h1[<<a, b>>] # h2[<<a, b>>]}
<1> SUFFICES ASSUME Bad # {} PROVE FALSE
  OBVIOUS
<1>1. PICK b \in Bad : \A y \in Bad : ~(y < b)
  BY LeastNat
<1>2. PICK a \in Nat : h1[<<a, b>>] # h2[<<a, b>>]
  BY <1>1
<1>3. b \in 0..n1 /\ b \in 0..n2
  BY <1>1
<1>4. /\ h1[<<a, b>>] = IF b = 0 THEN a ELSE h1[<<b, a % b>>]
      /\ h2[<<a, b>>] = IF b = 0 THEN a ELSE h2[<<b, a % b>>]
  BY <1>3, GcdAccStep
<1>5. CASE b = 0
  BY <1>2, <1>4, <1>5
<1>6. CASE b # 0
  <2>1. a % b \in 0..(b - 1)
    BY <1>6, ModFacts
  <2>2. h1[<<b, a % b>>] = h2[<<b, a % b>>]
    <3>1. a % b \in Nat /\ a % b <= n1 /\ a % b <= n2 /\ a % b < b
      BY <1>1, <2>1
    <3>2. a % b \notin Bad
      BY <1>1, <3>1
    <3>3. b \in Nat
      BY <1>1
    <3>4. QED
      BY <3>1, <3>2, <3>3, Zenon
  <2>3. QED
    BY <1>2, <1>4, <1>6, <2>2
<1>7. QED
  BY <1>5, <1>6

(* GcdF satisfies Euclid's equations. *)
LEMMA GcdFDef ==
  ASSUME NEW a \in Nat, NEW b \in Nat
  PROVE  GcdF[<<a, b>>] = IF b = 0 THEN a ELSE GcdF[<<b, a % b>>]
<1> DEFINE acc(n) == CHOOSE h : IsGcdAcc(h, n)
           F == [ab \in Nat \X Nat |-> acc(ab[2])[ab]]
<1>1. \A n \in Nat : IsGcdAcc(acc(n), n)
  BY GcdAccExists
<1> HIDE DEF acc
<1>2. ASSUME NEW x \in Nat, NEW y \in Nat
      PROVE  F[<<x, y>>] = IF y = 0 THEN x ELSE F[<<y, x % y>>]
  <2>1. F[<<x, y>>] = acc(y)[<<x, y>>]
    BY Zenon
  <2>2. acc(y)[<<x, y>>] = IF y = 0 THEN x ELSE acc(y)[<<y, x % y>>]
    BY <1>1, GcdAccStep
  <2>3. CASE y # 0
    <3>1. x % y \in 0..(y - 1)
      BY <2>3, ModFacts
    <3>2. F[<<y, x % y>>] = acc(x % y)[<<y, x % y>>]
      <4>1. <<y, x % y>> \in Nat \X Nat /\ <<y, x % y>>[2] = x % y
        BY <3>1
      <4>2. QED
        BY <4>1, Zenon
    <3>3. acc(y)[<<y, x % y>>] = acc(x % y)[<<y, x % y>>]
      BY <1>1, <3>1, GcdAccAgree
    <3>4. QED
      BY <2>1, <2>2, <2>3, <3>2, <3>3
  <2>4. QED
    BY <2>1, <2>2, <2>3
<1>3. ASSUME NEW ab \in Nat \X Nat
      PROVE  F[ab] = IF ab[2] = 0 THEN ab[1] ELSE F[<<ab[2], ab[1] % ab[2]>>]
  <2>1. ab = <<ab[1], ab[2]>> /\ ab[1] \in Nat /\ ab[2] \in Nat
    OBVIOUS
  <2>2. F[<<ab[1], ab[2]>>] =
          IF ab[2] = 0 THEN ab[1] ELSE F[<<ab[2], ab[1] % ab[2]>>]
    BY <2>1, <1>2
  <2>3. QED
    BY <2>1, <2>2, Zenon
<1>4. F = [ab \in Nat \X Nat |-> IF ab[2] = 0 THEN ab[1] ELSE F[<<ab[2], ab[1] % ab[2]>>]]
  BY <1>3, Zenon
<1> HIDE DEF F
<1>5. GcdF = [ab \in Nat \X Nat |-> IF ab[2] = 0 THEN ab[1] ELSE GcdF[<<ab[2], ab[1] % ab[2]>>]]
  BY <1>4 DEF GcdF
<1>6. <<a, b>> \in Nat \X Nat
  OBVIOUS
<1>7. QED
  BY <1>5, <1>6, Zenon

\* g = GcdF[<<a, b>>] is positive and divides both arguments.
GcdOK(a, b) ==
  /\ GcdF[<<a, b>>] \in Nat \ {0}
  /\ \E k \in Nat : a = GcdF[<<a, b>>] * k
  /\ \E l \in Nat : b = GcdF[<<a, b>>] * l

(***************************************************************************)
(* GcdF divides both arguments whenever one is not zero: by induction on   *)
(* the second, since a common divisor of b and a % b divides               *)
(* a = (a \div b) * b + a % b.                                             *)
(***************************************************************************)
LEMMA GcdFDivides ==
  ASSUME NEW a \in Nat, NEW b \in Nat, a # 0 \/ b # 0
  PROVE  GcdOK(a, b)
<1> DEFINE Bad == {y \in Nat : \E x \in Nat : (x # 0 \/ y # 0) /\ ~GcdOK(x, y)}
<1> SUFFICES ASSUME Bad # {} PROVE FALSE
  OBVIOUS
<1>1. PICK y \in Bad : \A z \in Bad : ~(z < y)
  BY LeastNat
<1>2. PICK x \in Nat : (x # 0 \/ y # 0) /\ ~GcdOK(x, y)
  BY <1>1
<1>3. CASE y = 0
  <2>1. GcdF[<<x, y>>] = x
    BY <1>3, GcdFDef
  <2>2. x = x * 1 /\ y = x * 0 /\ x \in Nat \ {0}
    BY <1>2, <1>3
  <2>3. GcdOK(x, y)
    BY <2>1, <2>2 DEF GcdOK
  <2>4. QED
    BY <1>2, <2>3
<1>4. CASE y # 0
  <2>1. x % y \in 0..(y - 1) /\ x \div y \in Nat /\ x = (x \div y) * y + (x % y)
    BY <1>4, ModFacts
  <2>2. GcdF[<<x, y>>] = GcdF[<<y, x % y>>]
    BY <1>4, GcdFDef
  <2>3. GcdOK(y, x % y)
    <3>1. x % y \in Nat /\ x % y < y
      BY <2>1
    <3>2. x % y \notin Bad
      BY <1>1, <3>1
    <3>3. QED
      BY <1>4, <3>1, <3>2
  <2> DEFINE g == GcdF[<<y, x % y>>]
  <2>4. PICK l \in Nat : y = g * l
    BY <2>3 DEF GcdOK
  <2>5. PICK k \in Nat : x % y = g * k
    BY <2>3 DEF GcdOK
  <2>6. g \in Nat \ {0}
    BY <2>3 DEF GcdOK
  <2> HIDE DEF g
  <2>7. x = g * ((x \div y) * l + k) /\ (x \div y) * l + k \in Nat
    BY <2>1, <2>4, <2>5, <2>6
  <2>8. GcdOK(x, y)
    BY <2>2, <2>4, <2>6, <2>7 DEF GcdOK, g
  <2>9. QED
    BY <1>2, <2>8
<1>5. QED
  BY <1>3, <1>4

\* Dividing a multiple of g by g is exact.
LEMMA ExactDiv ==
  ASSUME NEW g \in Nat \ {0}, NEW k \in Int
  PROVE  (g * k) \div g = k
OBVIOUS

\* r stands for the fraction n / d.
Rep(r, n, d) == r \in Fin /\ r.num * d = n * r.den

(***************************************************************************)
(* MkRat(n, d) is a finite value equal to n / d for every d # 0: GcdF      *)
(* divides both, so the reduction loses nothing.                           *)
(***************************************************************************)
LEMMA MkRatRep ==
  ASSUME NEW n \in Int, NEW d \in Int \ {0}
  PROVE  Rep(MkRat(n, d), n, d)
<1> DEFINE g == GcdF[<<AbsI(n), AbsI(d)>>]
<1>1. AbsI(n) \in Nat /\ AbsI(d) \in Nat \ {0}
  BY DEF AbsI
<1>2. GcdOK(AbsI(n), AbsI(d))
  BY <1>1, GcdFDivides
<1>3. PICK k \in Nat : AbsI(n) = g * k
  BY <1>2 DEF GcdOK
<1>4. PICK l \in Nat : AbsI(d) = g * l
  BY <1>2 DEF GcdOK
<1>5. g \in Nat \ {0}
  BY <1>2 DEF GcdOK
<1> HIDE DEF g
<1> DEFINE nk == IF n < 0 THEN -k ELSE k
<1>6. n = g * nk /\ nk \in Int
  BY <1>3, <1>5 DEF AbsI
<1>7. l \in Nat \ {0} /\ g \in 1..AbsI(d)
  BY <1>1, <1>4, <1>5
<1>8. n \div g = nk /\ AbsI(d) \div g = l
  BY <1>4, <1>5, <1>6, <1>7, ExactDiv
<1>9. MkRat(n, d) = [k |-> "fin", num |-> SgnI(d) * nk, den |-> l]
  BY <1>7, <1>8 DEF MkRat, ReduceBy, g
<1>10. SgnI(d) * nk * d = n * l
  <2>1. SgnI(d) * d = AbsI(d)
    BY DEF SgnI, AbsI
  <2>2. SgnI(d) * nk * d = nk * AbsI(d)
    BY <2>1, <1>6 DEF SgnI
  <2>3. QED
    BY <2>2, <1>4, <1>5, <1>6
<1>11. QED
  BY <1>7, <1>9, <1>10 DEF Rep, Fin, SgnI

(* 0 / d reduces to exactly Zero: GcdF(0, |d|) = |d|. *)
LEMMA MkRatZero ==
  ASSUME NEW d \in Int \ {0}
  PROVE  MkRat(0, d) = Zero
<1>1. AbsI(0) = 0 /\ AbsI(d) \in Nat \ {0}
  BY DEF AbsI
<1>2. GcdF[<<0, AbsI(d)>>] = GcdF[<<AbsI(d), 0 % AbsI(d)>>]
  BY <1>1, GcdFDef
<1>3. GcdF[<<AbsI(d), 0>>] = AbsI(d)
  BY <1>1, GcdFDef
<1>4. GcdF[<<0, AbsI(d)>>] = AbsI(d)
  BY <1>1, <1>2, <1>3
<1>5. AbsI(d) \in 1..AbsI(d) /\ 0 \div AbsI(d) = 0 /\ AbsI(d) \div AbsI(d) = 1
  BY <1>1
<1>6. QED
  BY <1>1, <1>4, <1>5 DEF MkRat, ReduceBy, Zero, Int2Val, SgnI

-----------------------------------------------------------------------------
(***************************************************************************)
(* What the operations compute on finite values, as fractions: each result *)
(* stands for the unreduced fraction of the code's formula, and Lt         *)
(* compares fractions by cross-multiplication whatever their reduction.   *)
(***************************************************************************)
LEMMA MulPosMono ==
  ASSUME NEW x \in Int, NEW y \in Int, NEW c \in Nat \ {0}
  PROVE  (x < y) <=> (x * c < y * c)
OBVIOUS

LEMMA FinRep ==
  ASSUME NEW a \in Fin
  PROVE  Rep(a, a.num, a.den)
BY DEF Rep, Fin

\* The sign of a value is the sign of the fraction it stands for.
LEMMA RepSign ==
  ASSUME NEW r, NEW n \in Int, NEW d \in Nat \ {0}, Rep(r, n, d)
  PROVE  /\ r.num > 0 <=> n > 0
         /\ r.num = 0 <=> n = 0
         /\ r.num < 0 <=> n < 0
<1>1. r.num \in Int /\ r.den \in Nat \ {0} /\ r.num * d = n * r.den
  BY DEF Rep, Fin
<1>2. r.num > 0 <=> r.num * d > 0
  BY <1>1
<1>3. n > 0 <=> n * r.den > 0
  BY <1>1
<1>4. r.num < 0 <=> r.num * d < 0
  BY <1>1
<1>5. n < 0 <=> n * r.den < 0
  BY <1>1
<1>6. QED
  BY <1>1, <1>2, <1>3, <1>4, <1>5

(***************************************************************************)
(* r < s exactly when the fractions they stand for compare so: multiply    *)
(* the cross-products of r and s by the positive d * e.                    *)
(***************************************************************************)
LEMMA RepLt ==
  ASSUME NEW r, NEW s, NEW n \in Int, NEW m \in Int,
         NEW d \in Nat \ {0}, NEW e \in Nat \ {0},
         Rep(r, n, d), Rep(s, m, e)
  PROVE  Lt(r, s) <=> n * e < m * d
<1>1. /\ r.num \in Int /\ r.den \in Nat \ {0} /\ r.num * d = n * r.den
      /\ s.num \in Int /\ s.den \in Nat \ {0} /\ s.num * e = m * s.den
  BY DEF Rep, Fin
<1>2. Lt(r, s) <=> r.num * s.den < s.num * r.den
  BY DEF Rep, Lt, Fin, NegInf, PosInf
<1>3. d * e \in Nat \ {0} /\ r.den * s.den \in Nat \ {0}
  BY <1>1
<1>4. r.num * s.den < s.num * r.den <=>
        (r.num * s.den) * (d * e) < (s.num * r.den) * (d * e)
  BY <1>1, <1>3, MulPosMono
<1>5. /\ (r.num * s.den) * (d * e) = (n * e) * (r.den * s.den)
      /\ (s.num * r.den) * (d * e) = (m * d) * (r.den * s.den)
  <2>1. (r.num * s.den) * (d * e) = (r.num * d) * (s.den * e)
    BY <1>1
  <2>2. (n * r.den) * (s.den * e) = (n * e) * (r.den * s.den)
    BY <1>1
  <2>3. (s.num * r.den) * (d * e) = (s.num * e) * (r.den * d)
    BY <1>1
  <2>4. (m * s.den) * (r.den * d) = (m * d) * (r.den * s.den)
    BY <1>1
  <2>5. QED
    BY <1>1, <2>1, <2>2, <2>3, <2>4
<1>6. n * e < m * d <=> (n * e) * (r.den * s.den) < (m * d) * (r.den * s.den)
  BY <1>1, <1>3, MulPosMono
<1>7. QED
  BY <1>2, <1>4, <1>5, <1>6

LEMMA AddRep ==
  ASSUME NEW a \in Fin, NEW b \in Fin
  PROVE  Rep(Add(a, b), a.num * b.den + b.num * a.den, a.den * b.den)
<1>1. a.num * b.den + b.num * a.den \in Int /\ a.den * b.den \in Int \ {0}
  BY DEF Fin
<1>2. Add(a, b) = MkRat(a.num * b.den + b.num * a.den, a.den * b.den)
  BY FinIsNotSpecial DEF Add
<1>3. QED
  BY <1>1, <1>2, MkRatRep

LEMMA MulRep ==
  ASSUME NEW a \in Fin, NEW b \in Fin
  PROVE  Rep(Mul(a, b), a.num * b.num, a.den * b.den)
<1>1. a.num * b.num \in Int /\ a.den * b.den \in Int \ {0}
  BY DEF Fin
<1>2. Mul(a, b) = MkRat(a.num * b.num, a.den * b.den)
  BY FinIsNotSpecial DEF Mul
<1>3. QED
  BY <1>1, <1>2, MkRatRep

LEMMA DivRep ==
  ASSUME NEW a \in Fin, NEW b \in Fin, b.num # 0
  PROVE  Rep(Div(a, b), a.num * b.den, a.den * b.num)
<1>1. a.num * b.den \in Int /\ a.den * b.num \in Int \ {0}
  BY DEF Fin
<1>2. Div(a, b) = MkRat(a.num * b.den, a.den * b.num)
  BY FinIsNotSpecial DEF Div
<1>3. QED
  BY <1>1, <1>2, MkRatRep

LEMMA NegFin ==
  ASSUME NEW a \in Fin
  PROVE  Neg(a) = [k |-> "fin", num |-> -a.num, den |-> a.den] /\ Neg(a) \in Fin
BY FinIsNotSpecial DEF Neg, Fin

\* A product whose value is zero is exactly Zero.
LEMMA MulZeroCanon ==
  ASSUME NEW a \in Fin, NEW b \in Fin, Mul(a, b).num = 0
  PROVE  Mul(a, b) = Zero
<1>1. a.den * b.den \in Nat \ {0} /\ a.num * b.num \in Int
  BY DEF Fin
<1>2. a.num * b.num = 0
  <2>1. Rep(Mul(a, b), a.num * b.num, a.den * b.den)
    BY MulRep
  <2>2. QED
    BY <1>1, <2>1, RepSign
<1>3. Mul(a, b) = MkRat(0, a.den * b.den)
  <2>1. Mul(a, b) = MkRat(a.num * b.num, a.den * b.den)
    BY FinIsNotSpecial DEF Mul
  <2>2. QED
    BY <1>2, <2>1
<1>4. QED
  BY <1>1, <1>3, MkRatZero

\* Lt on finite values is the comparison of cross-products.
LEMMA LtFin ==
  ASSUME NEW a \in Fin, NEW b \in Fin
  PROVE  Lt(a, b) <=> a.num * b.den < b.num * a.den
BY DEF Lt, Fin, NegInf, PosInf

\* Comparisons of a finite value with 0 and 1.
LEMMA LtZeroOne ==
  ASSUME NEW a \in Fin
  PROVE  /\ Lt(Zero, a) <=> a.num > 0
         /\ Lt(a, Zero) <=> a.num < 0
         /\ Lt(a, One) <=> a.num < a.den
<1>1. Zero \in Fin /\ One \in Fin /\ Zero.num = 0 /\ Zero.den = 1 /\ One.num = 1 /\ One.den = 1
  BY ConstantsFin DEF Zero, One, Int2Val
<1>2. a.num \in Int /\ a.den \in Nat \ {0}
  BY DEF Fin
<1>3. QED
  BY <1>1, <1>2, LtFin

\* A value stands for a fraction below one exactly when its numerator is below its denominator.
LEMMA RepBelowOne ==
  ASSUME NEW r, NEW n \in Int, NEW d \in Nat \ {0}, Rep(r, n, d)
  PROVE  r.num < r.den <=> n < d
<1>1. r.num \in Int /\ r.den \in Nat \ {0} /\ r.num * d = n * r.den
  BY DEF Rep, Fin
<1>2. r.num < r.den <=> r.num * d < r.den * d
  BY <1>1, MulPosMono
<1>3. n < d <=> n * r.den < d * r.den
  BY <1>1, MulPosMono
<1>4. QED
  BY <1>1, <1>2, <1>3

=============================================================================
