----------------------------- MODULE AlgebraProofs -----------------------------
(***************************************************************************)
(* Facts about the field, the folds and the polynomials of Arkworks, for   *)
(* every field and every length.  A fold is the last value of a chain of   *)
(* partial results (FSumSteps, FProdSteps, EvalSteps); what it computes is *)
(* proved by induction over a set of good lengths (SetInduction).  The     *)
(* second part is interpolation at zero with the coefficients of           *)
(* lagrange_basis_at.                                                      *)
(***************************************************************************)
EXTENDS Tdec, TLAPS, WellFoundedInduction, NaturalsInduction

\* Induction over 0..n with the set of good indices as a parameter.
LEMMA IndexInduction ==
    ASSUME NEW n \in Nat, NEW S, 0 \in S,
           \A i \in 1..n : i - 1 \in S => i \in S
    PROVE  \A i \in 0..n : i \in S
<1> DEFINE T == {i \in 0..n : i \notin S}
<1> SUFFICES ASSUME T # {} PROVE FALSE
  OBVIOUS
<1> DEFINE R == {ss \in Nat \X Nat : ss[1] < ss[2]}
<1>1. IsWellFoundedOn(R, Nat)
  BY NatLessThanWellFounded DEF OpToRel
<1>2. PICK m \in T : \A k \in T : ~ (<<k, m>> \in R)
  <2> HIDE DEF R
  <2>1. T \subseteq Nat
    OBVIOUS
  <2>2. QED
    BY <1>1, <2>1, WFMin
<1>3. m \in 1..n
  OBVIOUS
<1>4. m - 1 \in S
  <2>1. m - 1 \in 0..n /\ m \in Nat
    BY <1>3
  <2>2. <<m - 1, m>> \in R
    <3>1. <<m - 1, m>> \in Nat \X Nat /\ <<m - 1, m>>[1] = m - 1 /\ <<m - 1, m>>[2] = m
      BY <1>3
    <3>2. QED
      BY <1>3, <3>1
  <2>3. m - 1 \notin T
    <3> HIDE DEF R
    <3> QED
      BY <1>2, <2>2
  <2>4. QED
    BY <2>1, <2>3
<1>5. QED
  BY <1>3, <1>4

\* A fold over 1..n exists, whatever function G is iterated.
LEMMA FoldExists ==
    ASSUME NEW n \in Nat, NEW b \in Fr, NEW G \in [Fr \X (1..n) -> Fr]
    PROVE  \E f \in [0..n -> Fr] : /\ f[0] = b
                                   /\ \A i \in 1..n : f[i] = G[<<f[i - 1], i>>]
<1> DEFINE IsFold(f, m) == f[0] = b /\ \A i \in 1..m : f[i] = G[<<f[i - 1], i>>]
           S == {m \in 0..n : \E f \in [0..m -> Fr] : IsFold(f, m)}
<1>1. 0 \in S
  <2> DEFINE g == [i \in 0..0 |-> b]
  <2>1. g \in [0..0 -> Fr] /\ IsFold(g, 0)
    OBVIOUS
  <2>2. QED
    <3> HIDE DEF g, IsFold
    <3> QED
      BY <2>1
<1>2. ASSUME NEW m \in 1..n, m - 1 \in S PROVE m \in S
  <2>1. PICK g \in [0..(m - 1) -> Fr] : IsFold(g, m - 1)
    BY <1>2
  <2> DEFINE h == [i \in 0..m |-> IF i = m THEN G[<<g[m - 1], m>>] ELSE g[i]]
  <2>2. g[m - 1] \in Fr /\ <<g[m - 1], m>> \in Fr \X (1..n)
    OBVIOUS
  <2>3. h \in [0..m -> Fr]
    BY <2>2
  <2>4. h[0] = b
    BY <2>1
  <2>5. ASSUME NEW i \in 1..m PROVE h[i] = G[<<h[i - 1], i>>]
    <3>1. CASE i = m
      <4>1. h[m] = G[<<g[m - 1], m>>] /\ h[m - 1] = g[m - 1]
        OBVIOUS
      <4>2. QED
        BY <3>1, <4>1
    <3>2. CASE i # m
      <4>1. i \in 1..(m - 1) /\ i - 1 # m
        BY <3>2
      <4>2. h[i] = g[i] /\ h[i - 1] = g[i - 1]
        BY <4>1
      <4>3. QED
        BY <2>1, <4>1, <4>2
    <3>3. QED
      BY <3>1, <3>2
  <2>6. IsFold(h, m)
    BY <2>4, <2>5
  <2>7. QED
    <3> HIDE DEF h, IsFold
    <3> QED
      BY <2>3, <2>6
<1>3. \A i \in 0..n : i \in S
  <2> HIDE DEF S
  <2> QED
    BY <1>1, <1>2, IndexInduction
<1>4. n \in S
  <2> HIDE DEF S
  <2> QED
    BY <1>3
<1>5. QED
  BY <1>4

\* FSum is the last of the partial sums, all of them field elements.
LEMMA FSumSteps ==
    ASSUME NEW s \in Seq(Fr)
    PROVE  \E f \in [0..Len(s) -> Fr] :
              /\ f[0] = Zero
              /\ \A i \in 1..Len(s) : f[i] = Add(f[i - 1], s[i])
              /\ FSum(s) = f[Len(s)]
<1> DEFINE n == Len(s)
           Step(f) == [i \in 0..n |-> IF i = 0 THEN Zero ELSE Add(f[i - 1], s[i])]
           acc == CHOOSE f : f = Step(f)
           G == [p \in Fr \X (1..n) |-> Add(p[1], s[p[2]])]
<1>1. n \in Nat /\ Zero \in Fr /\ \A i \in 1..n : s[i] \in Fr
  BY FrClosed
<1>2. G \in [Fr \X (1..n) -> Fr]
  BY <1>1, FrClosed
<1>3. PICK f \in [0..n -> Fr] : /\ f[0] = Zero
                                /\ \A i \in 1..n : f[i] = G[<<f[i - 1], i>>]
  <2> HIDE DEF n, G
  <2> QED
    BY ZenonT(90), <1>1, <1>2, FoldExists
<1>4. \A i \in 1..n : f[i] = Add(f[i - 1], s[i])
  <2>1. SUFFICES ASSUME NEW i \in 1..n PROVE f[i] = Add(f[i - 1], s[i])
    OBVIOUS
  <2>2. <<f[i - 1], i>> \in Fr \X (1..n)
    BY SMTT(60), <1>1
  <2>3. QED
    BY <1>3, <2>2
<1>5. f = Step(f)
  <2> HIDE DEF n, G
  <2>1. \A i \in 0..n : f[i] = IF i = 0 THEN Zero ELSE Add(f[i - 1], s[i])
    BY <1>1, <1>3, <1>4
  <2>2. QED
    BY <2>1
<1>6. acc = Step(acc)
  BY <1>5
<1>7. /\ acc[0] = Zero
      /\ \A i \in 1..n : acc[i] = Add(acc[i - 1], s[i])
      /\ DOMAIN acc = 0..n
  <2> HIDE DEF acc
  <2> QED
    BY <1>1, <1>6
<1>8. \A i \in 0..n : i \in {k \in 0..n : acc[k] \in Fr}
  <2> HIDE DEF acc, n
  <2> DEFINE S == {k \in 0..n : acc[k] \in Fr}
  <2>1. 0 \in S
    BY <1>1, <1>7
  <2>2. \A i \in 1..n : i - 1 \in S => i \in S
    BY <1>1, <1>7, FrClosed
  <2>3. QED
    <3> HIDE DEF S
    <3>1. \A i \in 0..n : i \in S
      BY <1>1, <2>1, <2>2, IndexInduction
    <3>2. QED
      BY <3>1 DEF S
<1>9. acc \in [0..n -> Fr]
  <2> HIDE DEF acc
  <2> QED
    BY <1>6, <1>8
<1>10. FSum(s) = acc[n]
  BY DEF FSum
<1>11. QED
  <2> HIDE DEF acc, n
  <2> QED
    BY <1>7, <1>9, <1>10 DEF n

\* Eval is the last of Horner's partial results, all of them field elements.
LEMMA EvalSteps ==
    ASSUME NEW p \in Seq(Fr), NEW x \in Fr
    PROVE  \E f \in [0..Len(p) -> Fr] :
              /\ f[0] = Zero
              /\ \A i \in 1..Len(p) : f[i] = Add(p[Len(p) - i + 1], Mul(x, f[i - 1]))
              /\ Eval(p, x) = f[Len(p)]
<1> DEFINE n == Len(p)
           Step(f) == [i \in 0..n |-> IF i = 0 THEN Zero ELSE Add(p[n - i + 1], Mul(x, f[i - 1]))]
           acc == CHOOSE f : f = Step(f)
           G == [q \in Fr \X (1..n) |-> Add(p[n - q[2] + 1], Mul(x, q[1]))]
<1>1. n \in Nat /\ Zero \in Fr /\ \A i \in 1..n : p[n - i + 1] \in Fr
  BY FrClosed
<1>2. G \in [Fr \X (1..n) -> Fr]
  BY <1>1, FrClosed
<1>3. PICK f \in [0..n -> Fr] : /\ f[0] = Zero
                                /\ \A i \in 1..n : f[i] = G[<<f[i - 1], i>>]
  <2> HIDE DEF n, G
  <2> QED
    BY ZenonT(90), <1>1, <1>2, FoldExists
<1>4. \A i \in 1..n : f[i] = Add(p[n - i + 1], Mul(x, f[i - 1]))
  <2>1. SUFFICES ASSUME NEW i \in 1..n PROVE f[i] = Add(p[n - i + 1], Mul(x, f[i - 1]))
    OBVIOUS
  <2>2. <<f[i - 1], i>> \in Fr \X (1..n)
    BY SMTT(60), <1>1
  <2>3. QED
    BY <1>3, <2>2
<1>5. f = Step(f)
  <2> HIDE DEF n, G
  <2>1. \A i \in 0..n : f[i] = IF i = 0 THEN Zero ELSE Add(p[n - i + 1], Mul(x, f[i - 1]))
    BY <1>1, <1>3, <1>4
  <2>2. QED
    BY <2>1
<1>6. acc = Step(acc)
  BY <1>5
<1>7. /\ acc[0] = Zero
      /\ \A i \in 1..n : acc[i] = Add(p[n - i + 1], Mul(x, acc[i - 1]))
      /\ DOMAIN acc = 0..n
  <2>1. PICK g : g = acc
    OBVIOUS
  <2>2. g = Step(g)
    BY <1>6, <2>1
  <2> HIDE DEF acc, n
  <2>3. DOMAIN g = 0..n /\ 0 \in 0..n
    BY <1>1, <2>2
  <2>4. g[0] = Zero
    BY <2>2, <2>3
  <2>5. \A i \in 1..n : g[i] = Add(p[n - i + 1], Mul(x, g[i - 1]))
    <3>1. TAKE i \in 1..n
    <3>2. i \in 0..n /\ i # 0
      BY <1>1
    <3>3. QED
      BY <2>2, <3>2
  <2>6. QED
    BY <2>1, <2>3, <2>4, <2>5
<1>8. \A i \in 0..n : i \in {k \in 0..n : acc[k] \in Fr}
  <2> HIDE DEF acc, n
  <2> DEFINE S == {k \in 0..n : acc[k] \in Fr}
  <2>1. 0 \in S
    BY <1>1, <1>7
  <2>2. \A i \in 1..n : i - 1 \in S => i \in S
    BY <1>1, <1>7, FrClosed
  <2>3. QED
    <3> HIDE DEF S
    <3>1. \A i \in 0..n : i \in S
      BY <1>1, <2>1, <2>2, IndexInduction
    <3>2. QED
      BY <3>1 DEF S
<1>9. acc \in [0..n -> Fr]
  <2> HIDE DEF acc
  <2> QED
    BY <1>6, <1>8
<1>10. Eval(p, x) = acc[n]
  BY DEF Eval
<1>11. QED
  <2> HIDE DEF acc, n
  <2> QED
    BY <1>7, <1>9, <1>10 DEF n

\* A sum of field elements is one.
LEMMA FSumType ==
    ASSUME NEW s \in Seq(Fr)
    PROVE  FSum(s) \in Fr
BY FSumSteps

\* So is the value of a polynomial.
LEMMA EvalType ==
    ASSUME NEW p \in Seq(Fr), NEW x \in Fr
    PROVE  Eval(p, x) \in Fr
BY EvalSteps
-----------------------------------------------------------------------------
\* Facts of a field that follow from the assumptions on Fr.
LEMMA AddCancel ==
    ASSUME NEW a \in Fr, NEW b \in Fr, NEW c \in Fr, Add(a, b) = Add(a, c)
    PROVE  b = c
<1>1. ASSUME NEW x \in Fr PROVE Add(Neg(a), Add(a, x)) = x
  <2>1. Neg(a) \in Fr /\ Add(Neg(a), a) = Zero /\ Add(Zero, x) = x
    BY FrClosed, FrAdditive
  <2>2. Add(Neg(a), Add(a, x)) = Add(Add(Neg(a), a), x)
    BY <2>1, FrAdditive
  <2>3. QED
    BY <2>1, <2>2
<1>2. QED
  BY <1>1

\* A product with zero is zero.
LEMMA MulZero ==
    ASSUME NEW a \in Fr
    PROVE  Mul(a, Zero) = Zero /\ Mul(Zero, a) = Zero
<1>1. Mul(a, Add(Zero, Zero)) = Add(Mul(a, Zero), Mul(a, Zero))
  BY FrClosed, FrMultiplicative
<1>2. Add(Zero, Zero) = Zero /\ Mul(a, Zero) \in Fr /\ Zero \in Fr
  BY FrClosed, FrAdditive
<1>3. Add(Mul(a, Zero), Zero) = Mul(a, Zero)
  BY <1>2, FrAdditive
<1>4. Mul(a, Zero) = Zero
  BY <1>1, <1>2, <1>3, AddCancel
<1>5. QED
  BY <1>2, <1>4, FrMultiplicative

\* Two sums of two can be added crosswise.
LEMMA AddSwap ==
    ASSUME NEW a \in Fr, NEW b \in Fr, NEW c \in Fr, NEW d \in Fr
    PROVE  Add(Add(a, b), Add(c, d)) = Add(Add(a, c), Add(b, d))
BY FrClosed, FrAdditive

\* Two products of two can be multiplied crosswise.
LEMMA MulSwap ==
    ASSUME NEW a \in Fr, NEW b \in Fr, NEW c \in Fr, NEW d \in Fr
    PROVE  Mul(Mul(a, b), Mul(c, d)) = Mul(Mul(a, c), Mul(b, d))
BY FrClosed, FrMultiplicative

\* The sign of a product comes from either factor.
LEMMA MulNeg ==
    ASSUME NEW a \in Fr, NEW b \in Fr
    PROVE  Mul(a, Neg(b)) = Neg(Mul(a, b)) /\ Mul(Neg(a), b) = Neg(Mul(a, b))
<1>1. ASSUME NEW x \in Fr, NEW y \in Fr PROVE Mul(x, Neg(y)) = Neg(Mul(x, y))
  <2>1. Mul(x, Add(y, Neg(y))) = Add(Mul(x, y), Mul(x, Neg(y)))
    BY FrClosed, FrMultiplicative
  <2>2. Add(y, Neg(y)) = Zero /\ Add(Mul(x, y), Neg(Mul(x, y))) = Zero
    BY FrClosed, FrAdditive
  <2>3. Mul(x, Zero) = Zero
    BY MulZero
  <2>4. Mul(x, y) \in Fr /\ Mul(x, Neg(y)) \in Fr /\ Neg(Mul(x, y)) \in Fr
    BY FrClosed
  <2>5. QED
    BY <2>1, <2>2, <2>3, <2>4, AddCancel
<1>2. QED
  BY <1>1, FrClosed, FrMultiplicative

\* Negation is additive and its own inverse.
LEMMA NegFacts ==
    /\ Neg(Zero) = Zero
    /\ \A a \in Fr : Neg(Neg(a)) = a
    /\ \A a, b \in Fr : Neg(Add(a, b)) = Add(Neg(a), Neg(b))
<1>1. Neg(Zero) = Zero
  BY FrClosed, FrAdditive
<1>2. ASSUME NEW a \in Fr PROVE Neg(Neg(a)) = a
  <2>1. Add(Neg(a), Neg(Neg(a))) = Zero /\ Add(Neg(a), a) = Zero
    BY FrClosed, FrAdditive
  <2>2. QED
    BY <2>1, FrClosed, AddCancel
<1>3. ASSUME NEW a \in Fr, NEW b \in Fr PROVE Neg(Add(a, b)) = Add(Neg(a), Neg(b))
  <2>1. Add(Add(a, b), Add(Neg(a), Neg(b))) = Add(Add(a, Neg(a)), Add(b, Neg(b)))
    BY FrClosed, AddSwap
  <2>2. Add(Add(a, b), Neg(Add(a, b))) = Zero /\ Add(Add(a, Neg(a)), Add(b, Neg(b))) = Zero
    BY FrClosed, FrAdditive
  <2>3. QED
    BY <2>1, <2>2, FrClosed, AddCancel
<1>4. QED
  BY <1>1, <1>2, <1>3

\* A factor that is not zero cancels.
LEMMA MulCancel ==
    ASSUME NEW a \in Fr, NEW b \in Fr, NEW c \in Fr, a # Zero, Mul(a, b) = Mul(a, c)
    PROVE  b = c
<1>1. ASSUME NEW x \in Fr PROVE Mul(Inv(a), Mul(a, x)) = x
  <2>1. Inv(a) \in Fr /\ Mul(Inv(a), a) = One /\ Mul(One, x) = x
    BY FrClosed, FrMultiplicative
  <2>2. Mul(Inv(a), Mul(a, x)) = Mul(Mul(Inv(a), a), x)
    BY <2>1, FrMultiplicative
  <2>3. QED
    BY <2>1, <2>2
<1>2. QED
  BY <1>1

\* A product of elements that are not zero is not zero.
LEMMA NoZeroDivisors ==
    ASSUME NEW a \in Fr, NEW b \in Fr, a # Zero, b # Zero
    PROVE  Mul(a, b) # Zero
BY MulCancel, MulZero, FrClosed

\* What Sub returns, and when it is zero.
LEMMA SubFacts ==
    ASSUME NEW a \in Fr, NEW b \in Fr
    PROVE  /\ Sub(a, b) \in Fr
           /\ Sub(a, b) = Zero <=> a = b
           /\ Add(b, Sub(a, b)) = a
           /\ Sub(a, b) = Neg(Sub(b, a))
           /\ Sub(a, Zero) = a
<1>1. Sub(a, b) \in Fr /\ Sub(b, a) \in Fr
  BY FrClosed DEF Sub
<1>2. Add(b, Sub(a, b)) = a
  BY FrClosed, FrAdditive DEF Sub
<1>3. Sub(a, b) = Zero <=> a = b
  BY <1>1, <1>2, FrClosed, FrAdditive DEF Sub
<1>4. Sub(a, b) = Neg(Sub(b, a))
  BY FrClosed, FrAdditive, NegFacts DEF Sub
<1>5. Sub(a, Zero) = a
  BY FrClosed, FrAdditive, NegFacts DEF Sub
<1>6. QED
  BY <1>1, <1>2, <1>3, <1>4, <1>5
-----------------------------------------------------------------------------
\* A function on 1..n is a sequence of length n.
LEMMA SeqOf ==
    ASSUME NEW n \in Nat, NEW s \in [1..n -> Fr]
    PROVE  s \in Seq(Fr) /\ Len(s) = n /\ DOMAIN s = 1..n
OBVIOUS

\* Two folds with the same start and the same steps agree.
LEMMA FoldsAgree ==
    ASSUME NEW m \in Nat, NEW n \in Nat, n <= m,
           NEW f \in [0..m -> Fr], NEW g \in [0..n -> Fr], f[0] = g[0],
           \A i \in 1..n : f[i - 1] = g[i - 1] => f[i] = g[i]
    PROVE  \A i \in 0..n : f[i] = g[i]
<1> DEFINE S == {i \in 0..n : f[i] = g[i]}
<1>1. 0 \in S
  OBVIOUS
<1>2. \A i \in 1..n : i - 1 \in S => i \in S
  OBVIOUS
<1>3. \A i \in 0..n : i \in S
  <2> HIDE DEF S
  <2> QED
    BY <1>1, <1>2, IndexInduction
<1>4. QED
  BY <1>3

\* All but the last of n elements.
FrontOf(s, n) == [i \in 1..(n - 1) |-> s[i]]

\* The empty sum.
LEMMA FSumEmpty ==
    ASSUME NEW s \in [1..0 -> Fr]
    PROVE  FSum(s) = Zero
BY SeqOf, FSumSteps

\* A sum splits off its last element.
LEMMA FSumLast ==
    ASSUME NEW n \in Nat \ {0}, NEW s \in [1..n -> Fr]
    PROVE  /\ FrontOf(s, n) \in [1..(n - 1) -> Fr]
           /\ FSum(s) = Add(FSum(FrontOf(s, n)), s[n])
           /\ FSum(s) \in Fr
<1> DEFINE r == FrontOf(s, n)
<1>1. r \in [1..(n - 1) -> Fr] /\ \A i \in 1..(n - 1) : r[i] = s[i]
  BY DEF FrontOf
<1>2. n - 1 \in Nat
  OBVIOUS
<1> HIDE DEF r
<1>3. s \in Seq(Fr) /\ Len(s) = n /\ r \in Seq(Fr) /\ Len(r) = n - 1
  BY <1>1, <1>2, SeqOf
<1>4. PICK f \in [0..n -> Fr] : /\ f[0] = Zero
                                /\ \A i \in 1..n : f[i] = Add(f[i - 1], s[i])
                                /\ FSum(s) = f[n]
  BY <1>3, FSumSteps
<1>5. PICK g \in [0..(n - 1) -> Fr] : /\ g[0] = Zero
                                      /\ \A i \in 1..(n - 1) : g[i] = Add(g[i - 1], r[i])
                                      /\ FSum(r) = g[n - 1]
  BY <1>3, FSumSteps
<1>6. \A i \in 1..(n - 1) : f[i - 1] = g[i - 1] => f[i] = g[i]
  BY <1>1, <1>4, <1>5
<1>7. f[n - 1] = g[n - 1]
  <2>1. f[0] = g[0]
    BY <1>4, <1>5
  <2>2. \A i \in 0..(n - 1) : f[i] = g[i]
    BY SMTT(60), <1>2, <1>6, <2>1, n - 1 <= n, FoldsAgree
  <2>3. QED
    BY <1>2, <2>2
<1>8. QED
  BY <1>1, <1>4, <1>5, <1>7 DEF r

\* FProd is the last of the partial products, all of them field elements.
LEMMA FProdSteps ==
    ASSUME NEW s \in Seq(Fr)
    PROVE  \E f \in [0..Len(s) -> Fr] :
              /\ f[0] = One
              /\ \A i \in 1..Len(s) : f[i] = Mul(f[i - 1], s[i])
              /\ FProd(s) = f[Len(s)]
<1> DEFINE n == Len(s)
           Step(f) == [i \in 0..n |-> IF i = 0 THEN One ELSE Mul(f[i - 1], s[i])]
           acc == CHOOSE f : f = Step(f)
           G == [p \in Fr \X (1..n) |-> Mul(p[1], s[p[2]])]
<1>1. n \in Nat /\ One \in Fr /\ \A i \in 1..n : s[i] \in Fr
  BY FrClosed
<1>2. G \in [Fr \X (1..n) -> Fr]
  BY <1>1, FrClosed
<1>3. PICK f \in [0..n -> Fr] : /\ f[0] = One
                                /\ \A i \in 1..n : f[i] = G[<<f[i - 1], i>>]
  <2> HIDE DEF n, G
  <2> QED
    BY ZenonT(90), <1>1, <1>2, FoldExists
<1>4. \A i \in 1..n : f[i] = Mul(f[i - 1], s[i])
  <2>1. SUFFICES ASSUME NEW i \in 1..n PROVE f[i] = Mul(f[i - 1], s[i])
    OBVIOUS
  <2>2. <<f[i - 1], i>> \in Fr \X (1..n)
    BY SMTT(60), <1>1
  <2>3. QED
    BY <1>3, <2>2
<1>5. f = Step(f)
  <2> HIDE DEF n, G
  <2>1. \A i \in 0..n : f[i] = IF i = 0 THEN One ELSE Mul(f[i - 1], s[i])
    BY <1>1, <1>3, <1>4
  <2>2. QED
    BY <2>1
<1>6. acc = Step(acc)
  BY <1>5
<1>7. /\ acc[0] = One
      /\ \A i \in 1..n : acc[i] = Mul(acc[i - 1], s[i])
      /\ DOMAIN acc = 0..n
  <2> HIDE DEF acc
  <2> QED
    BY <1>1, <1>6
<1>8. acc \in [0..n -> Fr]
  <2> HIDE DEF acc, n
  <2> DEFINE S == {k \in 0..n : acc[k] \in Fr}
  <2>1. 0 \in S
    BY <1>1, <1>7
  <2>2. \A i \in 1..n : i - 1 \in S => i \in S
    BY <1>1, <1>7, FrClosed
  <2>3. \A i \in 0..n : i \in S
    <3> HIDE DEF S
    <3> QED
      BY <1>1, <2>1, <2>2, IndexInduction
  <2>4. QED
    BY <1>6, <2>3
<1>9. FProd(s) = acc[n]
  BY DEF FProd
<1>10. QED
  <2> HIDE DEF acc, n
  <2> QED
    BY <1>7, <1>8, <1>9 DEF n

\* The empty product.
LEMMA FProdEmpty ==
    ASSUME NEW s \in [1..0 -> Fr]
    PROVE  FProd(s) = One
BY SeqOf, FProdSteps

\* A product splits off its last factor.
LEMMA FProdLast ==
    ASSUME NEW n \in Nat \ {0}, NEW s \in [1..n -> Fr]
    PROVE  /\ FrontOf(s, n) \in [1..(n - 1) -> Fr]
           /\ FProd(s) = Mul(FProd(FrontOf(s, n)), s[n])
           /\ FProd(s) \in Fr
<1> DEFINE r == FrontOf(s, n)
<1>1. r \in [1..(n - 1) -> Fr] /\ \A i \in 1..(n - 1) : r[i] = s[i]
  BY DEF FrontOf
<1>2. n - 1 \in Nat
  OBVIOUS
<1> HIDE DEF r
<1>3. s \in Seq(Fr) /\ Len(s) = n /\ r \in Seq(Fr) /\ Len(r) = n - 1
  BY <1>1, <1>2, SeqOf
<1>4. PICK f \in [0..n -> Fr] : /\ f[0] = One
                                /\ \A i \in 1..n : f[i] = Mul(f[i - 1], s[i])
                                /\ FProd(s) = f[n]
  BY <1>3, FProdSteps
<1>5. PICK g \in [0..(n - 1) -> Fr] : /\ g[0] = One
                                      /\ \A i \in 1..(n - 1) : g[i] = Mul(g[i - 1], r[i])
                                      /\ FProd(r) = g[n - 1]
  BY <1>3, FProdSteps
<1>6. \A i \in 1..(n - 1) : f[i - 1] = g[i - 1] => f[i] = g[i]
  BY <1>1, <1>4, <1>5
<1>7. f[n - 1] = g[n - 1]
  <2>1. f[0] = g[0]
    BY <1>4, <1>5
  <2>2. \A i \in 0..(n - 1) : f[i] = g[i]
    BY SMTT(60), <1>2, <1>6, <2>1, n - 1 <= n, FoldsAgree
  <2>3. QED
    BY <1>2, <2>2
<1>8. QED
  BY <1>1, <1>4, <1>5, <1>7 DEF r

\* Horner's rule from the constant term: p(x) = p[1] + x q(x), q the rest of p.
RestOf(p, n) == [i \in 1..(n - 1) |-> p[i + 1]]

\* A polynomial without coefficients is zero everywhere.
LEMMA EvalEmpty ==
    ASSUME NEW p \in [1..0 -> Fr], NEW x \in Fr
    PROVE  Eval(p, x) = Zero
<1>1. p \in Seq(Fr) /\ Len(p) = 0
  BY SeqOf
<1>2. PICK f \in [0..Len(p) -> Fr] : f[0] = Zero /\ Eval(p, x) = f[Len(p)]
  BY <1>1, EvalSteps
<1>3. QED
  BY <1>1, <1>2

\* A polynomial splits off its constant coefficient.
LEMMA EvalHead ==
    ASSUME NEW n \in Nat \ {0}, NEW p \in [1..n -> Fr], NEW x \in Fr
    PROVE  /\ RestOf(p, n) \in [1..(n - 1) -> Fr]
           /\ Eval(p, x) = Add(p[1], Mul(x, Eval(RestOf(p, n), x)))
           /\ Eval(p, x) \in Fr
<1> DEFINE q == RestOf(p, n)
<1>1. q \in [1..(n - 1) -> Fr] /\ \A i \in 1..(n - 1) : q[i] = p[i + 1]
  BY DEF RestOf
<1>2. n - 1 \in Nat
  OBVIOUS
<1> HIDE DEF q
<1>3. p \in Seq(Fr) /\ Len(p) = n /\ q \in Seq(Fr) /\ Len(q) = n - 1
  BY <1>1, <1>2, SeqOf
<1>4. PICK f \in [0..n -> Fr] :
         /\ f[0] = Zero
         /\ \A i \in 1..n : f[i] = Add(p[n - i + 1], Mul(x, f[i - 1]))
         /\ Eval(p, x) = f[n]
  BY <1>3, EvalSteps
<1>5. PICK g \in [0..(n - 1) -> Fr] :
         /\ g[0] = Zero
         /\ \A i \in 1..(n - 1) : g[i] = Add(q[(n - 1) - i + 1], Mul(x, g[i - 1]))
         /\ Eval(q, x) = g[n - 1]
  <2>1. \E g \in [0..Len(q) -> Fr] :
           /\ g[0] = Zero
           /\ \A i \in 1..Len(q) : g[i] = Add(q[Len(q) - i + 1], Mul(x, g[i - 1]))
           /\ Eval(q, x) = g[Len(q)]
    BY <1>3, EvalSteps
  <2>2. QED
    BY <1>3, <2>1
<1>6. \A i \in 1..(n - 1) : q[(n - 1) - i + 1] = p[n - i + 1]
  BY <1>1
<1>7. \A i \in 1..(n - 1) : f[i - 1] = g[i - 1] => f[i] = g[i]
  BY <1>4, <1>5, <1>6
<1>8. f[n - 1] = g[n - 1]
  <2>1. f[0] = g[0]
    BY <1>4, <1>5
  <2>2. \A i \in 0..(n - 1) : f[i] = g[i]
    BY SMTT(60), <1>2, <1>7, <2>1, n - 1 <= n, FoldsAgree
  <2>3. QED
    BY <1>2, <2>2
<1>9. QED
  BY <1>1, <1>4, <1>5, <1>8 DEF q

\* The same with the rest of p given.
LEMMA EvalCons ==
    ASSUME NEW k \in Nat, NEW p \in [1..(k + 1) -> Fr], NEW q \in [1..k -> Fr], NEW x \in Fr,
           \A i \in 1..k : q[i] = p[i + 1]
    PROVE  /\ Eval(p, x) = Add(p[1], Mul(x, Eval(q, x)))
           /\ p[1] \in Fr /\ Eval(p, x) \in Fr
<1>1. k + 1 \in Nat \ {0} /\ (k + 1) - 1 = k
  OBVIOUS
<1>2. q = RestOf(p, k + 1)
  <2>1. RestOf(p, k + 1) = [i \in 1..k |-> p[i + 1]]
    BY <1>1 DEF RestOf
  <2>2. QED
    BY <2>1
<1>3. Eval(p, x) = Add(p[1], Mul(x, Eval(RestOf(p, k + 1), x))) /\ Eval(p, x) \in Fr
  BY <1>1, EvalHead
<1>4. QED
  BY <1>2, <1>3

\* Induction over the natural numbers with the set of good ones as a parameter.
LEMMA SetInduction ==
    ASSUME NEW S, 0 \in S, \A n \in Nat : n \in S => n + 1 \in S
    PROVE  \A n \in Nat : n \in S
<1>1. SUFFICES ASSUME NEW n \in Nat PROVE n \in S
  OBVIOUS
<1>2. \A i \in 1..n : i - 1 \in S => i \in S
  <2>1. \A i \in 1..n : i - 1 \in Nat /\ (i - 1) + 1 = i
    OBVIOUS
  <2>2. QED
    BY <2>1
<1>3. \A i \in 0..n : i \in S
  BY <1>2, IndexInduction
<1>4. QED
  BY <1>3

\* Sums, products and values of polynomials over 1..n are field elements.
LEMMA FoldTypes ==
    ASSUME NEW n \in Nat, NEW s \in [1..n -> Fr]
    PROVE  /\ FSum(s) \in Fr /\ FProd(s) \in Fr
           /\ \A x \in Fr : Eval(s, x) \in Fr
<1>1. s \in Seq(Fr)
  BY SeqOf
<1>2. CASE n = 0
  <2>1. s \in [1..0 -> Fr]
    BY <1>2
  <2>2. QED
    BY <2>1, FSumEmpty, FProdEmpty, EvalEmpty, FrClosed
<1>3. CASE n # 0
  BY <1>3, FSumLast, FProdLast, EvalHead
<1>4. QED
  BY <1>2, <1>3

\* The sum of sums, element by element.
LEMMA FSumAdd ==
    ASSUME NEW n \in Nat, NEW s \in [1..n -> Fr], NEW t \in [1..n -> Fr]
    PROVE  FSum([i \in 1..n |-> Add(s[i], t[i])]) = Add(FSum(s), FSum(t))
<1> DEFINE Both(k, a, b) == [i \in 1..k |-> Add(a[i], b[i])]
           S == {k \in Nat : \A a, b \in [1..k -> Fr] :
                               FSum(Both(k, a, b)) = Add(FSum(a), FSum(b))}
<1>1. 0 \in S
  <2> SUFFICES ASSUME NEW a \in [1..0 -> Fr], NEW b \in [1..0 -> Fr]
               PROVE  FSum(Both(0, a, b)) = Add(FSum(a), FSum(b))
    OBVIOUS
  <2>1. Both(0, a, b) \in [1..0 -> Fr]
    OBVIOUS
  <2>2. FSum(a) = Zero /\ FSum(b) = Zero /\ FSum(Both(0, a, b)) = Zero
    <3> HIDE DEF Both
    <3> QED
      BY <2>1, FSumEmpty
  <2>3. QED
    BY <2>2, FrClosed, FrAdditive
<1>2. ASSUME NEW k \in Nat, k \in S PROVE k + 1 \in S
  <2> SUFFICES ASSUME NEW a \in [1..(k + 1) -> Fr], NEW b \in [1..(k + 1) -> Fr]
               PROVE  FSum(Both(k + 1, a, b)) = Add(FSum(a), FSum(b))
    OBVIOUS
  <2> DEFINE c == Both(k + 1, a, b)
             a1 == FrontOf(a, k + 1)
             b1 == FrontOf(b, k + 1)
  <2>1. c \in [1..(k + 1) -> Fr] /\ c[k + 1] = Add(a[k + 1], b[k + 1])
    BY FrClosed
  <2>2. FrontOf(c, k + 1) = Both(k, a1, b1) /\ a1 \in [1..k -> Fr] /\ b1 \in [1..k -> Fr]
    BY DEF FrontOf
  <2> HIDE DEF c, a1, b1, Both
  <2>3. k + 1 \in Nat \ {0} /\ (k + 1) - 1 = k
    OBVIOUS
  <2>4. FSum(Both(k, a1, b1)) = Add(FSum(a1), FSum(b1))
    BY <1>2, <2>2
  <2>5. /\ FSum(c) = Add(Add(FSum(a1), FSum(b1)), Add(a[k + 1], b[k + 1]))
        /\ FSum(a) = Add(FSum(a1), a[k + 1]) /\ FSum(b) = Add(FSum(b1), b[k + 1])
    BY <2>1, <2>2, <2>3, <2>4, FSumLast DEF a1, b1
  <2>6. FSum(a1) \in Fr /\ FSum(b1) \in Fr /\ a[k + 1] \in Fr /\ b[k + 1] \in Fr
    BY <2>2, FoldTypes
  <2>7. QED
    BY <2>5, <2>6, AddSwap DEF c
<1>3. n \in S
  <2> HIDE DEF S
  <2> QED
    BY <1>1, <1>2, SetInduction
<1>4. QED
  BY <1>3

\* A common factor comes out of a sum.
LEMMA FSumScale ==
    ASSUME NEW n \in Nat, NEW c \in Fr, NEW s \in [1..n -> Fr]
    PROVE  FSum([i \in 1..n |-> Mul(c, s[i])]) = Mul(c, FSum(s))
<1> DEFINE Scaled(k, a) == [i \in 1..k |-> Mul(c, a[i])]
           S == {k \in Nat : \A a \in [1..k -> Fr] : FSum(Scaled(k, a)) = Mul(c, FSum(a))}
<1>1. 0 \in S
  <2> SUFFICES ASSUME NEW a \in [1..0 -> Fr]
               PROVE  FSum(Scaled(0, a)) = Mul(c, FSum(a))
    OBVIOUS
  <2>1. Scaled(0, a) \in [1..0 -> Fr]
    OBVIOUS
  <2>2. FSum(a) = Zero /\ FSum(Scaled(0, a)) = Zero
    <3> HIDE DEF Scaled
    <3> QED
      BY <2>1, FSumEmpty
  <2>3. QED
    BY <2>2, MulZero
<1>2. ASSUME NEW k \in Nat, k \in S PROVE k + 1 \in S
  <2> SUFFICES ASSUME NEW a \in [1..(k + 1) -> Fr]
               PROVE  FSum(Scaled(k + 1, a)) = Mul(c, FSum(a))
    OBVIOUS
  <2> DEFINE b == Scaled(k + 1, a)
             a1 == FrontOf(a, k + 1)
  <2>1. b \in [1..(k + 1) -> Fr] /\ b[k + 1] = Mul(c, a[k + 1])
    BY FrClosed
  <2>2. FrontOf(b, k + 1) = Scaled(k, a1) /\ a1 \in [1..k -> Fr]
    BY DEF FrontOf
  <2> HIDE DEF b, a1, Scaled
  <2>3. k + 1 \in Nat \ {0} /\ (k + 1) - 1 = k
    OBVIOUS
  <2>4. FSum(Scaled(k, a1)) = Mul(c, FSum(a1))
    BY <1>2, <2>2
  <2>5. /\ FSum(b) = Add(Mul(c, FSum(a1)), Mul(c, a[k + 1]))
        /\ FSum(a) = Add(FSum(a1), a[k + 1])
    BY <2>1, <2>2, <2>3, <2>4, FSumLast DEF a1
  <2>6. FSum(a1) \in Fr /\ a[k + 1] \in Fr
    BY <2>2, FoldTypes
  <2>7. QED
    BY <2>5, <2>6, FrMultiplicative DEF b
<1>3. n \in S
  <2> HIDE DEF S
  <2> QED
    BY <1>1, <1>2, SetInduction
<1>4. QED
  BY <1>3

\* The product of products, element by element.
LEMMA FProdMul ==
    ASSUME NEW n \in Nat, NEW s \in [1..n -> Fr], NEW t \in [1..n -> Fr]
    PROVE  FProd([i \in 1..n |-> Mul(s[i], t[i])]) = Mul(FProd(s), FProd(t))
<1> DEFINE Both(k, a, b) == [i \in 1..k |-> Mul(a[i], b[i])]
           S == {k \in Nat : \A a, b \in [1..k -> Fr] :
                               FProd(Both(k, a, b)) = Mul(FProd(a), FProd(b))}
<1>1. 0 \in S
  <2> SUFFICES ASSUME NEW a \in [1..0 -> Fr], NEW b \in [1..0 -> Fr]
               PROVE  FProd(Both(0, a, b)) = Mul(FProd(a), FProd(b))
    OBVIOUS
  <2>1. Both(0, a, b) \in [1..0 -> Fr]
    OBVIOUS
  <2>2. FProd(a) = One /\ FProd(b) = One /\ FProd(Both(0, a, b)) = One
    <3> HIDE DEF Both
    <3> QED
      BY <2>1, FProdEmpty
  <2>3. QED
    BY <2>2, FrClosed, FrMultiplicative
<1>2. ASSUME NEW k \in Nat, k \in S PROVE k + 1 \in S
  <2> SUFFICES ASSUME NEW a \in [1..(k + 1) -> Fr], NEW b \in [1..(k + 1) -> Fr]
               PROVE  FProd(Both(k + 1, a, b)) = Mul(FProd(a), FProd(b))
    OBVIOUS
  <2> DEFINE c == Both(k + 1, a, b)
             a1 == FrontOf(a, k + 1)
             b1 == FrontOf(b, k + 1)
  <2>1. c \in [1..(k + 1) -> Fr] /\ c[k + 1] = Mul(a[k + 1], b[k + 1])
    BY FrClosed
  <2>2. FrontOf(c, k + 1) = Both(k, a1, b1) /\ a1 \in [1..k -> Fr] /\ b1 \in [1..k -> Fr]
    BY DEF FrontOf
  <2> HIDE DEF c, a1, b1, Both
  <2>3. k + 1 \in Nat \ {0} /\ (k + 1) - 1 = k
    OBVIOUS
  <2>4. FProd(Both(k, a1, b1)) = Mul(FProd(a1), FProd(b1))
    BY <1>2, <2>2
  <2>5. /\ FProd(c) = Mul(Mul(FProd(a1), FProd(b1)), Mul(a[k + 1], b[k + 1]))
        /\ FProd(a) = Mul(FProd(a1), a[k + 1]) /\ FProd(b) = Mul(FProd(b1), b[k + 1])
    BY <2>1, <2>2, <2>3, <2>4, FProdLast DEF a1, b1
  <2>6. FProd(a1) \in Fr /\ FProd(b1) \in Fr /\ a[k + 1] \in Fr /\ b[k + 1] \in Fr
    BY <2>2, FoldTypes
  <2>7. QED
    BY <2>5, <2>6, MulSwap DEF c
<1>3. n \in S
  <2> HIDE DEF S
  <2> QED
    BY <1>1, <1>2, SetInduction
<1>4. QED
  BY <1>3

\* A product is zero exactly if one of its factors is.
LEMMA FProdNonzero ==
    ASSUME NEW n \in Nat, NEW s \in [1..n -> Fr]
    PROVE  FProd(s) # Zero <=> \A i \in 1..n : s[i] # Zero
<1> DEFINE Q(k, a) == FProd(a) # Zero <=> \A i \in 1..k : a[i] # Zero
           S == {k \in Nat : \A a \in [1..k -> Fr] : Q(k, a)}
<1>1. 0 \in S
  <2> SUFFICES ASSUME NEW a \in [1..0 -> Fr] PROVE Q(0, a)
    OBVIOUS
  <2>1. FProd(a) = One
    BY FProdEmpty
  <2>2. One # Zero
    BY FrClosed
  <2>3. \A i \in 1..0 : FALSE
    OBVIOUS
  <2>4. QED
    BY <2>1, <2>2, <2>3
<1>2. ASSUME NEW k \in Nat, k \in S PROVE k + 1 \in S
  <2> SUFFICES ASSUME NEW a \in [1..(k + 1) -> Fr] PROVE Q(k + 1, a)
    OBVIOUS
  <2> DEFINE a1 == FrontOf(a, k + 1)
  <2>1. a1 \in [1..k -> Fr] /\ \A i \in 1..k : a1[i] = a[i]
    BY DEF FrontOf
  <2>2. Q(k, a1)
    <3> HIDE DEF Q, a1
    <3> QED
      BY <1>2, <2>1
  <2>3. FProd(a) = Mul(FProd(a1), a[k + 1]) /\ FProd(a1) \in Fr /\ a[k + 1] \in Fr
    <3>1. k + 1 \in Nat \ {0} /\ (k + 1) - 1 = k
      OBVIOUS
    <3> HIDE DEF a1
    <3>2. QED
      BY <2>1, <3>1, FProdLast, FoldTypes DEF a1
  <2>4. FProd(a) # Zero <=> FProd(a1) # Zero /\ a[k + 1] # Zero
    <3> HIDE DEF a1
    <3> QED
      BY <2>3, NoZeroDivisors, MulZero
  <2>5. (\A i \in 1..(k + 1) : a[i] # Zero) <=> (\A i \in 1..k : a[i] # Zero) /\ a[k + 1] # Zero
    <3>1. \A i : i \in 1..(k + 1) <=> i \in 1..k \/ i = k + 1
      OBVIOUS
    <3>2. QED
      BY <3>1
  <2>6. QED
    <3> HIDE DEF a1
    <3> QED
      BY <2>1, <2>2, <2>4, <2>5
<1>3. n \in S
  <2> HIDE DEF S
  <2> QED
    BY <1>1, <1>2, SetInduction
<1>4. QED
  BY <1>3

\* Evaluation is additive in the polynomial.
LEMMA EvalAdd ==
    ASSUME NEW n \in Nat, NEW p \in [1..n -> Fr], NEW q \in [1..n -> Fr], NEW x \in Fr
    PROVE  Eval([i \in 1..n |-> Add(p[i], q[i])], x) = Add(Eval(p, x), Eval(q, x))
<1> DEFINE Both(k, a, b) == [i \in 1..k |-> Add(a[i], b[i])]
           S == {k \in Nat : \A a, b \in [1..k -> Fr] :
                               Eval(Both(k, a, b), x) = Add(Eval(a, x), Eval(b, x))}
<1>1. 0 \in S
  <2> SUFFICES ASSUME NEW a \in [1..0 -> Fr], NEW b \in [1..0 -> Fr]
               PROVE  Eval(Both(0, a, b), x) = Add(Eval(a, x), Eval(b, x))
    OBVIOUS
  <2>1. Both(0, a, b) \in [1..0 -> Fr]
    OBVIOUS
  <2>2. Eval(a, x) = Zero /\ Eval(b, x) = Zero /\ Eval(Both(0, a, b), x) = Zero
    <3> HIDE DEF Both
    <3> QED
      BY <2>1, EvalEmpty
  <2>3. QED
    BY <2>2, FrClosed, FrAdditive
<1>2. ASSUME NEW k \in Nat, k \in S PROVE k + 1 \in S
  <2> HIDE DEF Both
  <2>0. k + 1 \in Nat
    OBVIOUS
  <2> SUFFICES ASSUME NEW a \in [1..(k + 1) -> Fr], NEW b \in [1..(k + 1) -> Fr]
               PROVE  Eval(Both(k + 1, a, b), x) = Add(Eval(a, x), Eval(b, x))
    BY <2>0
  <2> USE DEF Both
  <2> DEFINE c == Both(k + 1, a, b)
             a1 == RestOf(a, k + 1)
             b1 == RestOf(b, k + 1)
  <2>1. c \in [1..(k + 1) -> Fr] /\ c[1] = Add(a[1], b[1])
    BY FrClosed
  <2>2. RestOf(c, k + 1) = Both(k, a1, b1) /\ a1 \in [1..k -> Fr] /\ b1 \in [1..k -> Fr]
    BY DEF RestOf
  <2> HIDE DEF c, a1, b1, Both
  <2>3. k + 1 \in Nat \ {0} /\ (k + 1) - 1 = k
    OBVIOUS
  <2>4. Eval(Both(k, a1, b1), x) = Add(Eval(a1, x), Eval(b1, x))
    BY <1>2, <2>2
  <2>5. /\ Eval(c, x) = Add(Add(a[1], b[1]), Mul(x, Add(Eval(a1, x), Eval(b1, x))))
        /\ Eval(a, x) = Add(a[1], Mul(x, Eval(a1, x)))
        /\ Eval(b, x) = Add(b[1], Mul(x, Eval(b1, x)))
    <3>1. /\ \A i \in 1..k : a1[i] = a[i + 1]
          /\ \A i \in 1..k : b1[i] = b[i + 1]
          /\ \A i \in 1..k : Both(k, a1, b1)[i] = c[i + 1]
      BY DEF a1, b1, c, Both, RestOf
    <3>2. Both(k, a1, b1) \in [1..k -> Fr]
      BY <2>2, FrClosed DEF Both
    <3>3. Eval(a, x) = Add(a[1], Mul(x, Eval(a1, x)))
      BY <2>2, <3>1, EvalCons
    <3>4. Eval(b, x) = Add(b[1], Mul(x, Eval(b1, x)))
      BY ZenonT(90), <2>2, <3>1, EvalCons
    <3>5. Eval(c, x) = Add(c[1], Mul(x, Eval(Both(k, a1, b1), x)))
      BY <2>1, <3>1, <3>2, EvalCons
    <3>6. QED
      BY <2>1, <2>4, <3>3, <3>4, <3>5
  <2>6. /\ Eval(a1, x) \in Fr /\ Eval(b1, x) \in Fr /\ a[1] \in Fr /\ b[1] \in Fr
        /\ Mul(x, Eval(a1, x)) \in Fr /\ Mul(x, Eval(b1, x)) \in Fr
    <3>1. Eval(a1, x) \in Fr /\ Eval(b1, x) \in Fr
      BY <2>2, FoldTypes
    <3>2. QED
      BY <3>1, FrClosed
  <2>7. Mul(x, Add(Eval(a1, x), Eval(b1, x))) = Add(Mul(x, Eval(a1, x)), Mul(x, Eval(b1, x)))
    BY <2>6, FrMultiplicative
  <2>8. QED
    BY <2>5, <2>6, <2>7, AddSwap DEF c
<1>3. n \in S
  <2> HIDE DEF S
  <2> QED
    BY <1>1, <1>2, SetInduction
<1>4. QED
  BY <1>3

\* Evaluation is homogeneous in the polynomial.
LEMMA EvalScale ==
    ASSUME NEW n \in Nat, NEW c \in Fr, NEW p \in [1..n -> Fr], NEW x \in Fr
    PROVE  Eval([i \in 1..n |-> Mul(c, p[i])], x) = Mul(c, Eval(p, x))
<1> DEFINE Scaled(k, a) == [i \in 1..k |-> Mul(c, a[i])]
           S == {k \in Nat : \A a \in [1..k -> Fr] : Eval(Scaled(k, a), x) = Mul(c, Eval(a, x))}
<1>1. 0 \in S
  <2> SUFFICES ASSUME NEW a \in [1..0 -> Fr]
               PROVE  Eval(Scaled(0, a), x) = Mul(c, Eval(a, x))
    OBVIOUS
  <2>1. Scaled(0, a) \in [1..0 -> Fr]
    OBVIOUS
  <2>2. Eval(a, x) = Zero /\ Eval(Scaled(0, a), x) = Zero
    <3> HIDE DEF Scaled
    <3> QED
      BY <2>1, EvalEmpty
  <2>3. QED
    BY <2>2, MulZero
<1>2. ASSUME NEW k \in Nat, k \in S PROVE k + 1 \in S
  <2> SUFFICES ASSUME NEW a \in [1..(k + 1) -> Fr]
               PROVE  Eval(Scaled(k + 1, a), x) = Mul(c, Eval(a, x))
    OBVIOUS
  <2> DEFINE b == Scaled(k + 1, a)
             a1 == RestOf(a, k + 1)
  <2>1. b \in [1..(k + 1) -> Fr] /\ b[1] = Mul(c, a[1])
    BY FrClosed
  <2>2. RestOf(b, k + 1) = Scaled(k, a1) /\ a1 \in [1..k -> Fr]
    BY DEF RestOf
  <2> HIDE DEF b, a1, Scaled
  <2>3. k + 1 \in Nat \ {0} /\ (k + 1) - 1 = k
    OBVIOUS
  <2>4. Eval(Scaled(k, a1), x) = Mul(c, Eval(a1, x))
    BY <1>2, <2>2
  <2>5. /\ Eval(b, x) = Add(Mul(c, a[1]), Mul(x, Mul(c, Eval(a1, x))))
        /\ Eval(a, x) = Add(a[1], Mul(x, Eval(a1, x)))
    <3>1. /\ \A i \in 1..k : a1[i] = a[i + 1]
          /\ \A i \in 1..k : Scaled(k, a1)[i] = b[i + 1]
      BY DEF a1, b, Scaled, RestOf
    <3>2. Scaled(k, a1) \in [1..k -> Fr]
      BY <2>2, FrClosed DEF Scaled
    <3>3. Eval(a, x) = Add(a[1], Mul(x, Eval(a1, x)))
      BY <2>2, <3>1, EvalCons
    <3>4. Eval(b, x) = Add(b[1], Mul(x, Eval(Scaled(k, a1), x)))
      BY <2>1, <3>1, <3>2, EvalCons
    <3>5. QED
      BY <2>1, <2>4, <3>3, <3>4
  <2>6. Eval(a1, x) \in Fr /\ a[1] \in Fr /\ Mul(x, Eval(a1, x)) \in Fr
    BY <2>2, FoldTypes, FrClosed
  <2>7. Mul(x, Mul(c, Eval(a1, x))) = Mul(c, Mul(x, Eval(a1, x)))
    BY <2>6, FrMultiplicative
  <2>8. Mul(c, Add(a[1], Mul(x, Eval(a1, x)))) = Add(Mul(c, a[1]), Mul(c, Mul(x, Eval(a1, x))))
    BY <2>6, FrMultiplicative
  <2>9. QED
    BY <2>5, <2>7, <2>8 DEF b
<1>3. n \in S
  <2> HIDE DEF S
  <2> QED
    BY <1>1, <1>2, SetInduction
<1>4. QED
  BY <1>3

\* A polynomial all of whose coefficients vanish.
LEMMA EvalZeros ==
    ASSUME NEW n \in Nat, NEW p \in [1..n -> Fr], \A i \in 1..n : p[i] = Zero, NEW x \in Fr
    PROVE  Eval(p, x) = Zero
<1>1. Zero \in Fr
  BY FrClosed
<1>2. p = [i \in 1..n |-> Mul(Zero, p[i])]
  <2>1. \A i \in 1..n : p[i] = Mul(Zero, p[i])
    BY <1>1, MulZero
  <2>2. QED
    BY <2>1
<1>3. Eval(p, x) = Mul(Zero, Eval(p, x))
  BY <1>1, <1>2, EvalScale
<1>4. QED
  BY <1>3, FoldTypes, MulZero

\* Padding with zeros does not change the polynomial.
LEMMA EvalPad ==
    ASSUME NEW n \in Nat, NEW m \in Nat, n <= m, NEW p \in [1..n -> Fr],
           NEW q \in [1..m -> Fr], NEW x \in Fr,
           \A i \in 1..m : q[i] = IF i <= n THEN p[i] ELSE Zero
    PROVE  Eval(q, x) = Eval(p, x)
<1> DEFINE Padded(k, l, a, b) == \A i \in 1..l : b[i] = IF i <= k THEN a[i] ELSE Zero
           S == {k \in Nat : \A l \in Nat : k <= l =>
                    \A a \in [1..k -> Fr], b \in [1..l -> Fr] :
                       Padded(k, l, a, b) => Eval(b, x) = Eval(a, x)}
<1>1. 0 \in S
  <2> SUFFICES ASSUME NEW l \in Nat, NEW a \in [1..0 -> Fr], NEW b \in [1..l -> Fr],
                      Padded(0, l, a, b)
               PROVE  Eval(b, x) = Eval(a, x)
    OBVIOUS
  <2>1. \A i \in 1..l : b[i] = Zero
    OBVIOUS
  <2>2. QED
    BY <2>1, EvalZeros, EvalEmpty
<1>2. ASSUME NEW k \in Nat, k \in S PROVE k + 1 \in S
  <2> SUFFICES ASSUME NEW l \in Nat, k + 1 <= l, NEW a \in [1..(k + 1) -> Fr],
                      NEW b \in [1..l -> Fr], Padded(k + 1, l, a, b)
               PROVE  Eval(b, x) = Eval(a, x)
    BY SMTT(60)
  <2> DEFINE a1 == RestOf(a, k + 1)
             b1 == RestOf(b, l)
  <2>1. a[1] = b[1]
    OBVIOUS
  <2>2. a1 \in [1..k -> Fr] /\ b1 \in [1..(l - 1) -> Fr] /\ Padded(k, l - 1, a1, b1)
    BY DEF RestOf
  <2>3. k + 1 \in Nat \ {0} /\ (k + 1) - 1 = k /\ l \in Nat \ {0} /\ l - 1 \in Nat /\ k <= l - 1
    OBVIOUS
  <2> HIDE DEF a1, b1, Padded
  <2>4. Eval(b1, x) = Eval(a1, x)
    BY <1>2, <2>2, <2>3
  <2>5. /\ Eval(a, x) = Add(a[1], Mul(x, Eval(a1, x)))
        /\ Eval(b, x) = Add(b[1], Mul(x, Eval(b1, x)))
    BY <2>3, EvalHead DEF a1, b1
  <2>6. QED
    BY <2>1, <2>4, <2>5
<1>3. n \in S
  <2> HIDE DEF S
  <2> QED
    BY <1>1, <1>2, SetInduction
<1>4. Padded(n, m, p, q)
  OBVIOUS
<1>5. QED
  <2> HIDE DEF Padded
  <2> QED
    BY <1>3, <1>4

\* p(0) is the constant term.
LEMMA EvalAtZero ==
    ASSUME NEW n \in Nat \ {0}, NEW p \in [1..n -> Fr]
    PROVE  Eval(p, Zero) = p[1]
<1>1. Zero \in Fr /\ n - 1 \in Nat /\ p[1] \in Fr
  BY FrClosed
<1>2. Eval(p, Zero) = Add(p[1], Mul(Zero, Eval(RestOf(p, n), Zero)))
  BY <1>1, EvalHead
<1>3. Eval(RestOf(p, n), Zero) \in Fr
  BY <1>1, EvalHead, FoldTypes
<1>4. QED
  BY <1>1, <1>2, <1>3, MulZero, FrAdditive

\* Synthetic division by x - a: p(x) = p(a) + (x - a) q(x), and q has the leading
\* coefficient of p.
LEMMA Division ==
    ASSUME NEW n \in Nat \ {0}, NEW p \in [1..n -> Fr], NEW a \in Fr
    PROVE  \E q \in [1..(n - 1) -> Fr] :
              /\ n > 1 => q[n - 1] = p[n]
              /\ \A x \in Fr : Eval(p, x) = Add(Eval(p, a), Mul(Sub(x, a), Eval(q, x)))
<1> DEFINE Divides(k, r, q) ==
             /\ k > 0 => q[k] = r[k + 1]
             /\ \A x \in Fr : Eval(r, x) = Add(Eval(r, a), Mul(Sub(x, a), Eval(q, x)))
           S == {k \in Nat : \A r \in [1..(k + 1) -> Fr] :
                               \E q \in [1..k -> Fr] : Divides(k, r, q)}
<1>1. 0 \in S
  <2> SUFFICES ASSUME NEW r \in [1..(0 + 1) -> Fr]
               PROVE  \E q \in [1..0 -> Fr] : Divides(0, r, q)
    OBVIOUS
  <2> DEFINE e == [i \in 1..0 |-> Zero]
  <2>1. e \in [1..0 -> Fr]
    BY FrClosed
  <2>2. ASSUME NEW x \in Fr PROVE Eval(e, x) = Zero /\ Eval(r, x) = r[1]
    <3>1. r \in [1..1 -> Fr] /\ RestOf(r, 1) \in [1..0 -> Fr] /\ r[1] \in Fr
      BY DEF RestOf
    <3>2. 1 \in Nat \ {0}
      OBVIOUS
    <3> HIDE DEF e
    <3>3. Eval(r, x) = Add(r[1], Mul(x, Eval(RestOf(r, 1), x))) /\ Eval(RestOf(r, 1), x) = Zero
      BY <3>1, <3>2, EvalHead, EvalEmpty
    <3>4. QED
      BY <2>1, <3>1, <3>3, EvalEmpty, MulZero, FrAdditive
  <2>3. Divides(0, r, e)
    <3> HIDE DEF e
    <3>1. ASSUME NEW x \in Fr
          PROVE  Eval(r, x) = Add(Eval(r, a), Mul(Sub(x, a), Eval(e, x)))
      <4>1. Sub(x, a) \in Fr /\ r[1] \in Fr
        BY SubFacts
      <4>2. QED
        BY <2>2, <4>1, MulZero, FrAdditive
    <3>2. QED
      BY <3>1
  <2>4. QED
    <3> HIDE DEF e, Divides
    <3> QED
      BY <2>1, <2>3
<1>2. ASSUME NEW k \in Nat, k \in S PROVE k + 1 \in S
  <2> SUFFICES ASSUME NEW r \in [1..((k + 1) + 1) -> Fr]
               PROVE  \E q \in [1..(k + 1) -> Fr] : Divides(k + 1, r, q)
    OBVIOUS
  <2> DEFINE r1 == RestOf(r, k + 2)
  <2>1. /\ r1 \in [1..(k + 1) -> Fr] /\ r[1] \in Fr /\ r \in [1..(k + 2) -> Fr]
        /\ r1[k + 1] = r[k + 2]
    BY DEF RestOf
  <2> HIDE DEF r1
  <2>2. PICK q1 \in [1..k -> Fr] : Divides(k, r1, q1)
    <3> HIDE DEF Divides
    <3> QED
      BY <1>2, <2>1
  <2> DEFINE q == [i \in 1..(k + 1) |-> IF i = 1 THEN Eval(r1, a) ELSE q1[i - 1]]
  <2>3. Eval(r1, a) \in Fr
    BY <2>1, FoldTypes
  <2>4. q \in [1..(k + 1) -> Fr] /\ q[1] = Eval(r1, a) /\ RestOf(q, k + 1) = q1
    <3>1. q \in [1..(k + 1) -> Fr]
      <4>1. \A i \in 1..(k + 1) : i # 1 => i - 1 \in 1..k
        OBVIOUS
      <4>2. QED
        BY <2>3, <4>1
    <3>2. q[1] = Eval(r1, a) /\ \A i \in 1..k : q[i + 1] = q1[i]
      OBVIOUS
    <3>3. RestOf(q, k + 1) = [i \in 1..k |-> q[i + 1]]
      BY DEF RestOf
    <3>4. QED
      BY <3>1, <3>2, <3>3
  <2>5. q[k + 1] = r[(k + 1) + 1]
    <3>1. CASE k = 0
      <4>1. Eval(r1, a) = r1[1]
        <5>1. q1 \in [1..0 -> Fr] /\ \A i \in 1..k : q1[i] = r1[i + 1]
          BY <3>1
        <5>2. Eval(r1, a) = Add(r1[1], Mul(a, Eval(q1, a))) /\ r1[1] \in Fr
          BY ZenonT(90), <2>1, <5>1, EvalCons
        <5>3. Eval(q1, a) = Zero
          BY <5>1, EvalEmpty
        <5>4. QED
          BY <5>2, <5>3, MulZero, FrAdditive
      <4>2. QED
        BY <2>1, <2>4, <3>1, <4>1
    <3>2. CASE k > 0
      <4>1. q[k + 1] = q1[k]
        BY <3>2
      <4>2. QED
        BY <2>1, <2>2, <3>2, <4>1
    <3>3. QED
      BY <3>1, <3>2
  <2> HIDE DEF q
  <2>6. ASSUME NEW x \in Fr
        PROVE  Eval(r, x) = Add(Eval(r, a), Mul(Sub(x, a), Eval(q, x)))
    <3> DEFINE d == Sub(x, a)
               u == Eval(r1, a)
               v == Eval(q1, x)
    <3>1. k + 2 \in Nat \ {0} /\ k + 1 \in Nat \ {0} /\ (k + 2) - 1 = k + 1 /\ (k + 1) - 1 = k
      OBVIOUS
    <3>2. /\ Eval(r, x) = Add(r[1], Mul(x, Eval(r1, x)))
          /\ Eval(r, a) = Add(r[1], Mul(a, u))
          /\ Eval(q, x) = Add(u, Mul(x, v))
      <4>1. r \in [1..((k + 1) + 1) -> Fr] /\ \A i \in 1..(k + 1) : r1[i] = r[i + 1]
        BY DEF r1, RestOf
      <4>2. \A i \in 1..k : q1[i] = q[i + 1]
        BY <2>4 DEF RestOf
      <4>3. \A z \in Fr : Eval(r, z) = Add(r[1], Mul(z, Eval(r1, z)))
        <5>1. PICK m \in Nat : m = k + 1
          OBVIOUS
        <5>2. r \in [1..(m + 1) -> Fr] /\ r1 \in [1..m -> Fr] /\ \A i \in 1..m : r1[i] = r[i + 1]
          BY <2>1, <4>1, <5>1
        <5>3. QED
          BY ZenonT(90), <5>2, EvalCons
      <4>4. Eval(q, x) = Add(q[1], Mul(x, Eval(q1, x)))
        BY ZenonT(90), <2>4, <4>2, EvalCons
      <4>5. QED
        BY <2>4, <4>3, <4>4
    <3>3. Eval(r1, x) = Add(u, Mul(d, v))
      BY <2>2
    <3>4. d \in Fr /\ u \in Fr /\ v \in Fr /\ x = Add(a, d)
      BY <2>3, FoldTypes, SubFacts
    <3>5. /\ Mul(x, u) \in Fr /\ Mul(a, u) \in Fr /\ Mul(d, u) \in Fr
          /\ Mul(x, Mul(d, v)) \in Fr /\ Mul(d, v) \in Fr /\ Mul(x, v) \in Fr
      BY <3>4, FrClosed
    <3> HIDE DEF d, u, v
    <3>6. Mul(x, Add(u, Mul(d, v))) = Add(Mul(x, u), Mul(x, Mul(d, v)))
      BY <3>4, <3>5, FrMultiplicative
    <3>7. Mul(x, u) = Add(Mul(a, u), Mul(d, u))
      BY <3>4, FrMultiplicative
    <3>8. Mul(d, Add(u, Mul(x, v))) = Add(Mul(d, u), Mul(d, Mul(x, v)))
      BY <3>4, <3>5, FrMultiplicative
    <3>9. Mul(d, Mul(x, v)) = Mul(x, Mul(d, v))
      BY <3>4, FrMultiplicative
    <3>10. Eval(r, x) = Add(r[1], Add(Add(Mul(a, u), Mul(d, u)), Mul(x, Mul(d, v))))
      BY <3>2, <3>3, <3>6, <3>7
    <3>11. Add(Eval(r, a), Mul(d, Eval(q, x)))
             = Add(Add(r[1], Mul(a, u)), Add(Mul(d, u), Mul(x, Mul(d, v))))
      BY <3>2, <3>8, <3>9
    <3>12. Add(r[1], Add(Add(Mul(a, u), Mul(d, u)), Mul(x, Mul(d, v))))
             = Add(Add(r[1], Mul(a, u)), Add(Mul(d, u), Mul(x, Mul(d, v))))
      <4> DEFINE e == Mul(a, u)
                 f == Mul(d, u)
                 g == Mul(x, Mul(d, v))
      <4>1. r[1] \in Fr /\ e \in Fr /\ f \in Fr /\ g \in Fr
        BY <2>1, <3>5
      <4> HIDE DEF e, f, g
      <4>2. Add(Add(e, f), g) = Add(e, Add(f, g)) /\ Add(f, g) \in Fr
        BY <4>1, FrClosed, FrAdditive
      <4>3. Add(r[1], Add(e, Add(f, g))) = Add(Add(r[1], e), Add(f, g))
        BY <4>1, <4>2, FrAdditive
      <4>4. QED
        BY <4>2, <4>3 DEF e, f, g
    <3>13. QED
      BY <3>10, <3>11, <3>12 DEF d
  <2>7. Divides(k + 1, r, q)
    BY <2>5, <2>6
  <2>8. QED
    <3> HIDE DEF Divides
    <3> QED
      BY <2>4, <2>7
<1>3. n - 1 \in S
  <2>1. n - 1 \in Nat
    OBVIOUS
  <2> HIDE DEF S
  <2>2. QED
    BY <1>1, <1>2, <2>1, SetInduction
<1>4. p \in [1..((n - 1) + 1) -> Fr]
  OBVIOUS
<1>5. PICK q \in [1..(n - 1) -> Fr] : Divides(n - 1, p, q)
  <2> HIDE DEF Divides
  <2> QED
    BY <1>3, <1>4
<1>6. QED
  BY <1>5

\* Sum and product of one element more.
LEMMA FoldsAppend ==
    ASSUME NEW k \in Nat, NEW s \in [1..(k + 1) -> Fr], NEW r \in [1..k -> Fr],
           \A i \in 1..k : r[i] = s[i]
    PROVE  /\ FSum(s) = Add(FSum(r), s[k + 1])
           /\ FProd(s) = Mul(FProd(r), s[k + 1])
           /\ s[k + 1] \in Fr
<1>1. k + 1 \in Nat \ {0} /\ (k + 1) - 1 = k
  OBVIOUS
<1>2. r = FrontOf(s, k + 1)
  <2>1. FrontOf(s, k + 1) = [i \in 1..k |-> s[i]]
    BY <1>1 DEF FrontOf
  <2>2. QED
    BY <2>1
<1>3. /\ FSum(s) = Add(FSum(FrontOf(s, k + 1)), s[k + 1])
      /\ FProd(s) = Mul(FProd(FrontOf(s, k + 1)), s[k + 1])
  BY <1>1, FSumLast, FProdLast
<1>4. QED
  BY <1>2, <1>3

\* The product of a polynomial and a - x is a polynomial.
LEMMA TimesLinear ==
    ASSUME NEW k \in Nat, NEW p \in [1..k -> Fr], NEW a \in Fr
    PROVE  \E q \in [1..(k + 1) -> Fr] :
              \A x \in Fr : Eval(q, x) = Mul(Eval(p, x), Sub(a, x))
<1> DEFINE sp == [i \in 1..k |-> Mul(a, p[i])]
           np == [i \in 1..k |-> Mul(Neg(One), p[i])]
           u == [i \in 1..(k + 1) |-> IF i <= k THEN sp[i] ELSE Zero]
           v == [i \in 1..(k + 1) |-> IF i = 1 THEN Zero ELSE np[i - 1]]
           q == [i \in 1..(k + 1) |-> Add(u[i], v[i])]
<1>1. Neg(One) \in Fr /\ Zero \in Fr /\ One \in Fr
  BY FrClosed
<1>2. sp \in [1..k -> Fr] /\ np \in [1..k -> Fr]
  BY <1>1, FrClosed
<1> HIDE DEF sp, np
<1>3. u \in [1..(k + 1) -> Fr]
  BY <1>1, <1>2
<1>4. v \in [1..(k + 1) -> Fr]
  <2>1. \A i \in 1..(k + 1) : i # 1 => i - 1 \in 1..k
    OBVIOUS
  <2>2. QED
    BY <1>1, <1>2, <2>1
<1>5. /\ \A i \in 1..(k + 1) : u[i] = IF i <= k THEN sp[i] ELSE Zero
      /\ v[1] = Zero /\ \A i \in 1..k : np[i] = v[i + 1]
  OBVIOUS
<1> HIDE DEF u, v
<1>6. q \in [1..(k + 1) -> Fr]
  BY <1>3, <1>4, FrClosed
<1>7. ASSUME NEW x \in Fr PROVE Eval(q, x) = Mul(Eval(p, x), Sub(a, x))
  <2> DEFINE e == Eval(p, x)
  <2>0. k + 1 \in Nat /\ k <= k + 1
    OBVIOUS
  <2>1. Eval(q, x) = Add(Eval(u, x), Eval(v, x))
    BY <1>3, <1>4, <2>0, EvalAdd
  <2>2. Eval(u, x) = Eval(sp, x)
    BY <1>2, <1>3, <1>5, <2>0, EvalPad
  <2>3. Eval(sp, x) = Mul(a, e)
    BY EvalScale DEF sp
  <2>4. Eval(np, x) = Mul(Neg(One), e)
    BY <1>1, EvalScale DEF np
  <2>5. Eval(v, x) = Add(Zero, Mul(x, Eval(np, x)))
    BY <1>2, <1>4, <1>5, EvalCons
  <2>6. e \in Fr
    BY FoldTypes
  <2> HIDE DEF e
  <2>7. Mul(Neg(One), e) = Neg(e) /\ Neg(e) \in Fr /\ Mul(x, e) \in Fr /\ Mul(a, e) \in Fr
    <3>1. Mul(One, e) = e
      BY <1>1, <2>6, FrMultiplicative
    <3>2. QED
      BY <1>1, <2>6, <3>1, MulNeg, FrClosed
  <2>8. Add(Zero, Mul(x, Neg(e))) = Mul(e, Neg(x))
    <3>1. Mul(x, Neg(e)) = Neg(Mul(x, e)) /\ Mul(e, Neg(x)) = Neg(Mul(e, x))
      BY <2>6, MulNeg
    <3>2. Mul(x, e) = Mul(e, x) /\ Neg(Mul(x, e)) \in Fr
      BY <2>6, <2>7, FrMultiplicative, FrClosed
    <3>3. QED
      BY <1>1, <3>1, <3>2, FrAdditive
  <2>9. Mul(e, Sub(a, x)) = Add(Mul(e, a), Mul(e, Neg(x)))
    BY <2>6, FrClosed, FrMultiplicative DEF Sub
  <2>10. Mul(e, a) = Mul(a, e)
    BY <2>6, FrMultiplicative
  <2>11. QED
    BY <2>1, <2>2, <2>3, <2>4, <2>5, <2>7, <2>8, <2>9, <2>10 DEF e
<1>8. QED
  <2> HIDE DEF q
  <2> QED
    BY <1>6, <1>7

\* The polynomial that vanishes at given points.
LEMMA Vanishing ==
    ASSUME NEW n \in Nat, NEW xs \in [1..n -> Fr]
    PROVE  \E v \in [1..(n + 1) -> Fr] :
              \A x \in Fr : Eval(v, x) = FProd([m \in 1..n |-> Sub(xs[m], x)])
<1> DEFINE Gaps(k, ys, x) == [m \in 1..k |-> Sub(ys[m], x)]
           S == {k \in Nat : \A ys \in [1..k -> Fr] : \E v \in [1..(k + 1) -> Fr] :
                               \A x \in Fr : Eval(v, x) = FProd(Gaps(k, ys, x))}
<1>1. 0 \in S
  <2> SUFFICES ASSUME NEW ys \in [1..0 -> Fr]
               PROVE  \E v \in [1..(0 + 1) -> Fr] :
                         \A x \in Fr : Eval(v, x) = FProd(Gaps(0, ys, x))
    OBVIOUS
  <2> DEFINE v == [i \in 1..1 |-> One]
  <2>1. v \in [1..1 -> Fr] /\ v[1] = One
    BY FrClosed
  <2>2. ASSUME NEW x \in Fr PROVE Eval(v, x) = FProd(Gaps(0, ys, x))
    <3>1. Gaps(0, ys, x) \in [1..0 -> Fr]
      OBVIOUS
    <3> DEFINE r == RestOf(v, 1)
    <3>2. r \in [1..0 -> Fr] /\ 1 \in Nat \ {0}
      BY DEF RestOf
    <3> HIDE DEF v, Gaps
    <3>3. Eval(v, x) = Add(v[1], Mul(x, Eval(r, x)))
      BY <2>1, <3>2, EvalHead
    <3> HIDE DEF r
    <3>4. Eval(r, x) = Zero
      BY <3>2, EvalEmpty
    <3>5. FProd(Gaps(0, ys, x)) = One
      BY <3>1, FProdEmpty
    <3>6. QED
      BY <2>1, <3>3, <3>4, <3>5, MulZero, FrClosed, FrAdditive
  <2>3. QED
    <3> HIDE DEF v, Gaps
    <3> QED
      BY <2>1, <2>2
<1>2. ASSUME NEW k \in Nat, k \in S PROVE k + 1 \in S
  <2> SUFFICES ASSUME NEW ys \in [1..(k + 1) -> Fr]
               PROVE  \E v \in [1..((k + 1) + 1) -> Fr] :
                         \A x \in Fr : Eval(v, x) = FProd(Gaps(k + 1, ys, x))
    OBVIOUS
  <2> DEFINE zs == FrontOf(ys, k + 1)
             a == ys[k + 1]
  <2>1. zs \in [1..k -> Fr] /\ a \in Fr /\ \A i \in 1..k : zs[i] = ys[i]
    BY DEF FrontOf
  <2> HIDE DEF zs
  <2>2. PICK w \in [1..(k + 1) -> Fr] : \A x \in Fr : Eval(w, x) = FProd(Gaps(k, zs, x))
    <3> HIDE DEF Gaps
    <3> QED
      BY <1>2, <2>1
  <2>3. PICK v \in [1..((k + 1) + 1) -> Fr] : \A x \in Fr : Eval(v, x) = Mul(Eval(w, x), Sub(a, x))
    <3>1. PICK l \in Nat : l = k + 1
      OBVIOUS
    <3>2. w \in [1..l -> Fr]
      BY <3>1
    <3>3. \E q \in [1..(l + 1) -> Fr] : \A x \in Fr : Eval(q, x) = Mul(Eval(w, x), Sub(a, x))
      BY <2>1, <3>2, TimesLinear
    <3>4. QED
      BY <3>1, <3>3
  <2>4. ASSUME NEW x \in Fr PROVE Eval(v, x) = FProd(Gaps(k + 1, ys, x))
    <3>1. /\ Gaps(k + 1, ys, x) \in [1..(k + 1) -> Fr]
          /\ Gaps(k, zs, x) \in [1..k -> Fr]
          /\ \A i \in 1..k : Gaps(k, zs, x)[i] = Gaps(k + 1, ys, x)[i]
          /\ Gaps(k + 1, ys, x)[k + 1] = Sub(a, x)
      BY <2>1, SubFacts
    <3> HIDE DEF Gaps
    <3>2. FProd(Gaps(k + 1, ys, x)) = Mul(FProd(Gaps(k, zs, x)), Sub(a, x))
      BY <3>1, FoldsAppend
    <3>3. QED
      BY <2>2, <2>3, <3>2
  <2>5. QED
    <3> HIDE DEF Gaps
    <3> QED
      BY <2>4
<1>3. n \in S
  <2> HIDE DEF S
  <2> QED
    BY <1>1, <1>2, SetInduction
<1>4. QED
  BY <1>3

\* The sequence s without its element j, for a sequence of n + 1 elements.
Without(s, n, j) == [i \in 1..n |-> IF i < j THEN s[i] ELSE s[i + 1]]

\* A sum splits off any of its elements.
LEMMA FSumWithout ==
    ASSUME NEW n \in Nat, NEW s \in [1..(n + 1) -> Fr], NEW j \in 1..(n + 1)
    PROVE  /\ Without(s, n, j) \in [1..n -> Fr]
           /\ FSum(s) = Add(FSum(Without(s, n, j)), s[j])
<1> DEFINE Good(k) == \A r \in [1..(k + 1) -> Fr], h \in 1..(k + 1) :
                        FSum(r) = Add(FSum(Without(r, k, h)), r[h])
           S == {k \in Nat : Good(k)}
<1>1. \A k \in Nat : \A r \in [1..(k + 1) -> Fr], h \in 1..(k + 1) : Without(r, k, h) \in [1..k -> Fr]
  <2> SUFFICES ASSUME NEW k \in Nat, NEW r \in [1..(k + 1) -> Fr], NEW h \in 1..(k + 1)
               PROVE  Without(r, k, h) \in [1..k -> Fr]
    OBVIOUS
  <2>1. \A i \in 1..k : i \in 1..(k + 1) /\ i + 1 \in 1..(k + 1)
    OBVIOUS
  <2>2. QED
    BY <2>1 DEF Without
<1>2. ASSUME NEW k \in Nat, NEW r \in [1..(k + 1) -> Fr]
      PROVE  FSum(r) = Add(FSum(Without(r, k, k + 1)), r[k + 1])
  <2> DEFINE w == Without(r, k, k + 1)
  <2>1. k + 1 \in 1..(k + 1)
    OBVIOUS
  <2>2. w \in [1..k -> Fr]
    BY <1>1, <2>1
  <2>3. \A i \in 1..k : w[i] = r[i]
    BY DEF Without
  <2> HIDE DEF w
  <2>4. FSum(r) = Add(FSum(w), r[k + 1])
    BY <2>2, <2>3, FoldsAppend
  <2>5. QED
    BY <2>4 DEF w
<1>3. 0 \in S
  <2>1. ASSUME NEW r \in [1..(0 + 1) -> Fr], NEW h \in 1..(0 + 1)
        PROVE  FSum(r) = Add(FSum(Without(r, 0, h)), r[h])
    <3>1. h = 0 + 1
      OBVIOUS
    <3>2. QED
      BY <1>2, <3>1
  <2>2. QED
    BY <2>1
<1>4. ASSUME NEW k \in Nat, k \in S PROVE k + 1 \in S
  <2>1. PICK m \in Nat : m = k + 1
    OBVIOUS
  <2>2. ASSUME NEW r \in [1..(m + 1) -> Fr], NEW h \in 1..(m + 1)
        PROVE  FSum(r) = Add(FSum(Without(r, m, h)), r[h])
    <3>1. CASE h = m + 1
      BY <1>2, <3>1
    <3>2. CASE h # m + 1
      <4> DEFINE f == [i \in 1..m |-> r[i]]
                 w == Without(r, m, h)
                 u == Without(f, k, h)
                 z == r[m + 1]
      <4>1. h \in 1..m /\ h \in 1..(k + 1)
        BY <2>1, <3>2
      <4>2. f \in [1..m -> Fr] /\ f \in [1..(k + 1) -> Fr] /\ \A i \in 1..m : f[i] = r[i]
        BY <2>1
      <4>3. z \in Fr /\ r[h] \in Fr /\ f[h] = r[h]
        BY <4>1
      <4>4. w \in [1..m -> Fr] /\ w \in [1..(k + 1) -> Fr]
        BY <1>1, <2>1
      <4>5. u \in [1..k -> Fr]
        <5> HIDE DEF f
        <5> QED
          BY <1>1, <4>1, <4>2
      <4>6. \A i \in 1..k : u[i] = w[i]
        BY <2>1 DEF Without
      <4>7. w[k + 1] = z
        <5>1. m \in 1..m /\ ~ (m < h)
          BY <2>1, <4>1
        <5>2. w[m] = r[m + 1]
          BY <5>1 DEF Without
        <5>3. QED
          BY <2>1, <5>2
      <4> HIDE DEF f, w, u, z
      <4>8. FSum(r) = Add(FSum(f), z)
        BY <4>2, FoldsAppend DEF z
      <4>9. FSum(f) = Add(FSum(u), r[h])
        BY <1>4, <4>1, <4>2, <4>3 DEF u
      <4>10. FSum(w) = Add(FSum(u), z)
        BY <4>4, <4>5, <4>6, <4>7, FoldsAppend
      <4>11. FSum(u) \in Fr
        BY <4>5, FoldTypes
      <4> DEFINE a == FSum(u)
                 b == r[h]
      <4>12. Add(Add(a, b), z) = Add(Add(a, z), b)
        <5>1. a \in Fr /\ b \in Fr /\ z \in Fr
          BY <4>3, <4>11
        <5> HIDE DEF a, b
        <5>2. Add(b, z) = Add(z, b)
          BY <5>1, FrAdditive
        <5>3. QED
          BY <5>1, <5>2, FrAdditive
      <4>13. QED
        BY <4>8, <4>9, <4>10, <4>12 DEF w
    <3>3. QED
      BY <3>1, <3>2
  <2>3. Good(m)
    BY <2>2
  <2>4. QED
    <3> HIDE DEF Good
    <3> QED
      BY <2>1, <2>3
<1>5. n \in S
  <2> HIDE DEF S
  <2> QED
    BY <1>3, <1>4, SetInduction
<1>6. QED
  BY <1>1, <1>5

\* A sum does not depend on the order of its elements.
LEMMA FSumPermuted ==
    ASSUME NEW n \in Nat, NEW s \in [1..n -> Fr], NEW pi \in [1..n -> 1..n],
           \A i, j \in 1..n : pi[i] = pi[j] => i = j
    PROVE  FSum([i \in 1..n |-> s[pi[i]]]) = FSum(s)
<1> DEFINE Good(k) == \A r \in [1..k -> Fr], p \in [1..k -> 1..k] :
                        (\A i, j \in 1..k : p[i] = p[j] => i = j) =>
                           FSum([i \in 1..k |-> r[p[i]]]) = FSum(r)
           S == {k \in Nat : Good(k)}
<1>1. 0 \in S
  <2>1. ASSUME NEW r \in [1..0 -> Fr], NEW p \in [1..0 -> 1..0]
        PROVE  FSum([i \in 1..0 |-> r[p[i]]]) = FSum(r)
    <3> DEFINE t == [i \in 1..0 |-> r[p[i]]]
    <3>1. t \in [1..0 -> Fr]
      OBVIOUS
    <3>2. FSum(t) = Zero
      <4> HIDE DEF t
      <4> QED
        BY <3>1, FSumEmpty
    <3>3. QED
      BY <3>2, FSumEmpty
  <2>2. QED
    BY <2>1
<1>2. ASSUME NEW k \in Nat, k \in S PROVE k + 1 \in S
  <2>1. PICK m \in Nat : m = k + 1
    OBVIOUS
  <2>2. ASSUME NEW r \in [1..m -> Fr], NEW p \in [1..m -> 1..m],
               \A i, j \in 1..m : p[i] = p[j] => i = j
        PROVE  FSum([i \in 1..m |-> r[p[i]]]) = FSum(r)
    <3> DEFINE h == p[m]
               d == Without(r, k, h)
               q == [i \in 1..k |-> IF p[i] < h THEN p[i] ELSE p[i] - 1]
               f == [i \in 1..k |-> d[q[i]]]
               g == [i \in 1..m |-> r[p[i]]]
    <3>1. m \in 1..m /\ h \in 1..m /\ h \in 1..(k + 1) /\ r \in [1..(k + 1) -> Fr]
      BY <2>1
    <3>2. d \in [1..k -> Fr] /\ FSum(r) = Add(FSum(d), r[h])
      <4> HIDE DEF h
      <4> QED
        BY <3>1, FSumWithout
    <3>3. ASSUME NEW i \in 1..k
          PROVE  i \in 1..m /\ p[i] \in 1..m /\ p[i] # h /\ q[i] \in 1..k /\ d[q[i]] = r[p[i]]
      <4>1. i \in 1..m /\ i # m /\ p[i] \in 1..m
        BY <2>1
      <4>2. p[i] # h
        BY <2>2, <3>1, <4>1
      <4>3. q[i] \in 1..k
        <5>1. \A a, b \in 1..m : a # b => (IF a < b THEN a ELSE a - 1) \in 1..k
          BY <2>1
        <5>2. q[i] = IF p[i] < h THEN p[i] ELSE p[i] - 1
          OBVIOUS
        <5> HIDE DEF h, q
        <5>3. QED
          BY <3>1, <4>1, <4>2, <5>1, <5>2
      <4>4. CASE p[i] < h
        <5>1. q[i] = p[i]
          BY <4>4
        <5> HIDE DEF h, q
        <5>2. QED
          BY <4>1, <4>2, <4>3, <4>4, <5>1 DEF Without
      <4>5. CASE ~ (p[i] < h)
        <5>1. q[i] = p[i] - 1
          BY <4>5
        <5> HIDE DEF h, q
        <5>2. ~ (q[i] < h) /\ q[i] + 1 = p[i]
          <6>1. \A a, b \in 1..m : a # b /\ ~ (a < b) => ~ (a - 1 < b) /\ (a - 1) + 1 = a
            OBVIOUS
          <6>2. PICK e \in 1..m : e = p[i]
            BY <4>1
          <6>3. e # h /\ ~ (e < h) /\ h \in 1..m /\ q[i] = e - 1
            BY <3>1, <4>2, <4>5, <5>1, <6>2
          <6>4. ~ (e - 1 < h) /\ (e - 1) + 1 = e
            BY <6>1, <6>3
          <6>5. QED
            BY <6>2, <6>3, <6>4
        <5>3. d[q[i]] = r[q[i] + 1]
          BY <4>3, <5>2 DEF Without
        <5>4. QED
          BY <4>1, <4>2, <4>3, <5>2, <5>3
      <4>6. QED
        BY <4>4, <4>5
    <3>4. q \in [1..k -> 1..k]
      BY <3>3
    <3>5. ASSUME NEW i \in 1..k, NEW j \in 1..k, q[i] = q[j] PROVE i = j
      <4>1. /\ i \in 1..m /\ p[i] \in 1..m /\ p[i] # h
            /\ j \in 1..m /\ p[j] \in 1..m /\ p[j] # h
        BY <3>3
      <4>2. /\ q[i] = IF p[i] < h THEN p[i] ELSE p[i] - 1
            /\ q[j] = IF p[j] < h THEN p[j] ELSE p[j] - 1
        OBVIOUS
      <4> HIDE DEF q, h
      <4>3. p[i] = p[j]
        <5>1. \A a, b, e \in 1..m :
                a # e /\ b # e /\ (IF a < e THEN a ELSE a - 1) = (IF b < e THEN b ELSE b - 1) => a = b
          OBVIOUS
        <5>2. QED
          BY <3>1, <3>5, <4>1, <4>2, <5>1
      <4>4. QED
        BY <2>2, <4>1, <4>3
    <3>6. FSum(f) = FSum(d)
      <4> HIDE DEF d, q
      <4> QED
        BY <1>2, <3>2, <3>4, <3>5
    <3>7. f \in [1..k -> Fr]
      <4> HIDE DEF d, q
      <4> QED
        BY <3>2, <3>4
    <3>8. g \in [1..(k + 1) -> Fr] /\ g[k + 1] = r[h] /\ \A i \in 1..k : f[i] = g[i]
      <4>1. g \in [1..(k + 1) -> Fr]
        BY <2>1
      <4>2. g[k + 1] = r[h]
        BY <2>1
      <4>3. \A i \in 1..k : f[i] = g[i]
        <5> HIDE DEF d, q
        <5> QED
          BY <2>1, <3>3
      <4>4. QED
        BY <4>1, <4>2, <4>3
    <3> HIDE DEF f, g, d, h
    <3>9. FSum(g) = Add(FSum(f), r[h])
      <4>1. g \in [1..(k + 1) -> Fr] /\ f \in [1..k -> Fr] /\ \A i \in 1..k : f[i] = g[i]
        BY <3>7, <3>8
      <4>2. FSum(g) = Add(FSum(f), g[k + 1])
        BY <4>1, FoldsAppend
      <4>3. QED
        BY <3>8, <4>2
    <3>10. FSum(g) = FSum(r)
      BY <3>2, <3>6, <3>9
    <3>11. QED
      BY <3>10 DEF g
  <2>3. Good(m)
    BY <2>2
  <2>4. QED
    <3> HIDE DEF Good
    <3> QED
      BY <2>1, <2>3
<1>3. n \in S
  <2> HIDE DEF S
  <2> QED
    BY <1>1, <1>2, SetInduction
<1>4. QED
  BY <1>3

\* Sum, coefficient by coefficient, and evaluation commute.
LEMMA EvalSum ==
    ASSUME NEW n \in Nat, NEW k \in Nat, NEW P \in [1..n -> [1..k -> Fr]], NEW x \in Fr
    PROVE  /\ [j \in 1..k |-> FSum([i \in 1..n |-> P[i][j]])] \in [1..k -> Fr]
           /\ Eval([j \in 1..k |-> FSum([i \in 1..n |-> P[i][j]])], x)
                = FSum([i \in 1..n |-> Eval(P[i], x)])
<1> DEFINE Sums(m, Q) == [j \in 1..k |-> FSum([i \in 1..m |-> Q[i][j]])]
           Vals(m, Q) == [i \in 1..m |-> Eval(Q[i], x)]
           Good(m) == \A Q \in [1..m -> [1..k -> Fr]] : Eval(Sums(m, Q), x) = FSum(Vals(m, Q))
           S == {m \in Nat : Good(m)}
<1>1. ASSUME NEW m \in Nat, NEW Q \in [1..m -> [1..k -> Fr]]
      PROVE  /\ \A j \in 1..k : [i \in 1..m |-> Q[i][j]] \in [1..m -> Fr]
             /\ Sums(m, Q) \in [1..k -> Fr] /\ Vals(m, Q) \in [1..m -> Fr]
  <2>1. \A j \in 1..k : [i \in 1..m |-> Q[i][j]] \in [1..m -> Fr]
    OBVIOUS
  <2>2. \A j \in 1..k : FSum([i \in 1..m |-> Q[i][j]]) \in Fr
    BY <2>1, FoldTypes
  <2>3. \A i \in 1..m : Eval(Q[i], x) \in Fr
    BY FoldTypes
  <2>4. QED
    BY <2>1, <2>2, <2>3
<1>2. 0 \in S
  <2> SUFFICES ASSUME NEW Q \in [1..0 -> [1..k -> Fr]]
               PROVE  Eval(Sums(0, Q), x) = FSum(Vals(0, Q))
    OBVIOUS
  <2>1. FSum(Vals(0, Q)) = Zero
    <3>1. Vals(0, Q) \in [1..0 -> Fr]
      BY <1>1
    <3> HIDE DEF Vals
    <3>2. QED
      BY <3>1, FSumEmpty
  <2>2. Sums(0, Q) \in [1..k -> Fr] /\ \A j \in 1..k : Sums(0, Q)[j] = Zero
    <3>1. \A j \in 1..k : FSum([i \in 1..0 |-> Q[i][j]]) = Zero
      BY <1>1, FSumEmpty
    <3>2. QED
      BY <1>1, <3>1
  <2>3. Eval(Sums(0, Q), x) = Zero
    <3> HIDE DEF Sums
    <3> QED
      BY <2>2, EvalZeros
  <2>4. QED
    BY <2>1, <2>3
<1>3. ASSUME NEW m \in Nat, m \in S PROVE m + 1 \in S
  <2> SUFFICES ASSUME NEW Q \in [1..(m + 1) -> [1..k -> Fr]]
               PROVE  Eval(Sums(m + 1, Q), x) = FSum(Vals(m + 1, Q))
    BY SMTT(60)
  <2> DEFINE R == [i \in 1..m |-> Q[i]]
             l == Q[m + 1]
             u == Sums(m, R)
             v == Sums(m + 1, Q)
  <2>1. R \in [1..m -> [1..k -> Fr]] /\ l \in [1..k -> Fr] /\ m + 1 \in Nat
    OBVIOUS
  <2>2. u \in [1..k -> Fr] /\ v \in [1..k -> Fr]
    <3>1. v \in [1..k -> Fr]
      <4> HIDE DEF Sums
      <4> QED
        BY <1>1, <2>1
    <3>2. u \in [1..k -> Fr]
      <4> HIDE DEF Sums, R
      <4> QED
        BY <1>1, <2>1
    <3>3. QED
      BY <3>1, <3>2
  <2>3. ASSUME NEW j \in 1..k PROVE v[j] = Add(u[j], l[j])
    <3> DEFINE a == [i \in 1..(m + 1) |-> Q[i][j]]
               b == [i \in 1..m |-> R[i][j]]
    <3>1. /\ a \in [1..(m + 1) -> Fr] /\ b \in [1..m -> Fr] /\ a[m + 1] = l[j]
          /\ \A i \in 1..m : b[i] = a[i]
      OBVIOUS
    <3>2. v[j] = FSum(a) /\ u[j] = FSum(b)
      OBVIOUS
    <3> HIDE DEF a, b
    <3>3. FSum(a) = Add(FSum(b), a[m + 1])
      BY <3>1, FoldsAppend
    <3>4. QED
      BY <3>1, <3>2, <3>3
  <2>4. v = [j \in 1..k |-> Add(u[j], l[j])]
    <3> HIDE DEF u, l
    <3> QED
      BY <2>2, <2>3
  <2>5. Eval(v, x) = Add(Eval(u, x), Eval(l, x))
    <3> HIDE DEF u, v, l
    <3> QED
      BY <2>1, <2>2, <2>4, EvalAdd
  <2>6. Eval(u, x) = FSum(Vals(m, R))
    <3> HIDE DEF R
    <3> QED
      BY <1>3, <2>1
  <2>7. FSum(Vals(m + 1, Q)) = Add(FSum(Vals(m, R)), Eval(l, x))
    <3> DEFINE a == Vals(m + 1, Q)
               b == Vals(m, R)
    <3>1. a \in [1..(m + 1) -> Fr]
      <4> HIDE DEF Vals
      <4> QED
        BY <1>1, <2>1
    <3>2. b \in [1..m -> Fr]
      <4> HIDE DEF Vals, R
      <4> QED
        BY <1>1, <2>1
    <3>3. a[m + 1] = Eval(l, x) /\ \A i \in 1..m : b[i] = a[i]
      OBVIOUS
    <3> HIDE DEF a, b
    <3>4. FSum(a) = Add(FSum(b), a[m + 1])
      BY <3>1, <3>2, <3>3, FoldsAppend
    <3>5. QED
      BY <3>3, <3>4 DEF a, b
  <2>8. QED
    BY <2>5, <2>6, <2>7
<1>4. n \in S
  <2> HIDE DEF S
  <2> QED
    BY <1>2, <1>3, SetInduction
<1>5. QED
  BY <1>1, <1>4
-----------------------------------------------------------------------------
\* The first n points are pairwise different.
DistinctPoints(xs, n) == \A i, j \in 1..n : xs[i] = xs[j] => i = j

\* One factor of the coefficient of point j at zero.
LagrangeFactor(xs, j, m) ==
    IF xs[j] # xs[m] THEN Div(Sub(xs[m], Zero), Sub(xs[m], xs[j])) ELSE One

\* prepare_combine_simple returns, for point j, the product of its factors.
LEMMA LagrangeForm ==
    ASSUME NEW n \in Nat, NEW xs \in [1..n -> Fr]
    PROVE  /\ \A j, m \in 1..n : LagrangeFactor(xs, j, m) \in Fr
           /\ \A j \in 1..n : [m \in 1..n |-> LagrangeFactor(xs, j, m)] \in [1..n -> Fr]
           /\ PrepareCombineSimple(xs) = [j \in 1..n |-> FProd([m \in 1..n |-> LagrangeFactor(xs, j, m)])]
           /\ PrepareCombineSimple(xs) \in [1..n -> Fr]
<1>1. \A j, m \in 1..n : LagrangeFactor(xs, j, m) \in Fr
  BY FrClosed DEF LagrangeFactor, Div, Sub
<1>2. \A j \in 1..n : [m \in 1..n |-> LagrangeFactor(xs, j, m)] \in [1..n -> Fr]
  BY <1>1
<1>3. PrepareCombineSimple(xs) = [j \in 1..n |-> FProd([m \in 1..n |-> LagrangeFactor(xs, j, m)])]
  BY DEF PrepareCombineSimple, LagrangeBasisAt, LagrangeFactor
<1>4. \A j \in 1..n : FProd([m \in 1..n |-> LagrangeFactor(xs, j, m)]) \in Fr
  BY <1>2, FoldTypes
<1>5. QED
  BY <1>1, <1>2, <1>3, <1>4

\* How the coefficients change with one more point a: (a - x_j) L_j = a M_j for the old
\* points, and the coefficient of a itself.
LEMMA LagrangeAppend ==
    ASSUME NEW n \in Nat, NEW xs \in [1..(n + 1) -> Fr], NEW ys \in [1..n -> Fr],
           DistinctPoints(xs, n + 1), \A i \in 1..n : ys[i] = xs[i]
    PROVE  LET a == xs[n + 1]
               L == PrepareCombineSimple(xs)
               M == PrepareCombineSimple(ys)
           IN  /\ \A j \in 1..n : Mul(Sub(a, ys[j]), L[j]) = Mul(a, M[j])
               /\ Mul(FProd([m \in 1..n |-> Sub(ys[m], a)]), L[n + 1])
                    = FProd([m \in 1..n |-> Sub(ys[m], Zero)])
<1> DEFINE a == xs[n + 1]
           L == PrepareCombineSimple(xs)
           M == PrepareCombineSimple(ys)
           F(j) == [m \in 1..(n + 1) |-> LagrangeFactor(xs, j, m)]
           G(j) == [m \in 1..n |-> LagrangeFactor(ys, j, m)]
<1>1. a \in Fr /\ n + 1 \in Nat /\ Zero \in Fr
  BY FrClosed
<1>2. /\ \A j \in 1..(n + 1) : F(j) \in [1..(n + 1) -> Fr] /\ L[j] = FProd(F(j))
      /\ L \in [1..(n + 1) -> Fr]
  BY <1>1, LagrangeForm
<1>3. /\ \A j \in 1..n : G(j) \in [1..n -> Fr] /\ M[j] = FProd(G(j))
      /\ M \in [1..n -> Fr]
  BY LagrangeForm
<1>4. ASSUME NEW j \in 1..n PROVE Mul(Sub(a, ys[j]), L[j]) = Mul(a, M[j])
  <2>1. \A i \in 1..n : G(j)[i] = F(j)[i]
    BY DEF LagrangeFactor
  <2>2. F(j)[n + 1] = Div(Sub(a, Zero), Sub(a, ys[j])) /\ a # ys[j]
    BY DEF LagrangeFactor, DistinctPoints
  <2> HIDE DEF F, G, L, M
  <2>3. L[j] = Mul(M[j], F(j)[n + 1])
    <3> DEFINE f == F(j)
               g == G(j)
    <3>1. f \in [1..(n + 1) -> Fr] /\ g \in [1..n -> Fr] /\ \A i \in 1..n : g[i] = f[i]
      BY <1>2, <1>3, <2>1
    <3>2. L[j] = FProd(f) /\ M[j] = FProd(g)
      BY <1>2, <1>3
    <3> HIDE DEF f, g
    <3>3. FProd(f) = Mul(FProd(g), f[n + 1])
      BY <3>1, FoldsAppend
    <3>4. QED
      BY <3>2, <3>3 DEF f
  <2> DEFINE d == Sub(a, ys[j])
  <2>4. d \in Fr /\ d # Zero /\ Sub(a, Zero) = a /\ M[j] \in Fr /\ Inv(d) \in Fr
    BY <1>1, <1>3, <2>2, SubFacts, FrClosed
  <2>5. L[j] = Mul(M[j], Mul(a, Inv(d)))
    BY <2>2, <2>3, <2>4 DEF Div
  <2> HIDE DEF d, a
  <2>6. Mul(M[j], Mul(a, Inv(d))) = Mul(Mul(a, M[j]), Inv(d)) /\ Mul(a, M[j]) \in Fr
    <3>1. Mul(M[j], a) = Mul(a, M[j])
      BY <1>1, <2>4, FrMultiplicative
    <3>2. Mul(M[j], Mul(a, Inv(d))) = Mul(Mul(M[j], a), Inv(d))
      BY <1>1, <2>4, FrMultiplicative
    <3>3. QED
      BY <1>1, <2>4, <3>1, <3>2, FrClosed
  <2> DEFINE c == Mul(a, M[j])
  <2>7. Mul(d, Mul(c, Inv(d))) = c
    <3>1. c \in Fr
      BY <2>6
    <3> HIDE DEF c
    <3>2. Mul(d, Mul(c, Inv(d))) = Mul(c, Mul(d, Inv(d)))
      BY <2>4, <3>1, FrMultiplicative
    <3>3. QED
      BY <2>4, <3>1, <3>2, FrMultiplicative
  <2>8. QED
    BY <2>5, <2>6, <2>7 DEF d
<1>5. Mul(FProd([m \in 1..n |-> Sub(ys[m], a)]), L[n + 1])
        = FProd([m \in 1..n |-> Sub(ys[m], Zero)])
  <2> DEFINE below == [m \in 1..n |-> Sub(ys[m], a)]
             above == [m \in 1..n |-> Sub(ys[m], Zero)]
             H == [m \in 1..n |-> LagrangeFactor(xs, n + 1, m)]
  <2>1. n + 1 \in 1..(n + 1) /\ \A m \in 1..n : m \in 1..(n + 1) /\ m # n + 1
    OBVIOUS
  <2>2. below \in [1..n -> Fr] /\ above \in [1..n -> Fr]
    BY <1>1, SubFacts
  <2>3. /\ H \in [1..n -> Fr] /\ \A m \in 1..n : H[m] = F(n + 1)[m]
        /\ F(n + 1)[n + 1] = One
    <3>1. \A m \in 1..n : H[m] = F(n + 1)[m] /\ F(n + 1)[m] \in Fr
      BY <1>2, <2>1
    <3>2. F(n + 1)[n + 1] = One
      BY DEF LagrangeFactor
    <3>3. QED
      BY <3>1, <3>2
  <2>4. ASSUME NEW m \in 1..n PROVE Mul(below[m], H[m]) = above[m]
    <3> DEFINE d == Sub(ys[m], a)
               c == Sub(ys[m], Zero)
    <3>1. H[m] = Div(c, d) /\ ys[m] # a
      BY <2>1 DEF LagrangeFactor, DistinctPoints
    <3>2. d \in Fr /\ d # Zero /\ c \in Fr /\ Inv(d) \in Fr
      BY <1>1, <3>1, SubFacts, FrClosed
    <3>3. H[m] = Mul(c, Inv(d)) /\ below[m] = d /\ above[m] = c
      BY <3>1 DEF Div
    <3> HIDE DEF d, c, H, below, above
    <3>4. Mul(d, Mul(c, Inv(d))) = Mul(c, Mul(d, Inv(d)))
      BY <3>2, FrMultiplicative
    <3>5. QED
      BY <3>2, <3>3, <3>4, FrMultiplicative
  <2>5. above = [m \in 1..n |-> Mul(below[m], H[m])]
    <3> HIDE DEF below, H
    <3> QED
      BY <2>2, <2>4
  <2> HIDE DEF F, L, H, below, above
  <2>6. FProd(above) = Mul(FProd(below), FProd(H))
    BY <2>2, <2>3, <2>5, FProdMul
  <2>7. L[n + 1] = Mul(FProd(H), One) /\ FProd(H) \in Fr
    BY <1>2, <2>1, <2>3, FoldsAppend, FoldTypes
  <2>8. QED
    BY <2>6, <2>7, FrMultiplicative DEF above, below
<1>6. QED
  BY <1>4, <1>5

\* The value the coefficients give a polynomial at zero.
Combined(n, xs, p) == FSum([j \in 1..n |-> Mul(PrepareCombineSimple(xs)[j], Eval(p, xs[j]))])
\* The product of the negated points.
Opposites(n, xs) == FProd([m \in 1..n |-> Neg(xs[m])])

\* p(0) = Combined + leading coefficient * product of the -x_j, for n points and n + 1
\* coefficients.
Remainder(n, xs, p) ==
    Eval(p, Zero) = Add(Combined(n, xs, p), Mul(p[n + 1], Opposites(n, xs)))

\* The terms of the combination, and the combination, are field elements.
LEMMA CombinedType ==
    ASSUME NEW n \in Nat, NEW k \in Nat, NEW xs \in [1..n -> Fr], NEW p \in [1..k -> Fr]
    PROVE  /\ [j \in 1..n |-> Mul(PrepareCombineSimple(xs)[j], Eval(p, xs[j]))] \in [1..n -> Fr]
           /\ Combined(n, xs, p) \in Fr
           /\ [m \in 1..n |-> Neg(xs[m])] \in [1..n -> Fr]
           /\ Opposites(n, xs) \in Fr
<1> DEFINE L == PrepareCombineSimple(xs)
           terms == [j \in 1..n |-> Mul(L[j], Eval(p, xs[j]))]
           opp == [m \in 1..n |-> Neg(xs[m])]
<1>1. L \in [1..n -> Fr]
  BY LagrangeForm
<1>2. \A j \in 1..n : Eval(p, xs[j]) \in Fr
  BY FoldTypes
<1> HIDE DEF L
<1>3. terms \in [1..n -> Fr]
  BY <1>1, <1>2, FrClosed
<1>4. opp \in [1..n -> Fr]
  BY FrClosed
<1>5. FSum(terms) \in Fr /\ FProd(opp) \in Fr
  <2> HIDE DEF terms, opp
  <2> QED
    BY <1>3, <1>4, FoldTypes
<1>6. QED
  BY <1>3, <1>4, <1>5 DEF Combined, Opposites, L

\* The order of the factors does not matter.
LEMMA MulRotate ==
    ASSUME NEW a \in Fr, NEW b \in Fr, NEW c \in Fr
    PROVE  /\ Mul(a, Mul(b, c)) = Mul(b, Mul(a, c))
           /\ Mul(Mul(a, b), c) = Mul(b, Mul(a, c))
<1>1. Mul(a, b) = Mul(b, a)
  BY FrMultiplicative
<1>2. Mul(a, Mul(b, c)) = Mul(Mul(a, b), c)
  BY FrMultiplicative
<1>3. Mul(b, Mul(a, c)) = Mul(Mul(b, a), c)
  BY FrMultiplicative
<1>4. QED
  BY <1>1, <1>2, <1>3

\* The statement below for n points, as a predicate to run the induction over.
Interpolates(n) ==
    \A xs \in [1..n -> Fr], p \in [1..(n + 1) -> Fr] :
        DistinctPoints(xs, n) => Remainder(n, xs, p)

\* From n points to n + 1: the coefficients at zero add up to one.
LEMMA CoefficientsSumToOne ==
    ASSUME NEW n \in Nat, Interpolates(n), NEW xs \in [1..(n + 1) -> Fr], DistinctPoints(xs, n + 1)
    PROVE  FSum(PrepareCombineSimple(xs)) = One
<1> DEFINE a == xs[n + 1]
           ys == [i \in 1..n |-> xs[i]]
           L == PrepareCombineSimple(xs)
           M == PrepareCombineSimple(ys)
<1>1. a \in Fr /\ ys \in [1..n -> Fr] /\ DistinctPoints(ys, n) /\ n + 1 \in Nat /\ Zero \in Fr
  BY FrClosed DEF DistinctPoints
<1>2. \A i \in 1..n : ys[i] = xs[i]
  OBVIOUS
<1>2a. \A i \in 1..n : ys[i] # a
  BY DEF DistinctPoints
<1> HIDE DEF ys
<1>3. L \in [1..(n + 1) -> Fr] /\ M \in [1..n -> Fr]
  BY <1>1, LagrangeForm
<1>4. PICK N \in [1..(n + 1) -> Fr] :
        \A x \in Fr : Eval(N, x) = FProd([m \in 1..n |-> Sub(ys[m], x)])
  BY <1>1, Vanishing
<1> DEFINE Na == Eval(N, a)
           N0 == Eval(N, Zero)
<1>5. /\ \A j \in 1..n : Mul(Sub(a, ys[j]), L[j]) = Mul(a, M[j])
      /\ Mul(Na, L[n + 1]) = N0
  <2>1. /\ \A j \in 1..n : Mul(Sub(a, ys[j]), L[j]) = Mul(a, M[j])
        /\ Mul(FProd([m \in 1..n |-> Sub(ys[m], a)]), L[n + 1])
             = FProd([m \in 1..n |-> Sub(ys[m], Zero)])
    BY <1>1, <1>2, LagrangeAppend
  <2>2. Na = FProd([m \in 1..n |-> Sub(ys[m], a)]) /\ N0 = FProd([m \in 1..n |-> Sub(ys[m], Zero)])
    BY <1>1, <1>4
  <2>3. QED
    BY <2>1, <2>2
<1>6. Na \in Fr /\ N0 \in Fr
  BY <1>1, FoldTypes
<1>7. Na # Zero
  <2> DEFINE f == [m \in 1..n |-> Sub(ys[m], a)]
  <2>1. f \in [1..n -> Fr] /\ \A m \in 1..n : f[m] # Zero
    BY <1>1, <1>2a, SubFacts
  <2>2. Na = FProd(f)
    BY <1>1, <1>4
  <2> HIDE DEF f, Na
  <2>3. QED
    BY <2>1, <2>2, FProdNonzero
<1>8. ASSUME NEW j \in 1..n PROVE Eval(N, ys[j]) = Zero
  <2> DEFINE f == [m \in 1..n |-> Sub(ys[m], ys[j])]
  <2>1. ys[j] \in Fr
    BY <1>1
  <2>2. f \in [1..n -> Fr] /\ f[j] = Zero
    BY <1>1, <2>1, SubFacts
  <2>3. Eval(N, ys[j]) = FProd(f)
    BY <2>1, <1>4
  <2> HIDE DEF f
  <2>4. QED
    BY <2>2, <2>3, FProdNonzero
<1>9. PICK r \in [1..n -> Fr] : \A x \in Fr : Eval(N, x) = Add(Na, Mul(Sub(x, a), Eval(r, x)))
  <2>1. PICK k \in Nat \ {0} : k = n + 1
    OBVIOUS
  <2>2. N \in [1..k -> Fr] /\ k - 1 = n
    BY <2>1
  <2>3. \E q \in [1..(k - 1) -> Fr] :
          \A x \in Fr : Eval(N, x) = Add(Eval(N, a), Mul(Sub(x, a), Eval(q, x)))
    BY ZenonT(90), <1>1, <2>2, Division
  <2>4. QED
    BY <2>2, <2>3
<1> DEFINE R == [i \in 1..(n + 1) |-> IF i <= n THEN r[i] ELSE Zero]
<1>10. R \in [1..(n + 1) -> Fr] /\ R[n + 1] = Zero /\ \A x \in Fr : Eval(R, x) = Eval(r, x)
  <2>1. R \in [1..(n + 1) -> Fr] /\ \A i \in 1..(n + 1) : R[i] = IF i <= n THEN r[i] ELSE Zero
    BY <1>1
  <2>2. R[n + 1] = Zero
    OBVIOUS
  <2> HIDE DEF R
  <2>3. \A x \in Fr : Eval(R, x) = Eval(r, x)
    BY <1>1, <2>1, EvalPad
  <2>4. QED
    BY <2>1, <2>2, <2>3
<1> HIDE DEF R
<1> DEFINE R0 == Eval(R, Zero)
<1>11. R0 \in Fr /\ \A x \in Fr : Eval(R, x) \in Fr
  BY <1>1, <1>10, FoldTypes
<1>12. R0 = Combined(n, ys, R)
  <2>1. Remainder(n, ys, R)
    BY <1>1, <1>10 DEF Interpolates
  <2>2. Combined(n, ys, R) \in Fr /\ Opposites(n, ys) \in Fr
    BY <1>1, <1>10, CombinedType
  <2>3. R0 = Add(Combined(n, ys, R), Mul(Zero, Opposites(n, ys)))
    BY <1>10, <2>1 DEF Remainder
  <2>4. QED
    BY <2>2, <2>3, MulZero, FrAdditive
<1>13. ASSUME NEW j \in 1..n PROVE Mul(Na, L[j]) = Mul(a, Mul(M[j], Eval(R, ys[j])))
  <2> DEFINE d == Sub(a, ys[j])
             e == Sub(ys[j], a)
             z == Eval(R, ys[j])
  <2>1. ys[j] \in Fr /\ L[j] \in Fr /\ M[j] \in Fr
    BY <1>1, <1>3
  <2>2. d \in Fr /\ e \in Fr /\ e = Neg(d) /\ z \in Fr
    BY <1>1, <1>11, <2>1, SubFacts
  <2>3. Zero = Add(Na, Mul(e, z))
    BY <1>8, <1>9, <1>10, <2>1
  <2> HIDE DEF d, e, z, Na, L, M, a
  <2>4. Na = Mul(d, z)
    <3>1. Mul(e, z) = Neg(Mul(d, z)) /\ Mul(d, z) \in Fr
      BY <2>2, MulNeg, FrClosed
    <3>2. Add(Mul(d, z), Neg(Mul(d, z))) = Zero
      BY <3>1, FrAdditive
    <3>3. Add(Na, Neg(Mul(d, z))) = Zero /\ Neg(Mul(d, z)) \in Fr
      BY <2>3, <3>1, FrClosed
    <3>4. Add(Neg(Mul(d, z)), Na) = Add(Neg(Mul(d, z)), Mul(d, z))
      BY <1>6, <3>1, <3>2, <3>3, FrAdditive
    <3>5. QED
      BY <1>6, <3>1, <3>3, <3>4, AddCancel
  <2>5. Mul(d, L[j]) = Mul(a, M[j])
    BY <1>5 DEF d
  <2>6. Mul(Mul(d, z), L[j]) = Mul(z, Mul(d, L[j]))
    BY <2>1, <2>2, MulRotate
  <2>7. Mul(z, Mul(a, M[j])) = Mul(a, Mul(z, M[j]))
    BY <1>1, <2>1, <2>2, MulRotate
  <2>7a. Mul(z, M[j]) = Mul(M[j], z)
    BY <2>1, <2>2, FrMultiplicative
  <2>8. QED
    BY <2>4, <2>5, <2>6, <2>7, <2>7a DEF z
<1> DEFINE s == [j \in 1..(n + 1) |-> Mul(Na, L[j])]
           t == [j \in 1..n |-> Mul(M[j], Eval(R, ys[j]))]
           u == [j \in 1..n |-> Mul(a, t[j])]
<1>14. t \in [1..n -> Fr] /\ FSum(t) = R0 /\ u \in [1..n -> Fr]
  <2>1. t \in [1..n -> Fr]
    <3>1. \A j \in 1..n : M[j] \in Fr /\ Eval(R, ys[j]) \in Fr
      BY <1>1, <1>3, <1>11
    <3> HIDE DEF M
    <3>2. QED
      BY <3>1, FrClosed
  <2>2. FSum(t) = R0
    BY <1>12 DEF Combined
  <2> HIDE DEF t
  <2>3. u \in [1..n -> Fr]
    BY <1>1, <2>1, FrClosed
  <2>4. QED
    BY <2>1, <2>2, <2>3
<1>15. s \in [1..(n + 1) -> Fr] /\ s[n + 1] = N0 /\ \A j \in 1..n : u[j] = s[j]
  <2> HIDE DEF Na, L, M
  <2>1. s \in [1..(n + 1) -> Fr]
    BY <1>3, <1>6, FrClosed
  <2>2. s[n + 1] = N0
    BY <1>5
  <2>3. \A j \in 1..n : u[j] = s[j]
    BY <1>13
  <2>4. QED
    BY <2>1, <2>2, <2>3
<1>16. FSum(u) = Mul(a, R0)
  <2> HIDE DEF t
  <2>1. QED
    BY <1>1, <1>14, FSumScale
<1>17. FSum(s) = Mul(Na, FSum(L)) /\ FSum(L) \in Fr
  <2> HIDE DEF L, Na
  <2>1. QED
    BY <1>1, <1>3, <1>6, FSumScale, FoldTypes
<1>18. FSum(s) = Add(Mul(a, R0), N0)
  <2> HIDE DEF s, u
  <2>1. QED
    BY <1>14, <1>15, <1>16, FoldsAppend
<1>19. N0 = Add(Na, Mul(Neg(a), R0))
  <2>1. N0 = Add(Na, Mul(Sub(Zero, a), R0))
    BY <1>1, <1>9, <1>10
  <2>2. Sub(Zero, a) = Neg(a)
    BY <1>1, FrAdditive, FrClosed DEF Sub
  <2>3. QED
    BY <2>1, <2>2
<1>20. Add(Mul(a, R0), N0) = Na
  <2> HIDE DEF Na, N0, R0, a
  <2> DEFINE w == Mul(a, R0)
  <2>1. w \in Fr /\ Mul(Neg(a), R0) = Neg(w) /\ Neg(w) \in Fr
    BY <1>1, <1>11, MulNeg, FrClosed
  <2> HIDE DEF w
  <2>2. Add(w, Add(Na, Neg(w))) = Add(Add(w, Neg(w)), Na)
    BY <1>6, <2>1, FrAdditive
  <2>3. Add(Add(w, Neg(w)), Na) = Na
    BY <1>1, <1>6, <2>1, FrAdditive
  <2>4. QED
    BY <1>19, <2>1, <2>2, <2>3 DEF w
<1>21. Mul(Na, FSum(L)) = Mul(Na, One) /\ One \in Fr
  BY <1>6, <1>17, <1>18, <1>20, FrMultiplicative, FrClosed
<1>22. QED
  <2> HIDE DEF Na, L
  <2> QED
    BY <1>6, <1>7, <1>17, <1>21, MulCancel DEF L

\* No points: the combination is zero and the polynomial is its constant.
LEMMA InterpolatesBase == Interpolates(0)
<1> SUFFICES ASSUME NEW xs \in [1..0 -> Fr], NEW p \in [1..1 -> Fr]
             PROVE  Remainder(0, xs, p)
  <2>1. 0 + 1 = 1
    OBVIOUS
  <2>2. QED
    BY <2>1 DEF Interpolates
<1> DEFINE c == [j \in 1..0 |-> Mul(PrepareCombineSimple(xs)[j], Eval(p, xs[j]))]
           o == [m \in 1..0 |-> Neg(xs[m])]
<1>1. c \in [1..0 -> Fr] /\ o \in [1..0 -> Fr]
  BY CombinedType
<1>2. FSum(c) = Zero /\ FProd(o) = One
  <2> HIDE DEF c, o
  <2> QED
    BY <1>1, FSumEmpty, FProdEmpty
<1>3. Combined(0, xs, p) = Zero /\ Opposites(0, xs) = One
  BY <1>2 DEF Combined, Opposites
<1>4. Eval(p, Zero) = p[1] /\ p[1] \in Fr /\ p[0 + 1] = p[1]
  <2>1. 1 \in Nat \ {0} /\ 0 + 1 = 1 /\ 1 \in 1..1
    OBVIOUS
  <2>2. Eval(p, Zero) = p[1]
    BY <2>1, EvalAtZero
  <2>3. QED
    BY <2>1, <2>2
<1>5. Add(Zero, Mul(p[1], One)) = p[1]
  BY <1>4, FrAdditive, FrMultiplicative, FrClosed
<1>6. QED
  BY <1>3, <1>4, <1>5 DEF Remainder

\* From n points to n + 1: divide p by (x - a) for the new point a; the constant
\* remainder p(a) is weighted with one, the quotient with the coefficients of n points.
LEMMA InterpolatesStep ==
    ASSUME NEW n \in Nat, Interpolates(n)
    PROVE  Interpolates(n + 1)
<1> SUFFICES ASSUME NEW xs \in [1..(n + 1) -> Fr], NEW p \in [1..((n + 1) + 1) -> Fr],
                    DistinctPoints(xs, n + 1)
             PROVE  Remainder(n + 1, xs, p)
  BY DEF Interpolates
<1> DEFINE a == xs[n + 1]
           ys == [i \in 1..n |-> xs[i]]
           L == PrepareCombineSimple(xs)
           M == PrepareCombineSimple(ys)
           pa == Eval(p, a)
<1>1. /\ a \in Fr /\ ys \in [1..n -> Fr] /\ DistinctPoints(ys, n) /\ n + 1 \in Nat /\ Zero \in Fr
      /\ Neg(a) \in Fr
  BY FrClosed DEF DistinctPoints
<1>2. \A i \in 1..n : ys[i] = xs[i]
  OBVIOUS
<1> HIDE DEF ys
<1>3. L \in [1..(n + 1) -> Fr] /\ M \in [1..n -> Fr]
  BY <1>1, LagrangeForm
<1>4. \A j \in 1..n : Mul(Sub(a, ys[j]), L[j]) = Mul(a, M[j])
  BY <1>1, <1>2, LagrangeAppend
<1>5. PICK q \in [1..(n + 1) -> Fr] :
        /\ q[n + 1] = p[(n + 1) + 1]
        /\ \A x \in Fr : Eval(p, x) = Add(pa, Mul(Sub(x, a), Eval(q, x)))
  <2>1. PICK k \in Nat \ {0} : k = (n + 1) + 1
    OBVIOUS
  <2>2. p \in [1..k -> Fr] /\ k - 1 = n + 1 /\ k > 1
    BY <2>1
  <2>3. \E q \in [1..(k - 1) -> Fr] :
          /\ q[k - 1] = p[k]
          /\ \A x \in Fr : Eval(p, x) = Add(Eval(p, a), Mul(Sub(x, a), Eval(q, x)))
    BY <1>1, <2>2, Division
  <2>4. QED
    BY <2>1, <2>2, <2>3
<1>6. pa \in Fr /\ \A x \in Fr : Eval(q, x) \in Fr /\ Eval(p, x) \in Fr
  <2>1. PICK k \in Nat : k = (n + 1) + 1
    OBVIOUS
  <2>2. p \in [1..k -> Fr]
    BY <2>1
  <2>3. QED
    BY <1>1, <2>2, FoldTypes
<1> DEFINE t == [j \in 1..n |-> Mul(M[j], Eval(q, ys[j]))]
           u == [j \in 1..(n + 1) |-> Mul(pa, L[j])]
           w == [j \in 1..n |-> Mul(Neg(a), t[j])]
           v == [j \in 1..(n + 1) |-> IF j <= n THEN w[j] ELSE Zero]
           c == [j \in 1..(n + 1) |-> Mul(L[j], Eval(p, xs[j]))]
           cq == Combined(n, ys, q)
<1>7. t \in [1..n -> Fr] /\ FSum(t) = cq /\ cq \in Fr /\ Opposites(n, ys) \in Fr
  <2>1. t \in [1..n -> Fr]
    <3>1. \A j \in 1..n : M[j] \in Fr /\ Eval(q, ys[j]) \in Fr
      BY <1>1, <1>3, <1>6
    <3> HIDE DEF M
    <3>2. QED
      BY <3>1, FrClosed
  <2>2. cq \in Fr /\ Opposites(n, ys) \in Fr
    BY <1>1, CombinedType
  <2>3. FSum(t) = cq
    BY DEF Combined
  <2>4. QED
    BY <2>1, <2>2, <2>3
<1>8. w \in [1..n -> Fr] /\ FSum(w) = Mul(Neg(a), cq)
  <2> HIDE DEF t, cq
  <2>1. w \in [1..n -> Fr]
    BY <1>1, <1>7, FrClosed
  <2>2. QED
    BY <1>1, <1>7, <2>1, FSumScale
<1>9. v \in [1..(n + 1) -> Fr] /\ FSum(v) = Mul(Neg(a), cq)
  <2> HIDE DEF w, cq
  <2>1. /\ v \in [1..(n + 1) -> Fr] /\ \A j \in 1..n : w[j] = v[j]
        /\ v[n + 1] = Zero
    BY <1>1, <1>8
  <2> HIDE DEF v
  <2>2. FSum(v) = Add(Mul(Neg(a), cq), Zero) /\ Mul(Neg(a), cq) \in Fr
    BY <1>1, <1>7, <1>8, <2>1, FoldsAppend, FrClosed
  <2>3. QED
    BY <2>1, <2>2, FrAdditive
<1>10. u \in [1..(n + 1) -> Fr] /\ FSum(u) = pa
  <2> HIDE DEF L, pa
  <2>1. u \in [1..(n + 1) -> Fr]
    BY <1>3, <1>6, FrClosed
  <2>2. FSum(u) = Mul(pa, FSum(L))
    BY <1>1, <1>3, <1>6, FSumScale
  <2>3. FSum(L) = One
    BY CoefficientsSumToOne DEF L
  <2>4. QED
    BY <1>6, <2>1, <2>2, <2>3, FrMultiplicative
<1>11. ASSUME NEW j \in 1..(n + 1) PROVE c[j] = Add(u[j], v[j])
  <2>1. xs[j] \in Fr /\ L[j] \in Fr /\ c[j] = Mul(L[j], Eval(p, xs[j])) /\ u[j] = Mul(pa, L[j])
    BY <1>3
  <2>2. Mul(L[j], pa) = Mul(pa, L[j]) /\ Mul(pa, L[j]) \in Fr
    <3> HIDE DEF L, pa
    <3> QED
      BY <1>6, <2>1, FrMultiplicative, FrClosed
  <2>3. CASE j = n + 1
    <3>1. Eval(p, xs[j]) = pa /\ v[j] = Zero
      BY <2>3
    <3>2. QED
      <4> HIDE DEF c, u, v, L, pa
      <4> QED
        BY <2>1, <2>2, <3>1, FrAdditive
  <2>4. CASE j \in 1..n
    <3> DEFINE d == Sub(a, ys[j])
               e == Sub(ys[j], a)
               z == Eval(q, ys[j])
    <3>1. ys[j] \in Fr /\ ys[j] = xs[j] /\ M[j] \in Fr
      BY <1>1, <1>2, <1>3, <2>4
    <3>2. d \in Fr /\ e \in Fr /\ e = Neg(d) /\ z \in Fr
      BY <1>1, <1>6, <3>1, SubFacts
    <3>3. Eval(p, xs[j]) = Add(pa, Mul(e, z))
      BY <1>5, <3>1
    <3>4. v[j] = Mul(Neg(a), Mul(M[j], z))
      BY <2>4
    <3>5. Mul(d, L[j]) = Mul(a, M[j])
      BY <1>4, <2>4
    <3> HIDE DEF d, e, z, pa, L, M, a, c, u, v
    <3>6. Mul(L[j], Add(pa, Mul(e, z))) = Add(Mul(L[j], pa), Mul(L[j], Mul(e, z)))
      <4>1. Mul(e, z) \in Fr
        BY <3>2, FrClosed
      <4>2. QED
        BY <1>6, <2>1, <4>1, FrMultiplicative
    <3>7. Mul(L[j], Mul(e, z)) = Mul(Neg(a), Mul(M[j], z))
      <4>1. Mul(L[j], Mul(e, z)) = Mul(e, Mul(L[j], z)) /\ Mul(e, Mul(L[j], z)) = Mul(Mul(e, L[j]), z)
        BY <2>1, <3>2, MulRotate, FrMultiplicative
      <4>2. Mul(e, L[j]) = Neg(Mul(d, L[j]))
        BY <2>1, <3>2, MulNeg
      <4>3. Mul(Neg(a), M[j]) = Neg(Mul(a, M[j]))
        BY <1>1, <3>1, MulNeg
      <4>4. Mul(Mul(Neg(a), M[j]), z) = Mul(Neg(a), Mul(M[j], z))
        <5> DEFINE b == Neg(a)
                   k == M[j]
        <5>1. b \in Fr /\ k \in Fr
          BY <1>1, <3>1
        <5> HIDE DEF b, k
        <5>2. Mul(Mul(b, k), z) = Mul(b, Mul(k, z))
          BY <3>2, <5>1, FrMultiplicative
        <5>3. QED
          BY <5>2 DEF b, k
      <4>5. QED
        BY <3>5, <4>1, <4>2, <4>3, <4>4
    <3>8. QED
      BY <2>1, <2>2, <3>3, <3>4, <3>6, <3>7
  <2>5. QED
    BY <2>3, <2>4
<1>12. c = [j \in 1..(n + 1) |-> Add(u[j], v[j])]
  <2> HIDE DEF u, v
  <2> QED
    BY <1>11
<1>13. FSum(c) = Add(pa, Mul(Neg(a), cq))
  <2> HIDE DEF u, v, c, pa, cq
  <2>1. FSum(c) = Add(FSum(u), FSum(v))
    BY <1>1, <1>9, <1>10, <1>12, FSumAdd
  <2>2. QED
    BY <2>1, <1>9, <1>10
<1>14. Combined(n + 1, xs, p) = Add(pa, Mul(Neg(a), cq))
  BY <1>13 DEF Combined
<1>15. Opposites(n + 1, xs) = Mul(Opposites(n, ys), Neg(a))
  <2> DEFINE f == [m \in 1..(n + 1) |-> Neg(xs[m])]
             g == [m \in 1..n |-> Neg(ys[m])]
  <2>1. /\ f \in [1..(n + 1) -> Fr] /\ g \in [1..n -> Fr] /\ f[n + 1] = Neg(a)
        /\ \A i \in 1..n : g[i] = f[i]
    BY <1>1, <1>2, FrClosed
  <2>2. FProd(f) = Mul(FProd(g), f[n + 1])
    <3> HIDE DEF f, g
    <3> QED
      BY <2>1, FoldsAppend
  <2>3. QED
    BY <2>1, <2>2 DEF Opposites
<1>16. Eval(q, Zero) = Add(cq, Mul(q[n + 1], Opposites(n, ys)))
  BY <1>1 DEF Interpolates, Remainder
<1>17. Eval(p, Zero) = Add(pa, Mul(Neg(a), Eval(q, Zero)))
  <2>1. Sub(Zero, a) = Neg(a)
    BY <1>1, FrAdditive, FrClosed DEF Sub
  <2>2. QED
    BY <1>1, <1>5, <2>1
<1>18. QED
  <2> DEFINE o == Opposites(n, ys)
             l == q[n + 1]
             b == Neg(a)
  <2>1. o \in Fr /\ l \in Fr /\ b \in Fr /\ cq \in Fr /\ pa \in Fr /\ Mul(l, o) \in Fr
    BY <1>1, <1>6, <1>7, FrClosed
  <2>2. /\ Eval(p, Zero) = Add(pa, Mul(b, Add(cq, Mul(l, o))))
        /\ Combined(n + 1, xs, p) = Add(pa, Mul(b, cq))
        /\ Opposites(n + 1, xs) = Mul(o, b)
        /\ p[(n + 1) + 1] = l
    BY <1>5, <1>14, <1>15, <1>16, <1>17
  <2> HIDE DEF o, l, b, cq, pa
  <2>3. Mul(b, Add(cq, Mul(l, o))) = Add(Mul(b, cq), Mul(b, Mul(l, o)))
    BY <2>1, FrMultiplicative
  <2>4. Mul(b, Mul(l, o)) = Mul(l, Mul(o, b))
    <3>1. Mul(b, Mul(l, o)) = Mul(l, Mul(b, o))
      BY <2>1, MulRotate
    <3>2. Mul(b, o) = Mul(o, b)
      BY <2>1, FrMultiplicative
    <3>3. QED
      BY <3>1, <3>2
  <2>5. Add(pa, Add(Mul(b, cq), Mul(b, Mul(l, o)))) = Add(Add(pa, Mul(b, cq)), Mul(b, Mul(l, o)))
    <3>1. Mul(b, cq) \in Fr /\ Mul(b, Mul(l, o)) \in Fr
      BY <2>1, FrClosed
    <3>2. QED
      BY <2>1, <3>1, FrAdditive
  <2>6. QED
    BY <2>2, <2>3, <2>4, <2>5 DEF Remainder

\* For every field and any number of distinct points.
LEMMA InterpolationRemainder == \A n \in Nat : Interpolates(n)
<1> DEFINE S == {n \in Nat : Interpolates(n)}
<1>1. 0 \in S
  BY InterpolatesBase
<1>2. \A n \in Nat : n \in S => n + 1 \in S
  BY InterpolatesStep
<1>3. \A n \in Nat : n \in S
  <2> HIDE DEF S
  <2> QED
    BY <1>1, <1>2, SetInduction
<1>4. QED
  BY <1>3

\* Any t distinct points give the value at zero of a polynomial of t coefficients.
LEMMA Interpolation ==
    ASSUME NEW t \in Nat, NEW xs \in [1..t -> Fr], DistinctPoints(xs, t), NEW p \in [1..t -> Fr]
    PROVE  Combined(t, xs, p) = Eval(p, Zero)
<1> DEFINE q == [i \in 1..(t + 1) |-> IF i <= t THEN p[i] ELSE Zero]
<1>1. q \in [1..(t + 1) -> Fr] /\ q[t + 1] = Zero
  BY FrClosed
<1>2. \A x \in Fr : Eval(q, x) = Eval(p, x)
  <2>1. \A i \in 1..(t + 1) : q[i] = IF i <= t THEN p[i] ELSE Zero
    OBVIOUS
  <2> HIDE DEF q
  <2>2. QED
    BY <1>1, <2>1, EvalPad
<1> HIDE DEF q
<1>3. Remainder(t, xs, q)
  BY <1>1, InterpolationRemainder DEF Interpolates
<1>4. Combined(t, xs, q) = Combined(t, xs, p)
  BY <1>2 DEF Combined
<1>5. Combined(t, xs, q) \in Fr /\ Opposites(t, xs) \in Fr
  BY <1>1, CombinedType
<1>6. Eval(q, Zero) = Add(Combined(t, xs, q), Mul(Zero, Opposites(t, xs)))
  BY <1>1, <1>3 DEF Remainder
<1>7. Eval(q, Zero) = Combined(t, xs, q)
  BY <1>5, <1>6, MulZero, FrAdditive
<1>8. QED
  BY <1>2, <1>4, <1>7, FrClosed

\* One point too few never gives it, when the leading coefficient and the points are not zero.
LEMMA OnePointShort ==
    ASSUME NEW t \in Nat, NEW xs \in [1..t -> Fr], DistinctPoints(xs, t), NEW p \in [1..(t + 1) -> Fr],
           \A i \in 1..t : xs[i] # Zero, p[t + 1] # Zero
    PROVE  Combined(t, xs, p) # Eval(p, Zero)
<1> DEFINE c == Combined(t, xs, p)
           o == [m \in 1..t |-> Neg(xs[m])]
           r == Mul(p[t + 1], Opposites(t, xs))
<1>1. c \in Fr /\ o \in [1..t -> Fr] /\ Opposites(t, xs) \in Fr /\ p[t + 1] \in Fr
  BY CombinedType
<1>2. \A i \in 1..t : o[i] # Zero
  BY NegFacts
<1>3. Opposites(t, xs) # Zero
  <2>1. FProd(o) # Zero
    <3> HIDE DEF o
    <3> QED
      BY <1>1, <1>2, FProdNonzero
  <2>2. QED
    BY <2>1 DEF Opposites
<1>4. r \in Fr /\ r # Zero
  BY <1>1, <1>3, NoZeroDivisors, FrClosed
<1>5. Eval(p, Zero) = Add(c, r)
  BY InterpolationRemainder DEF Interpolates, Remainder
<1> HIDE DEF c, r
<1>6. Add(c, r) # Add(c, Zero)
  BY <1>1, <1>4, AddCancel, FrClosed
<1>7. Add(c, Zero) = c
  BY <1>1, FrAdditive
<1>8. QED
  BY <1>5, <1>6, <1>7 DEF c
=============================================================================
