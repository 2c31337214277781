--------------------------- MODULE PolynomialProofs ---------------------------
(***************************************************************************)
(* The polynomial arithmetic of Subproduct, for every field and every      *)
(* length.  A polynomial is a power series that ends (Ser), PolyMul is their *)
(* convolution (Conv), and everything else is algebra of series: Newton's  *)
(* step doubles the coefficients of an inverse that are right, a division is *)
(* a product with the inverse of the reversed divisor, and values respect  *)
(* sums and products.                                                      *)
(***************************************************************************)
EXTENDS Subproduct, AlgebraProofs

-----------------------------------------------------------------------------
\* Power series over Fr, and their ring.
Series == [Nat -> Fr]
SAdd(p, q) == [n \in Nat |-> Add(p[n], q[n])]
SSub(p, q) == [n \in Nat |-> Sub(p[n], q[n])]
SScale(c, p) == [n \in Nat |-> Mul(c, p[n])]
SOne == [n \in Nat |-> IF n = 0 THEN One ELSE Zero]
STail(p) == [n \in Nat |-> p[n + 1]]
ConvTerms(p, q, n) == [i \in 1..(n + 1) |-> Mul(p[i - 1], q[n + 1 - i])]
Conv(p, q) == [n \in Nat |-> FSum(ConvTerms(p, q, n))]

\* The operations on series return series.
LEMMA SeriesTypes ==
    ASSUME NEW p \in Series, NEW q \in Series, NEW c \in Fr
    PROVE  /\ SAdd(p, q) \in Series /\ SSub(p, q) \in Series /\ SScale(c, p) \in Series
           /\ STail(p) \in Series /\ SOne \in Series
<1>1. \A n \in Nat : p[n] \in Fr /\ q[n] \in Fr
  BY DEF Series
<1>2. \A n \in Nat : Add(p[n], q[n]) \in Fr /\ Mul(c, p[n]) \in Fr
  BY <1>1, FrClosed
<1>3. \A n \in Nat : Sub(p[n], q[n]) \in Fr
  BY <1>1, SubFacts
<1>4. \A n \in Nat : p[n + 1] \in Fr
  BY <1>1
<1>5. SOne \in Series
  BY FrClosed DEF SOne, Series
<1>6. QED
  BY <1>2, <1>3, <1>4, <1>5 DEF SAdd, SSub, SScale, STail, Series

\* The terms of a coefficient of a product.
LEMMA ConvTermsType ==
    ASSUME NEW p \in Series, NEW q \in Series, NEW n \in Nat
    PROVE  ConvTerms(p, q, n) \in [1..(n + 1) -> Fr]
<1>1. ASSUME NEW i \in 1..(n + 1)
      PROVE  Mul(p[i - 1], q[n + 1 - i]) \in Fr
  <2>1. i - 1 \in Nat /\ n + 1 - i \in Nat
    OBVIOUS
  <2>2. p[i - 1] \in Fr /\ q[n + 1 - i] \in Fr
    BY <2>1 DEF Series
  <2>3. QED
    BY <2>2, FrClosed
<1>2. QED
  BY <1>1 DEF ConvTerms

\* A product of series is a series.
LEMMA ConvType ==
    ASSUME NEW p \in Series, NEW q \in Series
    PROVE  /\ Conv(p, q) \in Series
           /\ \A n \in Nat : Conv(p, q)[n] = FSum(ConvTerms(p, q, n))
<1>1. ASSUME NEW n \in Nat
      PROVE  FSum(ConvTerms(p, q, n)) \in Fr
  <2>1. n + 1 \in Nat /\ ConvTerms(p, q, n) \in [1..(n + 1) -> Fr]
    BY ConvTermsType
  <2>2. QED
    BY <2>1, FoldTypes
<1>2. QED
  BY <1>1 DEF Conv, Series

\* Products of series commute.
LEMMA ConvComm ==
    ASSUME NEW p \in Series, NEW q \in Series
    PROVE  Conv(p, q) = Conv(q, p)
<1>1. ASSUME NEW n \in Nat
      PROVE  FSum(ConvTerms(p, q, n)) = FSum(ConvTerms(q, p, n))
  <2> DEFINE s == ConvTerms(p, q, n)
             m == n + 1
             pi == [i \in 1..m |-> m + 1 - i]
  <2>1. m \in Nat /\ s \in [1..m -> Fr]
    BY ConvTermsType
  <2>2. pi \in [1..m -> 1..m] /\ \A i, j \in 1..m : pi[i] = pi[j] => i = j
    OBVIOUS
  <2>3. FSum([i \in 1..m |-> s[pi[i]]]) = FSum(s)
    <3> HIDE DEF s, m, pi
    <3> QED
      BY <2>1, <2>2, FSumPermuted
  <2>4. ASSUME NEW i \in 1..m
        PROVE  s[pi[i]] = Mul(q[i - 1], p[n + 1 - i])
    <3>1. pi[i] \in 1..(n + 1) /\ pi[i] - 1 = n + 1 - i /\ n + 1 - pi[i] = i - 1
      OBVIOUS
    <3>2. s[pi[i]] = Mul(p[pi[i] - 1], q[n + 1 - pi[i]])
      <4> HIDE DEF pi
      <4> QED
        BY <3>1 DEF ConvTerms
    <3>3. p[n + 1 - i] \in Fr /\ q[i - 1] \in Fr
      <4>1. n + 1 - i \in Nat /\ i - 1 \in Nat
        OBVIOUS
      <4>2. QED
        BY <4>1 DEF Series
    <3>4. QED
      BY <3>1, <3>2, <3>3, FrMultiplicative
  <2>5. [i \in 1..m |-> s[pi[i]]] = ConvTerms(q, p, n)
    <3> HIDE DEF s, pi
    <3> QED
      BY <2>4 DEF ConvTerms
  <2>6. QED
    BY <2>3, <2>5
<1>2. QED
  BY <1>1 DEF Conv

\* The first coefficient of a product, and the others from either tail.
LEMMA ConvStep ==
    ASSUME NEW p \in Series, NEW q \in Series
    PROVE  /\ Conv(p, q)[0] = Mul(p[0], q[0])
           /\ \A n \in Nat :
                /\ Conv(p, q)[n + 1] = Add(Conv(p, STail(q))[n], Mul(p[n + 1], q[0]))
                /\ Conv(p, q)[n + 1] = Add(Mul(p[0], q[n + 1]), Conv(STail(p), q)[n])
<1>1. Conv(p, q)[0] = Mul(p[0], q[0])
  <2> DEFINE s == ConvTerms(p, q, 0)
             r == [i \in 1..0 |-> Zero]
  <2>1. s \in [1..(0 + 1) -> Fr] /\ s[0 + 1] = Mul(p[0], q[0]) /\ Mul(p[0], q[0]) \in Fr
    <3>1. s \in [1..(0 + 1) -> Fr]
      BY ConvTermsType
    <3>2. s[0 + 1] = Mul(p[0], q[0])
      BY DEF ConvTerms
    <3>3. QED
      BY <3>1, <3>2
  <2>2. r \in [1..0 -> Fr] /\ FSum(r) = Zero
    <3>1. r \in [1..0 -> Fr]
      BY FrClosed
    <3> HIDE DEF r
    <3>2. QED
      BY <3>1, FSumEmpty
  <2>3. FSum(s) = Add(FSum(r), s[0 + 1])
    <3>1. \A i \in 1..0 : r[i] = s[i]
      OBVIOUS
    <3> HIDE DEF r, s
    <3>2. QED
      BY <2>1, <2>2, <3>1, FoldsAppend
  <2>4. Add(Zero, Mul(p[0], q[0])) = Mul(p[0], q[0])
    BY <2>1, FrAdditive, FrClosed
  <2>5. Conv(p, q)[0] = FSum(s)
    BY DEF Conv
  <2>6. QED
    BY <2>1, <2>2, <2>3, <2>4, <2>5
<1>2. ASSUME NEW a \in Series, NEW b \in Series, NEW n \in Nat
      PROVE  Conv(a, b)[n + 1] = Add(Conv(a, STail(b))[n], Mul(a[n + 1], b[0]))
  <2> DEFINE k == n + 1
             s == ConvTerms(a, b, k)
             r == ConvTerms(a, STail(b), n)
  <2>1. k \in Nat /\ s \in [1..(k + 1) -> Fr]
    BY ConvTermsType
  <2>2. STail(b) \in Series
    BY SeriesTypes, FrClosed
  <2>3. r \in [1..k -> Fr]
    <3> HIDE DEF r
    <3> QED
      BY <2>2, ConvTermsType DEF r
  <2>4. ASSUME NEW i \in 1..k PROVE r[i] = s[i]
    <3>1. i \in 1..(n + 1) /\ i \in 1..(k + 1) /\ n + 1 - i \in Nat /\ (n + 1 - i) + 1 = k + 1 - i
      OBVIOUS
    <3>2. STail(b)[n + 1 - i] = b[k + 1 - i]
      BY <3>1 DEF STail
    <3>3. r[i] = Mul(a[i - 1], STail(b)[n + 1 - i]) /\ s[i] = Mul(a[i - 1], b[k + 1 - i])
      BY <3>1 DEF ConvTerms
    <3>4. QED
      BY <3>2, <3>3
  <2>5. s[k + 1] = Mul(a[k], b[0])
    <3>1. k + 1 \in 1..(k + 1) /\ (k + 1) - 1 = k /\ k + 1 - (k + 1) = 0
      BY <2>1
    <3> HIDE DEF k
    <3>2. QED
      BY <3>1 DEF ConvTerms
  <2>6. FSum(s) = Add(FSum(r), s[k + 1])
    <3> HIDE DEF k, r, s
    <3> QED
      BY <2>1, <2>3, <2>4, FoldsAppend
  <2>7. Conv(a, b)[k] = FSum(s) /\ Conv(a, STail(b))[n] = FSum(r)
    BY <2>1 DEF Conv
  <2>8. QED
    BY <2>5, <2>6, <2>7
<1>3. ASSUME NEW n \in Nat
      PROVE  Conv(p, q)[n + 1] = Add(Mul(p[0], q[n + 1]), Conv(STail(p), q)[n])
  <2>1. STail(p) \in Series
    BY SeriesTypes, FrClosed
  <2>2. Conv(p, q) = Conv(q, p) /\ Conv(STail(p), q) = Conv(q, STail(p))
    BY <2>1, ConvComm
  <2>3. Conv(q, p)[n + 1] = Add(Conv(q, STail(p))[n], Mul(q[n + 1], p[0]))
    BY <1>2
  <2>4. Conv(q, STail(p))[n] \in Fr
    BY <2>1, ConvType DEF Series
  <2>5. p[0] \in Fr /\ q[n + 1] \in Fr
    BY DEF Series
  <2>6. Mul(q[n + 1], p[0]) = Mul(p[0], q[n + 1]) /\ Mul(p[0], q[n + 1]) \in Fr
    BY <2>5, FrMultiplicative, FrClosed
  <2>7. QED
    BY <2>2, <2>3, <2>4, <2>6, FrAdditive
<1>4. QED
  BY <1>1, <1>2, <1>3

\* A product of series is linear in its first factor.
LEMMA ConvLinear ==
    ASSUME NEW p \in Series, NEW q \in Series, NEW r \in Series, NEW c \in Fr
    PROVE  /\ Conv(SAdd(p, q), r) = SAdd(Conv(p, r), Conv(q, r))
           /\ Conv(SScale(c, p), r) = SScale(c, Conv(p, r))
<1>1. SAdd(p, q) \in Series /\ SScale(c, p) \in Series
  BY SeriesTypes
<1>2. ASSUME NEW n \in Nat
      PROVE  /\ FSum(ConvTerms(SAdd(p, q), r, n)) = Add(FSum(ConvTerms(p, r, n)), FSum(ConvTerms(q, r, n)))
             /\ FSum(ConvTerms(SScale(c, p), r, n)) = Mul(c, FSum(ConvTerms(p, r, n)))
  <2> DEFINE k == n + 1
             s == ConvTerms(p, r, n)
             t == ConvTerms(q, r, n)
  <2>1. k \in Nat /\ s \in [1..k -> Fr] /\ t \in [1..k -> Fr]
    BY ConvTermsType
  <2>2. ASSUME NEW i \in 1..k
        PROVE  /\ ConvTerms(SAdd(p, q), r, n)[i] = Add(s[i], t[i])
               /\ ConvTerms(SScale(c, p), r, n)[i] = Mul(c, s[i])
    <3>1. i - 1 \in Nat /\ n + 1 - i \in Nat
      OBVIOUS
    <3>2. PICK a \in Fr, b \in Fr, d \in Fr : a = p[i - 1] /\ b = q[i - 1] /\ d = r[n + 1 - i]
      BY <3>1 DEF Series
    <3>3. SAdd(p, q)[i - 1] = Add(a, b) /\ SScale(c, p)[i - 1] = Mul(c, a)
      BY <3>1, <3>2 DEF SAdd, SScale
    <3>4. /\ ConvTerms(SAdd(p, q), r, n)[i] = Mul(Add(a, b), d)
          /\ ConvTerms(SScale(c, p), r, n)[i] = Mul(Mul(c, a), d)
          /\ s[i] = Mul(a, d) /\ t[i] = Mul(b, d)
      BY <3>2, <3>3 DEF ConvTerms
    <3>5. Mul(Add(a, b), d) = Add(Mul(a, d), Mul(b, d))
      <4>1. Add(a, b) \in Fr
        BY FrClosed
      <4>2. Mul(Add(a, b), d) = Mul(d, Add(a, b))
        BY <4>1, FrMultiplicative
      <4>3. QED
        BY <4>2, FrMultiplicative
    <3>6. Mul(Mul(c, a), d) = Mul(c, Mul(a, d))
      BY FrMultiplicative
    <3>7. QED
      BY <3>4, <3>5, <3>6
  <2>3. /\ ConvTerms(SAdd(p, q), r, n) = [i \in 1..k |-> Add(s[i], t[i])]
        /\ ConvTerms(SScale(c, p), r, n) = [i \in 1..k |-> Mul(c, s[i])]
    <3>1. /\ ConvTerms(SAdd(p, q), r, n) \in [1..k -> Fr]
          /\ ConvTerms(SScale(c, p), r, n) \in [1..k -> Fr]
      BY <1>1, ConvTermsType
    <3> HIDE DEF s, t, k
    <3>2. QED
      BY <2>2, <3>1
  <2>4. /\ FSum([i \in 1..k |-> Add(s[i], t[i])]) = Add(FSum(s), FSum(t))
        /\ FSum([i \in 1..k |-> Mul(c, s[i])]) = Mul(c, FSum(s))
    <3> HIDE DEF s, t, k
    <3> QED
      BY <2>1, FSumAdd, FSumScale
  <2>5. QED
    BY <2>3, <2>4
<1>3. \A n \in Nat : /\ Conv(SAdd(p, q), r)[n] = Add(Conv(p, r)[n], Conv(q, r)[n])
                     /\ Conv(SScale(c, p), r)[n] = Mul(c, Conv(p, r)[n])
  BY <1>2 DEF Conv
<1>4. /\ Conv(SAdd(p, q), r) = [n \in Nat |-> Conv(SAdd(p, q), r)[n]]
      /\ Conv(SScale(c, p), r) = [n \in Nat |-> Conv(SScale(c, p), r)[n]]
  BY DEF Conv
<1>5. QED
  BY <1>3, <1>4 DEF SAdd, SScale

\* The tail of a product.
LEMMA ConvTail ==
    ASSUME NEW p \in Series, NEW q \in Series
    PROVE  STail(Conv(p, q)) = SAdd(SScale(p[0], STail(q)), Conv(STail(p), q))
<1>1. p[0] \in Fr /\ STail(p) \in Series /\ STail(q) \in Series
  <2>1. p[0] \in Fr
    BY DEF Series
  <2>2. QED
    BY <2>1, SeriesTypes
<1>2. ASSUME NEW n \in Nat
      PROVE  STail(Conv(p, q))[n] = Add(SScale(p[0], STail(q))[n], Conv(STail(p), q)[n])
  <2>1. STail(Conv(p, q))[n] = Conv(p, q)[n + 1] /\ SScale(p[0], STail(q))[n] = Mul(p[0], q[n + 1])
    BY DEF STail, SScale
  <2>2. QED
    BY <2>1, ConvStep
<1>3. STail(Conv(p, q)) = [n \in Nat |-> STail(Conv(p, q))[n]]
  BY DEF STail
<1>4. QED
  BY <1>2, <1>3 DEF SAdd

\* Products of series associate.
LEMMA ConvAssoc ==
    ASSUME NEW p \in Series, NEW q \in Series, NEW r \in Series
    PROVE  Conv(Conv(p, q), r) = Conv(p, Conv(q, r))
<1> DEFINE Good(n) == \A a \in Series : Conv(Conv(a, q), r)[n] = Conv(a, Conv(q, r))[n]
           S == {n \in Nat : Good(n)}
<1>1. Conv(q, r) \in Series /\ STail(q) \in Series
  BY ConvType, SeriesTypes, FrClosed
<1>2. 0 \in S
  <2>1. ASSUME NEW a \in Series PROVE Conv(Conv(a, q), r)[0] = Conv(a, Conv(q, r))[0]
    <3>1. Conv(a, q) \in Series
      BY ConvType
    <3>2. /\ Conv(Conv(a, q), r)[0] = Mul(Conv(a, q)[0], r[0]) /\ Conv(a, q)[0] = Mul(a[0], q[0])
          /\ Conv(a, Conv(q, r))[0] = Mul(a[0], Conv(q, r)[0]) /\ Conv(q, r)[0] = Mul(q[0], r[0])
      BY <1>1, <3>1, ConvStep
    <3>3. a[0] \in Fr /\ q[0] \in Fr /\ r[0] \in Fr
      BY DEF Series
    <3>4. QED
      BY <3>2, <3>3, FrMultiplicative
  <2>2. QED
    BY <2>1
<1>3. ASSUME NEW n \in Nat, n \in S
      PROVE  n + 1 \in S
  <2>1. ASSUME NEW a \in Series
        PROVE  Conv(Conv(a, q), r)[n + 1] = Conv(a, Conv(q, r))[n + 1]
    <3> DEFINE aq == Conv(a, q)
               qr == Conv(q, r)
               ta == STail(a)
               tq == STail(q)
               taq == Conv(ta, q)
    <3>1. aq \in Series /\ ta \in Series /\ taq \in Series /\ a[0] \in Fr /\ Conv(tq, r) \in Series
          /\ SScale(a[0], tq) \in Series
      <4>1. a[0] \in Fr /\ ta \in Series
        BY SeriesTypes, FrClosed DEF Series
      <4> HIDE DEF ta, tq
      <4>2. QED
        BY <1>1, <4>1, ConvType, SeriesTypes DEF tq
    <3>2. Conv(aq, r)[n + 1] = Add(Mul(aq[0], r[n + 1]), Conv(STail(aq), r)[n])
      <4> HIDE DEF aq
      <4> QED
        BY <3>1, ConvStep
    <3>3. STail(aq) = SAdd(SScale(a[0], tq), taq)
      BY ConvTail
    <3> HIDE DEF aq, ta, tq, taq
    <3>4. Conv(STail(aq), r) = SAdd(SScale(a[0], Conv(tq, r)), Conv(taq, r))
      <4>1. Conv(SAdd(SScale(a[0], tq), taq), r) = SAdd(Conv(SScale(a[0], tq), r), Conv(taq, r))
        BY <3>1, ConvLinear
      <4>2. Conv(SScale(a[0], tq), r) = SScale(a[0], Conv(tq, r))
        BY <1>1, <3>1, ConvLinear DEF tq
      <4>3. QED
        BY <3>3, <4>1, <4>2
    <3>5. Conv(STail(aq), r)[n] = Add(Mul(a[0], Conv(tq, r)[n]), Conv(taq, r)[n])
      BY <3>4 DEF SAdd, SScale
    <3>6. Conv(taq, r)[n] = Conv(ta, qr)[n]
      BY <1>3, <3>1 DEF taq
    <3>7. aq[0] = Mul(a[0], q[0])
      BY ConvStep DEF aq
    <3>8. qr[n + 1] = Add(Mul(q[0], r[n + 1]), Conv(tq, r)[n])
      BY ConvStep DEF tq
    <3>9. Conv(a, qr)[n + 1] = Add(Mul(a[0], qr[n + 1]), Conv(ta, qr)[n])
      <4> HIDE DEF qr
      <4> QED
        BY <1>1, ConvStep DEF ta, qr
    <3>10. PICK x \in Fr, y \in Fr, z \in Fr, w \in Fr, v \in Fr :
              x = a[0] /\ y = q[0] /\ z = r[n + 1] /\ w = Conv(tq, r)[n] /\ v = Conv(ta, qr)[n]
      <4>1. Conv(ta, qr) \in Series
        BY <1>1, <3>1, ConvType
      <4>2. QED
        BY <3>1, <4>1 DEF Series
    <3>11. Mul(Mul(x, y), z) = Mul(x, Mul(y, z)) /\ Mul(y, z) \in Fr
      BY FrMultiplicative, FrClosed
    <3>12. /\ Mul(x, Add(Mul(y, z), w)) = Add(Mul(x, Mul(y, z)), Mul(x, w))
           /\ Mul(x, Mul(y, z)) \in Fr /\ Mul(x, w) \in Fr
      BY <3>11, FrMultiplicative, FrClosed
    <3>13. Add(Mul(x, Mul(y, z)), Add(Mul(x, w), v)) = Add(Add(Mul(x, Mul(y, z)), Mul(x, w)), v)
      BY <3>12, FrAdditive
    <3>14. Conv(aq, r)[n + 1] = Add(Mul(Mul(x, y), z), Add(Mul(x, w), v))
      BY <3>2, <3>5, <3>6, <3>7, <3>10
    <3>15. Conv(a, qr)[n + 1] = Add(Mul(x, Add(Mul(y, z), w)), v)
      BY <3>8, <3>9, <3>10
    <3>16. Conv(aq, r)[n + 1] = Conv(a, qr)[n + 1]
      BY <3>11, <3>12, <3>13, <3>14, <3>15
    <3>17. QED
      BY <3>16 DEF aq
  <2>2. QED
    BY <2>1
<1>4. \A n \in Nat : n \in S
  <2> HIDE DEF S
  <2> QED
    BY <1>2, <1>3, SetInduction
<1>5. \A n \in Nat : Conv(Conv(p, q), r)[n] = Conv(p, Conv(q, r))[n]
  BY <1>4
<1>6. /\ Conv(Conv(p, q), r) = [n \in Nat |-> Conv(Conv(p, q), r)[n]]
      /\ Conv(p, Conv(q, r)) = [n \in Nat |-> Conv(p, Conv(q, r))[n]]
  BY DEF Conv
<1>7. QED
  BY <1>5, <1>6

\* A sum of zeros.
LEMMA FSumZeros ==
    ASSUME NEW n \in Nat, NEW s \in [1..n -> Fr], \A i \in 1..n : s[i] = Zero
    PROVE  FSum(s) = Zero
<1>1. Zero \in Fr
  BY FrClosed
<1>2. \A i \in 1..n : s[i] = Mul(Zero, s[i])
  BY <1>1, MulZero
<1>3. s = [i \in 1..n |-> Mul(Zero, s[i])]
  BY <1>2
<1>4. FSum(s) \in Fr
  BY FoldTypes
<1>5. FSum([i \in 1..n |-> Mul(Zero, s[i])]) = Mul(Zero, FSum(s))
  BY <1>1, FSumScale
<1>6. QED
  BY <1>3, <1>4, <1>5, MulZero

\* t is s with zeros after its n elements.
IsPadded(s, n, t, m) == \A i \in 1..m : t[i] = IF i <= n THEN s[i] ELSE Zero

\* A sum whose last terms are zeros.
LEMMA FSumPad ==
    ASSUME NEW n \in Nat, NEW m \in Nat, n <= m, NEW s \in [1..n -> Fr], NEW t \in [1..m -> Fr],
           IsPadded(s, n, t, m)
    PROVE  FSum(t) = FSum(s)
<1> DEFINE Good(k) == \A b \in [1..(n + k) -> Fr] :
                        (\A i \in 1..(n + k) : b[i] = IF i <= n THEN s[i] ELSE Zero) => FSum(b) = FSum(s)
           S == {k \in Nat : Good(k)}
<1>1. 0 \in S
  <2>1. ASSUME NEW b \in [1..(n + 0) -> Fr], \A i \in 1..(n + 0) : b[i] = IF i <= n THEN s[i] ELSE Zero
        PROVE  FSum(b) = FSum(s)
    <3>1. n + 0 = n
      OBVIOUS
    <3>2. b = s
      BY <2>1, <3>1
    <3>3. QED
      BY <3>2
  <2>2. QED
    BY <2>1
<1>2. ASSUME NEW k \in Nat, k \in S
      PROVE  k + 1 \in S
  <2>1. ASSUME NEW b \in [1..(n + (k + 1)) -> Fr],
               \A i \in 1..(n + (k + 1)) : b[i] = IF i <= n THEN s[i] ELSE Zero
        PROVE  FSum(b) = FSum(s)
    <3> DEFINE l == n + k
               a == [i \in 1..l |-> b[i]]
    <3>1. l \in Nat /\ n + (k + 1) = l + 1
      OBVIOUS
    <3>2. b \in [1..(l + 1) -> Fr] /\ a \in [1..l -> Fr] /\ \A i \in 1..l : a[i] = b[i]
      BY <3>1
    <3>3. b[l + 1] = Zero
      BY <2>1, <3>1
    <3>4. FSum(a) = FSum(s)
      <4>1. \A i \in 1..l : a[i] = IF i <= n THEN s[i] ELSE Zero
        BY <2>1
      <4> HIDE DEF a
      <4>2. QED
        BY <1>2, <3>2, <4>1
    <3>5. FSum(b) = Add(FSum(a), b[l + 1])
      <4> HIDE DEF a, l
      <4> QED
        BY <3>1, <3>2, FoldsAppend
    <3>6. FSum(s) \in Fr
      BY FoldTypes
    <3>7. QED
      BY <3>3, <3>4, <3>5, <3>6, FrAdditive
  <2>2. QED
    BY <2>1
<1>3. \A k \in Nat : k \in S
  <2> HIDE DEF S
  <2> QED
    BY <1>1, <1>2, SetInduction
<1>4. m - n \in Nat /\ n + (m - n) = m
  OBVIOUS
<1>5. Good(m - n)
  BY <1>3, <1>4
<1>6. QED
  BY <1>4, <1>5 DEF IsPadded

\* The coefficients of a product below n depend on those of the factors below n.
LEMMA ConvLocal ==
    ASSUME NEW p \in Series, NEW q \in Series, NEW a \in Series, NEW b \in Series, NEW n \in Nat,
           \A k \in 0..n : p[k] = a[k] /\ q[k] = b[k]
    PROVE  Conv(p, q)[n] = Conv(a, b)[n]
<1>1. \A i \in 1..(n + 1) : i - 1 \in 0..n /\ n + 1 - i \in 0..n
  OBVIOUS
<1>2. \A i \in 1..(n + 1) : Mul(p[i - 1], q[n + 1 - i]) = Mul(a[i - 1], b[n + 1 - i])
  BY <1>1
<1>3. ConvTerms(p, q, n) = ConvTerms(a, b, n)
  BY <1>2 DEF ConvTerms
<1>4. QED
  BY <1>3 DEF Conv

\* The series has no terms below a; from a on.
NoneBelow(p, a) == \A k \in Nat : k < a => p[k] = Zero
NoneFrom(p, a) == \A k \in Nat : k >= a => p[k] = Zero

\* A product vanishes below the sum of the orders of its factors.
LEMMA ConvVanish ==
    ASSUME NEW p \in Series, NEW q \in Series, NEW a \in Nat, NEW b \in Nat, NEW n \in Nat, n < a + b,
           NoneBelow(p, a), NoneBelow(q, b)
    PROVE  Conv(p, q)[n] = Zero
<1> DEFINE s == ConvTerms(p, q, n)
           m == n + 1
<1>1. m \in Nat /\ s \in [1..m -> Fr]
  <2>1. s \in [1..(n + 1) -> Fr]
    BY ConvTermsType
  <2>2. m \in Nat
    OBVIOUS
  <2>3. QED
    BY <2>1, <2>2
<1>2. ASSUME NEW i \in 1..m PROVE s[i] = Zero
  <2>1. i - 1 \in Nat /\ n + 1 - i \in Nat /\ (i - 1 < a \/ n + 1 - i < b)
    OBVIOUS
  <2>2. p[i - 1] \in Fr /\ q[n + 1 - i] \in Fr
    BY <2>1 DEF Series
  <2>3. p[i - 1] = Zero \/ q[n + 1 - i] = Zero
    <3>1. i - 1 < a => p[i - 1] = Zero
      BY <2>1 DEF NoneBelow
    <3>2. n + 1 - i < b => q[n + 1 - i] = Zero
      BY <2>1 DEF NoneBelow
    <3>3. QED
      BY <2>1, <3>1, <3>2
  <2>4. Mul(p[i - 1], q[n + 1 - i]) = Zero
    BY <2>2, <2>3, MulZero
  <2>5. QED
    BY <2>4 DEF ConvTerms
<1>3. FSum(s) = Zero
  <2> HIDE DEF s, m
  <2> QED
    BY <1>1, <1>2, FSumZeros
<1>4. QED
  BY <1>3 DEF Conv

\* A product of polynomials has no coefficients from the sum of their lengths on.
LEMMA ConvBeyond ==
    ASSUME NEW p \in Series, NEW q \in Series, NEW a \in Nat, NEW b \in Nat, NEW n \in Nat, n + 1 >= a + b,
           NoneFrom(p, a), NoneFrom(q, b)
    PROVE  Conv(p, q)[n] = Zero
<1> DEFINE s == ConvTerms(p, q, n)
           m == n + 1
<1>1. m \in Nat /\ s \in [1..m -> Fr]
  <2>1. s \in [1..(n + 1) -> Fr]
    BY ConvTermsType
  <2>2. m \in Nat
    OBVIOUS
  <2>3. QED
    BY <2>1, <2>2
<1>2. ASSUME NEW i \in 1..m PROVE s[i] = Zero
  <2>1. i - 1 \in Nat /\ n + 1 - i \in Nat /\ (i - 1 >= a \/ n + 1 - i >= b)
    OBVIOUS
  <2>2. p[i - 1] \in Fr /\ q[n + 1 - i] \in Fr
    BY <2>1 DEF Series
  <2>3. p[i - 1] = Zero \/ q[n + 1 - i] = Zero
    <3>1. i - 1 >= a => p[i - 1] = Zero
      BY <2>1 DEF NoneFrom
    <3>2. n + 1 - i >= b => q[n + 1 - i] = Zero
      BY <2>1 DEF NoneFrom
    <3>3. QED
      BY <2>1, <3>1, <3>2
  <2>4. Mul(p[i - 1], q[n + 1 - i]) = Zero
    BY <2>2, <2>3, MulZero
  <2>5. QED
    BY <2>4 DEF ConvTerms
<1>3. FSum(s) = Zero
  <2> HIDE DEF s, m
  <2> QED
    BY <1>1, <1>2, FSumZeros
<1>4. QED
  BY <1>3 DEF Conv

\* One is the unit of the product.
LEMMA ConvOne ==
    ASSUME NEW p \in Series
    PROVE  Conv(SOne, p) = p /\ Conv(p, SOne) = p
<1>1. SOne \in Series /\ STail(SOne) \in Series /\ SOne[0] = One
  <2>1. SOne \in Series
    BY SeriesTypes, FrClosed
  <2>2. QED
    BY <2>1, SeriesTypes, FrClosed DEF SOne
<1>2. ASSUME NEW n \in Nat PROVE Conv(STail(SOne), p)[n] = Zero
  <2>1. \A k \in Nat : STail(SOne)[k] = Zero
    BY DEF STail, SOne
  <2> DEFINE a == n + 1
  <2>2. a \in Nat /\ n < a + 0 /\ 0 \in Nat
    OBVIOUS
  <2>3. NoneBelow(STail(SOne), a) /\ NoneBelow(p, 0)
    BY <2>1 DEF NoneBelow
  <2> HIDE DEF a
  <2>4. QED
    BY <1>1, <2>2, <2>3, ConvVanish
<1>3. ASSUME NEW n \in Nat PROVE Conv(SOne, p)[n] = p[n]
  <2>1. CASE n = 0
    <3>1. Conv(SOne, p)[0] = Mul(SOne[0], p[0]) /\ p[0] \in Fr
      BY <1>1, ConvStep DEF Series
    <3>2. Mul(One, p[0]) = p[0]
      BY <3>1, FrMultiplicative, FrClosed
    <3>3. QED
      BY <1>1, <2>1, <3>1, <3>2
  <2>2. CASE n # 0
    <3>1. PICK k \in Nat : n = k + 1
      <4>1. n - 1 \in Nat /\ n = (n - 1) + 1
        BY <2>2
      <4>2. QED
        BY <4>1
    <3>2. Conv(SOne, p)[k + 1] = Add(Mul(SOne[0], p[k + 1]), Conv(STail(SOne), p)[k])
      BY <1>1, ConvStep
    <3>3. p[k + 1] \in Fr
      BY DEF Series
    <3>4. Mul(One, p[k + 1]) = p[k + 1] /\ Add(p[k + 1], Zero) = p[k + 1]
      BY <3>3, FrMultiplicative, FrClosed, FrAdditive
    <3>5. QED
      BY <1>1, <1>2, <3>1, <3>2, <3>4
  <2>3. QED
    BY <2>1, <2>2
<1>4. Conv(SOne, p) = [n \in Nat |-> Conv(SOne, p)[n]] /\ p = [n \in Nat |-> p[n]]
  BY DEF Conv, Series
<1>5. Conv(SOne, p) = p
  BY <1>3, <1>4
<1>6. Conv(p, SOne) = Conv(SOne, p)
  BY <1>1, ConvComm
<1>7. QED
  BY <1>5, <1>6

\* A difference of series, as a sum.
LEMMA SSubIsAdd ==
    ASSUME NEW p \in Series, NEW q \in Series
    PROVE  /\ SSub(p, q) = SAdd(p, SScale(Neg(One), q))
           /\ Neg(One) \in Fr
<1>1. One \in Fr /\ Neg(One) \in Fr
  BY FrClosed
<1>2. ASSUME NEW n \in Nat PROVE Sub(p[n], q[n]) = Add(p[n], Mul(Neg(One), q[n]))
  <2>1. q[n] \in Fr /\ Neg(q[n]) \in Fr
    BY FrClosed DEF Series
  <2>2. Mul(Neg(One), q[n]) = Neg(Mul(One, q[n])) /\ Mul(One, q[n]) = q[n]
    BY <1>1, <2>1, MulNeg, FrMultiplicative
  <2>3. QED
    BY <2>2 DEF Sub
<1>3. QED
  BY <1>1, <1>2 DEF SSub, SAdd, SScale

\* A product of series is linear in differences, too.
LEMMA ConvSub ==
    ASSUME NEW p \in Series, NEW q \in Series, NEW r \in Series
    PROVE  /\ Conv(SSub(p, q), r) = SSub(Conv(p, r), Conv(q, r))
           /\ Conv(r, SSub(p, q)) = SSub(Conv(r, p), Conv(r, q))
<1> DEFINE c == Neg(One)
<1>1. c \in Fr
  BY FrClosed
<1>2. SScale(c, q) \in Series /\ Conv(p, r) \in Series /\ Conv(q, r) \in Series /\ SSub(p, q) \in Series
  <2> HIDE DEF c
  <2> QED
    BY <1>1, SeriesTypes, ConvType
<1>3. SSub(p, q) = SAdd(p, SScale(c, q)) /\ SSub(Conv(p, r), Conv(q, r)) = SAdd(Conv(p, r), SScale(c, Conv(q, r)))
  BY <1>2, SSubIsAdd
<1> HIDE DEF c
<1>4. Conv(SAdd(p, SScale(c, q)), r) = SAdd(Conv(p, r), Conv(SScale(c, q), r))
  BY <1>1, <1>2, ConvLinear
<1>5. Conv(SScale(c, q), r) = SScale(c, Conv(q, r))
  BY <1>1, ConvLinear
<1>6. Conv(SSub(p, q), r) = SSub(Conv(p, r), Conv(q, r))
  BY <1>3, <1>4, <1>5
<1>7. Conv(r, SSub(p, q)) = Conv(SSub(p, q), r) /\ Conv(r, p) = Conv(p, r) /\ Conv(r, q) = Conv(q, r)
  BY <1>2, ConvComm
<1>8. QED
  BY <1>6, <1>7
-----------------------------------------------------------------------------
-----------------------------------------------------------------------------
\* The coefficients of a polynomial as a power series; Coeff counts from one.
Ser(p) == [k \in Nat |-> Coeff(p, k + 1)]

\* A nonempty set of positions has a last one.
LEMMA MaxFacts ==
    ASSUME NEW n \in Nat, NEW S \in SUBSET (0..n), S # {}
    PROVE  Max(S) \in S /\ \A y \in S : Max(S) >= y
<1> DEFINE HasMax(T) == \E x \in T : \A y \in T : x >= y
           Q == {k \in Nat : \A T \in SUBSET (0..k) : T # {} => HasMax(T)}
<1>1. 0 \in Q
  <2>1. ASSUME NEW T \in SUBSET (0..0), T # {} PROVE HasMax(T)
    <3>1. PICK x \in T : TRUE
      BY <2>1
    <3>2. \A y \in T : x >= y
      OBVIOUS
    <3>3. QED
      BY <3>2
  <2>2. QED
    BY <2>1
<1>2. ASSUME NEW k \in Nat, k \in Q PROVE k + 1 \in Q
  <2>1. ASSUME NEW T \in SUBSET (0..(k + 1)), T # {} PROVE HasMax(T)
    <3>1. CASE k + 1 \in T
      BY <3>1
    <3>2. CASE k + 1 \notin T
      <4>1. T \in SUBSET (0..k)
        BY <3>2
      <4>2. QED
        BY <1>2, <2>1, <4>1
    <3>3. QED
      BY <3>1, <3>2
  <2>2. QED
    BY <2>1
<1>3. \A k \in Nat : k \in Q
  <2> HIDE DEF Q
  <2> QED
    BY <1>1, <1>2, SetInduction
<1>4. HasMax(S)
  BY <1>3
<1>5. QED
  BY <1>4 DEF Max

\* The larger of two numbers, and the smaller.
LEMMA PairFacts ==
    ASSUME NEW m \in Nat, NEW n \in Nat
    PROVE  /\ Max({m, n}) \in Nat /\ Max({m, n}) = IF m >= n THEN m ELSE n
           /\ Min({m, n}) \in Nat /\ Min({m, n}) = IF m <= n THEN m ELSE n
<1>1. CASE m >= n
  <2>1. Max({m, n}) = m
    BY <1>1 DEF Max
  <2>2. Min({m, n}) = n
    BY <1>1 DEF Min
  <2>3. QED
    BY <1>1, <2>1, <2>2
<1>2. CASE ~ (m >= n)
  <2>1. Max({m, n}) = n
    BY <1>2 DEF Max
  <2>2. Min({m, n}) = m
    BY <1>2 DEF Min
  <2>3. QED
    BY <1>2, <2>1, <2>2
<1>3. QED
  BY <1>1, <1>2

\* The length without leading zeros.
LEMMA PolyLenFacts ==
    ASSUME NEW p \in Seq(Fr)
    PROVE  /\ PolyLen(p) \in 0..Len(p) /\ Len(p) \in Nat /\ DOMAIN p = 1..Len(p)
           /\ PolyLen(p) # 0 => p[PolyLen(p)] # Zero
           /\ \A k \in 1..Len(p) : k > PolyLen(p) => p[k] = Zero
<1> DEFINE nz == {k \in DOMAIN p : p[k] # Zero}
<1>1. Len(p) \in Nat /\ DOMAIN p = 1..Len(p)
  OBVIOUS
<1>2. nz \in SUBSET (0..Len(p)) /\ \A k \in nz : k \in 1..Len(p)
  BY <1>1
<1>3. CASE nz = {}
  <2>1. PolyLen(p) = 0
    BY <1>3 DEF PolyLen
  <2>2. QED
    BY <1>1, <1>3, <2>1
<1>4. CASE nz # {}
  <2>1. PolyLen(p) = Max(nz)
    BY <1>4 DEF PolyLen
  <2>2. Max(nz) \in nz /\ \A y \in nz : Max(nz) >= y
    <3> HIDE DEF nz
    <3> QED
      BY <1>1, <1>2, <1>4, MaxFacts
  <2>3. PolyLen(p) \in nz /\ \A y \in nz : PolyLen(p) >= y
    BY <2>1, <2>2
  <2>4. QED
    BY <1>1, <1>2, <2>3
<1>5. QED
  BY <1>3, <1>4

\* The series of a polynomial: its coefficients, and zeros after the last.
LEMMA SerFacts ==
    ASSUME NEW p \in Seq(Fr)
    PROVE  /\ Ser(p) \in Series
           /\ \A k \in Nat : Ser(p)[k] = IF k < Len(p) THEN p[k + 1] ELSE Zero
           /\ \A k \in Nat : k >= PolyLen(p) => Ser(p)[k] = Zero
           /\ PolyLen(p) # 0 => Ser(p)[PolyLen(p) - 1] # Zero
           /\ \A n \in Nat : (\A k \in Nat : k >= n => Ser(p)[k] = Zero) => PolyLen(p) <= n
<1>1. Len(p) \in Nat /\ DOMAIN p = 1..Len(p)
  OBVIOUS
<1>2. \A k \in Nat : Ser(p)[k] = IF k < Len(p) THEN p[k + 1] ELSE Zero
  <2>1. \A k \in Nat : k + 1 \in DOMAIN p <=> k < Len(p)
    BY <1>1
  <2>2. QED
    BY <2>1 DEF Ser, Coeff
<1>3. \A k \in Nat : Ser(p)[k] \in Fr
  <2>1. \A k \in Nat : k < Len(p) => p[k + 1] \in Fr
    BY <1>1
  <2>2. QED
    BY <1>2, <2>1, FrClosed
<1>4. Ser(p) \in Series
  BY <1>3 DEF Ser, Series
<1>5. PICK l \in 0..Len(p) : /\ l = PolyLen(p) /\ (l # 0 => p[l] # Zero)
                             /\ \A k \in 1..Len(p) : k > l => p[k] = Zero
  BY PolyLenFacts
<1>6. ASSUME NEW k \in Nat, k >= l PROVE Ser(p)[k] = Zero
  <2>1. k < Len(p) => k + 1 \in 1..Len(p) /\ k + 1 > l
    BY <1>1, <1>6
  <2>2. k < Len(p) => p[k + 1] = Zero
    BY <1>5, <2>1
  <2>3. QED
    BY <1>2, <2>2
<1>7. l # 0 => Ser(p)[l - 1] # Zero
  <2>1. l # 0 => l - 1 \in Nat /\ l - 1 < Len(p) /\ (l - 1) + 1 = l
    BY <1>1
  <2>2. QED
    BY <1>2, <1>5, <2>1
<1>8. ASSUME NEW n \in Nat, \A k \in Nat : k >= n => Ser(p)[k] = Zero
      PROVE  l <= n
  <2>1. SUFFICES ASSUME l > n PROVE FALSE
    BY <1>1
  <2>2. l # 0 /\ l - 1 \in Nat /\ l - 1 >= n
    BY <1>1, <2>1
  <2>3. QED
    BY <1>7, <1>8, <2>2
<1>9. QED
  BY <1>2, <1>4, <1>5, <1>6, <1>7, <1>8

\* What Trim returns.
LEMMA TrimFacts ==
    ASSUME NEW p \in Seq(Fr)
    PROVE  /\ Trim(p) \in Seq(Fr) /\ Len(Trim(p)) = PolyLen(p) /\ PolyLen(Trim(p)) = PolyLen(p)
           /\ \A k \in 1..PolyLen(p) : Trim(p)[k] = p[k]
           /\ Ser(Trim(p)) = Ser(p)
<1>1. PICK l \in 0..Len(p) : /\ l = PolyLen(p) /\ (l # 0 => p[l] # Zero)
                             /\ \A k \in 1..Len(p) : k > l => p[k] = Zero
  BY PolyLenFacts
<1>2. l \in Nat /\ Len(p) \in Nat /\ DOMAIN p = 1..Len(p)
  OBVIOUS
<1>3. Trim(p) = [k \in 1..l |-> p[k]]
  <2>1. Trim(p) = SubSeq(p, 1, l)
    BY <1>1 DEF Trim
  <2>2. QED
    BY <1>2, <2>1
<1>4. Trim(p) \in [1..l -> Fr]
  BY <1>2, <1>3
<1>5. Trim(p) \in Seq(Fr) /\ Len(Trim(p)) = l /\ \A k \in 1..l : Trim(p)[k] = p[k]
  BY <1>2, <1>3, <1>4, SeqOf
<1> DEFINE t == Trim(p)
<1>6. ASSUME NEW k \in Nat PROVE Ser(t)[k] = Ser(p)[k]
  <2>1. Ser(t)[k] = IF k < l THEN t[k + 1] ELSE Zero
    <3> HIDE DEF t
    <3> QED
      BY <1>5, SerFacts DEF t
  <2>2. Ser(p)[k] = IF k < Len(p) THEN p[k + 1] ELSE Zero
    BY SerFacts
  <2>3. k < l => t[k + 1] = p[k + 1]
    BY <1>2, <1>5
  <2>4. k >= l => Ser(p)[k] = Zero
    BY <1>1, SerFacts
  <2>5. QED
    BY <1>2, <2>1, <2>2, <2>3, <2>4
<1>7. Ser(t) = Ser(p)
  BY <1>6 DEF Ser
<1>8. PolyLen(t) = l
  <2>1. \A k \in Nat : k >= l => Ser(t)[k] = Zero
    BY <1>1, <1>7, SerFacts
  <2>2. PolyLen(t) <= l
    <3> HIDE DEF t
    <3> QED
      BY <1>2, <1>5, <2>1, SerFacts DEF t
  <2>3. PolyLen(t) \in Nat
    BY <1>5, PolyLenFacts
  <2>4. \A k \in Nat : k >= PolyLen(t) => Ser(p)[k] = Zero
    BY <1>5, <1>7, SerFacts
  <2>5. l <= PolyLen(t)
    <3> HIDE DEF t
    <3> QED
      BY <1>1, <2>3, <2>4, SerFacts
  <2>6. QED
    BY <1>2, <2>2, <2>3, <2>5
<1>9. QED
  BY <1>1, <1>5, <1>7, <1>8

\* Polynomials with the same series differ in leading zeros only.
LEMMA SameSeries ==
    ASSUME NEW p \in Seq(Fr), NEW q \in Seq(Fr), Ser(p) = Ser(q)
    PROVE  Trim(p) = Trim(q) /\ PolyLen(p) = PolyLen(q)
<1>1. PolyLen(p) \in Nat /\ PolyLen(q) \in Nat
  BY PolyLenFacts
<1>2. PolyLen(p) <= PolyLen(q)
  <2>1. \A k \in Nat : k >= PolyLen(q) => Ser(p)[k] = Zero
    BY SerFacts
  <2>2. QED
    BY <1>1, <2>1, SerFacts
<1>3. PolyLen(q) <= PolyLen(p)
  <2>1. \A k \in Nat : k >= PolyLen(p) => Ser(q)[k] = Zero
    BY SerFacts
  <2>2. QED
    BY <1>1, <2>1, SerFacts
<1>4. PICK l \in Nat : l = PolyLen(p) /\ l = PolyLen(q)
  BY <1>1, <1>2, <1>3
<1>5. PICK s \in Seq(Fr), t \in Seq(Fr) : s = Trim(p) /\ t = Trim(q) /\ Len(s) = l /\ Len(t) = l /\ Ser(s) = Ser(t)
  BY <1>4, TrimFacts
<1>6. ASSUME NEW k \in 1..l PROVE s[k] = t[k]
  <2>1. PICK j \in Nat : k = j + 1 /\ j < l
    <3>1. k - 1 \in Nat /\ k = (k - 1) + 1 /\ k - 1 < l
      OBVIOUS
    <3>2. QED
      BY <3>1
  <2>2. Ser(s)[j] = s[j + 1] /\ Ser(t)[j] = t[j + 1]
    BY <1>5, <2>1, SerFacts
  <2>3. QED
    BY <1>5, <2>1, <2>2
<1>7. s = t
  BY <1>5, <1>6
<1>8. QED
  BY <1>4, <1>5, <1>7

\* The polynomial sum, trimmed, has the sum of the series.
LEMMA PolyAddSer ==
    ASSUME NEW p \in Seq(Fr), NEW q \in Seq(Fr)
    PROVE  /\ PolyAdd(p, q) \in Seq(Fr) /\ Ser(PolyAdd(p, q)) = SAdd(Ser(p), Ser(q))
           /\ PolyLen(PolyAdd(p, q)) = Len(PolyAdd(p, q))
<1>1. PICK n \in Nat : n = Max({Len(p), Len(q)}) /\ n >= Len(p) /\ n >= Len(q)
  <2>1. Len(p) \in Nat /\ Len(q) \in Nat
    OBVIOUS
  <2>2. QED
    BY <2>1, PairFacts
<1> DEFINE s == [k \in 1..n |-> Add(Coeff(p, k), Coeff(q, k))]
<1>2. ASSUME NEW k \in Nat
      PROVE  /\ Coeff(p, k + 1) = Ser(p)[k] /\ Coeff(q, k + 1) = Ser(q)[k]
             /\ Ser(p)[k] \in Fr /\ Ser(q)[k] \in Fr
  BY SerFacts DEF Ser, Series
<1>3. ASSUME NEW k \in 1..n PROVE Add(Coeff(p, k), Coeff(q, k)) \in Fr
  <2>1. PICK j \in Nat : k = j + 1
    <3>1. k - 1 \in Nat /\ k = (k - 1) + 1
      OBVIOUS
    <3>2. QED
      BY <3>1
  <2>2. QED
    BY <1>2, <2>1, FrClosed
<1>4. s \in [1..n -> Fr]
  BY <1>3
<1>5. s \in Seq(Fr) /\ Len(s) = n
  BY <1>4, SeqOf
<1>6. ASSUME NEW k \in Nat PROVE Ser(s)[k] = Add(Ser(p)[k], Ser(q)[k])
  <2>1. Ser(s)[k] = IF k < n THEN s[k + 1] ELSE Zero
    <3> HIDE DEF s
    <3> QED
      BY <1>5, SerFacts
  <2>2. CASE k < n
    <3>1. k + 1 \in 1..n
      BY <2>2
    <3>2. s[k + 1] = Add(Coeff(p, k + 1), Coeff(q, k + 1))
      BY <3>1
    <3>3. QED
      BY <1>2, <2>1, <2>2, <3>2
  <2>3. CASE ~ (k < n)
    <3>1. ~ (k < Len(p)) /\ ~ (k < Len(q))
      BY <1>1, <2>3
    <3>2. Ser(p)[k] = Zero /\ Ser(q)[k] = Zero
      BY <3>1, SerFacts
    <3>3. QED
      BY <2>1, <2>3, <3>2, FrClosed, FrAdditive
  <2>4. QED
    BY <2>2, <2>3
<1>7. Ser(s) = SAdd(Ser(p), Ser(q))
  <2>1. Ser(s) = [k \in Nat |-> Ser(s)[k]]
    BY DEF Ser
  <2> HIDE DEF s
  <2>2. QED
    BY <1>6, <2>1 DEF SAdd
<1>8. PolyAdd(p, q) = Trim(s)
  BY <1>1 DEF PolyAdd
<1> HIDE DEF s
<1>9. QED
  BY <1>5, <1>7, <1>8, TrimFacts

\* So has the difference.
LEMMA PolySubSer ==
    ASSUME NEW p \in Seq(Fr), NEW q \in Seq(Fr)
    PROVE  /\ PolySub(p, q) \in Seq(Fr) /\ Ser(PolySub(p, q)) = SSub(Ser(p), Ser(q))
           /\ PolyLen(PolySub(p, q)) = Len(PolySub(p, q))
<1>1. PICK n \in Nat : n = Max({Len(p), Len(q)}) /\ n >= Len(p) /\ n >= Len(q)
  <2>1. Len(p) \in Nat /\ Len(q) \in Nat
    OBVIOUS
  <2>2. QED
    BY <2>1, PairFacts
<1> DEFINE s == [k \in 1..n |-> Sub(Coeff(p, k), Coeff(q, k))]
<1>2. ASSUME NEW k \in Nat
      PROVE  /\ Coeff(p, k + 1) = Ser(p)[k] /\ Coeff(q, k + 1) = Ser(q)[k]
             /\ Ser(p)[k] \in Fr /\ Ser(q)[k] \in Fr
  BY SerFacts DEF Ser, Series
<1>3. ASSUME NEW k \in 1..n PROVE Sub(Coeff(p, k), Coeff(q, k)) \in Fr
  <2>1. PICK j \in Nat : k = j + 1
    <3>1. k - 1 \in Nat /\ k = (k - 1) + 1
      OBVIOUS
    <3>2. QED
      BY <3>1
  <2>2. Coeff(p, k) \in Fr /\ Coeff(q, k) \in Fr
    BY <1>2, <2>1
  <2>3. QED
    BY <2>2, SubFacts
<1>4. s \in [1..n -> Fr]
  BY <1>3
<1>5. s \in Seq(Fr) /\ Len(s) = n
  BY <1>4, SeqOf
<1>6. ASSUME NEW k \in Nat PROVE Ser(s)[k] = Sub(Ser(p)[k], Ser(q)[k])
  <2>1. Ser(s)[k] = IF k < n THEN s[k + 1] ELSE Zero
    <3> HIDE DEF s
    <3> QED
      BY <1>5, SerFacts
  <2>2. CASE k < n
    <3>1. k + 1 \in 1..n
      BY <2>2
    <3>2. s[k + 1] = Sub(Coeff(p, k + 1), Coeff(q, k + 1))
      BY <3>1
    <3>3. QED
      BY <1>2, <2>1, <2>2, <3>2
  <2>3. CASE ~ (k < n)
    <3>1. ~ (k < Len(p)) /\ ~ (k < Len(q))
      BY <1>1, <2>3
    <3>2. Ser(p)[k] = Zero /\ Ser(q)[k] = Zero
      BY <3>1, SerFacts
    <3>3. Sub(Zero, Zero) = Zero
      BY FrClosed, SubFacts
    <3>4. QED
      BY <2>1, <2>3, <3>2, <3>3
  <2>4. QED
    BY <2>2, <2>3
<1>7. Ser(s) = SSub(Ser(p), Ser(q))
  <2>1. Ser(s) = [k \in Nat |-> Ser(s)[k]]
    BY DEF Ser
  <2> HIDE DEF s
  <2>2. QED
    BY <1>6, <2>1 DEF SSub
<1>8. PolySub(p, q) = Trim(s)
  BY <1>1 DEF PolySub
<1> HIDE DEF s
<1>9. QED
  BY <1>5, <1>7, <1>8, TrimFacts

\* The sum that makes a coefficient of the polynomial product.
MulTerms(p, q, k) == [i \in 1..Len(p) |-> Mul(p[i], Coeff(q, k - i + 1))]

\* It is the coefficient of the product of the series.
LEMMA MulTermsConv ==
    ASSUME NEW p \in Seq(Fr), NEW q \in Seq(Fr), NEW n \in Nat
    PROVE  /\ MulTerms(p, q, n + 1) \in [1..Len(p) -> Fr]
           /\ FSum(MulTerms(p, q, n + 1)) = Conv(Ser(p), Ser(q))[n]
<1> DEFINE l == Len(p)
           k == n + 1
           m == l + k
           A == MulTerms(p, q, k)
           B == ConvTerms(Ser(p), Ser(q), n)
           C == [i \in 1..m |-> IF i <= l /\ i <= k THEN A[i] ELSE Zero]
<1>1. l \in Nat /\ k \in Nat /\ m \in Nat /\ l <= m /\ k <= m /\ DOMAIN p = 1..l
  OBVIOUS
<1>2. Ser(p) \in Series /\ Ser(q) \in Series
  BY SerFacts
<1>3. ASSUME NEW i \in 1..l
      PROVE  /\ A[i] \in Fr
             /\ i > k => A[i] = Zero
             /\ i <= k => A[i] = B[i]
  <2>1. A[i] = Mul(p[i], Coeff(q, k - i + 1)) /\ p[i] \in Fr
    BY <1>1 DEF MulTerms
  <2>2. ASSUME i > k PROVE A[i] = Zero
    <3>1. k - i + 1 \notin 1..Len(q)
      BY <1>1, <2>2
    <3>2. Coeff(q, k - i + 1) = Zero
      BY <3>1 DEF Coeff
    <3>3. QED
      BY <2>1, <3>2, MulZero
  <2>3. ASSUME i <= k PROVE A[i] = B[i] /\ B[i] \in Fr
    <3>1. PICK j \in Nat, h \in Nat : i - 1 = j /\ n + 1 - i = h /\ i = j + 1 /\ k - i + 1 = h + 1
      <4>1. i - 1 \in Nat /\ n + 1 - i \in Nat /\ i = (i - 1) + 1 /\ k - i + 1 = (n + 1 - i) + 1
        BY <1>1, <2>3
      <4>2. QED
        BY <4>1
    <3>2. Ser(p)[j] = p[i]
      <4>1. j < Len(p)
        BY <3>1
      <4>2. QED
        BY <3>1, <4>1, SerFacts
    <3>3. Ser(q)[h] = Coeff(q, k - i + 1)
      BY <3>1 DEF Ser
    <3>4. B[i] = Mul(Ser(p)[j], Ser(q)[h])
      <4>1. i \in 1..(n + 1)
        BY <2>3
      <4>2. QED
        BY <3>1, <4>1 DEF ConvTerms
    <3>5. B[i] \in Fr
      <4>1. Ser(p)[j] \in Fr /\ Ser(q)[h] \in Fr
        BY <1>2 DEF Series
      <4>2. QED
        BY <3>4, <4>1, FrClosed
    <3>6. QED
      BY <2>1, <3>2, <3>3, <3>4, <3>5
  <2>4. QED
    BY <1>1, <2>2, <2>3, FrClosed
<1>4. A \in [1..l -> Fr]
  <2>1. A = [i \in 1..l |-> A[i]]
    BY DEF MulTerms
  <2> HIDE DEF A
  <2>2. QED
    BY <1>3, <2>1
<1>5. B \in [1..k -> Fr]
  BY <1>2, ConvTermsType
<1>6. ASSUME NEW i \in 1..k, i > l PROVE B[i] = Zero
  <2>1. PICK j \in Nat, h \in Nat : i - 1 = j /\ n + 1 - i = h /\ ~ (j < Len(p))
    <3>1. i - 1 \in Nat /\ n + 1 - i \in Nat /\ ~ (i - 1 < Len(p))
      BY <1>1, <1>6
    <3>2. QED
      BY <3>1
  <2>2. B[i] = Mul(Ser(p)[j], Ser(q)[h])
    BY <2>1 DEF ConvTerms
  <2>3. Ser(p)[j] = Zero
    BY <2>1, SerFacts
  <2>4. Ser(q)[h] \in Fr
    BY <1>2 DEF Series
  <2>5. QED
    BY <2>2, <2>3, <2>4, MulZero
<1> HIDE DEF A, B
<1>7. C \in [1..m -> Fr]
  BY <1>1, <1>4, FrClosed
<1>8. FSum(C) = FSum(A)
  <2>1. ASSUME NEW i \in 1..m PROVE C[i] = IF i <= l THEN A[i] ELSE Zero
    <3>1. C[i] = IF i <= l /\ i <= k THEN A[i] ELSE Zero
      OBVIOUS
    <3>2. i <= l => i \in 1..l
      BY <1>1
    <3>3. i <= l /\ ~ (i <= k) => A[i] = Zero
      BY <1>1, <1>3, <3>2
    <3> HIDE DEF C, l, k, m
    <3>4. QED
      BY <3>1, <3>3
  <2> HIDE DEF C, l, k, m
  <2>2. IsPadded(A, l, C, m)
    BY <2>1 DEF IsPadded
  <2>3. QED
    BY <1>1, <1>4, <1>7, <2>2, FSumPad
<1>9. FSum(C) = FSum(B)
  <2>1. ASSUME NEW i \in 1..m PROVE C[i] = IF i <= k THEN B[i] ELSE Zero
    <3>1. C[i] = IF i <= l /\ i <= k THEN A[i] ELSE Zero
      OBVIOUS
    <3>2. (i <= l => i \in 1..l) /\ (i <= k => i \in 1..k) /\ (~ (i <= l) => i > l)
      BY <1>1
    <3> HIDE DEF C, l, k, m
    <3>3. i <= l /\ i <= k => A[i] = B[i]
      BY <1>3, <3>2
    <3>4. ~ (i <= l) /\ i <= k => B[i] = Zero
      BY <1>6, <3>2
    <3>5. QED
      BY <3>1, <3>3, <3>4
  <2> HIDE DEF C, l, k, m
  <2>2. IsPadded(B, k, C, m)
    BY <2>1 DEF IsPadded
  <2>3. QED
    BY <1>1, <1>5, <1>7, <2>2, FSumPad
<1>10. Conv(Ser(p), Ser(q))[n] = FSum(B)
  BY DEF Conv, B
<1>11. QED
  BY <1>4, <1>8, <1>9, <1>10 DEF A

\* The polynomial product, trimmed, has the product of the series.
LEMMA PolyMulSer ==
    ASSUME NEW p \in Seq(Fr), NEW q \in Seq(Fr)
    PROVE  /\ PolyMul(p, q) \in Seq(Fr) /\ Ser(PolyMul(p, q)) = Conv(Ser(p), Ser(q))
           /\ PolyLen(PolyMul(p, q)) = Len(PolyMul(p, q))
<1>1. Ser(p) \in Series /\ Ser(q) \in Series /\ PolyLen(p) \in Nat /\ PolyLen(q) \in Nat
      /\ Len(p) \in Nat /\ Len(q) \in Nat
  BY SerFacts, PolyLenFacts
<1>2. Conv(Ser(p), Ser(q)) = [n \in Nat |-> Conv(Ser(p), Ser(q))[n]]
  BY DEF Conv
<1>3. CASE PolyLen(p) = 0 \/ PolyLen(q) = 0
  <2>1. PolyMul(p, q) = <<>>
    BY <1>3 DEF PolyMul
  <2>2. PICK e \in Seq(Fr) : e = PolyMul(p, q) /\ Len(e) = 0
    <3>1. <<>> \in Seq(Fr) /\ Len(<<>>) = 0
      OBVIOUS
    <3>2. QED
      BY <2>1, <3>1
  <2>3. \A k \in Nat : Ser(e)[k] = Zero
    <3>1. \A k \in Nat : Ser(e)[k] = IF k < Len(e) THEN e[k + 1] ELSE Zero
      BY SerFacts
    <3>2. QED
      BY <2>2, <3>1
  <2>4. ASSUME NEW n \in Nat PROVE Conv(Ser(p), Ser(q))[n] = Zero
    <3>1. CASE PolyLen(p) = 0
      <4>1. PICK a \in Nat, b \in Nat : a = n + 1 /\ b = 0
        OBVIOUS
      <4>2. \A k \in Nat : Ser(p)[k] = Zero
        BY <3>1, SerFacts
      <4>3. NoneBelow(Ser(p), a)
        BY <4>2 DEF NoneBelow
      <4>4. NoneBelow(Ser(q), b)
        BY <4>1 DEF NoneBelow
      <4>5. n < a + b
        BY <4>1
      <4>6. QED
        BY <1>1, <4>3, <4>4, <4>5, ConvVanish
    <3>2. CASE PolyLen(q) = 0
      <4>1. PICK a \in Nat, b \in Nat : a = n + 1 /\ b = 0
        OBVIOUS
      <4>2. \A k \in Nat : Ser(q)[k] = Zero
        BY <3>2, SerFacts
      <4>3. NoneBelow(Ser(q), a)
        BY <4>2 DEF NoneBelow
      <4>4. NoneBelow(Ser(p), b)
        BY <4>1 DEF NoneBelow
      <4>5. n < b + a
        BY <4>1
      <4>6. QED
        BY <1>1, <4>3, <4>4, <4>5, ConvVanish
    <3>3. QED
      BY <1>3, <3>1, <3>2
  <2>5. Ser(e) = Conv(Ser(p), Ser(q))
    <3>1. Ser(e) = [k \in Nat |-> Ser(e)[k]]
      BY DEF Ser
    <3>2. QED
      BY <1>2, <2>3, <2>4, <3>1
  <2>6. PolyLen(e) = Len(e)
    <3>1. PolyLen(e) \in 0..Len(e)
      BY PolyLenFacts
    <3>2. QED
      BY <2>2, <3>1
  <2>7. QED
    BY <2>2, <2>5, <2>6
<1>4. CASE PolyLen(p) # 0 /\ PolyLen(q) # 0
  <2> DEFINE n == Len(p) + Len(q) - 1
             s == [k \in 1..n |-> FSum(MulTerms(p, q, k))]
  <2>1. n \in Nat /\ n + 1 >= Len(p) + Len(q)
    BY <1>1, <1>4, PolyLenFacts
  <2>2. ASSUME NEW k \in 1..n
        PROVE  FSum(MulTerms(p, q, k)) = Conv(Ser(p), Ser(q))[k - 1] /\ FSum(MulTerms(p, q, k)) \in Fr
    <3>1. PICK j \in Nat : k = j + 1 /\ j = k - 1
      <4>1. k - 1 \in Nat /\ k = (k - 1) + 1
        BY <2>1
      <4>2. QED
        BY <4>1
    <3>2. FSum(MulTerms(p, q, j + 1)) = Conv(Ser(p), Ser(q))[j]
      BY MulTermsConv
    <3>3. Conv(Ser(p), Ser(q))[j] \in Fr
      BY <1>1, ConvType DEF Series
    <3>4. QED
      BY <3>1, <3>2, <3>3
  <2>3. s \in [1..n -> Fr]
    BY <2>2
  <2>4. s \in Seq(Fr) /\ Len(s) = n
    BY <2>1, <2>3, SeqOf
  <2>5. ASSUME NEW k \in Nat PROVE Ser(s)[k] = Conv(Ser(p), Ser(q))[k]
    <3>1. Ser(s)[k] = IF k < n THEN s[k + 1] ELSE Zero
      <4> HIDE DEF s
      <4> QED
        BY <2>4, SerFacts
    <3>2. CASE k < n
      <4>1. k + 1 \in 1..n /\ (k + 1) - 1 = k
        BY <2>1, <3>2
      <4>2. s[k + 1] = Conv(Ser(p), Ser(q))[k]
        BY <2>2, <4>1
      <4>3. QED
        BY <3>1, <3>2, <4>2
    <3>3. CASE ~ (k < n)
      <4>1. k + 1 >= Len(p) + Len(q)
        BY <1>1, <2>1, <3>3
      <4>2. NoneFrom(Ser(p), Len(p))
        BY <1>1, SerFacts DEF NoneFrom
      <4>3. NoneFrom(Ser(q), Len(q))
        BY <1>1, SerFacts DEF NoneFrom
      <4>4. Conv(Ser(p), Ser(q))[k] = Zero
        BY <1>1, <4>1, <4>2, <4>3, ConvBeyond
      <4>5. QED
        BY <3>1, <3>3, <4>4
    <3>4. QED
      BY <3>2, <3>3
  <2>6. PolyMul(p, q) = Trim(s)
    <3>1. ~ (PolyLen(p) = 0 \/ PolyLen(q) = 0)
      BY <1>4
    <3>2. s = [k \in 1..(Len(p) + Len(q) - 1) |->
                 FSum([i \in 1..Len(p) |-> Mul(p[i], Coeff(q, k - i + 1))])]
      BY DEF MulTerms
    <3> HIDE DEF s
    <3>3. QED
      BY <3>1, <3>2 DEF PolyMul
  <2> HIDE DEF s, n
  <2>7. Ser(s) = Conv(Ser(p), Ser(q))
    <3>1. Ser(s) = [k \in Nat |-> Ser(s)[k]]
      BY DEF Ser
    <3>2. QED
      BY <1>2, <2>5, <3>1
  <2>8. QED
    BY <2>4, <2>6, <2>7, TrimFacts
<1>5. QED
  BY <1>3, <1>4
-----------------------------------------------------------------------------
\* A fold over 1..n exists, whatever function G is iterated, and on whatever set.
IsFoldOf(f, n, b, G) == f[0] = b /\ \A i \in 1..n : f[i] = G[<<f[i - 1], i>>]
FoldStep(G, n, V) == G \in [V \X (1..n) -> V]
\* A fold with a given step has such a chain of partial results.
LEMMA FoldExistsIn ==
    ASSUME NEW n \in Nat, NEW V, NEW b \in V, NEW G, FoldStep(G, n, V)
    PROVE  \E f \in [0..n -> V] : IsFoldOf(f, n, b, G)
<1> USE DEF FoldStep
<1> DEFINE IsFold(f, m) == f[0] = b /\ \A i \in 1..m : f[i] = G[<<f[i - 1], i>>]
           S == {m \in 0..n : \E f \in [0..m -> V] : IsFold(f, m)}
<1>1. 0 \in S
  <2> DEFINE g == [i \in 0..0 |-> b]
  <2>1. g \in [0..0 -> V] /\ IsFold(g, 0)
    OBVIOUS
  <2>2. QED
    <3> HIDE DEF g, IsFold
    <3> QED
      BY <2>1
<1>2. ASSUME NEW m \in 1..n, m - 1 \in S PROVE m \in S
  <2>1. PICK g \in [0..(m - 1) -> V] : IsFold(g, m - 1)
    BY <1>2
  <2> DEFINE h == [i \in 0..m |-> IF i = m THEN G[<<g[m - 1], m>>] ELSE g[i]]
  <2>2. g[m - 1] \in V /\ <<g[m - 1], m>> \in V \X (1..n)
    OBVIOUS
  <2>3. h \in [0..m -> V]
    BY <2>2
  <2>4. h[0] = b
    BY <2>1
  <2>5. ASSUME NEW i \in 1..m PROVE h[i] = G[<<h[i - 1], i>>]
    <3>1. CASE i = m
      <4>1. h[m] = G[<<g[m - 1], m>>] /\ h[m - 1] = g[m - 1]
        OBVIOUS
      <4>2. QED
        BY <3>1, <4>1
    <3>2. CASE i # m
      <4>1. i \in 1..(m - 1) /\ i - 1 # m
        BY <3>2
      <4>2. h[i] = g[i] /\ h[i - 1] = g[i - 1]
        BY <4>1
      <4>3. QED
        BY <2>1, <4>1, <4>2
    <3>3. QED
      BY <3>1, <3>2
  <2>6. IsFold(h, m)
    BY <2>4, <2>5
  <2>7. QED
    <3> HIDE DEF h, IsFold
    <3> QED
      BY <2>3, <2>6
<1>3. \A i \in 0..n : i \in S
  <2> HIDE DEF S
  <2> QED
    BY <1>1, <1>2, IndexInduction
<1>4. n \in S
  <2> HIDE DEF S
  <2> QED
    BY <1>3
<1>5. QED
  BY <1>4 DEF IsFoldOf


\* Pow2 is the last of the powers of two.
LEMMA PowSteps ==
    ASSUME NEW n \in Nat
    PROVE  \E f \in [0..n -> Nat] :
              f[0] = 1 /\ (\A i \in 1..n : f[i] = 2 * f[i - 1]) /\ Pow2(n) = f[n]
<1> DEFINE Step(f) == [i \in 0..n |-> IF i = 0 THEN 1 ELSE 2 * f[i - 1]]
           acc == CHOOSE f : f = Step(f)
           G == [p \in Nat \X (1..n) |-> 2 * p[1]]
<1>1. G \in [Nat \X (1..n) -> Nat] /\ 1 \in Nat
  OBVIOUS
<1>2. PICK f \in [0..n -> Nat] : f[0] = 1 /\ \A i \in 1..n : f[i] = G[<<f[i - 1], i>>]
  <2>1. PICK b \in Nat : b = 1
    OBVIOUS
  <2> HIDE DEF G
  <2>2. FoldStep(G, n, Nat)
    BY <1>1 DEF FoldStep
  <2>3. \E f \in [0..n -> Nat] : IsFoldOf(f, n, b, G)
    BY ZenonT(90), <2>2, FoldExistsIn
  <2>4. QED
    BY <2>1, <2>3 DEF IsFoldOf
<1>3. \A i \in 1..n : f[i] = 2 * f[i - 1]
  <2>1. SUFFICES ASSUME NEW i \in 1..n PROVE f[i] = 2 * f[i - 1]
    OBVIOUS
  <2>2. <<f[i - 1], i>> \in Nat \X (1..n)
    OBVIOUS
  <2>3. QED
    BY <1>2, <2>2
<1>4. f = Step(f)
  <2> HIDE DEF G
  <2>1. \A i \in 0..n : f[i] = IF i = 0 THEN 1 ELSE 2 * f[i - 1]
    BY <1>2, <1>3
  <2>2. QED
    BY <2>1
<1>5. acc = Step(acc)
  BY <1>4
<1>6. acc[0] = 1 /\ (\A i \in 1..n : acc[i] = 2 * acc[i - 1]) /\ DOMAIN acc = 0..n
  <2> HIDE DEF acc
  <2> QED
    BY <1>5
<1>7. \A i \in 0..n : i \in {k \in 0..n : acc[k] \in Nat}
  <2> HIDE DEF acc
  <2> DEFINE S == {k \in 0..n : acc[k] \in Nat}
  <2>1. 0 \in S
    BY <1>6
  <2>2. \A i \in 1..n : i - 1 \in S => i \in S
    BY <1>6
  <2>3. QED
    <3> HIDE DEF S
    <3>1. \A i \in 0..n : i \in S
      BY <2>1, <2>2, IndexInduction
    <3>2. QED
      BY <3>1 DEF S
<1>8. acc \in [0..n -> Nat]
  <2> HIDE DEF acc
  <2> QED
    BY <1>5, <1>7
<1>9. Pow2(n) = acc[n]
  BY DEF Pow2
<1>10. QED
  <2> HIDE DEF acc
  <2> QED
    BY <1>6, <1>8, <1>9

\* The powers of two double.
LEMMA Pow2Facts ==
    /\ Pow2(0) = 1
    /\ \A n \in Nat : Pow2(n) \in Nat /\ Pow2(n + 1) = 2 * Pow2(n)
<1>1. Pow2(0) = 1
  BY PowSteps
<1>2. ASSUME NEW n \in Nat PROVE Pow2(n) \in Nat /\ Pow2(n + 1) = 2 * Pow2(n)
  <2>1. PICK f \in [0..n -> Nat] : f[0] = 1 /\ (\A i \in 1..n : f[i] = 2 * f[i - 1]) /\ Pow2(n) = f[n]
    BY PowSteps
  <2>2. PICK m \in Nat : m = n + 1
    OBVIOUS
  <2>3. PICK g \in [0..m -> Nat] : g[0] = 1 /\ (\A i \in 1..m : g[i] = 2 * g[i - 1]) /\ Pow2(m) = g[m]
    BY PowSteps
  <2> DEFINE S == {i \in 0..n : f[i] = g[i]}
  <2>4. 0 \in S
    BY <2>1, <2>3
  <2>5. \A i \in 1..n : i - 1 \in S => i \in S
    <3> SUFFICES ASSUME NEW i \in 1..n, i - 1 \in S PROVE f[i] = g[i]
      OBVIOUS
    <3>1. i \in 1..m /\ f[i] = 2 * f[i - 1]
      BY <2>1, <2>2
    <3>2. g[i] = 2 * g[i - 1]
      BY <2>3, <3>1
    <3>3. f[i - 1] = g[i - 1]
      OBVIOUS
    <3>4. QED
      BY <3>1, <3>2, <3>3
  <2>6. \A i \in 0..n : i \in S
    <3> HIDE DEF S
    <3> QED
      BY <2>4, <2>5, IndexInduction
  <2>7. f[n] = g[n]
    BY <2>6
  <2>8. g[m] = 2 * g[m - 1] /\ m - 1 = n
    BY <2>2, <2>3
  <2>9. QED
    BY <2>1, <2>2, <2>3, <2>7, <2>8
<1>3. QED
  BY <1>1, <1>2

\* log2 rounds up: its power of two is the first that is not below its argument.
LEMMA Log2Facts ==
    ASSUME NEW n \in Nat
    PROVE  /\ Log2(n) \in Nat /\ Pow2(Log2(n)) >= n
           /\ \A j \in 0..(Log2(n) - 1) : Pow2(j) < n
<1> DEFINE S == {k \in Nat : Pow2(k) >= k + 1}
<1>1. 0 \in S
  BY Pow2Facts
<1>2. \A k \in Nat : k \in S => k + 1 \in S
  <2> SUFFICES ASSUME NEW k \in Nat, Pow2(k) >= k + 1 PROVE Pow2(k + 1) >= (k + 1) + 1
    OBVIOUS
  <2>1. PICK x \in Nat : x = Pow2(k) /\ Pow2(k + 1) = 2 * x
    BY Pow2Facts
  <2>2. QED
    BY <2>1
<1>3. \A k \in Nat : k \in S
  <2> HIDE DEF S
  <2> QED
    BY <1>1, <1>2, SetInduction
<1>4. Pow2(n) \in Nat /\ Pow2(n) >= n
  BY <1>3, Pow2Facts
<1> DEFINE T == {k \in 0..n : Pow2(k) >= n}
<1>5. n \in T
  BY <1>4
<1>6. PICK k \in T : \A j \in T : k <= j
  <2> DEFINE R == {ss \in Nat \X Nat : ss[1] < ss[2]}
  <2>1. IsWellFoundedOn(R, Nat)
    BY NatLessThanWellFounded DEF OpToRel
  <2>2. T \subseteq Nat /\ T # {}
    BY <1>5
  <2>3. PICK m \in T : \A j \in T : ~ (<<j, m>> \in R)
    <3> HIDE DEF R, T
    <3> QED
      BY <2>1, <2>2, WFMin
  <2>4. ASSUME NEW j \in T PROVE m <= j
    <3>1. m \in Nat /\ j \in Nat
      BY <2>2
    <3>2. j < m => <<j, m>> \in R
      <4>1. <<j, m>> \in Nat \X Nat /\ <<j, m>>[1] = j /\ <<j, m>>[2] = m
        BY <3>1
      <4>2. QED
        BY <4>1
    <3> HIDE DEF R, T
    <3>3. QED
      BY <2>3, <3>1, <3>2
  <2>5. QED
    BY <2>4
<1>7. ASSUME NEW j \in 0..(k - 1) PROVE Pow2(j) < n
  <2>1. j \in 0..n /\ j \in Nat /\ j < k
    OBVIOUS
  <2>2. j \notin T
    <3> HIDE DEF T
    <3> QED
      BY <1>6, <2>1 DEF T
  <2>3. Pow2(j) \in Nat
    BY <2>1, Pow2Facts
  <2>4. QED
    BY <2>1, <2>2, <2>3
<1>8. k \in 0..n /\ Pow2(k) >= n /\ \A j \in 0..(k - 1) : Pow2(j) < n
  BY <1>7
<1> DEFINE P(i) == Pow2(i) >= n /\ \A j \in 0..(i - 1) : Pow2(j) < n
<1>9. Log2(n) = CHOOSE i \in 0..n : P(i)
  BY DEF Log2
<1>10. \E i \in 0..n : P(i)
  BY <1>8
<1> HIDE DEF P
<1>11. Log2(n) \in 0..n /\ P(Log2(n))
  BY <1>9, <1>10
<1>12. QED
  BY <1>11 DEF P

\* The product of f and g is one up to the coefficient a.
InvertsBelow(f, g, a) == \A k \in Nat : k < a => Conv(f, g)[k] = SOne[k]

\* One step of the Newton iteration on series doubles the precision:
\* 1 - f (2g - f g^2) = (1 - f g)^2.
LEMMA NewtonSeries ==
    ASSUME NEW f \in Series, NEW g \in Series, NEW a \in Nat, InvertsBelow(f, g, a),
           NEW k \in Nat, k < 2 * a
    PROVE  Conv(f, SSub(SAdd(g, g), Conv(f, Conv(g, g))))[k] = SOne[k]
<1> DEFINE e == Conv(f, g)
           ee == Conv(e, e)
           d == SSub(SOne, e)
<1>1. SOne \in Series /\ e \in Series
  BY ConvType, SeriesTypes, FrClosed
<1>2. ee \in Series /\ d \in Series /\ Conv(g, g) \in Series /\ SAdd(g, g) \in Series
  <2> HIDE DEF e
  <2> QED
    BY <1>1, ConvType, SeriesTypes, FrClosed
<1>3. Conv(f, Conv(g, g)) \in Series
  BY <1>2, ConvType
<1>4. Conv(f, Conv(f, Conv(g, g))) = ee
  <2>1. Conv(f, Conv(g, g)) = Conv(e, g)
    BY ConvAssoc
  <2>2. Conv(e, g) = Conv(g, e)
    <3> HIDE DEF e
    <3> QED
      BY <1>1, ConvComm
  <2>3. Conv(f, Conv(g, e)) = Conv(Conv(f, g), e)
    <3> HIDE DEF e
    <3> QED
      BY <1>1, ConvAssoc
  <2>4. QED
    BY <2>1, <2>2, <2>3
<1>5. Conv(f, SAdd(g, g)) = SAdd(e, e)
  <2>1. Conv(SAdd(g, g), f) = SAdd(Conv(g, f), Conv(g, f))
    BY ConvLinear, FrClosed
  <2>2. Conv(f, SAdd(g, g)) = Conv(SAdd(g, g), f) /\ Conv(g, f) = Conv(f, g)
    BY <1>2, ConvComm
  <2>3. QED
    BY <2>1, <2>2
<1>6. Conv(f, SSub(SAdd(g, g), Conv(f, Conv(g, g)))) = SSub(SAdd(e, e), ee)
  <2>1. Conv(f, SSub(SAdd(g, g), Conv(f, Conv(g, g)))) = SSub(Conv(f, SAdd(g, g)), Conv(f, Conv(f, Conv(g, g))))
    BY <1>2, <1>3, ConvSub
  <2>2. QED
    BY <1>4, <1>5, <2>1
<1> HIDE DEF e
<1>7. Conv(d, d) = SSub(d, SSub(e, ee))
  <2>1. Conv(d, d) = SSub(Conv(SOne, d), Conv(e, d))
    <3> HIDE DEF ee
    <3>1. Conv(SSub(SOne, e), d) = SSub(Conv(SOne, d), Conv(e, d))
      BY <1>1, <1>2, ConvSub
    <3>2. QED
      BY <3>1
  <2>2. Conv(SOne, d) = d /\ Conv(e, SOne) = e
    <3> HIDE DEF d
    <3> QED
      BY <1>1, <1>2, ConvOne
  <2>3. Conv(e, d) = SSub(Conv(e, SOne), Conv(e, e))
    BY <1>1, ConvSub
  <2>4. QED
    BY <2>1, <2>2, <2>3
<1>8. NoneBelow(d, a)
  <2> SUFFICES ASSUME NEW j \in Nat, j < a PROVE d[j] = Zero
    BY DEF NoneBelow
  <2>1. e[j] = SOne[j] /\ SOne[j] \in Fr
    BY <1>1 DEF InvertsBelow, e, Series
  <2>2. d[j] = Sub(SOne[j], e[j])
    BY DEF SSub
  <2>3. QED
    BY <2>1, <2>2, SubFacts
<1>9. Conv(d, d)[k] = Zero
  <2>1. k < a + a
    OBVIOUS
  <2> HIDE DEF d
  <2>2. QED
    BY <1>2, <1>8, <2>1, ConvVanish
<1>10. PICK o \in Fr, x \in Fr, y \in Fr : o = SOne[k] /\ x = e[k] /\ y = ee[k]
  BY <1>1, <1>2 DEF Series
<1>11. Sub(Sub(o, x), Sub(x, y)) = Zero
  <2>1. Conv(d, d)[k] = Sub(Sub(SOne[k], e[k]), Sub(e[k], ee[k]))
    <3> HIDE DEF ee
    <3> QED
      BY <1>7 DEF SSub
  <2>2. QED
    BY <1>9, <1>10, <2>1
<1>12. Sub(Add(x, x), y) = o
  <2>1. Sub(o, x) \in Fr /\ Sub(x, y) \in Fr /\ Neg(y) \in Fr
    BY SubFacts, FrClosed
  <2>2. Sub(o, x) = Sub(x, y)
    BY <1>11, <2>1, SubFacts
  <2>3. Add(x, Sub(o, x)) = o
    BY SubFacts
  <2>4. Add(x, Add(x, Neg(y))) = Add(Add(x, x), Neg(y))
    BY <2>1, FrAdditive
  <2>5. QED
    BY <2>2, <2>3, <2>4 DEF Sub
<1>13. SSub(SAdd(e, e), ee)[k] = Sub(Add(e[k], e[k]), ee[k])
  <2> HIDE DEF ee
  <2> QED
    BY DEF SSub, SAdd
<1>14. QED
  BY <1>6, <1>10, <1>12, <1>13

\* The series of a polynomial cut after a coefficients.
LEMMA CutSer ==
    ASSUME NEW p \in Seq(Fr), NEW a \in Nat
    PROVE  LET h == SubSeq(p, 1, Min({Len(p), a}))
           IN  h \in Seq(Fr) /\ Len(h) = Min({Len(p), a}) /\ \A k \in Nat : k < a => Ser(h)[k] = Ser(p)[k]
<1> DEFINE m == Min({Len(p), a})
           h == SubSeq(p, 1, m)
<1>1. Len(p) \in Nat /\ m \in Nat /\ m = IF Len(p) <= a THEN Len(p) ELSE a
  <2>1. Len(p) \in Nat
    OBVIOUS
  <2>2. QED
    BY <2>1, PairFacts
<1> HIDE DEF m
<1>2. h = [i \in 1..m |-> p[i]]
  <2>1. m <= Len(p)
    BY <1>1
  <2>2. QED
    BY <1>1, <2>1
<1>3. h \in [1..m -> Fr]
  <2>1. \A i \in 1..m : p[i] \in Fr
    <3>1. \A i \in 1..m : i \in 1..Len(p)
      BY <1>1
    <3>2. QED
      BY <3>1
  <2>2. QED
    <3> HIDE DEF h
    <3> QED
      BY <1>2, <2>1
<1>4. h \in Seq(Fr) /\ Len(h) = m
  BY <1>1, <1>3, SeqOf
<1>5. \A i \in 1..m : h[i] = p[i]
  BY <1>2
<1> HIDE DEF h
<1>6. ASSUME NEW k \in Nat, k < a PROVE Ser(h)[k] = Ser(p)[k]
  <2>1. Ser(h)[k] = IF k < m THEN h[k + 1] ELSE Zero
    BY <1>4, SerFacts
  <2>2. Ser(p)[k] = IF k < Len(p) THEN p[k + 1] ELSE Zero
    BY SerFacts
  <2>3. k < m => h[k + 1] = p[k + 1]
    BY <1>1, <1>5
  <2>4. k < m <=> k < Len(p)
    BY <1>1, <1>6
  <2>5. QED
    BY <2>1, <2>2, <2>3, <2>4
<1>7. QED
  BY <1>4, <1>6 DEF h, m

\* NewtonStep doubles the precision of an inverse.
LEMMA NewtonStepFacts ==
    ASSUME NEW f \in Seq(Fr), NEW g \in Seq(Fr), NEW a \in Nat, NEW acc \in Nat, acc = 2 * a,
           InvertsBelow(Ser(f), Ser(g), a)
    PROVE  /\ NewtonStep(f, g, acc) \in Seq(Fr)
           /\ InvertsBelow(Ser(f), Ser(NewtonStep(f, g, acc)), acc)
<1> DEFINE gg == PolyMul(g, g)
           fgg == PolyMul(f, gg)
           two == PolyAdd(g, g)
           next == PolySub(two, fgg)
           h == SubSeq(next, 1, Min({Len(next), acc}))
           N == SSub(SAdd(Ser(g), Ser(g)), Conv(Ser(f), Conv(Ser(g), Ser(g))))
<1>1. Ser(f) \in Series /\ Ser(g) \in Series
  BY SerFacts
<1>2. gg \in Seq(Fr) /\ Ser(gg) = Conv(Ser(g), Ser(g))
  BY PolyMulSer
<1>3. fgg \in Seq(Fr) /\ Ser(fgg) = Conv(Ser(f), Ser(gg))
  <2> HIDE DEF gg
  <2> QED
    BY <1>2, PolyMulSer
<1>4. two \in Seq(Fr) /\ Ser(two) = SAdd(Ser(g), Ser(g))
  BY PolyAddSer
<1>5. next \in Seq(Fr) /\ Ser(next) = SSub(Ser(two), Ser(fgg))
  <2> HIDE DEF two, fgg
  <2> QED
    BY <1>3, <1>4, PolySubSer
<1>6. NewtonStep(f, g, acc) = h
  BY DEF NewtonStep
<1> HIDE DEF next, two, fgg, gg
<1>7. Ser(next) = N
  BY <1>2, <1>3, <1>4, <1>5
<1>8. h \in Seq(Fr) /\ \A k \in Nat : k < acc => Ser(h)[k] = Ser(next)[k]
  BY <1>5, CutSer
<1> HIDE DEF h
<1>9. Ser(h) \in Series /\ Ser(next) \in Series
  BY <1>5, <1>8, SerFacts
<1>10. ASSUME NEW k \in Nat, k < acc PROVE Conv(Ser(f), Ser(h))[k] = SOne[k]
  <2>1. \A j \in 0..k : Ser(f)[j] = Ser(f)[j] /\ Ser(h)[j] = Ser(next)[j]
    <3>1. \A j \in 0..k : j \in Nat /\ j < acc
      BY <1>10
    <3>2. QED
      BY <1>8, <3>1
  <2>2. Conv(Ser(f), Ser(h))[k] = Conv(Ser(f), Ser(next))[k]
    BY <1>1, <1>9, <2>1, ConvLocal
  <2>3. Conv(Ser(f), N)[k] = SOne[k]
    <3>1. k < 2 * a
      BY <1>10
    <3>2. QED
      BY <1>1, <3>1, NewtonSeries
  <2>4. QED
    BY <1>7, <2>2, <2>3
<1>11. InvertsBelow(Ser(f), Ser(h), acc)
  BY <1>10 DEF InvertsBelow
<1>12. QED
  BY <1>6, <1>8, <1>11

\* NewtonStep returns a polynomial, whatever it starts from.
LEMMA NewtonStepType ==
    ASSUME NEW f \in Seq(Fr), NEW g \in Seq(Fr), NEW acc \in Nat
    PROVE  NewtonStep(f, g, acc) \in Seq(Fr)
<1> DEFINE gg == PolyMul(g, g)
           fgg == PolyMul(f, gg)
           two == PolyAdd(g, g)
           next == PolySub(two, fgg)
<1>1. gg \in Seq(Fr) /\ two \in Seq(Fr)
  BY PolyMulSer, PolyAddSer
<1>2. fgg \in Seq(Fr)
  <2> HIDE DEF gg
  <2> QED
    BY <1>1, PolyMulSer
<1>3. next \in Seq(Fr)
  <2> HIDE DEF two, fgg
  <2> QED
    BY <1>1, <1>2, PolySubSer
<1>4. NewtonStep(f, g, acc) = SubSeq(next, 1, Min({Len(next), acc}))
  BY DEF NewtonStep
<1> HIDE DEF next
<1>5. QED
  BY <1>3, <1>4, CutSer

\* The inverses that inverse_mod_xl goes through.
NewtonRun(f, n, g) ==
    /\ g[0] = <<Inv(f[1])>>
    /\ \A k \in 1..n : g[k] = NewtonStep(f, g[k - 1], Pow2(k))

\* One before the last ends in a zero.
Stopped(g, n) == \E k \in 0..(n - 1) : LeadingZero(g[k])

\* inverse_mod_xl returns the last of them, or it panics before.
LEMMA InverseSteps ==
    ASSUME NEW f \in Seq(Fr), f # <<>>, f[1] # Zero, NEW l \in Nat
    PROVE  \E g \in [0..Log2(l) -> Seq(Fr)] :
              /\ NewtonRun(f, Log2(l), g)
              /\ InverseModXl(f, l) = IF Stopped(g, Log2(l)) THEN Panic("degree") ELSE Ok(g[Log2(l)])
<1>1. PICK n \in Nat : n = Log2(l)
  BY Log2Facts
<1> DEFINE Step(h) == [k \in 0..n |-> IF k = 0 THEN <<Inv(f[1])>> ELSE NewtonStep(f, h[k - 1], Pow2(k))]
           inv == CHOOSE h : h = Step(h)
           G == [p \in Seq(Fr) \X (1..n) |-> NewtonStep(f, p[1], Pow2(p[2]))]
<1>2. PICK b \in Seq(Fr) : b = <<Inv(f[1])>>
  <2>1. f[1] \in Fr
    OBVIOUS
  <2>2. Inv(f[1]) \in Fr
    BY <2>1, FrClosed
  <2>3. PICK x \in Fr : x = Inv(f[1])
    BY <2>2
  <2>4. <<x>> \in Seq(Fr)
    OBVIOUS
  <2>5. QED
    BY <2>3, <2>4
<1>3. FoldStep(G, n, Seq(Fr))
  <2>1. \A p \in Seq(Fr) \X (1..n) : p[1] \in Seq(Fr) /\ p[2] \in Nat
    OBVIOUS
  <2>2. \A p \in Seq(Fr) \X (1..n) : Pow2(p[2]) \in Nat
    BY <2>1, Pow2Facts
  <2>3. \A p \in Seq(Fr) \X (1..n) : NewtonStep(f, p[1], Pow2(p[2])) \in Seq(Fr)
    BY <2>1, <2>2, NewtonStepType
  <2>4. QED
    BY <2>3 DEF FoldStep
<1>4. PICK g \in [0..n -> Seq(Fr)] : g[0] = b /\ \A i \in 1..n : g[i] = G[<<g[i - 1], i>>]
  <2> HIDE DEF G
  <2>1. \E g \in [0..n -> Seq(Fr)] : IsFoldOf(g, n, b, G)
    BY ZenonT(90), <1>3, FoldExistsIn
  <2>2. QED
    BY <2>1 DEF IsFoldOf
<1>5. \A i \in 1..n : g[i] = NewtonStep(f, g[i - 1], Pow2(i))
  <2> SUFFICES ASSUME NEW i \in 1..n PROVE g[i] = NewtonStep(f, g[i - 1], Pow2(i))
    OBVIOUS
  <2>1. <<g[i - 1], i>> \in Seq(Fr) \X (1..n)
    OBVIOUS
  <2>2. QED
    BY <1>4, <2>1
<1>6. g = Step(g)
  <2> HIDE DEF G
  <2>1. \A i \in 0..n : g[i] = IF i = 0 THEN <<Inv(f[1])>> ELSE NewtonStep(f, g[i - 1], Pow2(i))
    BY <1>2, <1>4, <1>5
  <2>2. QED
    BY <2>1
<1>7. inv = Step(inv)
  BY <1>6
<1>8. inv[0] = b /\ \A i \in 1..n : inv[i] = NewtonStep(f, inv[i - 1], Pow2(i))
  <2> HIDE DEF inv
  <2>1. \A k \in 0..n : inv[k] = IF k = 0 THEN <<Inv(f[1])>> ELSE NewtonStep(f, inv[k - 1], Pow2(k))
    <3>1. PICK h : h = Step(inv)
      OBVIOUS
    <3>2. \A k \in 0..n : h[k] = IF k = 0 THEN <<Inv(f[1])>> ELSE NewtonStep(f, inv[k - 1], Pow2(k))
      BY <3>1
    <3>3. QED
      BY <1>7, <3>1, <3>2
  <2>2. inv[0] = b
    BY <1>2, <2>1
  <2>3. \A i \in 1..n : inv[i] = NewtonStep(f, inv[i - 1], Pow2(i))
    BY <2>1
  <2>4. QED
    BY <2>2, <2>3
<1>9. \A i \in 0..n : i \in {k \in 0..n : inv[k] \in Seq(Fr)}
  <2> HIDE DEF inv
  <2> DEFINE S == {k \in 0..n : inv[k] \in Seq(Fr)}
  <2>1. 0 \in S
    <3>1. inv[0] = b /\ 0 \in 0..n
      BY <1>8
    <3>2. inv[0] \in Seq(Fr)
      BY <3>1
    <3>3. QED
      BY <3>1, <3>2
  <2>2. ASSUME NEW i \in 1..n, i - 1 \in S PROVE i \in S
    <3>0. Pow2(i) \in Nat
      <4>1. i \in Nat
        OBVIOUS
      <4>2. QED
        BY <4>1, Pow2Facts
    <3>1. inv[i - 1] \in Seq(Fr) /\ Pow2(i) \in Nat
      BY <2>2, <3>0
    <3>2. NewtonStep(f, inv[i - 1], Pow2(i)) \in Seq(Fr)
      BY <3>1, NewtonStepType
    <3>3. QED
      BY <1>8, <3>2
  <2>3. QED
    <3> HIDE DEF S
    <3>1. \A i \in 0..n : i \in S
      BY <2>1, <2>2, IndexInduction
    <3>2. QED
      BY <3>1 DEF S
<1>10. inv \in [0..n -> Seq(Fr)]
  <2> HIDE DEF inv
  <2>1. inv = [k \in 0..n |-> inv[k]]
    BY <1>7
  <2>2. QED
    BY <1>9, <2>1
<1>11. InverseModXl(f, l) = IF Stopped(inv, n) THEN Panic("degree") ELSE Ok(inv[n])
  BY <1>1 DEF InverseModXl, Stopped
<1>12. QED
  <2> HIDE DEF inv
  <2>1. NewtonRun(f, n, inv)
    BY <1>2, <1>8 DEF NewtonRun
  <2>2. QED
    BY <1>1, <1>10, <1>11, <2>1

\* Each of them is an inverse, to twice the length of the one before.
LEMMA NewtonInverts ==
    ASSUME NEW f \in Seq(Fr), f # <<>>, f[1] # Zero, NEW n \in Nat,
           NEW g \in [0..n -> Seq(Fr)], NewtonRun(f, n, g)
    PROVE  \A k \in 0..n : InvertsBelow(Ser(f), Ser(g[k]), Pow2(k))
<1> DEFINE S == {k \in 0..n : InvertsBelow(Ser(f), Ser(g[k]), Pow2(k))}
<1>3. 0 \in S
  <2>1. PICK b \in Seq(Fr) : b = g[0]
    OBVIOUS
  <2>2. b = <<Inv(f[1])>> /\ f[1] \in Fr
    BY <2>1 DEF NewtonRun
  <2>3. Len(b) = 1 /\ b[1] = Inv(f[1]) /\ Len(f) \in Nat /\ Len(f) > 0
    BY <2>2
  <2>4. Ser(f)[0] = f[1]
    <3>1. Ser(f)[0] = IF 0 < Len(f) THEN f[0 + 1] ELSE Zero
      BY SerFacts
    <3>2. QED
      BY <2>3, <3>1
  <2>5. Ser(b)[0] = Inv(f[1])
    <3>1. Ser(b)[0] = IF 0 < Len(b) THEN b[0 + 1] ELSE Zero
      BY SerFacts
    <3>2. QED
      BY <2>3, <3>1
  <2>6. Ser(f) \in Series /\ Ser(b) \in Series
    BY SerFacts
  <2>7. Conv(Ser(f), Ser(b))[0] = Mul(Ser(f)[0], Ser(b)[0])
    BY <2>6, ConvStep
  <2>8. Conv(Ser(f), Ser(b))[0] = One
    BY <2>2, <2>4, <2>5, <2>7, FrMultiplicative
  <2>9. SOne[0] = One
    BY DEF SOne
  <2>10. InvertsBelow(Ser(f), Ser(b), 1)
    <3> SUFFICES ASSUME NEW k \in Nat, k < 1 PROVE Conv(Ser(f), Ser(b))[k] = SOne[k]
      BY DEF InvertsBelow
    <3>1. k = 0
      OBVIOUS
    <3>2. QED
      BY <2>8, <2>9, <3>1
  <2>11. QED
    BY <2>1, <2>10, Pow2Facts
<1>4. ASSUME NEW i \in 1..n, i - 1 \in S PROVE i \in S
  <2>1. PICK j \in Nat : j = i - 1
    OBVIOUS
  <2>2. PICK a \in Nat, acc \in Nat : a = Pow2(j) /\ acc = Pow2(i) /\ acc = 2 * a
    <3>1. i = j + 1
      BY <2>1
    <3>2. Pow2(j) \in Nat /\ Pow2(j + 1) = 2 * Pow2(j)
      BY Pow2Facts
    <3>3. QED
      BY <3>1, <3>2
  <2>3. g[j] \in Seq(Fr) /\ g[i] = NewtonStep(f, g[j], acc)
    <3>1. j \in 0..n
      BY <2>1
    <3>2. g[j] \in Seq(Fr)
      BY <3>1
    <3>3. g[i] = NewtonStep(f, g[i - 1], Pow2(i))
      BY DEF NewtonRun
    <3>4. QED
      BY <2>1, <2>2, <3>2, <3>3
  <2>4. InvertsBelow(Ser(f), Ser(g[j]), a)
    <3>1. j \in S
      BY <1>4, <2>1
    <3>2. InvertsBelow(Ser(f), Ser(g[j]), Pow2(j))
      BY <3>1
    <3>3. QED
      BY <2>2, <3>2
  <2>5. InvertsBelow(Ser(f), Ser(NewtonStep(f, g[j], acc)), acc)
    BY <2>2, <2>3, <2>4, NewtonStepFacts
  <2>6. InvertsBelow(Ser(f), Ser(g[i]), Pow2(i))
    BY <2>2, <2>3, <2>5
  <2>7. QED
    BY <2>6
<1>5. \A i \in 0..n : i \in S
  <2> HIDE DEF S
  <2> QED
    BY <1>3, <1>4, IndexInduction
<1>6. QED
  BY <1>5

\* What inverse_mod_xl returns: an inverse up to the length asked for.
LEMMA InverseFacts ==
    ASSUME NEW f \in Seq(Fr), f # <<>>, f[1] # Zero, NEW l \in Nat, Succeeded(InverseModXl(f, l))
    PROVE  /\ InverseModXl(f, l).val \in Seq(Fr)
           /\ InvertsBelow(Ser(f), Ser(InverseModXl(f, l).val), l)
<1>1. PICK n \in Nat : n = Log2(l) /\ Pow2(n) >= l /\ Pow2(n) \in Nat
  BY Log2Facts, Pow2Facts
<1>2. PICK g \in [0..n -> Seq(Fr)] :
        /\ NewtonRun(f, n, g)
        /\ InverseModXl(f, l) = IF Stopped(g, n) THEN Panic("degree") ELSE Ok(g[n])
  BY <1>1, InverseSteps
<1>3. InverseModXl(f, l) = Ok(g[n])
  BY <1>2 DEF Succeeded, Panic
<1>4. InvertsBelow(Ser(f), Ser(g[n]), Pow2(n))
  BY <1>2, NewtonInverts
<1>5. InvertsBelow(Ser(f), Ser(g[n]), l)
  BY <1>1, <1>4 DEF InvertsBelow
<1>6. InverseModXl(f, l).val = g[n]
  BY <1>3 DEF Ok
<1>7. QED
  BY <1>5, <1>6
-----------------------------------------------------------------------------
\* A polynomial without leading zeros is its own trim.
LEMMA TrimSelf ==
    ASSUME NEW p \in Seq(Fr), PolyLen(p) = Len(p)
    PROVE  Trim(p) = p
<1>1. Trim(p) \in Seq(Fr) /\ Len(Trim(p)) = Len(p) /\ Len(p) \in Nat
  BY TrimFacts
<1>2. \A k \in 1..Len(p) : Trim(p)[k] = p[k]
  BY TrimFacts
<1>3. PICK t \in Seq(Fr) : t = Trim(p)
  BY <1>1
<1>4. Len(t) = Len(p) /\ \A k \in 1..Len(p) : t[k] = p[k]
  BY <1>1, <1>2, <1>3
<1>5. t = p
  BY <1>4
<1>6. QED
  BY <1>3, <1>5

\* A resized vector has the same first coefficients and no others.
LEMMA ResizeSer ==
    ASSUME NEW p \in Seq(Fr), NEW n \in Nat
    PROVE  /\ Resize(p, n) \in [1..n -> Fr] /\ Resize(p, n) \in Seq(Fr) /\ Len(Resize(p, n)) = n
           /\ \A k \in Nat : Ser(Resize(p, n))[k] = IF k < n THEN Ser(p)[k] ELSE Zero
<1> DEFINE r == Resize(p, n)
<1>1. Len(p) \in Nat /\ \A i \in 1..Len(p) : p[i] \in Fr
  OBVIOUS
<1>2. \A i \in 1..n : i <= Len(p) => p[i] \in Fr
  BY <1>1
<1>3. r \in [1..n -> Fr]
  BY <1>2, FrClosed DEF Resize
<1>4. \A i \in 1..n : r[i] = IF i <= Len(p) THEN p[i] ELSE Zero
  BY DEF Resize
<1> HIDE DEF r
<1>5. r \in Seq(Fr) /\ Len(r) = n
  BY <1>3, SeqOf
<1>6. ASSUME NEW k \in Nat PROVE Ser(r)[k] = IF k < n THEN Ser(p)[k] ELSE Zero
  <2>1. Ser(r)[k] = IF k < n THEN r[k + 1] ELSE Zero
    BY <1>5, SerFacts
  <2>2. Ser(p)[k] = IF k < Len(p) THEN p[k + 1] ELSE Zero
    BY SerFacts
  <2>3. k < n => r[k + 1] = IF k + 1 <= Len(p) THEN p[k + 1] ELSE Zero
    BY <1>4
  <2>4. k + 1 <= Len(p) <=> k < Len(p)
    BY <1>1
  <2>5. QED
    BY <2>1, <2>2, <2>3, <2>4
<1>7. QED
  BY <1>3, <1>5, <1>6 DEF r

\* The constant polynomial one.
LEMMA OneSer == <<One>> \in Seq(Fr) /\ Ser(<<One>>) = SOne /\ Trim(<<One>>) = <<One>>
<1>1. PICK o \in Seq(Fr) : o = <<One>>
  <2>1. PICK x \in Fr : x = One
    BY FrClosed
  <2>2. <<x>> \in Seq(Fr)
    OBVIOUS
  <2>3. QED
    BY <2>1, <2>2
<1>2. Len(o) = 1 /\ o[1] = One
  BY <1>1
<1>3. Ser(o) = SOne
  <2>1. ASSUME NEW k \in Nat PROVE Ser(o)[k] = SOne[k]
    <3>1. Ser(o)[k] = IF k < 1 THEN o[k + 1] ELSE Zero
      BY <1>2, SerFacts
    <3>2. k < 1 <=> k = 0
      OBVIOUS
    <3>3. SOne[k] = IF k = 0 THEN One ELSE Zero
      BY DEF SOne
    <3>4. QED
      BY <1>2, <3>1, <3>2, <3>3
  <2>2. Ser(o) \in Series /\ SOne \in Series
    BY SerFacts, SeriesTypes, FrClosed
  <2>3. QED
    BY <2>1, <2>2 DEF Series
<1>4. PolyLen(o) = 1
  <2>1. PolyLen(o) \in 0..1
    BY <1>2, PolyLenFacts
  <2>2. PolyLen(o) # 0
    <3>1. \A k \in 1..Len(o) : k > PolyLen(o) => o[k] = Zero
      BY PolyLenFacts
    <3>2. 1 > PolyLen(o) => o[1] = Zero
      BY <1>2, <3>1
    <3>3. QED
      BY <1>2, <2>1, <3>2, FrClosed
  <2>3. QED
    BY <2>1, <2>2
<1>5. Trim(o) = o
  BY <1>2, <1>4, TrimSelf
<1>6. QED
  BY <1>1, <1>3, <1>5

\* What inverse_mod_xl returns times f is one, cut at the length.
LEMMA InverseIsExact ==
    ASSUME NEW f \in Seq(Fr), NEW l \in Nat \ {0}, Succeeded(InverseModXl(f, l))
    PROVE  /\ f # <<>> /\ f[1] # Zero /\ Coeff(f, 1) # Zero
           /\ Trim(Resize(PolyMul(f, InverseModXl(f, l).val), l)) = <<One>>
<1>1. CASE f = <<>>
  BY <1>1 DEF InverseModXl, Panic, Succeeded
<1>2. CASE f # <<>> /\ f[1] = Zero
  BY <1>2 DEF InverseModXl, Err, Succeeded
<1>3. CASE f # <<>> /\ f[1] # Zero
  <2>1. Coeff(f, 1) # Zero
    <3>1. 1 \in DOMAIN f
      BY <1>3
    <3>2. QED
      BY <1>3, <3>1 DEF Coeff
  <2>2. PICK h \in Seq(Fr) : h = InverseModXl(f, l).val /\ InvertsBelow(Ser(f), Ser(h), l)
    BY <1>3, InverseFacts
  <2>4. PICK p \in Seq(Fr) : p = PolyMul(f, h) /\ Ser(p) = Conv(Ser(f), Ser(h))
    BY PolyMulSer
  <2>5. PICK r \in Seq(Fr) : r = Resize(p, l) /\ \A k \in Nat : Ser(r)[k] = IF k < l THEN Ser(p)[k] ELSE Zero
    BY ResizeSer
  <2>6. ASSUME NEW k \in Nat PROVE Ser(r)[k] = SOne[k]
    <3>1. k < l => Ser(p)[k] = SOne[k]
      BY <2>2, <2>4 DEF InvertsBelow
    <3>2. ~ (k < l) => SOne[k] = Zero
      <4>1. ~ (k < l) => k # 0
        OBVIOUS
      <4>2. QED
        BY <4>1 DEF SOne
    <3>3. QED
      BY <2>5, <3>1, <3>2
  <2>7. Ser(r) = SOne
    <3>1. Ser(r) \in Series /\ SOne \in Series
      BY SerFacts, SeriesTypes, FrClosed
    <3>2. QED
      BY <2>6, <3>1 DEF Series
  <2>8. PICK o \in Seq(Fr) : o = <<One>> /\ Ser(o) = SOne /\ Trim(o) = o
    BY OneSer
  <2>9. Trim(r) = Trim(o)
    BY <2>7, <2>8, SameSeries
  <2>10. QED
    BY <1>3, <2>1, <2>2, <2>4, <2>5, <2>8, <2>9
<1>4. QED
  BY <1>1, <1>2, <1>3

\* r is p back to front; the same of two sequences of m field elements; and a pair of
\* coefficients that reversal exchanges.
IsReverse(r, p, n) == \A k \in 1..n : r[k] = p[n - k + 1]

Reversed(m, g, rg) == g \in [1..m -> Fr] /\ rg \in [1..m -> Fr] /\ IsReverse(rg, g, m)
Mirrors(k, j, m, d) == k + j + 2 = m + d

\* The product of two reversed polynomials is the reversed product.
LEMMA ConvReverse ==
    ASSUME NEW m \in Nat, NEW d \in Nat,
           NEW g, NEW rg, Reversed(m, g, rg), NEW q, NEW rq, Reversed(d, q, rq),
           NEW k \in Nat, NEW j \in Nat, Mirrors(k, j, m, d)
    PROVE  Conv(Ser(g), Ser(q))[k] = Conv(Ser(rg), Ser(rq))[j]
<1>0. /\ g \in [1..m -> Fr] /\ rg \in [1..m -> Fr] /\ IsReverse(rg, g, m)
      /\ q \in [1..d -> Fr] /\ rq \in [1..d -> Fr] /\ IsReverse(rq, q, d)
  BY DEF Reversed
<1>1. g \in Seq(Fr) /\ rg \in Seq(Fr) /\ q \in Seq(Fr) /\ rq \in Seq(Fr)
      /\ Len(g) = m /\ Len(rg) = m /\ DOMAIN q = 1..d /\ DOMAIN rq = 1..d
  BY <1>0, SeqOf
<1>2. PICK s \in [1..m -> Fr] : s = MulTerms(g, q, k + 1) /\ FSum(s) = Conv(Ser(g), Ser(q))[k]
  <2>1. MulTerms(g, q, k + 1) \in [1..Len(g) -> Fr] /\ FSum(MulTerms(g, q, k + 1)) = Conv(Ser(g), Ser(q))[k]
    BY <1>1, MulTermsConv
  <2>2. QED
    BY <1>1, <2>1
<1>3. PICK t \in [1..m -> Fr] : t = MulTerms(rg, rq, j + 1) /\ FSum(t) = Conv(Ser(rg), Ser(rq))[j]
  <2>1. MulTerms(rg, rq, j + 1) \in [1..Len(rg) -> Fr] /\ FSum(MulTerms(rg, rq, j + 1)) = Conv(Ser(rg), Ser(rq))[j]
    BY <1>1, MulTermsConv
  <2>2. QED
    BY <1>1, <2>1
<1> DEFINE pi == [i \in 1..m |-> m - i + 1]
<1>4. pi \in [1..m -> 1..m] /\ \A a, b \in 1..m : pi[a] = pi[b] => a = b
  OBVIOUS
<1>5. ASSUME NEW i \in 1..m PROVE s[i] = t[pi[i]]
  <2>1. PICK e \in 1..m : e = m - i + 1 /\ e = pi[i]
    OBVIOUS
  <2>2. s[i] = Mul(g[i], Coeff(q, k + 1 - i + 1))
    BY <1>1, <1>2 DEF MulTerms
  <2>3. t[e] = Mul(rg[e], Coeff(rq, j + 1 - e + 1))
    BY <1>1, <1>3 DEF MulTerms
  <2>4. rg[e] = g[i]
    <3>1. rg[e] = g[m - e + 1]
      BY <1>0 DEF IsReverse
    <3>2. m - e + 1 = i
      BY <2>1
    <3>3. QED
      BY <3>1, <3>2
  <2>5. PICK a \in Int, b \in Int : a = k + 1 - i + 1 /\ b = j + 1 - e + 1
    OBVIOUS
  <2>6. a = d - b + 1
    BY <2>1, <2>5 DEF Mirrors
  <2>7. Coeff(q, a) = Coeff(rq, b)
    <3>1. CASE b \in 1..d
      <4>1. a \in 1..d
        BY <2>6, <3>1
      <4>2. rq[b] = q[d - b + 1]
        BY <1>0, <3>1 DEF IsReverse
      <4>3. rq[b] = q[a]
        BY <2>6, <4>2
      <4>4. QED
        BY <1>1, <3>1, <4>1, <4>3 DEF Coeff
    <3>2. CASE b \notin 1..d
      <4>1. a \notin 1..d
        BY <2>6, <3>2
      <4>2. QED
        BY <1>1, <3>2, <4>1 DEF Coeff
    <3>3. QED
      BY <3>1, <3>2
  <2>8. QED
    BY <2>1, <2>2, <2>3, <2>4, <2>5, <2>7
<1>6. [i \in 1..m |-> t[pi[i]]] = s
  <2>1. s = [i \in 1..m |-> s[i]]
    OBVIOUS
  <2> HIDE DEF pi
  <2>2. QED
    BY <1>5, <2>1
<1>7. FSum([i \in 1..m |-> t[pi[i]]]) = FSum(t)
  <2> HIDE DEF pi
  <2> QED
    BY <1>4, FSumPermuted
<1>8. QED
  BY <1>2, <1>3, <1>6, <1>7

\* Reverse on a vector of known length.
LEMMA ReverseFacts ==
    ASSUME NEW n \in Nat, NEW p \in [1..n -> Fr]
    PROVE  Reverse(p) \in [1..n -> Fr] /\ IsReverse(Reverse(p), p, n) /\ IsReverse(p, Reverse(p), n)
<1>1. Len(p) = n /\ DOMAIN p = 1..n
  BY SeqOf
<1>2. Reverse(p) = [k \in 1..n |-> p[n - k + 1]]
  BY <1>1 DEF Reverse
<1>3. \A k \in 1..n : n - k + 1 \in 1..n
  OBVIOUS
<1>4. Reverse(p) \in [1..n -> Fr]
  BY <1>2, <1>3
<1>5. PICK r \in [1..n -> Fr] : r = Reverse(p)
  BY <1>4
<1>6. \A k \in 1..n : r[k] = p[n - k + 1]
  BY <1>2, <1>5
<1>7. ASSUME NEW k \in 1..n PROVE p[k] = r[n - k + 1]
  <2>1. PICK j \in 1..n : j = n - k + 1
    BY <1>3
  <2>2. r[j] = p[n - j + 1] /\ n - j + 1 = k
    BY <1>6, <2>1
  <2>3. QED
    BY <2>1, <2>2
<1>8. IsReverse(r, p, n)
  BY <1>6 DEF IsReverse
<1>9. IsReverse(p, r, n)
  BY <1>7 DEF IsReverse
<1>10. QED
  BY <1>5, <1>8, <1>9

\* Two series that agree up to the n-th coefficient.
SameUpTo(p, a, n) == \A k \in 0..n : p[k] = a[k]

\* A coefficient of a product depends on the coefficients up to it, of one factor.
LEMMA ConvSame ==
    ASSUME NEW p \in Series, NEW a \in Series, NEW q \in Series, NEW n \in Nat, SameUpTo(p, a, n)
    PROVE  Conv(p, q)[n] = Conv(a, q)[n]
<1>1. \A k \in 0..n : p[k] = a[k] /\ q[k] = q[k]
  BY DEF SameUpTo
<1>2. QED
  BY <1>1, ConvLocal

\* The divisors of fast_divide_monic: a last coefficient, and it is one.
Monomial(g) == g # <<>> /\ g[Len(g)] = One

\* The parts of a division, before the code subtracts.
LEMMA QuotientFacts ==
    ASSUME NEW m \in Nat \ {0}, NEW g \in [1..m -> Fr], g[m] = One,
           NEW n \in Nat, NEW f \in [1..n -> Fr], m <= n,
           Succeeded(InverseModXl(Reverse(g), n - m + 1))
    PROVE  LET diff == n - m
               quotient == Quotient(f, diff, InverseModXl(Reverse(g), diff + 1).val)
           IN  /\ quotient \in [1..(diff + 1) -> Fr]
               /\ \A k \in Nat : k + 1 >= m => Conv(Ser(g), Ser(quotient))[k] = Ser(f)[k]
<1>1. PICK diff \in Nat, l \in Nat \ {0} : diff = n - m /\ l = diff + 1
  OBVIOUS
<1>2. PICK rg \in [1..m -> Fr] : rg = Reverse(g) /\ IsReverse(rg, g, m) /\ IsReverse(g, rg, m)
  BY ReverseFacts
<1>3. PICK rf \in [1..n -> Fr] : rf = Reverse(f) /\ IsReverse(rf, f, n) /\ IsReverse(f, rf, n)
  BY ReverseFacts
<1>4. /\ rg \in Seq(Fr) /\ Len(rg) = m /\ rf \in Seq(Fr) /\ Len(rf) = n
      /\ g \in Seq(Fr) /\ Len(g) = m /\ f \in Seq(Fr) /\ Len(f) = n
  BY SeqOf
<1>5. rg # <<>> /\ rg[1] # Zero
  <2>1. rg # <<>>
    BY <1>4
  <2>2. rg[1] = g[m - 1 + 1]
    BY <1>2 DEF IsReverse
  <2>3. m - 1 + 1 = m
    OBVIOUS
  <2>4. QED
    BY <2>1, <2>2, <2>3, FrClosed
<1>6. PICK h \in Seq(Fr) : h = InverseModXl(rg, l).val /\ InvertsBelow(Ser(rg), Ser(h), l)
  <2>1. Succeeded(InverseModXl(rg, l))
    BY <1>1, <1>2
  <2>2. QED
    BY <1>4, <1>5, <2>1, InverseFacts
<1>7. PICK P \in Seq(Fr) : P = PolyMul(rf, h) /\ Ser(P) = Conv(Ser(rf), Ser(h))
  BY <1>4, PolyMulSer
<1>8. PICK Q \in [1..l -> Fr] : /\ Q = Resize(P, l) /\ Q \in Seq(Fr) /\ Len(Q) = l
                              /\ \A k \in Nat : Ser(Q)[k] = IF k < l THEN Ser(P)[k] ELSE Zero
  BY ResizeSer
<1>9. Rev(Q, diff) = Reverse(Q)
  <2>1. Resize(Q, l) = [i \in 1..l |-> Q[i]]
    BY <1>8 DEF Resize
  <2>2. Q = [i \in 1..l |-> Q[i]]
    OBVIOUS
  <2>3. Resize(Q, l) = Q
    BY <2>1, <2>2
  <2>4. QED
    BY <1>1, <2>3 DEF Rev
<1>10. PICK q \in [1..l -> Fr] : q = Reverse(Q) /\ IsReverse(q, Q, l) /\ IsReverse(Q, q, l)
  BY ReverseFacts
<1>11. q \in Seq(Fr) /\ Len(q) = l
  BY SeqOf
<1>12. Ser(g) \in Series /\ Ser(rg) \in Series /\ Ser(f) \in Series /\ Ser(rf) \in Series
       /\ Ser(q) \in Series /\ Ser(Q) \in Series /\ Ser(P) \in Series /\ Ser(h) \in Series /\ SOne \in Series
  BY <1>4, <1>8, <1>11, SerFacts, SeriesTypes, FrClosed
<1>13. ASSUME NEW k \in Nat, k + 1 >= m PROVE Conv(Ser(g), Ser(q))[k] = Ser(f)[k]
  <2>1. CASE k < n
    <3>1. PICK j \in Nat : j + k + 1 = n
      <4>1. n - k - 1 \in Nat /\ (n - k - 1) + k + 1 = n
        BY <2>1
      <4>2. QED
        BY <4>1
    <3>2. j < l /\ Mirrors(k, j, m, l)
      BY <1>1, <1>13, <3>1 DEF Mirrors
    <3>3. Conv(Ser(g), Ser(q))[k] = Conv(Ser(rg), Ser(Q))[j]
      <4>1. m \in Nat /\ l \in Nat
        OBVIOUS
      <4>2. Reversed(m, g, rg) /\ Reversed(l, q, Q)
        BY <1>2, <1>10 DEF Reversed
      <4>3. QED
        BY <3>2, <4>1, <4>2, ConvReverse
    <3>4. Conv(Ser(rg), Ser(Q))[j] = Conv(Ser(rg), Ser(P))[j]
      <4>1. \A i \in 0..j : i \in Nat /\ i < l
        BY <3>2
      <4>2. SameUpTo(Ser(Q), Ser(P), j)
        BY <1>8, <4>1 DEF SameUpTo
      <4>3. Conv(Ser(Q), Ser(rg))[j] = Conv(Ser(P), Ser(rg))[j]
        BY <1>12, <4>2, ConvSame
      <4>4. Conv(Ser(Q), Ser(rg)) = Conv(Ser(rg), Ser(Q)) /\ Conv(Ser(P), Ser(rg)) = Conv(Ser(rg), Ser(P))
        BY <1>12, ConvComm
      <4>5. QED
        BY <4>3, <4>4
    <3>5. Conv(Ser(rg), Ser(P)) = Conv(Conv(Ser(rg), Ser(h)), Ser(rf))
      <4>1. Conv(Ser(rf), Ser(h)) = Conv(Ser(h), Ser(rf))
        BY <1>12, ConvComm
      <4>2. Conv(Conv(Ser(rg), Ser(h)), Ser(rf)) = Conv(Ser(rg), Conv(Ser(h), Ser(rf)))
        BY <1>12, ConvAssoc
      <4>3. QED
        BY <1>7, <4>1, <4>2
    <3>6. PICK e \in Series : e = Conv(Ser(rg), Ser(h))
      BY <1>12, ConvType
    <3>7. Conv(e, Ser(rf))[j] = Conv(SOne, Ser(rf))[j]
      <4>1. \A i \in 0..j : i \in Nat /\ i < l
        BY <3>2
      <4>2. \A i \in Nat : i < l => e[i] = SOne[i]
        BY <1>6, <3>6 DEF InvertsBelow
      <4>3. SameUpTo(e, SOne, j)
        BY <4>1, <4>2 DEF SameUpTo
      <4>4. QED
        BY <1>12, <4>3, ConvSame
    <3>8. Conv(SOne, Ser(rf)) = Ser(rf)
      BY <1>12, ConvOne
    <3>9. Ser(rf)[j] = Ser(f)[k]
      <4>1. j < n
        BY <3>1
      <4>2. Ser(rf)[j] = rf[j + 1]
        BY <1>4, <4>1, SerFacts
      <4>3. Ser(f)[k] = f[k + 1]
        BY <1>4, <2>1, SerFacts
      <4>4. PICK a \in 1..n : a = j + 1 /\ n - a + 1 = k + 1
        BY <3>1, <4>1
      <4>5. rf[a] = f[n - a + 1]
        BY <1>3 DEF IsReverse
      <4>6. QED
        BY <4>2, <4>3, <4>4, <4>5
    <3>10. QED
      BY <3>3, <3>4, <3>5, <3>6, <3>7, <3>8, <3>9
  <2>2. CASE ~ (k < n)
    <3>1. NoneFrom(Ser(g), m)
      <4>1. \A i \in Nat : i >= m => ~ (i < m)
        OBVIOUS
      <4>2. \A i \in Nat : Ser(g)[i] = IF i < m THEN g[i + 1] ELSE Zero
        BY <1>4, SerFacts
      <4>3. QED
        BY <4>1, <4>2 DEF NoneFrom
    <3>2. NoneFrom(Ser(q), l)
      <4>1. \A i \in Nat : i >= l => ~ (i < l)
        OBVIOUS
      <4>2. \A i \in Nat : Ser(q)[i] = IF i < l THEN q[i + 1] ELSE Zero
        BY <1>11, SerFacts
      <4>3. QED
        BY <4>1, <4>2 DEF NoneFrom
    <3>3. k + 1 >= m + l
      BY <1>1, <2>2
    <3>4. Conv(Ser(g), Ser(q))[k] = Zero
      BY <1>12, <3>1, <3>2, <3>3, ConvBeyond
    <3>5. Ser(f)[k] = Zero
      BY <1>4, <2>2, SerFacts
    <3>6. QED
      BY <3>4, <3>5
  <2>3. QED
    BY <2>1, <2>2
<1>14. QED
  BY <1>1, <1>2, <1>3, <1>6, <1>7, <1>8, <1>9, <1>10, <1>13 DEF Quotient

\* What a division promises.
Divides(f, g, d) ==
    /\ d.quotient \in Seq(Fr) /\ d.remainder \in Seq(Fr)
    /\ Ser(f) = SAdd(Conv(Ser(d.quotient), Ser(g)), Ser(d.remainder))
    /\ PolyLen(d.remainder) < Len(g)
    /\ PolyLen(f) = Len(f) \/ Len(f) >= Len(g) => PolyLen(d.remainder) = Len(d.remainder)

\* fast_divide_monic divides if it returns, and of an f without leading zeros it returns
\* if the reversed divisor has its inverse.
LEMMA DivisionFacts ==
    ASSUME NEW f \in Seq(Fr), NEW g \in Seq(Fr), Monomial(g)
    PROVE  /\ Succeeded(FastDivideMonic(f, g)) => Divides(f, g, FastDivideMonic(f, g).val)
           /\ ~ LeadingZero(f) =>
                (Succeeded(FastDivideMonic(f, g)) <=>
                   Len(f) < Len(g) \/ Succeeded(InverseModXl(Reverse(g), Len(f) - Len(g) + 1)))
<1>1. PICK n \in Nat, m \in Nat \ {0} : n = Len(f) /\ m = Len(g)
  BY DEF Monomial
<1>2. f \in [1..n -> Fr] /\ g \in [1..m -> Fr] /\ g[m] = One
  BY <1>1 DEF Monomial
<1>3. Ser(f) \in Series /\ Ser(g) \in Series
  BY SerFacts
<1>4. CASE n < m
  <2>1. PICK z \in Seq(Fr) : z = <<Zero>>
    <3>1. PICK x \in Fr : x = Zero
      BY FrClosed
    <3>2. <<x>> \in Seq(Fr)
      OBVIOUS
    <3>3. QED
      BY <3>1, <3>2
  <2>2. PICK d : d = [quotient |-> z, remainder |-> f] /\ d.quotient = z /\ d.remainder = f
    <3>1. [quotient |-> z, remainder |-> f].quotient = z /\ [quotient |-> z, remainder |-> f].remainder = f
      OBVIOUS
    <3>2. PICK d : d = [quotient |-> z, remainder |-> f]
      OBVIOUS
    <3>3. QED
      BY <3>1, <3>2
  <2>3. FastDivideMonic(f, g) = Ok(d)
    BY <1>1, <1>4, <2>1, <2>2 DEF FastDivideMonic
  <2>4. Succeeded(FastDivideMonic(f, g)) /\ FastDivideMonic(f, g).val = d
    BY <2>3 DEF Succeeded, Ok
  <2>5. Ser(z) \in Series /\ \A k \in Nat : Ser(z)[k] = Zero
    <3>1. Len(z) = 1 /\ z[1] = Zero
      BY <2>1
    <3>2. \A k \in Nat : Ser(z)[k] = IF k < 1 THEN z[k + 1] ELSE Zero
      BY <3>1, SerFacts
    <3>3. \A k \in Nat : k < 1 => k + 1 = 1
      OBVIOUS
    <3>4. QED
      BY <3>1, <3>2, <3>3, SerFacts
  <2>6. Ser(f) = SAdd(Conv(Ser(z), Ser(g)), Ser(f))
    <3>1. PICK c \in Series : c = Conv(Ser(z), Ser(g))
      BY <1>3, <2>5, ConvType
    <3>2. ASSUME NEW k \in Nat PROVE SAdd(c, Ser(f))[k] = Ser(f)[k]
      <4>1. NoneBelow(Ser(z), k + 1) /\ NoneBelow(Ser(g), 0)
        BY <2>5 DEF NoneBelow
      <4>2. c[k] = Zero
        <5>1. PICK a \in Nat, b \in Nat : a = k + 1 /\ b = 0
          OBVIOUS
        <5>2. k < a + b
          BY <5>1
        <5>3. QED
          BY <1>3, <2>5, <3>1, <4>1, <5>1, <5>2, ConvVanish
      <4>3. SAdd(c, Ser(f))[k] = Add(c[k], Ser(f)[k]) /\ Ser(f)[k] \in Fr
        BY <1>3 DEF SAdd, Series
      <4>4. Add(Zero, Ser(f)[k]) = Ser(f)[k]
        BY <4>3, FrClosed, FrAdditive
      <4>5. QED
        BY <4>2, <4>3, <4>4
    <3>3. SAdd(c, Ser(f)) \in Series
      BY <1>3, SeriesTypes, FrClosed
    <3>4. SAdd(c, Ser(f)) = Ser(f)
      BY <1>3, <3>2, <3>3 DEF Series
    <3>5. QED
      BY <3>1, <3>4
  <2>7. PolyLen(f) < Len(g)
    <3>1. PolyLen(f) \in 0..n
      BY <1>1, PolyLenFacts
    <3>2. QED
      BY <1>1, <1>4, <3>1
  <2>8. Divides(f, g, d)
    <3>1. ~ (Len(f) >= Len(g))
      BY <1>1, <1>4
    <3>2. QED
      BY <2>2, <2>6, <2>7, <3>1 DEF Divides
  <2>9. QED
    BY <1>1, <1>4, <2>4, <2>8
<1>5. CASE ~ (n < m) /\ ~ Succeeded(InverseModXl(Reverse(g), Len(f) - Len(g) + 1))
  <2>1. FastDivideMonic(f, g) = Panic("inverse_mod_xl")
    BY <1>1, <1>5 DEF FastDivideMonic
  <2>2. ~ Succeeded(FastDivideMonic(f, g))
    BY <2>1 DEF Succeeded, Panic
  <2>3. QED
    BY <1>1, <1>5, <2>2
<1>6. CASE ~ (n < m) /\ Succeeded(InverseModXl(Reverse(g), Len(f) - Len(g) + 1))
  <2> DEFINE diff == n - m
             quotient == Quotient(f, diff, InverseModXl(Reverse(g), diff + 1).val)
  <2>1. m <= n /\ diff \in Nat /\ Succeeded(InverseModXl(Reverse(g), n - m + 1))
    BY <1>1, <1>6
  <2>2. /\ quotient \in [1..(diff + 1) -> Fr]
        /\ \A k \in Nat : k + 1 >= m => Conv(Ser(g), Ser(quotient))[k] = Ser(f)[k]
    BY <1>2, <2>1, QuotientFacts
  <2>3. PICK q \in Seq(Fr) : q = quotient
    <3>1. PICK a \in Nat : a = diff + 1
      BY <2>1
    <3> HIDE DEF quotient, diff
    <3>2. QED
      BY <2>2, <3>1, SeqOf
  <2>4. PICK gq \in Seq(Fr) : gq = PolyMul(g, q) /\ Ser(gq) = Conv(Ser(g), Ser(q))
    BY PolyMulSer
  <2>5. PICK r \in Seq(Fr) : r = PolySub(f, gq) /\ Ser(r) = SSub(Ser(f), Ser(gq)) /\ PolyLen(r) = Len(r)
    BY PolySubSer
  <2>6. PICK d : d = [quotient |-> q, remainder |-> r] /\ d.quotient = q /\ d.remainder = r
    <3>1. [quotient |-> q, remainder |-> r].quotient = q /\ [quotient |-> q, remainder |-> r].remainder = r
      OBVIOUS
    <3>2. PICK d : d = [quotient |-> q, remainder |-> r]
      OBVIOUS
    <3>3. QED
      BY <3>1, <3>2
  <2>7. FastDivideMonic(f, g) = DivideWith(f, g, q)
    BY <1>1, <1>6, <2>3 DEF FastDivideMonic
  <2>8. FastDivideMonic(f, g) = IF LeadingZero(f) /\ gq # <<>> THEN Panic("degree") ELSE Ok(d)
    BY <2>4, <2>5, <2>6, <2>7 DEF DivideWith
  <2>9. Ser(q) \in Series /\ Ser(gq) \in Series /\ Ser(r) \in Series
    BY SerFacts
  <2>10. Ser(f) = SAdd(Conv(Ser(q), Ser(g)), Ser(r))
    <3>1. Conv(Ser(q), Ser(g)) = Ser(gq)
      BY <1>3, <2>4, <2>9, ConvComm
    <3>2. ASSUME NEW k \in Nat PROVE SAdd(Ser(gq), Ser(r))[k] = Ser(f)[k]
      <4>1. Ser(f)[k] \in Fr /\ Ser(gq)[k] \in Fr
        BY <1>3, <2>9 DEF Series
      <4>2. Ser(r)[k] = Sub(Ser(f)[k], Ser(gq)[k])
        BY <2>5 DEF SSub
      <4>3. SAdd(Ser(gq), Ser(r))[k] = Add(Ser(gq)[k], Ser(r)[k])
        BY DEF SAdd
      <4>4. QED
        BY <4>1, <4>2, <4>3, SubFacts
    <3>3. SAdd(Ser(gq), Ser(r)) \in Series
      BY <2>9, SeriesTypes, FrClosed
    <3>4. SAdd(Ser(gq), Ser(r)) = Ser(f)
      BY <1>3, <3>2, <3>3 DEF Series
    <3>5. QED
      BY <3>1, <3>4
  <2>11. PolyLen(r) < Len(g)
    <3>1. PICK a \in Nat : a + 1 = m
      <4>1. m - 1 \in Nat /\ (m - 1) + 1 = m
        OBVIOUS
      <4>2. QED
        BY <4>1
    <3>2. ASSUME NEW k \in Nat, k >= a PROVE Ser(r)[k] = Zero
      <4>1. k + 1 >= m
        BY <3>1, <3>2
      <4>2. Ser(gq)[k] = Ser(f)[k]
        BY <2>2, <2>3, <2>4, <4>1
      <4>3. Ser(r)[k] = Sub(Ser(f)[k], Ser(gq)[k])
        BY <2>5 DEF SSub
      <4>4. Ser(f)[k] \in Fr
        BY <1>3 DEF Series
      <4>5. QED
        BY <4>2, <4>3, <4>4, SubFacts
    <3>3. PolyLen(r) <= a /\ PolyLen(r) \in Nat
      <4>1. PolyLen(r) \in Nat
        BY PolyLenFacts
      <4>2. QED
        BY <3>2, <4>1, SerFacts
    <3>4. QED
      BY <1>1, <3>1, <3>3
  <2>12. Divides(f, g, d)
    BY <2>5, <2>6, <2>10, <2>11 DEF Divides
  <2>13. Succeeded(FastDivideMonic(f, g)) => FastDivideMonic(f, g).val = d
    BY <2>8 DEF Succeeded, Panic, Ok
  <2>14. ~ LeadingZero(f) => Succeeded(FastDivideMonic(f, g))
    BY <2>8 DEF Succeeded, Ok
  <2>15. QED
    BY <1>6, <2>12, <2>13, <2>14
<1>7. QED
  BY <1>4, <1>5, <1>6

\* The equation of DivisionExact.
LEMMA DivisionIsExact ==
    ASSUME NEW f \in Seq(Fr), NEW g \in Seq(Fr), NEW d, Divides(f, g, d)
    PROVE  PolyAdd(PolyMul(d.quotient, g), d.remainder) = Trim(f)
<1>1. PICK q \in Seq(Fr), r \in Seq(Fr) : q = d.quotient /\ r = d.remainder
  BY DEF Divides
<1>2. PICK p \in Seq(Fr) : p = PolyMul(q, g) /\ Ser(p) = Conv(Ser(q), Ser(g))
  BY PolyMulSer
<1>3. PICK s \in Seq(Fr) : s = PolyAdd(p, r) /\ Ser(s) = SAdd(Ser(p), Ser(r)) /\ PolyLen(s) = Len(s)
  BY PolyAddSer
<1>4. Ser(s) = Ser(f)
  BY <1>1, <1>2, <1>3 DEF Divides
<1>5. Trim(s) = Trim(f) /\ Trim(s) = s
  BY <1>3, <1>4, SameSeries, TrimSelf
<1>6. QED
  BY <1>1, <1>2, <1>3, <1>5
-----------------------------------------------------------------------------
\* The first n coefficients of a series.
Take(a, n) == [i \in 1..n |-> a[i - 1]]

\* What the first n coefficients of a series are.
LEMMA TakeFacts ==
    ASSUME NEW a \in Series, NEW n \in Nat
    PROVE  /\ Take(a, n) \in [1..n -> Fr]
           /\ \A i \in 1..n : Take(a, n)[i] = a[i - 1]
           /\ \A x \in Fr : Eval(Take(a, n), x) \in Fr
<1>1. \A i \in 1..n : i - 1 \in Nat
  OBVIOUS
<1>2. \A i \in 1..n : a[i - 1] \in Fr
  BY <1>1 DEF Series
<1>3. Take(a, n) \in [1..n -> Fr]
  BY <1>2 DEF Take
<1>4. \A i \in 1..n : Take(a, n)[i] = a[i - 1]
  BY DEF Take
<1>5. \A x \in Fr : Eval(Take(a, n), x) \in Fr
  BY <1>3, FoldTypes
<1>6. QED
  BY <1>3, <1>4, <1>5

\* Zeros past the last coefficient do not change the value.
LEMMA TakePad ==
    ASSUME NEW a \in Series, NEW n \in Nat, NEW m \in Nat, n <= m, NoneFrom(a, n), NEW x \in Fr
    PROVE  Eval(Take(a, m), x) = Eval(Take(a, n), x)
<1>1. PICK p \in [1..n -> Fr] : p = Take(a, n) /\ \A i \in 1..n : p[i] = a[i - 1]
  BY TakeFacts
<1>2. PICK q \in [1..m -> Fr] : q = Take(a, m) /\ \A i \in 1..m : q[i] = a[i - 1]
  BY TakeFacts
<1>3. ASSUME NEW i \in 1..m PROVE q[i] = IF i <= n THEN p[i] ELSE Zero
  <2>1. CASE i <= n
    <3>1. i \in 1..n
      BY <2>1
    <3>2. QED
      BY <1>1, <1>2, <2>1, <3>1
  <2>2. CASE ~ (i <= n)
    <3>1. PICK k \in Nat : k = i - 1 /\ k >= n
      BY <2>2
    <3>2. a[k] = Zero
      BY <3>1 DEF NoneFrom
    <3>3. QED
      BY <1>2, <2>2, <3>1, <3>2
  <2>3. QED
    BY <2>1, <2>2
<1>4. Eval(q, x) = Eval(p, x)
  BY <1>3, EvalPad
<1>5. QED
  BY <1>1, <1>2, <1>4

\* Horner's rule on a series.
LEMMA TakeHead ==
    ASSUME NEW a \in Series, NEW n \in Nat, NEW x \in Fr
    PROVE  /\ Eval(Take(a, n + 1), x) = Add(a[0], Mul(x, Eval(Take(STail(a), n), x)))
           /\ a[0] \in Fr
<1>1. STail(a) \in Series
  BY SeriesTypes, FrClosed
<1>2. PICK q \in [1..n -> Fr] : q = Take(STail(a), n) /\ \A i \in 1..n : q[i] = STail(a)[i - 1]
  BY <1>1, TakeFacts
<1>3. PICK m \in Nat : m = n + 1
  OBVIOUS
<1>4. PICK p \in [1..m -> Fr] : p = Take(a, m) /\ \A i \in 1..m : p[i] = a[i - 1]
  BY TakeFacts
<1>5. ASSUME NEW i \in 1..n PROVE q[i] = p[i + 1]
  <2>1. PICK j \in Nat : j = i - 1
    OBVIOUS
  <2>2. STail(a)[j] = a[j + 1]
    BY DEF STail
  <2>3. PICK k \in 1..m : k = i + 1 /\ k - 1 = j + 1
    BY <1>3, <2>1
  <2>4. p[k] = a[k - 1]
    BY <1>4
  <2>5. QED
    BY <1>2, <2>1, <2>2, <2>3, <2>4
<1>6. p \in [1..(n + 1) -> Fr]
  BY <1>3
<1>7. Eval(p, x) = Add(p[1], Mul(x, Eval(q, x))) /\ p[1] \in Fr
  BY <1>5, <1>6, EvalCons
<1>8. p[1] = a[0]
  <2>1. 1 \in 1..m /\ 1 - 1 = 0
    BY <1>3
  <2>2. QED
    BY <1>4, <2>1
<1>9. QED
  BY <1>2, <1>3, <1>4, <1>7, <1>8

\* The value of a polynomial is that of its series, cut anywhere past its degree.
LEMMA EvalTake ==
    ASSUME NEW p \in Seq(Fr), NEW n \in Nat, NoneFrom(Ser(p), n), NEW x \in Fr
    PROVE  Eval(p, x) = Eval(Take(Ser(p), n), x)
<1>1. PICK a \in Series : a = Ser(p)
  BY SerFacts
<1>2. PICK l \in Nat : l = Len(p)
  OBVIOUS
<1>3. p = Take(a, l)
  <2>1. \A i \in 1..l : a[i - 1] = p[i]
    <3> SUFFICES ASSUME NEW i \in 1..l PROVE a[i - 1] = p[i]
      OBVIOUS
    <3>1. PICK k \in Nat : k = i - 1 /\ k < l /\ k + 1 = i
      OBVIOUS
    <3>2. a[k] = IF k < l THEN p[k + 1] ELSE Zero
      BY <1>1, <1>2, SerFacts
    <3>3. QED
      BY <3>1, <3>2
  <2>2. p = [i \in 1..l |-> p[i]]
    BY <1>2
  <2>3. QED
    BY <2>1, <2>2 DEF Take
<1>4. NoneFrom(a, l) /\ NoneFrom(a, n)
  <2>1. NoneFrom(a, l)
    <3> SUFFICES ASSUME NEW k \in Nat, k >= l PROVE a[k] = Zero
      BY DEF NoneFrom
    <3>1. a[k] = IF k < l THEN p[k + 1] ELSE Zero
      BY <1>1, <1>2, SerFacts
    <3>2. QED
      BY <3>1
  <2>2. QED
    BY <1>1, <2>1
<1>5. CASE l <= n
  BY <1>1, <1>3, <1>4, <1>5, TakePad
<1>6. CASE ~ (l <= n)
  <2>1. n <= l
    BY <1>6
  <2>2. QED
    BY <1>1, <1>3, <1>4, <2>1, TakePad
<1>7. QED
  BY <1>5, <1>6

\* Where the coefficients of a polynomial end.
LEMMA SerEnds ==
    ASSUME NEW p \in Seq(Fr), NEW n \in Nat
    PROVE  NoneFrom(Ser(p), Len(p) + n) /\ NoneFrom(Ser(p), n + Len(p)) /\ NoneFrom(Ser(p), Len(p))
<1>1. PICK l \in Nat : l = Len(p)
  OBVIOUS
<1>2. ASSUME NEW k \in Nat, k >= l PROVE Ser(p)[k] = Zero
  <2>1. Ser(p)[k] = IF k < l THEN p[k + 1] ELSE Zero
    BY <1>1, SerFacts
  <2>2. QED
    BY <1>2, <2>1
<1>3. \A k \in Nat : k >= l + n \/ k >= n + l => k >= l
  OBVIOUS
<1>4. QED
  BY <1>1, <1>2, <1>3 DEF NoneFrom

\* Evaluation adds and subtracts.
LEMMA EvalSums ==
    ASSUME NEW p \in Seq(Fr), NEW q \in Seq(Fr), NEW x \in Fr
    PROVE  /\ Eval(PolyAdd(p, q), x) = Add(Eval(p, x), Eval(q, x))
           /\ Eval(PolySub(p, q), x) = Sub(Eval(p, x), Eval(q, x))
<1>1. PICK n \in Nat : n = Len(p) + Len(q)
  OBVIOUS
<1>2. NoneFrom(Ser(p), n) /\ NoneFrom(Ser(q), n)
  <2>1. Len(p) \in Nat /\ Len(q) \in Nat
    OBVIOUS
  <2>2. QED
    BY <1>1, <2>1, SerEnds
<1>3. Ser(p) \in Series /\ Ser(q) \in Series
  BY SerFacts
<1>4. PICK a \in [1..n -> Fr] : a = Take(Ser(p), n) /\ \A i \in 1..n : a[i] = Ser(p)[i - 1]
  BY <1>3, TakeFacts
<1>5. PICK b \in [1..n -> Fr] : b = Take(Ser(q), n) /\ \A i \in 1..n : b[i] = Ser(q)[i - 1]
  BY <1>3, TakeFacts
<1>6. Eval(p, x) = Eval(a, x) /\ Eval(q, x) = Eval(b, x)
  BY <1>2, <1>4, <1>5, EvalTake
<1>7. Eval(PolyAdd(p, q), x) = Add(Eval(p, x), Eval(q, x))
  <2>1. PICK s \in Seq(Fr) : s = PolyAdd(p, q) /\ Ser(s) = SAdd(Ser(p), Ser(q))
    BY PolyAddSer
  <2>2. \A k \in Nat : Ser(s)[k] = Add(Ser(p)[k], Ser(q)[k])
    BY <2>1 DEF SAdd
  <2>3. NoneFrom(Ser(s), n)
    <3> SUFFICES ASSUME NEW k \in Nat, k >= n PROVE Ser(s)[k] = Zero
      BY DEF NoneFrom
    <3>1. Ser(p)[k] = Zero /\ Ser(q)[k] = Zero
      BY <1>2 DEF NoneFrom
    <3>2. Ser(s)[k] = Add(Zero, Zero)
      BY <2>2, <3>1
    <3>3. Zero \in Fr
      BY FrClosed
    <3>4. QED
      BY <3>2, <3>3, FrAdditive
  <2>4. Take(Ser(s), n) = [i \in 1..n |-> Add(a[i], b[i])]
    <3>1. \A i \in 1..n : i - 1 \in Nat
      OBVIOUS
    <3>2. \A i \in 1..n : Ser(s)[i - 1] = Add(a[i], b[i])
      BY <1>4, <1>5, <2>2, <3>1
    <3>3. QED
      BY <3>2 DEF Take
  <2>5. Eval(s, x) = Eval([i \in 1..n |-> Add(a[i], b[i])], x)
    BY ZenonT(90), <2>3, <2>4, EvalTake
  <2>6. QED
    BY <1>6, <2>1, <2>5, EvalAdd
<1>8. Eval(PolySub(p, q), x) = Sub(Eval(p, x), Eval(q, x))
  <2>1. PICK s \in Seq(Fr) : s = PolySub(p, q) /\ Ser(s) = SSub(Ser(p), Ser(q))
    BY PolySubSer
  <2>2. \A k \in Nat : Ser(s)[k] = Sub(Ser(p)[k], Ser(q)[k])
    BY <2>1 DEF SSub
  <2>3. NoneFrom(Ser(s), n)
    <3> SUFFICES ASSUME NEW k \in Nat, k >= n PROVE Ser(s)[k] = Zero
      BY DEF NoneFrom
    <3>1. Ser(p)[k] = Zero /\ Ser(q)[k] = Zero
      BY <1>2 DEF NoneFrom
    <3>2. QED
      BY <2>2, <3>1, FrClosed, SubFacts
  <2>4. PICK o \in Fr : o = Neg(One)
    BY FrClosed
  <2>5. PICK c \in [1..n -> Fr] : c = [i \in 1..n |-> Mul(o, b[i])]
    <3>1. [i \in 1..n |-> Mul(o, b[i])] \in [1..n -> Fr]
      BY FrClosed
    <3>2. QED
      BY <3>1
  <2>6. \A y \in Fr : Mul(o, y) = Neg(y)
    BY <2>4, FrClosed, FrMultiplicative, MulNeg
  <2>7. Take(Ser(s), n) = [i \in 1..n |-> Add(a[i], c[i])]
    <3>1. \A i \in 1..n : i - 1 \in Nat
      OBVIOUS
    <3>2. \A i \in 1..n : Ser(s)[i - 1] = Sub(a[i], b[i])
      BY <1>4, <1>5, <2>2, <3>1
    <3>3. \A i \in 1..n : c[i] = Neg(b[i])
      BY <2>5, <2>6
    <3>4. \A i \in 1..n : Ser(s)[i - 1] = Add(a[i], c[i])
      BY <3>2, <3>3 DEF Sub
    <3>5. QED
      BY <3>4 DEF Take
  <2>8. Eval(s, x) = Eval([i \in 1..n |-> Add(a[i], c[i])], x)
    BY ZenonT(90), <2>3, <2>7, EvalTake
  <2>9. Eval(s, x) = Add(Eval(a, x), Eval(c, x))
    BY <2>8, EvalAdd
  <2>10. Eval(c, x) = Mul(o, Eval(b, x))
    BY <2>5, EvalScale
  <2>11. Eval(b, x) \in Fr
    BY FoldTypes
  <2>12. Eval(s, x) = Sub(Eval(a, x), Eval(b, x))
    BY <2>6, <2>9, <2>10, <2>11 DEF Sub
  <2>13. QED
    BY <1>6, <2>1, <2>12
<1>9. QED
  BY <1>7, <1>8

\* The value of a polynomial depends on its series only.
LEMMA EvalSame ==
    ASSUME NEW p \in Seq(Fr), NEW q \in Seq(Fr), Ser(p) = Ser(q), NEW x \in Fr
    PROVE  Eval(p, x) = Eval(q, x)
<1>1. PICK n \in Nat : n = Len(p)
  OBVIOUS
<1>2. NoneFrom(Ser(p), n)
  BY <1>1, SerEnds
<1>3. QED
  BY <1>2, EvalTake

\* Evaluation at x multiplies, when a ends before n.
Multiplies(n, x) ==
    \A a \in Series : NoneFrom(a, n) =>
        \A b \in Series, m \in Nat : NoneFrom(b, m) =>
            Eval(Take(Conv(a, b), n + m), x) = Mul(Eval(Take(a, n), x), Eval(Take(b, m), x))

\* Values of products, by the number of coefficients of the first factor: none.
LEMMA MultipliesBase == \A x \in Fr : Multiplies(0, x)
<1> SUFFICES ASSUME NEW x \in Fr, NEW a \in Series, NoneFrom(a, 0), NEW b \in Series, NEW m \in Nat, NoneFrom(b, m)
             PROVE  Eval(Take(Conv(a, b), 0 + m), x) = Mul(Eval(Take(a, 0), x), Eval(Take(b, m), x))
  BY DEF Multiplies
<1>1. PICK c \in Series : c = Conv(a, b)
  BY ConvType
<1>2. \A k \in Nat : c[k] = Zero
  <2> SUFFICES ASSUME NEW k \in Nat PROVE c[k] = Zero
    OBVIOUS
  <2>1. PICK u \in Nat, v \in Nat : u = k + 1 /\ v = 0 /\ k < u + v
    OBVIOUS
  <2>2. NoneBelow(a, u) /\ NoneBelow(b, v)
    <3>1. \A j \in Nat : a[j] = Zero
      BY DEF NoneFrom
    <3>2. QED
      BY <2>1, <3>1 DEF NoneBelow
  <2>3. QED
    BY <1>1, <2>1, <2>2, ConvVanish
<1>3. Eval(Take(c, m), x) = Zero
  <2>1. PICK p \in [1..m -> Fr] : p = Take(c, m) /\ \A i \in 1..m : p[i] = c[i - 1]
    BY TakeFacts
  <2>2. \A i \in 1..m : i - 1 \in Nat
    OBVIOUS
  <2>3. \A i \in 1..m : p[i] = Zero
    BY <1>2, <2>1, <2>2
  <2>4. QED
    BY <2>1, <2>3, EvalZeros
<1>4. Eval(Take(a, 0), x) = Zero
  <2>1. PICK z \in Nat : z = 0
    OBVIOUS
  <2>2. Take(a, z) \in [1..z -> Fr]
    BY TakeFacts
  <2>3. QED
    BY <2>1, <2>2, EvalEmpty
<1>5. Mul(Zero, Eval(Take(b, m), x)) = Zero
  BY TakeFacts, MulZero
<1>6. 0 + m = m
  OBVIOUS
<1>7. QED
  BY <1>1, <1>3, <1>4, <1>5, <1>6

\* The value of a linear combination of series.
LEMMA TakeLinear ==
    ASSUME NEW a \in Series, NEW b \in Series, NEW c \in Fr, NEW n \in Nat, NEW x \in Fr
    PROVE  Eval(Take(SAdd(SScale(c, a), b), n), x) = Add(Mul(c, Eval(Take(a, n), x)), Eval(Take(b, n), x))
<1>1. PICK p \in [1..n -> Fr] : p = Take(a, n) /\ \A i \in 1..n : p[i] = a[i - 1]
  BY TakeFacts
<1>2. PICK q \in [1..n -> Fr] : q = Take(b, n) /\ \A i \in 1..n : q[i] = b[i - 1]
  BY TakeFacts
<1>3. PICK r \in [1..n -> Fr] : r = [i \in 1..n |-> Mul(c, p[i])]
  <2>1. [i \in 1..n |-> Mul(c, p[i])] \in [1..n -> Fr]
    BY FrClosed
  <2>2. QED
    BY <2>1
<1>4. Take(SAdd(SScale(c, a), b), n) = [i \in 1..n |-> Add(r[i], q[i])]
  <2>1. \A i \in 1..n : i - 1 \in Nat
    OBVIOUS
  <2>2. \A k \in Nat : SAdd(SScale(c, a), b)[k] = Add(Mul(c, a[k]), b[k])
    BY DEF SAdd, SScale
  <2>3. \A i \in 1..n : r[i] = Mul(c, a[i - 1])
    BY <1>1, <1>3
  <2>4. \A i \in 1..n : SAdd(SScale(c, a), b)[i - 1] = Add(r[i], q[i])
    BY <1>2, <2>1, <2>2, <2>3
  <2>5. QED
    BY <2>4 DEF Take
<1>5. Eval([i \in 1..n |-> Add(r[i], q[i])], x) = Add(Eval(r, x), Eval(q, x))
  BY EvalAdd
<1>6. Eval(r, x) = Mul(c, Eval(p, x))
  BY <1>3, EvalScale
<1>7. QED
  BY <1>1, <1>2, <1>4, <1>5, <1>6

\* ... and one coefficient more.
LEMMA MultipliesStep ==
    ASSUME NEW x \in Fr, NEW n \in Nat, Multiplies(n, x)
    PROVE  Multiplies(n + 1, x)
<1>0. PICK l \in Nat : l = n + 1
  OBVIOUS
<1> SUFFICES ASSUME NEW a \in Series, NoneFrom(a, l), NEW b \in Series, NEW m \in Nat, NoneFrom(b, m)
             PROVE  Eval(Take(Conv(a, b), l + m), x) = Mul(Eval(Take(a, l), x), Eval(Take(b, m), x))
  BY <1>0 DEF Multiplies
<1>1. PICK ta \in Series, tb \in Series, c \in Series : ta = STail(a) /\ tb = STail(b) /\ c = Conv(a, b)
  <2>1. STail(a) \in Series /\ STail(b) \in Series
    BY SeriesTypes, FrClosed
  <2>2. Conv(a, b) \in Series
    BY ConvType
  <2>3. QED
    BY <2>1, <2>2
<1>2. PICK d \in Series, tc \in Series : d = Conv(ta, b) /\ tc = STail(c)
  <2>1. Conv(ta, b) \in Series
    BY ConvType
  <2>2. STail(c) \in Series
    BY SeriesTypes, FrClosed
  <2>3. QED
    BY <2>1, <2>2
<1>3. PICK k \in Nat : k = n + m /\ l + m = k + 1
  BY <1>0
<1>4. PICK a0 \in Fr, b0 \in Fr, A \in Fr, B \in Fr, T \in Fr :
        a0 = a[0] /\ b0 = b[0] /\ A = Eval(Take(ta, n), x) /\ B = Eval(Take(b, m), x) /\ T = Eval(Take(tb, k), x)
  <2>1. a[0] \in Fr /\ b[0] \in Fr
    BY DEF Series
  <2>2. Eval(Take(ta, n), x) \in Fr /\ Eval(Take(b, m), x) \in Fr /\ Eval(Take(tb, k), x) \in Fr
    BY TakeFacts
  <2>3. QED
    BY <2>1, <2>2
<1>5. NoneFrom(ta, n)
  <2> SUFFICES ASSUME NEW i \in Nat, i >= n PROVE ta[i] = Zero
    BY DEF NoneFrom
  <2>1. ta[i] = a[i + 1]
    BY <1>1 DEF STail
  <2>2. PICK j \in Nat : j = i + 1 /\ j >= l
    BY <1>0
  <2>3. a[j] = Zero
    BY <2>2 DEF NoneFrom
  <2>4. QED
    BY <2>1, <2>2, <2>3
<1>6. Eval(Take(d, k), x) = Mul(A, B)
  BY <1>2, <1>3, <1>4, <1>5 DEF Multiplies
<1>7. tc = SAdd(SScale(a0, tb), d)
  BY <1>1, <1>2, <1>4, ConvTail
<1>8. Eval(Take(tc, k), x) = Add(Mul(a0, T), Mul(A, B))
  <2>1. Eval(Take(SAdd(SScale(a0, tb), d), k), x) = Add(Mul(a0, Eval(Take(tb, k), x)), Eval(Take(d, k), x))
    BY TakeLinear
  <2>2. QED
    BY <1>4, <1>6, <1>7, <2>1
<1>9. Eval(Take(c, k + 1), x) = Add(Mul(a0, b0), Mul(x, Add(Mul(a0, T), Mul(A, B))))
  <2>1. Eval(Take(c, k + 1), x) = Add(c[0], Mul(x, Eval(Take(STail(c), k), x)))
    BY TakeHead
  <2>2. c[0] = Mul(a0, b0)
    BY <1>1, <1>4, ConvStep
  <2>3. QED
    BY <1>2, <1>8, <2>1, <2>2
<1>10. Eval(Take(a, l), x) = Add(a0, Mul(x, A))
  <2>1. Eval(Take(a, n + 1), x) = Add(a[0], Mul(x, Eval(Take(STail(a), n), x)))
    BY TakeHead
  <2>2. QED
    BY <1>0, <1>1, <1>4, <2>1
<1>11. B = Add(b0, Mul(x, T))
  <2>1. PICK h \in Nat : h = k + 1 /\ m <= h
    BY <1>3
  <2>2. Eval(Take(b, h), x) = Eval(Take(b, m), x)
    BY <2>1, TakePad
  <2>3. Eval(Take(b, k + 1), x) = Add(b[0], Mul(x, Eval(Take(STail(b), k), x)))
    BY TakeHead
  <2>4. QED
    BY <1>1, <1>4, <2>1, <2>2, <2>3
<1>12. Add(Mul(a0, b0), Mul(x, Add(Mul(a0, T), Mul(A, B)))) = Mul(Add(a0, Mul(x, A)), B)
  <2>1. PICK u \in Fr, v \in Fr, w \in Fr, xT \in Fr, xA \in Fr, uv \in Fr :
          u = Mul(a0, T) /\ v = Mul(A, B) /\ w = Mul(a0, b0) /\ xT = Mul(x, T) /\ xA = Mul(x, A) /\ uv = Mul(x, v)
    <3>1. Mul(a0, T) \in Fr /\ Mul(A, B) \in Fr /\ Mul(a0, b0) \in Fr /\ Mul(x, T) \in Fr /\ Mul(x, A) \in Fr
      BY FrClosed
    <3>2. Mul(x, Mul(A, B)) \in Fr
      BY <3>1, FrClosed
    <3>3. QED
      BY <3>1, <3>2
  <2>2. Mul(x, Add(u, v)) = Add(Mul(x, u), uv)
    BY <2>1, FrMultiplicative
  <2>3. Mul(x, u) = Mul(a0, xT)
    BY <2>1, MulRotate
  <2>4. uv = Mul(xA, B)
    BY <2>1, FrMultiplicative
  <2>5. Mul(a0, Add(b0, xT)) = Add(w, Mul(a0, xT))
    BY <2>1, FrMultiplicative
  <2>6. Mul(Add(a0, xA), B) = Add(Mul(a0, B), Mul(xA, B))
    <3>1. Add(a0, xA) \in Fr
      BY FrClosed
    <3>2. Mul(Add(a0, xA), B) = Mul(B, Add(a0, xA))
      BY <3>1, FrMultiplicative
    <3>3. Mul(B, Add(a0, xA)) = Add(Mul(B, a0), Mul(B, xA))
      BY FrMultiplicative
    <3>4. Mul(B, a0) = Mul(a0, B) /\ Mul(B, xA) = Mul(xA, B)
      BY FrMultiplicative
    <3>5. QED
      BY <3>2, <3>3, <3>4
  <2>7. Mul(a0, xT) \in Fr
    BY FrClosed
  <2>8. Add(w, Add(Mul(a0, xT), uv)) = Add(Add(w, Mul(a0, xT)), uv)
    BY <2>7, FrAdditive
  <2>9. QED
    BY <1>11, <2>1, <2>2, <2>3, <2>4, <2>5, <2>6, <2>8
<1>13. QED
  BY <1>1, <1>3, <1>4, <1>9, <1>10, <1>12

\* Evaluation multiplies.
LEMMA EvalMul ==
    ASSUME NEW p \in Seq(Fr), NEW q \in Seq(Fr), NEW x \in Fr
    PROVE  Eval(PolyMul(p, q), x) = Mul(Eval(p, x), Eval(q, x))
<1> DEFINE S == {n \in Nat : Multiplies(n, x)}
<1>1. 0 \in S
  BY MultipliesBase
<1>2. \A n \in Nat : n \in S => n + 1 \in S
  BY MultipliesStep
<1>3. \A n \in Nat : n \in S
  <2> HIDE DEF S
  <2> QED
    BY <1>1, <1>2, SetInduction
<1>4. PICK n \in Nat, m \in Nat, k \in Nat : n = Len(p) /\ m = Len(q) /\ k = n + m
  OBVIOUS
<1>5. Multiplies(n, x)
  BY <1>3
<1>6. Ser(p) \in Series /\ Ser(q) \in Series
  BY SerFacts
<1>7. NoneFrom(Ser(p), n) /\ NoneFrom(Ser(q), m)
  BY <1>4, SerEnds
<1>8. PICK s \in Seq(Fr) : s = PolyMul(p, q) /\ Ser(s) = Conv(Ser(p), Ser(q))
  BY PolyMulSer
<1>9. NoneFrom(Ser(s), k)
  <2> SUFFICES ASSUME NEW j \in Nat, j >= k PROVE Ser(s)[j] = Zero
    BY DEF NoneFrom
  <2>1. j + 1 >= n + m
    BY <1>4
  <2>2. QED
    BY <1>6, <1>7, <1>8, <2>1, ConvBeyond
<1>10. Eval(Take(Conv(Ser(p), Ser(q)), n + m), x) = Mul(Eval(Take(Ser(p), n), x), Eval(Take(Ser(q), m), x))
  BY <1>5, <1>6, <1>7 DEF Multiplies
<1>11. Eval(s, x) = Eval(Take(Ser(s), k), x)
  BY <1>9, EvalTake
<1>12. Eval(p, x) = Eval(Take(Ser(p), n), x) /\ Eval(q, x) = Eval(Take(Ser(q), m), x)
  BY <1>7, EvalTake
<1>13. QED
  BY <1>4, <1>8, <1>10, <1>11, <1>12
=============================================================================
