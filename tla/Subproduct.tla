------------------------------- MODULE Subproduct -------------------------------
(***************************************************************************)
(* subproductdomain/src/lib.rs: fast arithmetic over arbitrary points.     *)
(*                                                                         *)
(* A polynomial is the sequence of its coefficients, lowest first.  As in  *)
(* ark-poly a sum, a difference and a product have no leading zeros, and   *)
(* the zero polynomial has no coefficients; a vector that was resized may  *)
(* end in zeros.  ark-poly's degree(), which its sums and differences call *)
(* on operands other than zero and its products do not, panics on such a   *)
(* vector.                                                                 *)
(*                                                                         *)
(* A SubproductTree is identified with the slice of points it is made of:  *)
(* its children are the trees of the two halves of the slice, every        *)
(* operation is called on a tree with its own slice, and TreeM[u] is its   *)
(* polynomial m.                                                           *)
(***************************************************************************)
EXTENDS Tdec, FiniteSetsExt

\* ark_poly's DensePolynomial.
PolyLen(p) == LET nonzero == {k \in DOMAIN p : p[k] # Zero}
              IN  IF nonzero = {} THEN 0 ELSE Max(nonzero)
Degree(p) == IF PolyLen(p) = 0 THEN 0 ELSE PolyLen(p) - 1
\* What degree() asserts against.
LeadingZero(p) == PolyLen(p) # 0 /\ PolyLen(p) # Len(p)
Trim(p) == SubSeq(p, 1, PolyLen(p))
Coeff(p, k) == IF k \in DOMAIN p THEN p[k] ELSE Zero
PolyAdd(p, q) == Trim([k \in 1..Max({Len(p), Len(q)}) |-> Add(Coeff(p, k), Coeff(q, k))])
PolySub(p, q) == Trim([k \in 1..Max({Len(p), Len(q)}) |-> Sub(Coeff(p, k), Coeff(q, k))])
PolyMul(p, q) ==
    IF PolyLen(p) = 0 \/ PolyLen(q) = 0 THEN <<>>
    ELSE Trim([k \in 1..(Len(p) + Len(q) - 1) |->
                 FSum([i \in 1..Len(p) |-> Mul(p[i], Coeff(q, k - i + 1))])])
Reverse(p) == [k \in DOMAIN p |-> p[Len(p) - k + 1]]

\* F::from(i) * c.
Times(i, c) == FSum([k \in 1..i |-> c])
-----------------------------------------------------------------------------
ModuliFromScalar(s) == <<Neg(s), One>>

\* 2^k: acc at turn k of the loop of inverse_mod_xl.
Pow2(k) ==
    LET acc[i \in 0..k] == IF i = 0 THEN 1 ELSE 2 * acc[i - 1]
    IN  acc[k]

\* ark_std::log2: the ceiling.
Log2(n) == CHOOSE k \in 0..n : Pow2(k) >= n /\ \A j \in 0..(k - 1) : Pow2(j) < n

\* A bug that the Newton step could have: the square of the inverse is left out.
NewtonStepLinear(f, g, acc) ==
    LET next == PolySub(PolyAdd(g, g), PolyMul(f, g))
    IN  SubSeq(next, 1, Min({Len(next), acc}))

\* One turn of the loop of inverse_mod_xl, on an inverse that degree() accepts.
NewtonStep(f, g, acc) ==
    LET next == PolySub(PolyAdd(g, g), PolyMul(f, PolyMul(g, g)))
    IN  SubSeq(next, 1, Min({Len(next), acc}))

\* The doubling that starts a turn panics when the resize of the turn before has left a
\* zero at the end.
InverseModXl(f, length) ==
    LET inv[k \in 0..Log2(length)] ==
          IF k = 0 THEN <<Inv(f[1])>> ELSE NewtonStep(f, inv[k - 1], Pow2(k))
    IN  IF f = <<>> THEN Panic("coeffs[0]")
        ELSE IF f[1] = Zero THEN Err("None")
        ELSE IF \E k \in 0..(Log2(length) - 1) : LeadingZero(inv[k]) THEN Panic("degree")
        ELSE Ok(inv[Log2(length)])

\* rev, in place in the code; the assertion bounds the length.
Rev(f, m) == Reverse(Resize(f, m + 1))

\* The end of fast_divide_monic, on the inverse of the reversed divisor.
Quotient(f, diff, inverse) == Rev(Resize(PolyMul(Reverse(f), inverse), diff + 1), diff)
DivideWith(f, g, quotient) ==
    IF LeadingZero(f) /\ PolyMul(g, quotient) # <<>> THEN Panic("degree")
    ELSE Ok([quotient |-> quotient, remainder |-> PolySub(f, PolyMul(g, quotient))])

\* A bug that fast_divide_monic could have: the series is one term too short.
FastDivideMonicShort(f, g) ==
    LET diff    == Len(f) - Len(g)
        inverse == InverseModXl(Reverse(g), diff)
    IN  IF Len(f) < Len(g) THEN Ok([quotient |-> <<Zero>>, remainder |-> f])
        ELSE IF ~ Succeeded(inverse) THEN Panic("inverse_mod_xl")
        ELSE DivideWith(f, g, Quotient(f, diff, inverse.val))

FastDivideMonic(f, g) ==
    LET diff    == Len(f) - Len(g)
        inverse == InverseModXl(Reverse(g), diff + 1)
    IN  IF Len(f) < Len(g) THEN Ok([quotient |-> <<Zero>>, remainder |-> f])
        ELSE IF ~ Succeeded(inverse) THEN Panic("inverse_mod_xl")
        ELSE DivideWith(f, g, Quotient(f, diff, inverse.val))
-----------------------------------------------------------------------------
\* The slices of points that trees are made of.  On no points SubproductTree::new
\* recurses without end.
Slices == Seq(Fr) \ {<<>>}
LeftHalf(u)  == SubSeq(u, 1, Len(u) \div 2)
RightHalf(u) == SubSeq(u, (Len(u) \div 2) + 1, Len(u))

\* The polynomial m of SubproductTree::new.
TreeM[u \in Slices] ==
    IF Len(u) = 1 THEN ModuliFromScalar(u[1])
    ELSE PolyMul(TreeM[LeftHalf(u)], TreeM[RightHalf(u)])

Both(l, r) == IF Succeeded(l) /\ Succeeded(r) THEN Ok(l.val \o r.val) ELSE Panic("evaluate")

\* SubproductTree::evaluate: the values of f at u.  At a leaf the code reads the first
\* coefficient of the remainder, and a zero remainder has none.
TreeEvaluate[u \in Slices] ==
    [f \in Seq(Fr) |->
        LET d_0 == FastDivideMonic(f, TreeM[LeftHalf(u)])
            d_1 == FastDivideMonic(f, TreeM[RightHalf(u)])
        IN  IF LeadingZero(f) THEN Panic("degree")
            ELSE IF Degree(f) >= Len(u) THEN Panic("assert")
            ELSE IF Len(u) = 1 THEN IF f = <<>> THEN Panic("coeffs[0]") ELSE Ok(<<f[1]>>)
            ELSE IF ~ (Succeeded(d_0) /\ Succeeded(d_1)) THEN Panic("fast_divide_monic")
            ELSE Both(TreeEvaluate[LeftHalf(u)][d_0.val.remainder],
                      TreeEvaluate[RightHalf(u)][d_1.val.remainder])]

\* A bug that derivative could have: the exponent counts from zero.
DerivativeOff(f) == [k \in 1..(Len(f) - 1) |-> Times(k - 1, f[k + 1])]

Derivative(f) == [k \in 1..(Len(f) - 1) |-> Times(k, f[k + 1])]

InverseLagrangeCoefficients(u) ==
    IF Len(u) = 1 THEN Ok(<<One>>) ELSE TreeEvaluate[u][Derivative(TreeM[u])]

\* A bug that linear_combine could have: each half is multiplied by its own modulus.
Crossed(m_0, m_1, r_0, r_1) == PolyAdd(PolyMul(m_0, r_0), PolyMul(m_1, r_1))

\* The last line of linear_combine: each half by the other's modulus.
CombineHalves(m_0, m_1, r_0, r_1) == PolyAdd(PolyMul(m_1, r_0), PolyMul(m_0, r_1))

\* c is as long as the slice of points.
LinearCombine[u \in Slices] ==
    [c \in [DOMAIN u -> Fr] |->
        IF Len(u) = 1 THEN <<c[1]>>
        ELSE CombineHalves(TreeM[LeftHalf(u)], TreeM[RightHalf(u)],
                           LinearCombine[LeftHalf(u)][SubSeq(c, 1, Len(u) \div 2)],
                           LinearCombine[RightHalf(u)][SubSeq(c, (Len(u) \div 2) + 1, Len(u))])]

\* A bug that interpolate could have: the denominators are not inverted.
InterpolateNoInverse(u, v) ==
    LET s == InverseLagrangeCoefficients(u)
    IN  IF Succeeded(s) THEN Ok(LinearCombine[u][[k \in DOMAIN u |-> Mul(s.val[k], v[k])]]) ELSE s

Interpolate(u, v) ==
    LET s == InverseLagrangeCoefficients(u)
    IN  IF ~ Succeeded(s) THEN s
        ELSE IF \E k \in DOMAIN u : s.val[k] = Zero THEN Panic("inverse")
        ELSE Ok(LinearCombine[u][[k \in DOMAIN u |-> Mul(Inv(s.val[k]), v[k])]])

\* SubproductDomain::new.
DomainNew(u) == [u |-> u, m |-> TreeM[u], prime |-> Derivative(TreeM[u])]
-----------------------------------------------------------------------------
\* A bug that build_circulant could have: the case of n coefficients above the
\* constant term is not told apart.
BuildCirculantPlain(p, n) == [k \in 1..(2 * n) |-> IF k > n + 1 THEN Coeff(p, k - n) ELSE Zero]

\* build_circulant, over positions 0..2n-1: the coefficients above the constant term
\* from n + 1 on, but the n-th, if there is one, at 0 and at n.
BuildCirculant(p, n) ==
    [k \in 1..(2 * n) |->
        IF k > n + 1 THEN Coeff(p, k - n)
        ELSE IF n = Len(p) - 1 /\ k \in {1, n + 1} THEN p[Len(p)]
        ELSE Zero]

\* ifft_in_place over the domain new(n).
Ifft(v, n) ==
    LET size == DomainSize(n)
    IN  [k \in 1..size |->
            Mul(Inv(Times(size, One)),
                FSum([j \in 1..size |->
                        Mul(v[j], DomainElement(n, (size - (((j - 1) * (k - 1)) % size)) % size))]))]

\* toeplitz_mul: the product, and the inverse of the domain's size.
ToeplitzMul(p, v, requested) ==
    LET size      == Max({requested, Len(p) - 1})
        n         == DomainSize(2 * size) \div 2
        circulant == Fft(BuildCirculant(p, n), 2 * size)
        padded    == [k \in 1..(2 * n) |-> IF k \in (n - Len(v) + 1)..n THEN v[n - k + 1] ELSE Zero]
        tmp       == Fft(padded, 2 * size)
        product   == Ifft([k \in 1..(2 * n) |-> Mul(tmp[k], circulant[k])], 2 * size)
    IN  IF p = <<>> THEN Panic("coeffs.len() - 1")
        ELSE IF 2 * size > MaxDomain THEN Err("too large")
        ELSE IF LeadingZero(p) THEN Panic("degree")
        ELSE IF n = 0 THEN Panic("circulant[0]")
        ELSE IF Len(v) > n THEN Panic("toeplitz_size - v.len()")
        ELSE Ok([product |-> SubSeq(product, 1, n), scale |-> Inv(Times(2 * n, One))])
=============================================================================
