---------------------------- MODULE SubproductCalls ----------------------------
(***************************************************************************)
(* Calls of the subproductdomain crate over a domain of points, against    *)
(* the definitions of what they compute.                                   *)
(***************************************************************************)
EXTENDS Subproduct

CONSTANTS
    Points,     \* the point sequences a domain may be made of, none empty
    Values,     \* the field elements that arguments are made of
    MaxLen,     \* bound on the coefficients of a polynomial
    MaxDivisor, \* bound on the degree of a divisor
    MaxLength,  \* bound on the terms of a power series inverse
    MaxToeplitz \* bound on the vector and the size of a Toeplitz product

ASSUME PointsAssumption == Points \subseteq Slices
ASSUME ValuesAssumption == Values \subseteq Fr
ASSUME BoundsAssumption == {MaxLen, MaxDivisor, MaxLength, MaxToeplitz} \subseteq Nat

VARIABLES
    domain,  \* a SubproductDomain
    out      \* the last call and what it returned

vars == <<domain, out>>

Vectors(n) == [1..n -> Values]
Nonempty(n) == UNION {Vectors(k) : k \in 1..n}
\* The values of from_coefficients_vec: no leading zeros.
Polys(n) == {p \in {<<>>} \cup Nonempty(n) : PolyLen(p) = Len(p)}
Monic(n) == {Append(p, One) : p \in UNION {Vectors(k) : k \in 0..n}}
Idle == [op |-> "none"]

Init == domain \in {DomainNew(u) : u \in Points} /\ out = Idle

Call(op, args, r) ==
    /\ out = Idle
    /\ out' = [op |-> op, args |-> args, r |-> r]
    /\ UNCHANGED domain

HaveResult == out # Idle /\ out' = Idle /\ UNCHANGED domain

\* What concerns no points is called once, beside the smallest domain.
Alone == Len(domain.u) = 1

Next ==
    \/ \E f \in Polys(MaxLen) : Call("evaluate", <<f>>, TreeEvaluate[domain.u][f])
    \/ \E v \in Vectors(Len(domain.u)) :
          Call("interpolate", <<v>>, Interpolate(domain.u, v))
    \/ \E c \in Vectors(Len(domain.u)) :
          Call("linear_combine", <<c>>, Ok(LinearCombine[domain.u][c]))
    \/ Call("inverse_lagrange", <<>>, InverseLagrangeCoefficients(domain.u))
    \/ /\ Alone
       /\ \E f \in Polys(MaxLen), g \in Monic(MaxDivisor) :
             Call("divide", <<f, g>>, FastDivideMonic(f, g))
    \/ /\ Alone
       /\ \E f \in Polys(MaxDivisor + 1), l \in 1..MaxLength :
             Call("inverse", <<f, l>>, InverseModXl(f, l))
    \/ /\ Alone
       /\ \E p \in Polys(MaxDivisor + 1), v \in Nonempty(MaxToeplitz), size \in 0..MaxToeplitz :
             Call("toeplitz", <<p, v, size>>, ToeplitzMul(p, v, size))
    \/ HaveResult

Spec == Init /\ [][Next]_vars
-----------------------------------------------------------------------------
Returned(op) == out.op = op /\ Succeeded(out.r)
Distinct(u) == \A i, j \in DOMAIN u : u[i] = u[j] => i = j

\* The first n coefficients of 1 / f, one after the other.
Reciprocal(f, n) ==
    LET c[k \in 0..n] ==
          IF k = 0 THEN <<>>
          ELSE IF k = 1 THEN <<Inv(f[1])>>
          ELSE Append(c[k - 1], Neg(Mul(Inv(f[1]),
                 FSum([j \in 1..(k - 1) |-> Mul(Coeff(f, j + 1), Coeff(c[k - 1], k - j))]))))
    IN  c[n]

\* An inverse of f modulo x^l on whose way the Newton iteration meets a zero at the end
\* of a resized vector: a zero among the coefficients 2, 4, 8, ... of 1 / f, but for the
\* last power of two.
Stalls(f, l) ==
    PolyLen(f) > 1 /\ \E k \in 1..(Log2(l) - 1) : Reciprocal(f, Pow2(k))[Pow2(k)] = Zero

\* A tree over u in which a division of as many coefficients as there are points may
\* stall.
Stalling[u \in Slices] ==
    IF Len(u) = 1 THEN FALSE
    ELSE \/ Stalls(Reverse(TreeM[LeftHalf(u)]), Len(u) - Len(LeftHalf(u)))
         \/ Stalls(Reverse(TreeM[RightHalf(u)]), Len(u) - Len(RightHalf(u)))
         \/ Stalling[LeftHalf(u)]
         \/ Stalling[RightHalf(u)]

\* Fast division by a monic g is division, f = q g + r with r of a smaller degree than
\* g, for an f shorter than g too; it panics exactly if the Newton iteration for the
\* reversed g stalls.
DivisionExact ==
    out.op = "divide" =>
        LET f == out.args[1]
            g == out.args[2]
            d == out.r.val
        IN  /\ Succeeded(out.r) <=>
                 Len(f) < Len(g) \/ ~ Stalls(Reverse(g), Len(f) - Len(g) + 1)
            /\ Succeeded(out.r) =>
                 /\ PolyAdd(PolyMul(d.quotient, g), d.remainder) = f
                 /\ PolyLen(d.remainder) < Len(g)

\* The Newton iteration returns a power series inverse modulo x^l for every l, between
\* powers of two too, exactly if the constant term has an inverse and no coefficient
\* that ends a resized vector is zero.
InverseExact ==
    out.op = "inverse" =>
        LET f == out.args[1]
            l == out.args[2]
        IN  /\ Succeeded(out.r) <=> Coeff(f, 1) # Zero /\ ~ Stalls(f, l)
            /\ Succeeded(out.r) =>
                 Trim(Resize(PolyMul(f, out.r.val), l)) = <<One>>

\* What multi-point evaluation returns are the values of f at the points, in their order
\* and down an uneven tree.  It returns only if the degree of f is below the number of
\* points and f vanishes at none of them (a leaf would read a coefficient that is not
\* there), and then it does, unless a division of the tree may stall.
EvaluationExact ==
    out.op = "evaluate" =>
        LET f    == out.args[1]
            u    == domain.u
            fits == Degree(f) < Len(u) /\ \A i \in DOMAIN u : Eval(f, u[i]) # Zero
        IN  /\ Succeeded(out.r) => fits /\ out.r.val = [i \in DOMAIN u |-> Eval(f, u[i])]
            /\ fits /\ ~ Stalling[u] => Succeeded(out.r)

\* Interpolation succeeds over distinct points whose tree does not stall, over equal
\* points never, and returns the polynomial of a degree below their number that has the
\* given values, zeros among them included.
InterpolationExact ==
    out.op = "interpolate" =>
        LET u == domain.u
            f == out.r.val
        IN  /\ Succeeded(out.r) =>
                 /\ Distinct(u)
                 /\ PolyLen(f) <= Len(u)
                 /\ \A i \in DOMAIN u : Eval(f, u[i]) = out.args[1][i]
            /\ Distinct(u) /\ Times(Len(u), One) # Zero /\ ~ Stalling[u] => Succeeded(out.r)

\* The inverse Lagrange coefficients are the products of the differences of the points;
\* two equal points make the call panic rather than return, and points that are distinct
\* do not, if the tree does not stall (and the field's characteristic does not divide
\* their number).
LagrangeExact ==
    out.op = "inverse_lagrange" =>
        LET u == domain.u
        IN  /\ Succeeded(out.r) =>
                 /\ Distinct(u)
                 /\ out.r.val = [i \in DOMAIN u |->
                                   FProd([j \in DOMAIN u |->
                                            IF j = i THEN One ELSE Sub(u[i], u[j])])]
            /\ Distinct(u) /\ Times(Len(u), One) # Zero /\ ~ Stalling[u] => Succeeded(out.r)

\* linear_combine returns the sum of c_i m / (x - u_i).
CombinationExact ==
    Returned("linear_combine") =>
        LET u == domain.u
        IN  \A x \in Fr :
              Eval(out.r.val, x) =
                FSum([i \in DOMAIN u |->
                        Mul(out.args[1][i],
                            FProd([j \in DOMAIN u |-> IF j = i THEN One ELSE Sub(x, u[j])]))])

\* toeplitz_mul multiplies v by the Hankel rows of the polynomial above its constant
\* term, up to the size of the matrix and with a full-degree polynomial too.
ToeplitzExact ==
    Returned("toeplitz") =>
        LET p == out.args[1]
            v == out.args[2]
        IN  out.r.val.product =
              [i \in 1..Len(out.r.val.product) |->
                  FSum([j \in DOMAIN v |-> Mul(v[j], Coeff(p, i + j))])]
=============================================================================
