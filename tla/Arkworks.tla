------------------------------- MODULE Arkworks -------------------------------
(***************************************************************************)
(* The algebra the ferveo crates take from arkworks (ark-ff, ark-ec,       *)
(* ark-poly).  None of it is code of the repository: it is modelled from   *)
(* how the crates use it.                                                  *)
(*                                                                         *)
(* The crates are generic over E: Pairing.  Every element of G1, G2 and GT *)
(* is represented by its discrete logarithm to the fixed generator of its  *)
(* group, an element of the scalar field Fr.  Group addition is then Add,  *)
(* scalar multiplication is Mul, the identity is Zero, and the pairing     *)
(* e(aG, bH) is Mul(a, b).  This keeps every equation the code checks and  *)
(* every value it computes; it does not model what an observer can or      *)
(* cannot compute, so the project states correctness and not secrecy.      *)
(***************************************************************************)
EXTENDS Integers, Sequences

CONSTANTS
    Fr,                  \* E::ScalarField
    Zero, One,
    Add(_, _), Neg(_), Mul(_, _), Inv(_),
    MaxDomain,           \* the largest size GeneralEvaluationDomain::new accepts
    DomainSize(_),       \* size of the domain that new(n) returns
    DomainElement(_, _)  \* DomainElement(n, i): element i of new(n)

ASSUME FrClosed ==
    /\ Zero \in Fr /\ One \in Fr /\ Zero # One
    /\ \A a \in Fr : Neg(a) \in Fr /\ Inv(a) \in Fr
    /\ \A a, b \in Fr : Add(a, b) \in Fr /\ Mul(a, b) \in Fr

ASSUME FrAdditive ==
    /\ \A a \in Fr : Add(a, Zero) = a /\ Add(a, Neg(a)) = Zero
    /\ \A a, b \in Fr : Add(a, b) = Add(b, a)
    /\ \A a, b, c \in Fr : Add(Add(a, b), c) = Add(a, Add(b, c))

ASSUME FrMultiplicative ==
    /\ \A a \in Fr : Mul(a, One) = a /\ (a # Zero => Mul(a, Inv(a)) = One)
    /\ \A a, b \in Fr : Mul(a, b) = Mul(b, a)
    /\ \A a, b, c \in Fr : Mul(Mul(a, b), c) = Mul(a, Mul(b, c))
    /\ \A a, b, c \in Fr : Mul(a, Add(b, c)) = Add(Mul(a, b), Mul(a, c))

\* new(n) returns the smallest power-of-two subgroup that holds n elements.
ASSUME DomainAssumption ==
    /\ MaxDomain \in Nat
    /\ \A n \in 0..MaxDomain :
         /\ DomainSize(n) \in Nat \ {0}
         /\ n <= DomainSize(n)
         /\ \A i \in 0..(DomainSize(n) - 1) : DomainElement(n, i) \in Fr \ {Zero}
         /\ \A i, j \in 0..(DomainSize(n) - 1) :
              DomainElement(n, i) = DomainElement(n, j) => i = j
-----------------------------------------------------------------------------
Sub(a, b) == Add(a, Neg(b))
Div(a, b) == Mul(a, Inv(b))

\* E::pairing, on discrete logarithms.
Pairing(a, b) == Mul(a, b)

\* Sum and product of a sequence of field elements, from the left.
FSum(s) ==
    LET acc[i \in 0..Len(s)] == IF i = 0 THEN Zero ELSE Add(acc[i - 1], s[i])
    IN  acc[Len(s)]

FProd(s) ==
    LET acc[i \in 0..Len(s)] == IF i = 0 THEN One ELSE Mul(acc[i - 1], s[i])
    IN  acc[Len(s)]

\* DensePolynomial::evaluate, lowest coefficient first (Horner).
Eval(p, x) ==
    LET acc[i \in 0..Len(p)] ==
          IF i = 0 THEN Zero ELSE Add(p[Len(p) - i + 1], Mul(x, acc[i - 1]))
    IN  acc[Len(p)]

\* Vec::resize(n, zero): truncates or pads.
Resize(p, n) == [i \in 1..n |-> IF i <= Len(p) THEN p[i] ELSE Zero]

\* fft_in_place over the domain new(n): the coefficients are resized to the
\* domain and evaluated at each of its elements.
Fft(p, n) ==
    [i \in 1..DomainSize(n) |->
        Eval(Resize(p, DomainSize(n)), DomainElement(n, i - 1))]
=============================================================================
