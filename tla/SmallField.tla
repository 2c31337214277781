------------------------------ MODULE SmallField ------------------------------
(***************************************************************************)
(* The two fields of the small instances.  In the field of five elements   *)
(* the multiplicative group {1, 2, 4, 3} is the evaluation domain of size  *)
(* four, generated by 2, and holds the domains of size two and one.        *)
(***************************************************************************)
EXTENDS Integers, Sequences

F5 == 0..4
F5Add(a, b) == (a + b) % 5
F5Neg(a) == (5 - a) % 5
F5Mul(a, b) == (a * b) % 5
F5Inv(a) == (a * a * a) % 5

F5DomainSize(n) == CHOOSE s \in {1, 2, 4} : n <= s /\ (s = 1 \/ s < 2 * n)
F5DomainElement(n, i) == (CASE F5DomainSize(n) = 1 -> <<1>>
                            [] F5DomainSize(n) = 2 -> <<1, 4>>
                            [] F5DomainSize(n) = 4 -> <<1, 2, 4, 3>>)[i + 1]

\* The field of seventeen elements, with domains of up to sixteen: 3 generates its
\* multiplicative group.  Derivatives of degree up to sixteen keep their leading term.
F17 == 0..16
F17Add(a, b) == (a + b) % 17
F17Neg(a) == (17 - a) % 17
F17Mul(a, b) == (a * b) % 17
F17Inv(a) == LET a2 == (a * a) % 17
                 a4 == (a2 * a2) % 17
                 a8 == (a4 * a4) % 17
             IN  (((a * a2) % 17) * ((a4 * a8) % 17)) % 17

F17DomainSize(n) == CHOOSE s \in {1, 2, 4, 8, 16} : n <= s /\ (s = 1 \/ s < 2 * n)
F17Powers == <<1, 3, 9, 10, 13, 5, 15, 11, 16, 14, 8, 7, 4, 12, 2, 6>>
F17DomainElement(n, i) == F17Powers[i * (16 \div F17DomainSize(n)) + 1]

V(a, ek, i) == [address |-> a, ek |-> ek, share_index |-> i]
Ritual(t, n, vs) == [threshold |-> t, shares_num |-> n, validators |-> vs]

\* Three validators, listed in another order than their indices.
Three == <<V("a", 3, 1), V("b", 2, 0), V("c", 4, 2)>>
Ritual23 == {Ritual(2, 3, Three)}
=============================================================================
