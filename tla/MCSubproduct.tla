----------------------------- MODULE MCSubproduct -----------------------------
(***************************************************************************)
(* Small instances of SubproductCalls.                                     *)
(***************************************************************************)
EXTENDS SubproductCalls, SmallField

\* Even and uneven trees of up to five points, a domain with zero in it, one that is a
\* subgroup, one with a point twice, and one whose first two points add up to zero, so
\* that the division by x^2 - 1 stalls.
SomePoints == {<<3>>, <<1, 16>>, <<0, 2, 3>>, <<1, 4, 16, 13>>, <<4, 0, 1, 9, 2>>, <<2, 1, 2>>,
               <<1, 16, 2, 3, 4>>}
=============================================================================
