----------------------------- MODULE MCDecryption -----------------------------
(***************************************************************************)
(* Small instances of Decryption.                                          *)
(***************************************************************************)
EXTENDS Decryption, SmallField

\* A line that does not vanish at any point of the domain of three.
OneLine == {<<2, 1>>}
FourFactors == <<2, 3, 4, 1>>
\* Prefixes of the contexts in order, the same in another order, and one with a gap.
FewSelections == {<<0>>, <<0, 1>>, <<1, 0>>, <<0, 2>>, <<0, 1, 2>>}
NoSelections == {}
=============================================================================
