--------------------------------- MODULE MCDkg ---------------------------------
(***************************************************************************)
(* Small instances of Dkg.                                                 *)
(***************************************************************************)
EXTENDS Dkg, SmallField

TwoPolys == {<<1, 1>>, <<2, 3>>}
FourPolys == {<<1, 1>>, <<2, 3>>, <<4, 2>>, <<3, 4>>}
NoStrangers == {}
\* Two polynomials of degree t - 1 whose leading terms cancel, one too short,
\* one padded with a zero and one too long.
OddPolys == {<<1, 1>>, <<2, 4>>, <<3>>, <<2, 0>>, <<1, 2, 1>>}
PlainPolys == {<<1, 1>>, <<4, 2>>}
\* A stranger that claims a share index of the ritual, and one that does not.
TwoStrangers == {V("x", 2, 2), V("d", 3, 7)}
\* What a caller may get wrong: a threshold of zero or above the number of
\* shares, a repeated or an out-of-range index, an identity key, no validators, too
\* few validators for the threshold.
OddRituals ==
    {Ritual(2, 3, Three), Ritual(0, 3, Three), Ritual(4, 3, Three), Ritual(0, 0, <<>>),
     Ritual(1, 1, <<>>), Ritual(1, 2, <<V("a", 3, 1), V("b", 2, 1)>>),
     Ritual(2, 2, <<V("a", 3, 2), V("b", 2, 0)>>), Ritual(2, 2, <<V("a", 3, 1), V("b", 0, 0)>>),
     Ritual(1, 1, <<V("a", 3, 0)>>), Ritual(2, 4, Three),
     Ritual(3, 3, <<V("a", 3, 1), V("b", 2, 0)>>),
     Ritual(2, 4, <<V("d", 1, 3), V("a", 3, 2), V("c", 4, 1), V("b", 2, 0)>>)}
\* The second stranger knows the key and the index of a validator.
Intruders == {V("x", 2, 2), V("d", 4, 2), V("x", 3, 7)}
UnitPolys == {<<1>>, <<1, 1>>, <<2, 4>>, <<1, 1, 1>>}
=============================================================================
