---------------------------- MODULE MCShareMobility ----------------------------
(***************************************************************************)
(* Small instances of ShareMobility.                                       *)
(***************************************************************************)
EXTENDS ShareMobility, SmallField

Cohort23 == Ritual(2, 3, Three)
Line == <<2, 1>>
OneTail == {<<1>>}
=============================================================================
