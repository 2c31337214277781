------------------------------ MODULE KeyCustody ------------------------------
(***************************************************************************)
(* What share refresh and handover promise a cohort that holds one key.    *)
(*                                                                         *)
(* Every slot has a custodian and its share belongs to a generation.  A    *)
(* refresh moves one slot to another generation, a handover gives one slot *)
(* to another custodian with a share of the original generation; a faulty  *)
(* peer can spoil the share of the slot that takes what it sent.  Whatever *)
(* happens, `threshold` slots of one generation open what is encrypted to  *)
(* the key, and a step of one slot changes nothing for the groups that it  *)
(* is not in.                                                              *)
(***************************************************************************)
EXTENDS Naturals, FiniteSets

CONSTANTS
    Slots, Threshold,
    Original,  \* the generation the ceremony ended with
    Spoiled    \* of a share that belongs to no generation

VARIABLES
    custodian,   \* slot -> the key its holder decrypts with
    generation,  \* slot -> the generation of its share
    opens        \* the groups of Threshold slots that decrypt

vars == <<custodian, generation, opens>>

Groups == {S \in SUBSET Slots : Cardinality(S) = Threshold}
Agreeing(gen) ==
    {S \in Groups : \A i, j \in S : gen[i] = gen[j] /\ gen[i] # Spoiled}

Init ==
    /\ generation = [i \in Slots |-> Original]
    /\ opens = Groups

\* Only slot i's share changes, to generation g.
Moves(i, g) ==
    /\ generation' = [generation EXCEPT ![i] = g]
    /\ Agreeing(generation') \subseteq opens' /\ opens' \subseteq Groups
    /\ \A S \in Groups : i \notin S => (S \in opens' <=> S \in opens)

Refresh(i) == Moves(i, generation'[i]) /\ UNCHANGED custodian

Handover(i) ==
    /\ custodian' = [custodian EXCEPT ![i] = custodian'[i]]
    /\ \E g \in {Original, Spoiled} : Moves(i, g)

Next == \E i \in Slots : Refresh(i) \/ Handover(i)

Spec == Init /\ [][Next]_vars
=============================================================================
