----------------------------- MODULE ShareMobility -----------------------------
(***************************************************************************)
(* Refresh and handover over the life of a cohort.                         *)
(*                                                                         *)
(* Every slot's holder keeps its own copy of the aggregate.  Holders post  *)
(* update transcripts and refresh their copies with any batch of them, in  *)
(* any order and more than once.  Incoming nodes post handover transcripts *)
(* ("batons") made from some holder's copy; the departing holder finalizes *)
(* one, now or after refreshes.  A posted message can be stale when it is  *)
(* used, and a faulty peer can post a wrong one.  A call that panics       *)
(* leaves the caller's aggregate as it was.                                *)
(***************************************************************************)
EXTENDS Refresh

CONSTANTS
    Cohort,         \* the established ceremony: [threshold, shares_num, validators]
    Phi,            \* its joint secret polynomial, which nobody holds
    Tails,          \* the random coefficients an update polynomial may draw
    Departing,      \* the slots whose holders may leave
    Incoming,       \* the keys of nodes that may come
    Blinding,       \* the random scalars of a baton
    Producers,      \* the slots whose holders post updates
    Faulty,         \* those of them that may post wrong ones
    UpdateFaults, BatonFaults,
    MaxUpdates, MaxBatons, MaxRounds

Slots == 0..(Cohort.shares_num - 1)

ASSUME CohortAssumption ==
    /\ Cohort.threshold \in 1..Cohort.shares_num
    /\ Len(Cohort.validators) = Cohort.shares_num
    /\ Cohort.validators \in
         Seq([address : {Cohort.validators[i].address : i \in DOMAIN Cohort.validators},
              ek : Fr, share_index : Nat])
    /\ \A i \in DOMAIN Cohort.validators :
         Succeeded(DkgNew(Cohort.validators, Cohort, Cohort.validators[i]))
    /\ Phi \in Seq(Fr) /\ Len(Phi) = Cohort.threshold /\ Phi[1] # Zero
ASSUME MobilityAssumption ==
    /\ \A tail \in Tails : tail \in Seq(Fr) /\ Len(tail) = Cohort.threshold - 1
    /\ Departing \subseteq Slots
    /\ Producers \subseteq Slots /\ Faulty \subseteq Producers
    /\ Incoming \subseteq Fr \ {Zero} /\ Blinding \subseteq Fr \ {Zero}
    /\ UpdateFaults \subseteq {"update", "commitment", "root", "missing", "degree"}
    /\ BatonFaults \subseteq {"scaled"} /\ MaxRounds \in Nat

VARIABLES
    keys,     \* slot -> the present holder's key, known to everyone
    held,     \* slot -> the holder's AggregatedTranscript
    updates,  \* producer -> the update transcript it posted, and how it was made
    batons,   \* the handover transcripts posted
    delta,    \* slot -> the sum of the update polynomials in its share
    rounds,   \* slot -> how often it was refreshed
    spoilt,   \* the slots that took a wrong baton
    opens     \* the groups of `threshold` holders that decrypt together

\* What the code keeps, and what only the properties speak of.
history == <<delta, rounds, spoilt, opens>>
vars == <<keys, held, updates, batons, history>>

\* The context of a holder, made with the present keys.
Members == [i \in DOMAIN Cohort.validators |->
              [Cohort.validators[i] EXCEPT !.ek = keys[Cohort.validators[i].share_index]]]
ContextNow == DkgNew(Members, Cohort, Members[1]).val

\* The point of slot i; polynomials of up to Cohort.threshold + 1 coefficients.
Point(i) == DomainElement(Cohort.shares_num, i)
Still == [k \in 1..(Cohort.threshold + 1) |-> Zero]
Plus(p, q) == [k \in DOMAIN Still |-> Add(Resize(p, Len(Still))[k], Resize(q, Len(Still))[k])]
-----------------------------------------------------------------------------
Groups == {S \in SUBSET Slots : Cardinality(S) = Cohort.threshold}
Sample == Encrypt("m", "aad", Phi[1], One).val

\* The holders of the slots S, with these copies and keys, decrypt together in the
\* simple variant.
OpensSimple(S, copies, dks) ==
    LET share(i) == UpdatableShareSimple(GetShare(copies[i], i).val, dks[i],
                                         Header(Sample), "aad").val
        basket   == Collect([i \in S |->
                       [decryption_share |-> share(i).decryption_share,
                        domain_point     |-> Point(i)]])
    IN  DecryptWithSharedSecret(Sample, "aad", CombineSharesSimple(basket)) = Ok("m")

\* The same in the precomputed variant.
OpensPrecomputed(S, copies, dks) ==
    LET points   == [i \in S |-> Point(i)]
        share(i) == UpdatableSharePrecomputed(GetShare(copies[i], i).val, dks[i],
                                              Header(Sample), "aad", i, points).val
        basket   == Collect([i \in S |-> share(i)])
    IN  DecryptWithSharedSecret(Sample, "aad", ShareCombinePrecomputed(basket)) = Ok("m")

Observe == opens' = {S \in Groups : OpensSimple(S, held', keys')}

Init ==
    /\ keys = [i \in Slots |->
                 Cohort.validators[CHOOSE k \in DOMAIN Cohort.validators :
                                     Cohort.validators[k].share_index = i].ek]
    /\ held = [i \in Slots |-> FromTranscripts(<<PvssNew(Phi, ContextNow).val>>).val]
    /\ updates = <<>> /\ batons = {}
    /\ delta = [i \in Slots |-> Still] /\ rounds = [i \in Slots |-> 0] /\ spoilt = {}
    /\ opens = {S \in Groups : OpensSimple(S, held, keys)}
-----------------------------------------------------------------------------
\* What a faulty producer posts in place of ut, whose polynomial is poly.
SpoilUpdate(how, dkg, poly, ut, victim) ==
    CASE how = "update"     -> [ut EXCEPT !.updates[victim].update = Add(@, One)]
      [] how = "commitment" ->
           [ut EXCEPT !.updates[victim] =
              [update |-> Add(@.update, keys[victim]), commitment |-> Add(@.commitment, One)]]
      [] how = "root"       ->
           PrepareShareUpdates(DomainAndKeyMap(dkg), [poly EXCEPT ![1] = Add(@, One)])
      [] how = "missing"    ->
           [ut EXCEPT !.updates = [i \in DOMAIN @ \ {victim} |-> @[i]]]
      [] how = "degree"     ->
           PrepareShareUpdates(DomainAndKeyMap(dkg), Append(poly, One))

Post(p, ut, sound) ==
    /\ p \notin DOMAIN updates /\ Cardinality(DOMAIN updates) < MaxUpdates
    /\ updates' = [q \in DOMAIN updates \cup {p} |->
                     IF q = p THEN [ut |-> ut, keys |-> keys, sound |-> sound] ELSE updates[q]]
    /\ UNCHANGED <<keys, held, batons, history>>

\* Dkg::generate_refresh_transcript by the holder of slot p.
GenerateUpdate(p, tail) == Post(p, GenerateRefreshTranscript(ContextNow, tail), TRUE)

GenerateWrongUpdate(p, tail, how, victim) ==
    LET dkg == ContextNow
        ut  == GenerateRefreshTranscript(dkg, tail)
    IN  Post(p, SpoilUpdate(how, dkg, PolynomialWithRoot(tail, Zero), ut, victim), FALSE)

\* What refresh would return to the holder of slot i, with the updates it got.
Refreshed(i, batch) == ApiRefresh(held[i], [p \in batch |-> updates[p].ut], keys)

\* AggregatedTranscript::refresh by the holder of slot i.
RefreshShare(i, batch) ==
    LET r     == Refreshed(i, batch)
        total == [k \in DOMAIN Still |->
                    FSum(ValuesOf([p \in batch |-> Resize(updates[p].ut.coeffs, Len(Still))[k]]))]
    IN  /\ rounds[i] < MaxRounds
        /\ Succeeded(r)
        /\ held' = [held EXCEPT ![i] = r.val]
        /\ delta' = [delta EXCEPT ![i] = Plus(@, total)]
        /\ rounds' = [rounds EXCEPT ![i] = @ + 1]
        /\ UNCHANGED <<keys, updates, batons, spoilt>>
        /\ Observe

\* Dkg::generate_handover_transcript by an incoming node with key dj, from the copy of
\* the holder of slot `from`; a faulty node scales two of its parts by a factor.
PostBaton(slot, dj, t, from, factor) ==
    LET h == GenerateHandoverTranscript(ContextNow, held[from], slot, dj, t)
    IN  /\ Cardinality(batons) < MaxBatons
        /\ \A i \in Slots : keys[i] # dj
        /\ Succeeded(h)
        /\ batons' = batons \cup
             {[h |-> [h.val EXCEPT !.double_blind_share = Mul(@, factor),
                                   !.commitment_to_share = Mul(@, factor)],
               sound |-> factor = One]}
        /\ UNCHANGED <<keys, held, updates, history>>

\* What finalize_handover of the baton's slot would return to its present holder.
Finalized(b) == ApiFinalizeHandover(held[b.h.share_index], b.h, keys[b.h.share_index])

\* AggregatedTranscript::finalize_handover by the departing holder, which gives the
\* new aggregate to the incoming node.
Finalize(b) ==
    LET i == b.h.share_index
        r == Finalized(b)
    IN  /\ Succeeded(r)
        /\ keys' = [keys EXCEPT ![i] = b.h.incoming_pubkey]
        /\ held' = [held EXCEPT ![i] = r.val]
        /\ delta' = [delta EXCEPT ![i] = Still]
        /\ spoilt' = IF b.sound THEN spoilt \ {i} ELSE spoilt \cup {i}
        /\ UNCHANGED <<updates, batons, rounds>>
        /\ Observe

\* A call that panics leaves everything as it was.
CallPanics ==
    /\ \/ \E i \in Slots : \E batch \in SUBSET DOMAIN updates : ~ Succeeded(Refreshed(i, batch))
       \/ \E b \in batons : ~ Succeeded(Finalized(b))
    /\ UNCHANGED vars

Next ==
    \/ \E p \in Producers, tail \in Tails : GenerateUpdate(p, tail)
    \/ \E p \in Faulty, tail \in Tails, how \in UpdateFaults :
          \E victim \in Slots \ {p} : GenerateWrongUpdate(p, tail, how, victim)
    \/ \E i \in Slots : \E batch \in (SUBSET DOMAIN updates) \ {{}} : RefreshShare(i, batch)
    \/ \E slot \in Departing, dj \in Incoming, t \in Blinding, from \in Slots :
          \/ PostBaton(slot, dj, t, from, One)
          \/ "scaled" \in BatonFaults /\ PostBaton(slot, dj, t, from, Add(One, One))
    \/ \E b \in batons : Finalize(b)
    \/ CallPanics

Spec == Init /\ [][Next]_vars
-----------------------------------------------------------------------------
\* The share of slot i in an aggregate, unblinded with its holder's key.
PrivateShare(at, i, dk) == Unblind(GetShare(at, i).val, dk).val

\* The share of slot i is one of a generation: no wrong baton was taken, and no
\* update of too high a degree is in it.
Clean(i) == i \notin spoilt /\ delta[i][Cohort.threshold + 1] = Zero

\* Type invariant.
TypeOK ==
    /\ keys \in [Slots -> Fr \ {Zero}]
    /\ held \in [Slots -> AggregatedTranscript]
    /\ \A i \in Slots : Len(held[i].aggregate.shares) = Cohort.shares_num
    /\ delta \in [Slots -> [DOMAIN Still -> Fr]]
    /\ DOMAIN updates \subseteq Slots /\ spoilt \subseteq Departing
    /\ opens \subseteq Groups
    /\ rounds \in [Slots -> 0..MaxRounds]

\* A holder's share is the joint polynomial plus the updates it took, at its point,
\* whatever the order and the number of refreshes, handovers and failed calls, and
\* whatever has become of the other slots of its copy.
OwnShareFollowsUpdates ==
    \A i \in Slots \ spoilt :
        PrivateShare(held[i], i, keys[i]) = Eval(Plus(Phi, delta[i]), Point(i))

\* Refreshes that some holders have taken and others have not: `threshold` shares of
\* which one is of another generation do not decrypt.
MixedGenerationsNeverDecrypt ==
    \A S \in opens : \A i \in S :
        ~ (/\ \A j \in S : Clean(j)
           /\ \A j, k \in S \ {i} : delta[j] = delta[k]
           /\ \E j \in S : Eval(delta[i], Point(i)) # Eval(delta[j], Point(i)))

\* Updates made correctly and for the keys the holders have now never make refresh
\* panic, whoever has left, whatever was applied before and in whichever batch.
SoundUpdatesNeverPanic ==
    \A i \in Slots :
        \A batch \in SUBSET {p \in DOMAIN updates : updates[p].sound /\ updates[p].keys = keys} :
            Succeeded(Refreshed(i, batch))

\* The precomputed variant opens what the simple one does, after any refreshes and
\* handovers.
VariantsAgree == \A S \in Groups : OpensPrecomputed(S, held, keys) <=> S \in opens

\* A baton that finalize_handover accepts installs the committed share under the
\* incoming key, however stale the baton is and whichever copy it was made from.
HandoverInstallsCommittedShare ==
    [][\A i \in Slots :
         keys'[i] # keys[i] /\ i \notin spoilt' =>
            Holds(VerifyValidatorShare(Fft(Phi, Cohort.shares_num),
                                       held'[i].aggregate.shares, i, keys'[i]))]_vars

\* The generation of every slot's share: the updates in it, or none.
Generation == [i \in Slots |-> IF Clean(i) THEN delta[i] ELSE <<>>]

\* The cohort keeps the key: `threshold` holders of one generation open what is
\* encrypted to it, through every interleaving of refreshes and handovers.
Custody == INSTANCE KeyCustody WITH
    Threshold <- Cohort.threshold, Original <- Still, Spoiled <- <<>>,
    custodian <- keys, generation <- Generation
CohortKeepsTheKey == Custody!Spec
-----------------------------------------------------------------------------
(***************************************************************************)
(* What a comment of the repository says and the code does not do.         *)
(***************************************************************************)

\* "the private shares are not changing" (handover test of lib.rs): a handover that
\* finalize_handover accepts leaves the slot's private share as it was.
HandoverKeepsPrivateShare ==
    \A b \in {c \in batons : c.sound /\ Succeeded(Finalized(c))} :
        LET i == b.h.share_index
        IN  PrivateShare(Finalized(b).val, i, b.h.incoming_pubkey)
              = PrivateShare(held[i], i, keys[i])
=============================================================================
