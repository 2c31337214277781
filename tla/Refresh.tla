-------------------------------- MODULE Refresh --------------------------------
(***************************************************************************)
(* ferveo/src/refresh.rs, and what dkg.rs, pvss.rs and api.rs build on it: *)
(* share refresh and handover (feature experimental-refresh).              *)
(*                                                                         *)
(* An update transcript is [coeffs, updates]: the Feldman commitments to   *)
(* the update polynomial and, by share index, [update, commitment].  Most  *)
(* validation failures here are unwraps and asserts: a panic, not an       *)
(* error.                                                                  *)
(***************************************************************************)
EXTENDS DecryptionShares

Unwrap(r) == IF Succeeded(r) THEN r ELSE Panic(r.val)

\* ShareUpdate::verify: e(G, update) = e(commitment, ek).
VerifyUpdate(u, ek) ==
    IF Pairing(One, u.update) = Pairing(u.commitment, ek)
    THEN Ok(TRUE) ELSE Err(<<"InvalidShareUpdate">>)
-----------------------------------------------------------------------------
\* make_random_polynomial_with_root with the random coefficients tail above the
\* free term, which is chosen so that the polynomial vanishes at root.
PolynomialWithRoot(tail, root) ==
    LET p == <<Zero>> \o tail IN [p EXCEPT ![1] = Sub(Zero, Eval(p, root))]

\* prepare_share_updates_with_root: the polynomial at every participant's point,
\* blinded with its key.
PrepareShareUpdates(points_keys, poly) ==
    LET eval(i) == Eval(poly, points_keys[i].point)
    IN  [coeffs  |-> poly,
         updates |-> [i \in DOMAIN points_keys |->
                        [update     |-> Mul(points_keys[i].ek, eval(i)),
                         commitment |-> eval(i)]]]

\* A bug that domain_and_key_map could have: a validator gets its neighbour's point.
DomainAndKeyMapShifted(dkg) ==
    [i \in DOMAIN dkg.validators |->
        [point |-> DomainPoints(dkg)[((i + 1) % Len(DomainPoints(dkg))) + 1],
         ek    |-> dkg.validators[i].ek]]

\* domain_point_map and domain_and_key_map.
DomainAndKeyMap(dkg) ==
    [i \in DOMAIN dkg.validators |->
        [point |-> DomainPoints(dkg)[i + 1], ek |-> dkg.validators[i].ek]]

\* generate_refresh_transcript: create_refresh_updates with root zero; the tail has
\* security_threshold - 1 coefficients.
GenerateRefreshTranscript(dkg, tail) ==
    PrepareShareUpdates(DomainAndKeyMap(dkg), PolynomialWithRoot(tail, Zero))
-----------------------------------------------------------------------------
\* One turn of the loop of verify_recovery.
VerifyUpdateAt(ut, keys, commitments, i) ==
    IF i \notin DOMAIN keys THEN Panic("validator_public_keys.get")
    ELSE IF ~ Succeeded(VerifyUpdate(ut.updates[i], keys[i])) THEN Panic("update.verify")
    ELSE IF i + 1 \notin DOMAIN commitments THEN Err(<<"InvalidShareIndex", i>>)
    ELSE IF commitments[i + 1] # ut.updates[i].commitment THEN Panic("assert_eq")
    ELSE Ok(TRUE)

\* A bug that verify_recovery could have: the root is not looked at.
VerifyRecoveryAnyRoot(ut, keys, n, root) ==
    FirstFailure(ValuesOf([i \in DOMAIN ut.updates |->
        VerifyUpdateAt(ut, keys, Fft(ut.coeffs, n), i)]))

\* verify_recovery over the domain new(n).  The loop runs over a HashMap: the
\* failure it meets first is any one of them, and refresh unwraps it all the same.
\* At root zero the sum of the assertion is the first coefficient.
VerifyRecovery(ut, keys, n, root) ==
    LET commitments == Fft(ut.coeffs, n)
        checked == FirstFailure(ValuesOf([i \in DOMAIN ut.updates |->
                       VerifyUpdateAt(ut, keys, commitments, i)]))
    IN  IF ~ Succeeded(checked) THEN checked
        ELSE IF ut.coeffs = <<>> THEN Panic("coeffs")
        ELSE IF Eval(ut.coeffs, root) # Zero THEN Panic("root")
        ELSE Ok(TRUE)

VerifyRefresh(ut, keys, n) == VerifyRecovery(ut, keys, n, Zero)

\* A bug that apply_share_updates could have: one transcript of several is applied.
ApplyFirstUpdate(y, ek, uts, i) ==
    LET first == {p \in DOMAIN uts : \A q \in DOMAIN uts : p <= q}
    IN  IF \E p \in first : i \notin DOMAIN uts[p].updates THEN Panic("updates.get")
        ELSE Ok(Add(y, FSum(ValuesOf([p \in first |-> uts[p].updates[i].update]))))

\* A bug that apply_share_updates could have: the updated share is not kept.
ApplyNothing(y, ek, uts, i) == Ok(y)

\* UpdatableBlindedKeyShare::apply_share_updates to the blinded share y of slot i;
\* uts holds the update transcripts by producer.
ApplyShareUpdates(y, ek, uts, i) ==
    IF \E p \in DOMAIN uts : i \notin DOMAIN uts[p].updates
    THEN Panic("updates.get")
    ELSE IF \E p \in DOMAIN uts : ~ Succeeded(VerifyUpdate(uts[p].updates[i], ek))
    THEN Panic("update.verify")
    ELSE Ok(Add(y, FSum(ValuesOf([p \in DOMAIN uts |-> uts[p].updates[i].update]))))

\* A bug that refresh could have: a slot without an update is left out.
RefreshSubset(agg, uts, keys) ==
    LET updated == {i \in DOMAIN keys : \A p \in DOMAIN uts : i \in DOMAIN uts[p].updates}
        share(i) == ApplyShareUpdates(agg.shares[i + 1], keys[i], uts, i)
    IN  IF \E i \in updated : ~ Succeeded(share(i)) THEN Panic("apply_share_updates")
        ELSE Ok([agg EXCEPT !.shares = Collect([i \in updated |-> share(i).val])])

\* PubliclyVerifiableSS::refresh: the commitments and the proof stay as they are.
RefreshAggregate(agg, uts, keys) ==
    LET updated == [i \in DOMAIN keys |->
                      IF i + 1 \in DOMAIN agg.shares
                      THEN ApplyShareUpdates(agg.shares[i + 1], keys[i], uts, i)
                      ELSE Panic("get_share_for_index_and_pubkey")]
        shares  == Collect([i \in DOMAIN keys |-> updated[i].val])
    IN  IF \E p \in DOMAIN uts : ~ Succeeded(VerifyRefresh(uts[p], keys, Len(agg.shares)))
        THEN Panic("verify_refresh")
        ELSE IF \E i \in DOMAIN keys : ~ Succeeded(updated[i])
        THEN Panic("apply_share_updates")
        ELSE Ok([agg EXCEPT !.shares = shares])

\* The unwraps of AggregatedTranscript::refresh and finalize_handover of api.rs
\* around the new aggregate.
Rewrap(agg) == IF Succeeded(agg) THEN Unwrap(FromAggregate(agg.val)) ELSE Panic(agg.val)

\* AggregatedTranscript::refresh of api.rs.
ApiRefresh(at, uts, keys) == Rewrap(RefreshAggregate(at.aggregate, uts, keys))
-----------------------------------------------------------------------------
\* HandoverTranscript::new with the random scalar t and the incoming key dj.
HandoverTranscript(share_index, y, outgoing, dj, t) ==
    [share_index         |-> share_index,
     double_blind_share  |-> Mul(y, dj),
     commitment_to_share |-> Mul(outgoing, Mul(dj, t)),
     commitment_to_g1    |-> t,
     commitment_to_g2    |-> t,
     incoming_pubkey     |-> dj,
     outgoing_pubkey     |-> outgoing]

\* generate_handover_transcript.
GenerateHandoverTranscript(dkg, at, slot, dj, t) ==
    LET y == GetShare(at, slot)
    IN  IF slot \notin DOMAIN dkg.validators THEN Err(<<"InvalidShareIndex", slot>>)
        ELSE IF ~ Succeeded(y) THEN y
        ELSE Ok(HandoverTranscript(slot, y.val, dkg.validators[slot].ek, dj, t))

\* A bug that validate could have: only the two commitments to t are compared.
ValidateScalarOnly(h, share_commitment) ==
    IF h.commitment_to_g1 = h.commitment_to_g2 THEN Ok(TRUE) ELSE Err(<<"InvalidShareUpdate">>)

\* HandoverTranscript::validate, two products of pairings against one.
ValidateHandover(h, share_commitment) ==
    IF /\ Zero = Add(Pairing(Neg(h.commitment_to_g1), h.double_blind_share),
                     Pairing(share_commitment, h.commitment_to_share))
       /\ Zero = Add(Pairing(Neg(h.commitment_to_g1), One), Pairing(One, h.commitment_to_g2))
    THEN Ok(TRUE)
    ELSE Err(<<"InvalidShareUpdate">>)

\* HandoverTranscript::finalize with the departing validator's key.
FinalizeShare(h, dk, share_commitment) ==
    IF ~ Succeeded(ValidateHandover(h, share_commitment)) THEN Panic("validate")
    ELSE IF dk = Zero THEN Panic("inverse")
    ELSE Ok(Mul(h.double_blind_share, Inv(dk)))

\* PubliclyVerifiableSS::finalize_handover.  Of verify_validator_share only an error
\* counts: its Boolean is dropped.
FinalizeHandover(agg, h, dk) ==
    LET commitments == Fft(agg.coeffs, Len(agg.shares))
        slot        == h.share_index + 1
        share       == FinalizeShare(h, dk, commitments[slot])
        shares      == [agg.shares EXCEPT ![slot] = share.val]
        verified    == VerifyValidatorShare(commitments, shares, h.share_index, h.incoming_pubkey)
    IN  IF slot \notin DOMAIN agg.shares THEN Err(<<"InvalidShareIndex", h.share_index>>)
        ELSE IF h.outgoing_pubkey # dk THEN Err(<<"ValidatorPublicKeyMismatch">>)
        ELSE IF ~ Succeeded(share) THEN Panic("finalize")
        ELSE IF ~ Succeeded(verified) THEN verified
        ELSE Ok([agg EXCEPT !.shares = shares])

\* AggregatedTranscript::finalize_handover of api.rs.
ApiFinalizeHandover(at, h, dk) == Rewrap(FinalizeHandover(at.aggregate, h, dk))
-----------------------------------------------------------------------------
\* UpdatableBlindedKeyShare::create_decryption_share_simple: errors are unwrapped.
UpdatableShareSimple(y, dk, header, aad) == Unwrap(CreateShare(y, dk, header, aad, One))

\* UpdatableBlindedKeyShare::create_decryption_share_precomputed: only a failure to
\* unblind is unwrapped.
UpdatableSharePrecomputed(y, dk, header, aad, share_index, points) ==
    IF share_index \notin DOMAIN points THEN Err(<<"InvalidShareIndex", share_index>>)
    ELSE IF ~ Succeeded(Unblind(y, dk)) THEN Panic("unblind")
    ELSE CreateShare(y, dk, header, aad, SelectedCoefficient(points, share_index))
=============================================================================
