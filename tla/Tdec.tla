--------------------------------- MODULE Tdec ---------------------------------
(***************************************************************************)
(* ferveo-tdec: threshold encryption, decryption shares and their          *)
(* combination.                                                            *)
(*                                                                         *)
(* The primitives below the crate (SHA-256, ChaCha20-Poly1305, hashing to  *)
(* G2) are modelled as ideal: a hash is an injective constructor, a sealed *)
(* payload opens only under the key, nonce and aad it was sealed with, and *)
(* a multiple of one hash point is a multiple of no other.                 *)
(***************************************************************************)
EXTENDS Arkworks

\* Ok, Err and a Rust panic (or abort) as the three outcomes of a call.
Ok(v)    == [kind |-> "ok", val |-> v]
Err(e)   == [kind |-> "err", val |-> e]
Panic(e) == [kind |-> "panic", val |-> e]
Succeeded(r) == r.kind = "ok"
-----------------------------------------------------------------------------
\* A bug that lagrange_basis_at could have: the numerator with the wrong sign.
LagrangeBasisSwapped(xs, x) ==
    [j \in DOMAIN xs |->
        FProd([m \in DOMAIN xs |->
            IF xs[j] # xs[m] THEN Div(Sub(x, xs[m]), Sub(xs[m], xs[j])) ELSE One])]

\* lagrange_basis_at: a factor is skipped by comparing the points' values, not
\* their positions, so two equal points do not divide by zero.
LagrangeBasisAt(xs, x) ==
    [j \in DOMAIN xs |->
        FProd([m \in DOMAIN xs |->
            IF xs[j] # xs[m] THEN Div(Sub(xs[m], x), Sub(xs[m], xs[j])) ELSE One])]

PrepareCombineSimple(xs) == LagrangeBasisAt(xs, Zero)
-----------------------------------------------------------------------------
\* SHA-256 of a payload, and the point construct_tag_hash hashes to.
Sha256(payload) == [sha256 |-> payload]
TagHash(commitment, digest, aad) ==
    [commitment |-> commitment, digest |-> digest, aad |-> aad]

\* ChaCha20-Poly1305 with the key derived from the shared secret and the nonce
\* derived from the commitment.
Seal(secret, commitment, msg, aad) ==
    [key |-> secret, nonce |-> commitment, aad |-> aad, msg |-> msg, intact |-> TRUE]
Open(payload, secret, commitment, aad) ==
    IF payload = Seal(secret, commitment, payload.msg, aad)
    THEN Ok(payload.msg)
    ELSE Err("CiphertextVerificationFailed")

\* encrypt with the random element r; auth_tag is r times the tag's hash point.
Encrypt(msg, aad, pubkey, r) ==
    LET payload == Seal(Mul(pubkey, r), r, msg, aad)
    IN  IF pubkey = Zero THEN Err("IdentityDkgPublicKey")
        ELSE Ok([commitment |-> r,
                 auth_tag   |-> [scalar |-> r, point |-> TagHash(r, Sha256(payload), aad)],
                 payload    |-> payload])

Header(ct) ==
    [commitment |-> ct.commitment, auth_tag |-> ct.auth_tag, digest |-> Sha256(ct.payload)]

\* e(U, H(U, digest, aad)) = e(G, W).
TagMatches(header, aad) ==
    /\ header.auth_tag.scalar = header.commitment
    /\ \/ header.commitment = Zero
       \/ header.auth_tag.point = TagHash(header.commitment, header.digest, aad)

\* A bug that check could have: an identity U and W satisfy the equation.
CheckTagOnly(header, aad) ==
    IF TagMatches(header, aad) THEN Ok(TRUE) ELSE Err("CiphertextVerificationFailed")

\* CiphertextHeader::check.
CheckHeader(header, aad) ==
    IF header.commitment = Zero \/ header.auth_tag.scalar = Zero
    THEN Err("CiphertextVerificationFailed")
    ELSE IF TagMatches(header, aad) THEN Ok(TRUE)
    ELSE Err("CiphertextVerificationFailed")

\* A bug that decrypt_with_shared_secret could have: the check left out.
DecryptUnchecked(ct, aad, secret) == Open(ct.payload, secret, ct.commitment, aad)

DecryptWithSharedSecret(ct, aad, secret) ==
    LET checked == CheckHeader(Header(ct), aad)
    IN  IF Succeeded(checked) THEN Open(ct.payload, secret, ct.commitment, aad) ELSE checked

\* A bug that decrypt_symmetric could have: it goes straight to the unchecked decryption.
DecryptSymmetricUnchecked(ct, aad, key) ==
    DecryptUnchecked(ct, aad, Pairing(ct.commitment, key))

\* decrypt_symmetric with the private key itself.
DecryptSymmetric(ct, aad, key) ==
    DecryptWithSharedSecret(ct, aad, Pairing(ct.commitment, key))
-----------------------------------------------------------------------------
\* BlindedKeyShare::unblind with decryption key dk.
Unblind(y, dk) ==
    IF dk = Zero THEN Err("InvalidValidatorDecryptionKey") ELSE Ok(Mul(y, Inv(dk)))

\* A bug that ValidatorShareChecksum::new could have: dk instead of its inverse.
ShareChecksumNoInverse(dk, commitment) ==
    IF dk = Zero THEN Err("InvalidValidatorDecryptionKey") ELSE Ok(Mul(commitment, dk))

\* ValidatorShareChecksum::new.
ShareChecksum(dk, commitment) ==
    IF dk = Zero THEN Err("InvalidValidatorDecryptionKey") ELSE Ok(Mul(commitment, Inv(dk)))

\* DecryptionShareSimple::create and DecryptionSharePrecomputed::create from the private
\* key share z; the simple variant does without the Lagrange coefficient (One).
ShareFrom(z, dk, header, aad, coeff) ==
    LET checked  == CheckHeader(header, aad)
        checksum == ShareChecksum(dk, header.commitment)
    IN  IF ~ Succeeded(checked) THEN checked
        ELSE IF ~ Succeeded(checksum) THEN checksum
        ELSE Ok([decryption_share |-> Pairing(Mul(header.commitment, coeff), z),
                 checksum         |-> checksum.val])

\* BlindedKeyShare::create_decryption_share_*, over the blinded share y.
CreateShare(y, dk, header, aad, coeff) ==
    LET z == Unblind(y, dk)
    IN  IF Succeeded(z) THEN ShareFrom(z.val, dk, header, aad, coeff) ELSE z

\* A bug that ValidatorShareChecksum::verify could have: the checksum is not bound
\* to the validator's key.
VerifyChecksumUnbound(share, y, ek, ct) ==
    share.decryption_share = Pairing(share.checksum, y)

\* ValidatorShareChecksum::verify: D = e(C, Y) and e(C, ek) = e(U, H).
VerifyChecksum(share, y, ek, ct) ==
    /\ share.decryption_share = Pairing(share.checksum, y)
    /\ Pairing(share.checksum, ek) = Pairing(ct.commitment, One)

\* share_combine_simple; izip stops at the shorter of its arguments.
ShareCombineSimple(shares, coeffs) ==
    FSum([i \in DOMAIN shares \cap DOMAIN coeffs |->
            Mul(shares[i].decryption_share, coeffs[i])])

ShareCombinePrecomputed(shares) ==
    FSum([i \in DOMAIN shares |-> shares[i].decryption_share])
=============================================================================
