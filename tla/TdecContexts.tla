------------------------------ MODULE TdecContexts ------------------------------
(***************************************************************************)
(* ferveo-tdec/src/context.rs and the factories of its lib.rs: decryption  *)
(* by contexts that a dealer hands out, with no DKG.  A private context is *)
(* [index, b, private_key_share, public]; public holds the public contexts *)
(* [domain, share_commitment, blinded_key_share, ek] by index, from 1.     *)
(***************************************************************************)
EXTENDS Tdec

\* setup_simple with the dealer's polynomial and the blinding factors it draws.  There
\* is a context for every element of the domain, which may be more than shares_num.
SetupSimple(poly, shares_num, factors) ==
    LET evals  == Fft(poly, shares_num)
        public == [k \in DOMAIN evals |->
                     [domain            |-> DomainElement(shares_num, k - 1),
                      share_commitment  |-> evals[k],
                      blinded_key_share |-> Mul(evals[k], factors[k]),
                      ek                |-> factors[k]]]
    IN  [k \in DOMAIN evals |->
            [index |-> k - 1, b |-> factors[k], private_key_share |-> evals[k],
             public |-> public]]

\* PrivateDecryptionContextSimple::create_share.
ContextShare(c, header, aad) == ShareFrom(c.private_key_share, c.b, header, aad, One)

\* A bug that create_share_precomputed could have: it takes the next one's coefficient.
ContextSharePrecomputedOff(c, header, aad, selected) ==
    LET lambda == PrepareCombineSimple([k \in DOMAIN selected |-> c.public[selected[k] + 1].domain])
    IN  IF c.index + 1 \notin DOMAIN lambda THEN Panic("lagrange_coeffs")
        ELSE ShareFrom(c.private_key_share, c.b, header, aad,
                       lambda[((c.index + 1) % Len(lambda)) + 1])

\* create_share_precomputed: the coefficients follow the order of the selection, and
\* the context takes the one at its own index.
ContextSharePrecomputed(c, header, aad, selected) ==
    LET lambda == PrepareCombineSimple([k \in DOMAIN selected |-> c.public[selected[k] + 1].domain])
    IN  IF \E k \in DOMAIN selected : selected[k] + 1 \notin DOMAIN c.public
        THEN Panic("public_decryption_contexts")
        ELSE IF c.index + 1 \notin DOMAIN lambda THEN Panic("lagrange_coeffs")
        ELSE ShareFrom(c.private_key_share, c.b, header, aad, lambda[c.index + 1])

\* create_shared_secret_simple.
CreateSharedSecretSimple(pubs, shares) ==
    ShareCombineSimple(shares, PrepareCombineSimple([k \in DOMAIN pubs |-> pubs[k].domain]))

\* A bug that the batch check could have: it looks at the first share only.
VerifySharesFirst(pubs, ct, shares) ==
    VerifyChecksum(shares[1], pubs[1].blinded_key_share, pubs[1].ek, ct)

\* verify_decryption_shares_simple: share and context by position, up to the shorter
\* of the two lists.
VerifyDecryptionSharesSimple(pubs, ct, shares) ==
    \A k \in DOMAIN shares \cap DOMAIN pubs :
        VerifyChecksum(shares[k], pubs[k].blinded_key_share, pubs[k].ek, ct)
=============================================================================
