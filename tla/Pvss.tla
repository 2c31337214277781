--------------------------------- MODULE Pvss ---------------------------------
(***************************************************************************)
(* ferveo/src/pvss.rs and validator.rs: dealing, verifying and aggregating *)
(* PVSS transcripts, and AggregatedTranscript::verify of api.rs.           *)
(*                                                                         *)
(* A transcript is [coeffs, shares, sigma]: the Feldman commitments, the   *)
(* blinded shares by share index, and the proof of knowledge.  A validator *)
(* is [address, ek, share_index]; ek is the discrete logarithm of its      *)
(* encryption key, which is its decryption key (Keypair::public_key).      *)
(***************************************************************************)
EXTENDS Tdec, FiniteSets, FiniteSetsExt

Transcript == [coeffs : Seq(Fr), shares : Seq(Fr), sigma : Fr]

\* PubliclyVerifiableSS<E, Aggregated> with the public key that travels beside it.
AggregatedTranscript == [aggregate : Transcript, public_key : Fr]

\* The outcome is Ok(true).
Holds(r) == Succeeded(r) /\ r.val

\* A loop that leaves at its first turn whose outcome is not Ok(true).
FirstFailure(turns) ==
    LET bad == {i \in DOMAIN turns : ~ Holds(turns[i])}
    IN  IF bad = {} THEN Ok(TRUE) ELSE turns[Min(bad)]
-----------------------------------------------------------------------------
AssertNoShareDuplicates(vs) ==
    FirstFailure([i \in DOMAIN vs |->
        IF \E j \in 1..(i - 1) : vs[j].share_index = vs[i].share_index
        THEN Err(<<"DuplicatedShareIndex", vs[i].share_index>>)
        ELSE Ok(TRUE)])

\* BTreeMap::values: the entries in ascending order of their keys.
NthKey(m, i) ==
    CHOOSE k \in DOMAIN m : Cardinality({l \in DOMAIN m : l < k}) = i - 1
ValuesOf(m) == [i \in 1..Cardinality(DOMAIN m) |-> m[NthKey(m, i)]]

\* PubliclyVerifiableDkg::domain_points: as many points as there are validators.
DomainPoints(dkg) ==
    [i \in 1..Cardinality(DOMAIN dkg.validators) |-> DomainElement(dkg.domain, i - 1)]

\* A bug that PubliclyVerifiableSS::new could have: the shares are evaluated on a
\* polynomial of one degree less than the commitments.
PvssNewShort(phi, dkg) ==
    LET short == SubSeq(phi, 1, Len(phi) - 1)
        vs    == ValuesOf(dkg.validators)
    IN  Ok([coeffs |-> phi,
            shares |-> [i \in DOMAIN vs |->
                          Mul(Eval(short, DomainElement(dkg.domain, i - 1)), vs[i].ek)],
            sigma  |-> phi[1]])

\* PubliclyVerifiableSS::new with the secret polynomial phi; phi[1] is s.
\* `security_threshold - 1` wraps on zero and the allocation aborts.
PvssNew(phi, dkg) ==
    LET points == DomainPoints(dkg)
        evals  == [i \in DOMAIN points |-> Eval(phi, points[i])]
        vs     == ValuesOf(dkg.validators)
    IN  IF dkg.threshold = 0
        THEN Panic("threshold underflow")
        ELSE IF \E i \in DOMAIN vs : vs[i].share_index + 1 \notin DOMAIN evals
        THEN Panic("evals index")
        ELSE Ok([coeffs |-> phi,
                 shares |-> [i \in DOMAIN vs |->
                               Mul(evals[vs[i].share_index + 1], vs[i].ek)],
                 sigma  |-> phi[1]])
-----------------------------------------------------------------------------
\* A bug that verify_optimistic could have: the last coefficient is compared.
VerifyOptimisticLast(pvss) ==
    LET n == Len(pvss.coeffs)
    IN  n > 0 /\ pvss.coeffs[n] # Zero /\ Pairing(pvss.coeffs[n], One) = Pairing(One, pvss.sigma)

\* verify_optimistic: e(F_0, H) = e(G, sigma) for a constant term that is there
\* and is not the identity.
VerifyOptimistic(pvss) ==
    /\ pvss.coeffs # <<>>
    /\ pvss.coeffs[1] # Zero
    /\ Pairing(pvss.coeffs[1], One) = Pairing(One, pvss.sigma)

\* e(G, Y_i) = e(A_i, ek_i) for the slot share_index.
VerifyValidatorShare(commitments, shares, share_index, ek) ==
    IF share_index + 1 \notin DOMAIN shares \cap DOMAIN commitments
    THEN Err(<<"InvalidShareIndex", share_index>>)
    ELSE Ok(Pairing(One, shares[share_index + 1])
              = Pairing(commitments[share_index + 1], ek))

\* The number of coefficients up to the last one that is not the identity.
DegreePinningLen(coeffs) ==
    LET nonzero == {i \in DOMAIN coeffs : coeffs[i] # Zero}
    IN  IF nonzero = {} THEN 0 ELSE Max(nonzero)

\* One turn of the per-validator loop of do_verify_full.
VerifySlot(commitments, shares, v) ==
    IF v.ek = Zero
    THEN Err(<<"IdentityValidatorEncryptionKey", v.address>>)
    ELSE VerifyValidatorShare(commitments, shares, v.share_index, v.ek)

\* Bugs that do_verify_full could have: only too few coefficients are refused;
\* padded ones are not counted out; only the first validator's share is checked.
SlotsFrom(coeffs, shares, validators, n) ==
    FirstFailure([i \in DOMAIN validators |->
                    VerifySlot(Fft(coeffs, n), shares, validators[i])])
DoVerifyFullLowerBound(coeffs, shares, validators, n, t) ==
    IF DegreePinningLen(coeffs) < t THEN Err(<<"InvalidTranscriptDegree", t>>)
    ELSE SlotsFrom(coeffs, shares, validators, n)
DoVerifyFullPadded(coeffs, shares, validators, n, t) ==
    IF Len(coeffs) # t THEN Err(<<"InvalidTranscriptDegree", t>>)
    ELSE SlotsFrom(coeffs, shares, validators, n)
DoVerifyFullFirst(coeffs, shares, validators, n, t) ==
    IF DegreePinningLen(coeffs) # t THEN Err(<<"InvalidTranscriptDegree", t>>)
    ELSE VerifySlot(Fft(coeffs, n), shares, validators[1])

\* do_verify_full over the domain new(n).
DoVerifyFull(coeffs, shares, validators, n, t) ==
    LET unique      == AssertNoShareDuplicates(validators)
        commitments == Fft(coeffs, n)
    IN  IF ~ Succeeded(unique) THEN unique
        ELSE IF Len(coeffs) # t \/ DegreePinningLen(coeffs) # t
        THEN Err(<<"InvalidTranscriptDegree", t>>)
        ELSE IF coeffs = <<>> \/ coeffs[1] = Zero \/ validators = <<>>
        THEN Ok(FALSE)
        ELSE FirstFailure([i \in DOMAIN validators |->
                             VerifySlot(commitments, shares, validators[i])])

\* PubliclyVerifiableSS::verify_full against a DKG context.
VerifyFull(pvss, dkg) ==
    DoVerifyFull(pvss.coeffs, pvss.shares, ValuesOf(dkg.validators),
                 dkg.domain, dkg.threshold)

\* A bug that the fold could have: the dealt transcripts' proofs are not checked.
VerifyDealtUnproved(pvss) ==
    IF pvss.coeffs = <<>> THEN Err(<<"EmptyTranscript">>) ELSE Ok(TRUE)

\* One turn of the fold of do_verify_aggregation over the dealt transcripts.
VerifyDealt(pvss) ==
    IF pvss.coeffs = <<>> THEN Err(<<"EmptyTranscript">>)
    ELSE IF ~ VerifyOptimistic(pvss) THEN Err(<<"InvalidTranscriptAggregate">>)
    ELSE Ok(TRUE)

\* A bug that do_verify_aggregation could have: the sum is not compared.
DoVerifyAggregationNoSum(agg, validators, n, pvss, t) ==
    LET full == DoVerifyFull(agg.coeffs, agg.shares, validators, n, t)
    IN  IF ~ Succeeded(full) THEN full
        ELSE FirstFailure([i \in DOMAIN pvss |-> VerifyDealt(pvss[i])])

DoVerifyAggregation(agg, validators, n, pvss, t) ==
    LET full  == DoVerifyFull(agg.coeffs, agg.shares, validators, n, t)
        dealt == FirstFailure([i \in DOMAIN pvss |-> VerifyDealt(pvss[i])])
    IN  IF pvss = <<>> THEN Err(<<"NoTranscriptsToVerify">>)
        ELSE IF ~ Succeeded(full) THEN full
        ELSE IF ~ full.val THEN Err(<<"InvalidTranscriptAggregate">>)
        ELSE IF ~ Succeeded(dealt) THEN dealt
        ELSE IF agg.coeffs = <<>> THEN Err(<<"EmptyTranscript">>)
        ELSE IF FSum([i \in DOMAIN pvss |-> pvss[i].coeffs[1]]) = agg.coeffs[1]
        THEN Ok(TRUE)
        ELSE Err(<<"InvalidTranscriptAggregate">>)
\* PubliclyVerifiableSS::verify_aggregation: the context's validators, every one.
VerifyAggregation(agg, dkg, pvss) ==
    DoVerifyAggregation(agg, ValuesOf(dkg.validators), dkg.domain, pvss, dkg.threshold)
-----------------------------------------------------------------------------
SameShape(a, b) == Len(a.coeffs) = Len(b.coeffs) /\ Len(a.shares) = Len(b.shares)

\* A bug that aggregate could have: the numbers of shares are not compared.
MatchCoefficientsOnly(first, next) ==
    IF Len(next.coeffs) # Len(first.coeffs)
    THEN Err(<<"MismatchedTranscriptLengths", "coefficients">>)
    ELSE Ok(TRUE)

\* The two length checks at the top of aggregate's loop.
MatchLengths(first, next) ==
    IF Len(next.coeffs) # Len(first.coeffs)
    THEN Err(<<"MismatchedTranscriptLengths", "coefficients">>)
    ELSE IF Len(next.shares) # Len(first.shares)
    THEN Err(<<"MismatchedTranscriptLengths", "shares">>)
    ELSE Ok(TRUE)

\* A bug that aggregate could have: sigma is overwritten and not added to.
AggregateLastSigma(ts) ==
    IF ts = <<>> \/ \E i \in DOMAIN ts : ~ SameShape(ts[1], ts[i])
    THEN Err(<<"NoTranscriptsToAggregate">>)
    ELSE Ok([coeffs |-> [k \in DOMAIN ts[1].coeffs |->
                           FSum([i \in DOMAIN ts |-> ts[i].coeffs[k]])],
             shares |-> [k \in DOMAIN ts[1].shares |->
                           FSum([i \in DOMAIN ts |-> ts[i].shares[k]])],
             sigma  |-> ts[Len(ts)].sigma])

\* aggregate: component-wise sums; zip_eq panics on unequal lengths.
Aggregate(ts) ==
    LET shapes == FirstFailure([i \in DOMAIN ts |-> MatchLengths(ts[1], ts[i])])
    IN  IF ts = <<>> THEN Err(<<"NoTranscriptsToAggregate">>)
        ELSE IF ~ Succeeded(shapes) THEN shapes
        ELSE IF \E i \in DOMAIN ts : ~ SameShape(ts[1], ts[i])
        THEN Panic("zip_eq")
        ELSE Ok([coeffs |-> [k \in DOMAIN ts[1].coeffs |->
                               FSum([i \in DOMAIN ts |-> ts[i].coeffs[k]])],
                 shares |-> [k \in DOMAIN ts[1].shares |->
                               FSum([i \in DOMAIN ts |-> ts[i].shares[k]])],
                 sigma  |-> FSum([i \in DOMAIN ts |-> ts[i].sigma])])

FromAggregate(agg) ==
    IF agg.coeffs = <<>> THEN Err(<<"EmptyTranscript">>)
    ELSE Ok([aggregate |-> agg, public_key |-> agg.coeffs[1]])

FromTranscripts(ts) ==
    LET agg == Aggregate(ts)
    IN  IF Succeeded(agg) THEN FromAggregate(agg.val) ELSE agg
-----------------------------------------------------------------------------
\* A ValidatorMessage is [sender, transcript].
Senders(ms)     == [i \in DOMAIN ms |-> ms[i].sender]
Transcripts(ms) == [i \in DOMAIN ms |-> ms[i].transcript]

\* Bugs that AggregatedTranscript::verify could have: the domain is made for the
\* messages and not for the validators; the public key is not compared.
VerifyMessagesDomain(at, validators_num, t, ms) ==
    IF ms = <<>> \/ validators_num < Len(ms) THEN Err(<<"NoTranscriptsToVerify">>)
    ELSE DoVerifyAggregation(at.aggregate, Senders(ms), Len(ms), Transcripts(ms), t)
VerifyUnboundKey(at, validators_num, t, ms) ==
    IF ms = <<>> \/ validators_num < Len(ms) THEN Err(<<"NoTranscriptsToVerify">>)
    ELSE IF ~ VerifyOptimistic(at.aggregate) THEN Err(<<"InvalidTranscriptAggregate">>)
    ELSE DoVerifyAggregation(at.aggregate, Senders(ms), validators_num, Transcripts(ms), t)

\* AggregatedTranscript::verify of api.rs.  It takes no DKG context: the slots
\* checked, and the keys they are checked with, are those of the messages.
Verify(at, validators_num, t, ms) ==
    IF ms = <<>> THEN Err(<<"NoTranscriptsToVerify">>)
    ELSE IF validators_num < Len(ms)
    THEN Err(<<"InvalidAggregateVerificationParameters", validators_num>>)
    ELSE IF validators_num > MaxDomain THEN Panic("domain")
    ELSE IF ~ VerifyOptimistic(at.aggregate)
    THEN Err(<<"InvalidTranscriptAggregate">>)
    ELSE IF at.public_key # at.aggregate.coeffs[1]
    THEN Err(<<"InvalidAggregatePublicKey">>)
    ELSE DoVerifyAggregation(at.aggregate, Senders(ms), validators_num,
                             Transcripts(ms), t)
=============================================================================
