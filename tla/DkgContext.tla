------------------------------ MODULE DkgContext ------------------------------
(***************************************************************************)
(* ferveo/src/dkg.rs: the DKG context, PubliclyVerifiableDkg.  A context   *)
(* is [threshold, shares_num, validators, domain, me]: the parameters, the *)
(* validators by share index, the size its evaluation domain was asked     *)
(* for, and the validator it was made for.                                 *)
(***************************************************************************)
EXTENDS Pvss

Validate(params) ==
    IF \/ params.shares_num < params.threshold
       \/ params.shares_num = 0
       \/ params.threshold = 0
    THEN Err(<<"InvalidDkgParameters", params.shares_num, params.threshold>>)
    ELSE Ok(TRUE)

\* A bug that the loop could have: an index one past the end is admitted.
AdmitOnePastEnd(v, n) ==
    IF v.share_index > n THEN Err(<<"InvalidShareIndex", v.share_index>>)
    ELSE IF v.ek = Zero THEN Err(<<"IdentityValidatorEncryptionKey", v.address>>)
    ELSE Ok(TRUE)

\* One turn of the loop of PubliclyVerifiableDkg::new over its validators.
Admit(v, n) ==
    IF v.share_index >= n THEN Err(<<"InvalidShareIndex", v.share_index>>)
    ELSE IF v.ek = Zero THEN Err(<<"IdentityValidatorEncryptionKey", v.address>>)
    ELSE Ok(TRUE)

\* collect() into a BTreeMap by share index: the last entry for a key stays.
ByIndex(vs) ==
    [k \in {vs[i].share_index : i \in DOMAIN vs} |->
        vs[Max({i \in DOMAIN vs : vs[i].share_index = k})]]

\* A bug that PubliclyVerifiableDkg::new could have: the dealer's key is not compared.
DkgNewAnyKey(vs, params, me) ==
    LET checked == FirstFailure(<<Validate(params), AssertNoShareDuplicates(vs),
                                  FirstFailure([i \in DOMAIN vs |-> Admit(vs[i], Len(vs))])>>)
        map     == ByIndex(vs)
    IN  IF ~ Succeeded(checked) THEN checked
        ELSE IF me.share_index \notin DOMAIN map
        THEN Err(<<"DealerNotInValidatorSet", me.address>>)
        ELSE Ok([threshold |-> params.threshold, shares_num |-> params.shares_num,
                 validators |-> map, domain |-> Len(vs), me |-> me])

\* Dkg::new: DkgParams::new and PubliclyVerifiableDkg::new.
DkgNew(vs, params, me) ==
    LET valid    == Validate(params)
        unique   == AssertNoShareDuplicates(vs)
        admitted == FirstFailure([i \in DOMAIN vs |-> Admit(vs[i], Len(vs))])
        map      == ByIndex(vs)
    IN  IF ~ Succeeded(valid) THEN valid
        ELSE IF ~ Succeeded(unique) THEN unique
        ELSE IF ~ Succeeded(admitted) THEN admitted
        ELSE IF Len(vs) > MaxDomain THEN Panic("domain")
        ELSE IF me.share_index \notin DOMAIN map
        THEN Err(<<"DealerNotInValidatorSet", me.address>>)
        ELSE IF map[me.share_index].ek # me.ek
        THEN Err(<<"ValidatorPublicKeyMismatch">>)
        ELSE Ok([threshold |-> params.threshold, shares_num |-> params.shares_num,
                 validators |-> map, domain |-> Len(vs), me |-> me])

\* A bug that get_domain_point could have: the index itself as the point.
IndexAsPoint(dkg, share_index) == Ok(share_index)

GetDomainPoint(dkg, share_index) ==
    IF share_index + 1 \in DOMAIN DomainPoints(dkg)
    THEN Ok(DomainPoints(dkg)[share_index + 1])
    ELSE Err(<<"InvalidShareIndex", share_index>>)
-----------------------------------------------------------------------------
\* A bug that verify_transcripts could have: a dealer may come twice.
VerifyMessageRepeated(dkg, ms, i) ==
    IF ms[i].sender.share_index \notin DOMAIN dkg.validators
    THEN Err(<<"UnknownDealer", ms[i].sender.address>>)
    ELSE IF ~ VerifyOptimistic(ms[i].transcript)
    THEN Err(<<"InvalidPvssTranscript", ms[i].sender.address>>)
    ELSE Ok(TRUE)

\* One turn of the loop of verify_transcripts.
VerifyMessage(dkg, ms, i) ==
    LET m == ms[i]
    IN  IF m.sender.share_index \notin DOMAIN dkg.validators
        THEN Err(<<"UnknownDealer", m.sender.address>>)
        ELSE IF \E j \in 1..(i - 1) : ms[j].sender.address = m.sender.address
        THEN Err(<<"DuplicateDealer", m.sender.address>>)
        ELSE IF \E j \in 1..(i - 1) : ms[j].transcript = m.transcript
        THEN Err(<<"DuplicateTranscript", m.sender.address>>)
        ELSE IF ~ VerifyOptimistic(m.transcript)
        THEN Err(<<"InvalidPvssTranscript", m.sender.address>>)
        ELSE Ok(TRUE)

\* verify_transcripts: no entry repeats an address or a transcript once the
\* loop is through, so both sets have as many elements as there are messages.
VerifyTranscripts(dkg, ms) ==
    LET checked == FirstFailure([i \in DOMAIN ms |-> VerifyMessage(dkg, ms, i)])
    IN  IF ~ Succeeded(checked) THEN checked
        ELSE IF Len(ms) > Cardinality(DOMAIN dkg.validators)
        THEN Err(<<"TooManyTranscripts">>)
        ELSE Ok(TRUE)

AggregateTranscripts(dkg, ms) ==
    LET checked == VerifyTranscripts(dkg, ms)
    IN  IF Succeeded(checked) THEN FromTranscripts(Transcripts(ms)) ELSE checked
=============================================================================
