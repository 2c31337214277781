--------------------------- MODULE DecryptionShares ---------------------------
(***************************************************************************)
(* The decryption half of ferveo/src/api.rs with what it calls in pvss.rs  *)
(* and ferveo-tdec/src/key_share.rs: making, verifying and combining       *)
(* decryption shares of an aggregate.                                      *)
(***************************************************************************)
EXTENDS DkgContext

\* collect() into a Vec: the entries in ascending order of their keys.
Collect(m) == SubSeq(ValuesOf(m), 1, Cardinality(DOMAIN m))

\* get_share_for_index_and_pubkey; the key travels beside it unchanged.
GetShare(at, share_index) ==
    IF share_index + 1 \in DOMAIN at.aggregate.shares
    THEN Ok(at.aggregate.shares[share_index + 1])
    ELSE Err(<<"InvalidShareIndex", share_index>>)

\* AggregatedTranscript::create_decryption_share_simple with decryption key dk;
\* nothing compares dk with the key of dkg.me.
CreateDecryptionShareSimple(at, dkg, header, aad, dk) ==
    LET y     == GetShare(at, dkg.me.share_index)
        share == CreateShare(y.val, dk, header, aad, One)
        point == GetDomainPoint(dkg, dkg.me.share_index)
    IN  IF ~ Succeeded(y) THEN y
        ELSE IF ~ Succeeded(share) THEN share
        ELSE IF ~ Succeeded(point) THEN point
        ELSE Ok([decryption_share |-> share.val.decryption_share,
                 checksum         |-> share.val.checksum,
                 domain_point     |-> point.val])

\* The domain points of the selected validators by share index; an index outside
\* the context is left out silently.
SelectedPoints(dkg, selected) ==
    LET known == {i \in {v.share_index : v \in selected} : Succeeded(GetDomainPoint(dkg, i))}
    IN  [i \in known |-> GetDomainPoint(dkg, i).val]

\* A bug that the ranking could have: the indices are sorted the other way.
CoefficientFromEnd(points, share_index) ==
    LET lambda == PrepareCombineSimple(Collect(points))
    IN  lambda[Cardinality({i \in DOMAIN points : i > share_index}) + 1]

\* The coefficient for share_index: its rank among the sorted indices picks it.
SelectedCoefficient(points, share_index) ==
    LET lambda == PrepareCombineSimple(Collect(points))
    IN  lambda[Cardinality({i \in DOMAIN points : i < share_index}) + 1]

\* AggregatedTranscript::create_decryption_share_precomputed.
CreateDecryptionSharePrecomputed(at, dkg, header, aad, dk, selected) ==
    LET me     == dkg.me.share_index
        y      == GetShare(at, me)
        points == SelectedPoints(dkg, selected)
        share  == CreateShare(y.val, dk, header, aad, SelectedCoefficient(points, me))
    IN  IF ~ Succeeded(y) THEN y
        ELSE IF me \notin DOMAIN points THEN Err(<<"InvalidShareIndex", me>>)
        ELSE IF ~ Succeeded(share) THEN share
        ELSE Ok([decrypter_index  |-> me,
                 decryption_share |-> share.val.decryption_share,
                 checksum         |-> share.val.checksum])

\* AggregatedTranscript::verify_decryption_share_simple.
VerifyDecryptionShareSimple(at, dkg, share, share_index, ek, ct) ==
    LET y     == GetShare(at, share_index)
        point == GetDomainPoint(dkg, share_index)
    IN  IF ~ Succeeded(y) THEN y
        ELSE IF ~ Succeeded(point) THEN point
        ELSE Ok(share.domain_point = point.val /\ VerifyChecksum(share, y.val, ek, ct))

\* DecryptionSharePrecomputed::verify, on the blinded share of the slot.
VerifyPrecomputed(at, share, share_index, ek, ct) ==
    VerifyChecksum(share, GetShare(at, share_index).val, ek, ct)

CombineSharesSimple(shares) ==
    ShareCombineSimple(shares,
        PrepareCombineSimple([i \in DOMAIN shares |-> shares[i].domain_point]))
=============================================================================
