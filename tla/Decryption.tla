------------------------------ MODULE Decryption ------------------------------
(***************************************************************************)
(* Threshold decryption over an established aggregate.                     *)
(*                                                                         *)
(* Clients encrypt to the DKG public key.  Ciphertexts travel through      *)
(* parties that may recombine or damage their parts.  Each validator is    *)
(* sent a header and an aad and answers with a decryption share, in the    *)
(* simple or the precomputed variant, or from a context of ferveo-tdec; it *)
(* may use a wrong keypair, and a faulty one may change its share.  A      *)
(* client combines any shares it has, in any order and with repetitions,   *)
(* and decrypts.                                                           *)
(***************************************************************************)
EXTENDS DecryptionShares, TdecContexts

CONSTANTS
    Rituals,     \* established ceremonies: [threshold, shares_num, validators]
    Polys,       \* the joint secret polynomials a ceremony may have ended with
    Messages, Aads,
    Scalars,     \* the random elements encrypt may draw, zero left out
    Keys,        \* decryption keys that are not the validator's own
    Damages,     \* how a ciphertext may be changed on its way
    Faults,      \* how a faulty validator may change its share
    Variants,    \* the variants in use, of {"simple", "precomputed", "contexts"}
    Factors,     \* the blinding factors setup_simple draws, by context
    Selections,  \* the selections a caller may give a context
    MaxSent, MaxWire, MaxShares, MaxBasket

RitualAssumption(r) ==
    /\ r.threshold \in 1..Len(r.validators)
    /\ r.shares_num = Len(r.validators) /\ Len(r.validators) <= MaxDomain
    /\ r.validators \in Seq({r.validators[i] : i \in DOMAIN r.validators})
    /\ \A i \in DOMAIN r.validators :
         r.validators[i].ek \in Fr /\ r.validators[i].share_index \in Nat
    /\ \A i \in DOMAIN r.validators :
         Succeeded(DkgNew(r.validators, r, r.validators[i]))

ASSUME RitualsAssumption == \A r \in Rituals : RitualAssumption(r)
ASSUME DrawsAssumption ==
    /\ \A phi \in Polys : phi \in Seq(Fr) /\ phi # <<>> /\ phi[1] # Zero
    /\ Scalars \subseteq Fr \ {Zero} /\ Keys \subseteq Fr
ASSUME FaultsAssumption ==
    /\ Damages \subseteq {"recombine", "garble", "identity"}
    /\ Faults \subseteq {"share", "checksum", "both", "point"}
    /\ Variants \subseteq {"simple", "precomputed", "contexts"}
ASSUME ContextsAssumption ==
    /\ \A r \in Rituals : DomainSize(r.shares_num) <= Len(Factors)
    /\ Factors \in Seq(Fr \ {Zero}) /\ Selections \subseteq Seq(Nat)

VARIABLES
    variant,   \* how this ceremony decrypts
    ritual,    \* the ceremony
    phi,       \* the joint secret polynomial, which nobody holds
    dkgs,      \* by share index, the validators' DKG contexts
    at,        \* the aggregate every participant holds
    contexts,  \* by index from 1, the decryption contexts of ferveo-tdec
    sent,      \* what encrypt returned, with its arguments
    wire,      \* the ciphertexts in circulation
    shares,    \* the decryption shares in circulation
    out        \* the last decryption and what it returned

setup == <<variant, ritual, phi, dkgs, at, contexts>>
vars == <<setup, sent, wire, shares, out>>

Idle == [variant |-> "none"]
Slots == 0..(Len(ritual.validators) - 1)
ValidatorSet == {ritual.validators[i] : i \in DOMAIN ritual.validators}

Init ==
    /\ variant \in Variants
    /\ ritual \in Rituals
    /\ phi \in {p \in Polys : Len(p) = ritual.threshold /\ p[ritual.threshold] # Zero}
    /\ dkgs = [i \in Slots |->
                 DkgNew(ritual.validators, ritual,
                        CHOOSE v \in ValidatorSet : v.share_index = i).val]
    /\ at = FromTranscripts(<<PvssNew(phi, dkgs[0]).val>>).val
    /\ contexts = IF variant = "contexts"
                  THEN SetupSimple(phi, ritual.shares_num, Factors) ELSE <<>>
    /\ sent = {} /\ wire = {} /\ shares = {} /\ out = Idle
-----------------------------------------------------------------------------
\* api::encrypt; a failure returns nothing.
DoEncrypt(msg, aad, r) ==
    LET ct == Encrypt(msg, aad, at.public_key, r)
    IN  /\ Cardinality(sent) < MaxSent
        /\ Succeeded(ct)
        /\ sent' = sent \cup {[ct |-> ct.val, msg |-> msg, aad |-> aad]}
        /\ wire' = wire \cup {ct.val}
        /\ out' = Idle
        /\ UNCHANGED <<setup, shares>>

Alter(how, a, b, c) ==
    CASE how = "recombine" -> [commitment |-> a.commitment, auth_tag |-> b.auth_tag,
                               payload |-> c.payload]
      [] how = "garble"    -> [a EXCEPT !.payload.intact = FALSE]
      [] how = "identity"  -> [a EXCEPT !.commitment = Zero, !.auth_tag.scalar = Zero]

\* A ciphertext is changed on its way.
Damage(how, a, b, c) ==
    /\ Cardinality(wire) < MaxWire
    /\ wire' = wire \cup {Alter(how, a, b, c)}
    /\ out' = Idle
    /\ UNCHANGED <<setup, sent, shares>>

\* A share in circulation: made is the validator's own, made with its own key; order is
\* the selection as the precomputed variant got it, <<>> for the simple one.
Publish(index, ct, aad, order, made, share) ==
    /\ Cardinality(shares) < MaxShares
    /\ shares' = shares \cup
         {[index |-> index, header |-> Header(ct), aad |-> aad,
           order |-> order, made |-> made, share |-> share]}
    /\ out' = Idle
    /\ UNCHANGED <<setup, sent, wire>>

\* create_decryption_share_simple for slot i with decryption key dk, published if Ok.
CreateSimple(i, ct, aad, dk) ==
    LET r == CreateDecryptionShareSimple(at, dkgs[i], Header(ct), aad, dk)
    IN  Succeeded(r) /\ Publish(i, ct, aad, <<>>, dk = dkgs[i].me.ek, r.val)

\* create_decryption_share_precomputed for slot i and the selected validators; the code
\* sorts them.
CreatePrecomputed(i, ct, aad, selected) ==
    LET r == CreateDecryptionSharePrecomputed(at, dkgs[i], Header(ct), aad, dkgs[i].me.ek, selected)
    IN  /\ Succeeded(r)
        /\ Publish(i, ct, aad, Collect([k \in {s.share_index : s \in selected} |-> k]), TRUE, r.val)

Spoil(how, share) ==
    CASE how = "share"    -> [share EXCEPT !.decryption_share = Add(@, One)]
      [] how = "checksum" -> [share EXCEPT !.checksum = Add(@, One)]
      [] how = "both"     -> [share EXCEPT !.decryption_share = Add(@, @), !.checksum = Add(@, @)]
      [] how = "point"    -> [share EXCEPT !.domain_point = Mul(@, Neg(One))]

\* A faulty validator changes a simple share it publishes.
SpoilSimple(i, ct, aad, how) ==
    LET r == CreateDecryptionShareSimple(at, dkgs[i], Header(ct), aad, dkgs[i].me.ek)
    IN  Succeeded(r) /\ Publish(i, ct, aad, <<>>, FALSE, Spoil(how, r.val))

\* create_share of a context, which carries no domain point.
CreateByContext(c, ct, aad) ==
    LET r == ContextShare(c, Header(ct), aad)
    IN  Succeeded(r) /\ Publish(c.index, ct, aad, <<>>, TRUE, r.val)

SpoilByContext(c, ct, aad, how) ==
    LET r == ContextShare(c, Header(ct), aad)
    IN  /\ how # "point"
        /\ Succeeded(r) /\ Publish(c.index, ct, aad, <<>>, FALSE, Spoil(how, r.val))

\* create_share_precomputed of a context; a panic publishes nothing.
CreateByContextPrecomputed(c, ct, aad, selected) ==
    LET r == ContextSharePrecomputed(c, Header(ct), aad, selected)
    IN  Succeeded(r) /\ Publish(c.index, ct, aad, selected, TRUE, r.val)

Baskets(S) == UNION {[1..k -> S] : k \in 1..MaxBasket}
Bare(basket) == [k \in DOMAIN basket |-> basket[k].share]
PublicContexts(indices) == [k \in DOMAIN indices |-> contexts[1].public[indices[k] + 1]]

\* The client calls decrypt_with_shared_secret with the secret it combined.
DecryptWith(kind, ct, aad, basket, pubs, secret) ==
    /\ out' = [variant |-> kind, ct |-> ct, aad |-> aad, basket |-> basket, pubs |-> pubs,
               res |-> DecryptWithSharedSecret(ct, aad, secret)]
    /\ UNCHANGED <<setup, sent, wire, shares>>

HaveResult ==
    /\ out # Idle /\ out' = Idle
    /\ UNCHANGED <<setup, sent, wire, shares>>

DecryptSimple(ct, aad, basket) ==
    DecryptWith("simple", ct, aad, basket, <<>>, CombineSharesSimple(Bare(basket)))

DecryptPrecomputed(kind, ct, aad, basket) ==
    DecryptWith(kind, ct, aad, basket, <<>>, ShareCombinePrecomputed(Bare(basket)))

\* The contexts a caller may have beside a basket: the shares' own or the first ones, as
\* many as there are shares, one fewer or one more.
Beside(basket) ==
    LET Near      == (Len(basket) - 1)..(Len(basket) + 1)
        Own(n)    == [k \in 1..n |-> IF k \in DOMAIN basket THEN basket[k].index ELSE k - 1]
        Prefix(n) == [k \in 1..n |-> k - 1]
    IN  {Own(n) : n \in Near} \cup {Prefix(n) : n \in Near}

\* The client combines the shares of contexts by the public contexts with the given
\* indices.
DecryptByContexts(ct, aad, basket, indices) ==
    DecryptWith("contexts", ct, aad, basket, indices,
                CreateSharedSecretSimple(PublicContexts(indices), Bare(basket)))

Simple == {s \in shares : s.order = <<>>}

NextSimple ==
    /\ variant = "simple"
    /\ \E ct \in wire, aad \in Aads :
          \/ \E i \in Slots :
                \/ \E dk \in Keys \cup {dkgs[i].me.ek} : CreateSimple(i, ct, aad, dk)
                \/ \E how \in Faults : SpoilSimple(i, ct, aad, how)
          \/ \E basket \in Baskets(shares) : DecryptSimple(ct, aad, basket)

NextPrecomputed ==
    /\ variant = "precomputed"
    /\ \E ct \in wire, aad \in Aads :
          \/ \E i \in Slots, selected \in SUBSET ValidatorSet : CreatePrecomputed(i, ct, aad, selected)
          \/ \E basket \in Baskets(shares) : DecryptPrecomputed("precomputed", ct, aad, basket)

NextContexts ==
    /\ variant = "contexts"
    /\ \E ct \in wire, aad \in Aads :
          \/ \E k \in DOMAIN contexts :
                \/ CreateByContext(contexts[k], ct, aad)
                \/ \E how \in Faults : SpoilByContext(contexts[k], ct, aad, how)
                \/ \E selected \in Selections :
                      CreateByContextPrecomputed(contexts[k], ct, aad, selected)
          \/ \E basket \in Baskets(Simple) : \E indices \in Beside(basket) :
                /\ \A k \in DOMAIN indices : indices[k] + 1 \in DOMAIN contexts
                /\ DecryptByContexts(ct, aad, basket, indices)
          \/ \E basket \in Baskets(shares \ Simple) :
                DecryptPrecomputed("contexts_precomputed", ct, aad, basket)

\* The result of a decryption is had before the next call.
Next ==
    \/ /\ out = Idle
       /\ \/ \E msg \in Messages, aad \in Aads, r \in Scalars : DoEncrypt(msg, aad, r)
          \/ \E how \in Damages, a, b, c \in wire : Damage(how, a, b, c)
          \/ NextSimple
          \/ NextPrecomputed
          \/ NextContexts
    \/ HaveResult

Spec == Init /\ [][Next]_vars
-----------------------------------------------------------------------------
Decrypted == out.variant # "none" /\ Succeeded(out.res)
\* The last decryption is of an undamaged ciphertext under its own aad.
Genuine(e) == e \in sent /\ out.ct = e.ct /\ out.aad = e.aad
BasketIndices == {out.basket[i].index : i \in DOMAIN out.basket}
\* Every share of the basket answers this ciphertext, none comes twice.
ForThisCiphertext ==
    \A i, j \in DOMAIN out.basket :
        /\ out.basket[i].header = Header(out.ct)
        /\ out.basket[i].index = out.basket[j].index => i = j
KeyOf(k) == dkgs[k].me.ek
Verifies(s, k, ct) ==
    Holds(VerifyDecryptionShareSimple(at, dkgs[0], s.share, k, KeyOf(k), ct))
SelectedBy(s) == {s.order[k] : k \in DOMAIN s.order}

\* Type invariant: ciphertexts and shares are made of group elements, shares belong
\* to slots of the aggregate, and no domain point is the point of the secret.
TypeOK ==
    /\ ritual \in Rituals /\ at \in AggregatedTranscript
    /\ \A ct \in wire : ct.commitment \in Fr /\ ct.auth_tag.scalar \in Fr
    /\ \A e \in sent : e.ct \in wire
    /\ \A s \in shares :
         /\ s.index + 1 \in DOMAIN (IF variant = "contexts" THEN contexts ELSE at.aggregate.shares)
         /\ s.share.decryption_share \in Fr
         /\ variant = "simple" => s.share.domain_point \in Fr \ {Zero}
    /\ out.variant \in {"none", "contexts_precomputed"} \cup Variants

\* decrypt_with_shared_secret returns only what encrypt was given: the ciphertext
\* and the aad are those of one encrypt call, part for part, and the plaintext is
\* its message, whatever was recombined or damaged on the way.
DecryptsOnlyWhatWasEncrypted ==
    Decrypted => \E e \in sent : Genuine(e) /\ out.res.val = e.msg

\* Whatever a ciphertext's journey, a validator makes a share only for a header
\* and an aad that encrypt made: create checks the header before it answers.
SharesOnlyForEncrypted ==
    \A s \in shares : \E e \in sent : Header(e.ct) = s.header /\ e.aad = s.aad

\* The validators together are the holder of the joint private key, whom
\* decrypt_symmetric serves: it opens of the ciphertexts in circulation exactly the
\* genuine ones, and what shares decrypt to is what it returns.
ThresholdMatchesPrivateKey ==
    /\ \A ct \in wire, aad \in Aads :
         LET alone == DecryptSymmetric(ct, aad, phi[1])
         IN  Succeeded(alone) <=>
               \E e \in sent : e.ct = ct /\ e.aad = aad /\ alone = Ok(e.msg)
    /\ Decrypted => out.res = DecryptSymmetric(out.ct, out.aad, phi[1])

\* At least `security_threshold` shares that verify, of different validators and
\* in any order, decrypt.
EnoughVerifiedSharesDecrypt ==
    (/\ out.variant = "simple"
     /\ \E e \in sent : Genuine(e)
     /\ ForThisCiphertext
     /\ Len(out.basket) >= ritual.threshold
     /\ \A i \in DOMAIN out.basket : Verifies(out.basket[i], out.basket[i].index, out.ct))
    => Decrypted

\* Shares of too few validators never decrypt, each made by its validator for this
\* ciphertext and none twice: fewer than `security_threshold`, in every variant and
\* whatever the selection and the contexts beside them, or in the precomputed variants
\* fewer than were selected.
TooFewSharesNeverDecrypt ==
    (/\ out.variant # "none"
     /\ \A i \in DOMAIN out.basket : out.basket[i].made
     /\ ForThisCiphertext
     /\ \A i, j \in DOMAIN out.basket : out.basket[i].order = out.basket[j].order
     /\ \/ Len(out.basket) < ritual.threshold
        \/ Len(out.basket) < Len(out.basket[1].order))
    => ~ Decrypted

\* A simple share that verifies for slot k is the one slot k's validator would
\* make: e(U, [phi(omega_k)] H) at omega_k, whoever made it and with whichever key.
VerifiedShareIsCorrect ==
    \A s \in shares, k \in Slots, ct \in wire :
        variant = "simple" /\ Verifies(s, k, ct) =>
            LET x == DomainElement(Len(ritual.validators), k)
            IN  s.share.domain_point = x
                /\ s.share.decryption_share = Mul(ct.commitment, Eval(phi, x))

\* A simple share a validator made with its own key verifies.
OwnShareVerifies ==
    \A s \in shares, e \in sent :
        variant = "simple" /\ s.made /\ s.header = Header(e.ct) => Verifies(s, s.index, e.ct)

\* The precomputed shares of exactly the selected validators decrypt, if they are
\* at least `security_threshold` and all were given the same selection, in any
\* order.
SelectionDecrypts ==
    (/\ out.variant = "precomputed"
     /\ \E e \in sent : Genuine(e)
     /\ ForThisCiphertext
     /\ \A i \in DOMAIN out.basket : SelectedBy(out.basket[i]) = BasketIndices
     /\ Cardinality(BasketIndices) >= ritual.threshold)
    => Decrypted

\* The contexts of a selection decrypt together in the precomputed variant, if they are
\* at least `threshold` and every one is selected at the position of its own index:
\* create_share_precomputed looks nowhere else for its coefficient.
PrefixSelectionDecrypts ==
    (/\ out.variant = "contexts_precomputed"
     /\ \E e \in sent : Genuine(e)
     /\ ForThisCiphertext
     /\ \A i, j \in DOMAIN out.basket : out.basket[i].order = out.basket[j].order
     /\ BasketIndices = SelectedBy(out.basket[1])
     /\ \A k \in DOMAIN out.basket[1].order : out.basket[1].order[k] = k - 1
     /\ Cardinality(BasketIndices) >= ritual.threshold)
    => Decrypted

\* verify_decryption_shares_simple walks shares and contexts up to the shorter list.  If it
\* accepts, and the contexts are at least `threshold` and none twice, then
\* create_shared_secret_simple makes the secret of them if there is a share for every
\* context, whichever shares were spoiled and in whatever order they came; with a context
\* more than shares it does not, unless the share that nobody looked for is zero.
BatchCheckVouches ==
    (/\ out.variant = "contexts"
     /\ \E e \in sent : Genuine(e)
     /\ Len(out.pubs) >= ritual.threshold
     /\ \A i, j \in DOMAIN out.pubs : out.pubs[i] = out.pubs[j] => i = j
     /\ VerifyDecryptionSharesSimple(PublicContexts(out.pubs), out.ct, Bare(out.basket)))
    => /\ Len(out.pubs) <= Len(out.basket) => Decrypted
       /\ LET unmet == contexts[1].public[out.pubs[Len(out.pubs)] + 1]
          IN  Len(out.pubs) = Len(out.basket) + 1 /\ unmet.share_commitment # Zero
                => ~ Decrypted
-----------------------------------------------------------------------------
(***************************************************************************)
(* What comments of the repository say and the code does not do.           *)
(***************************************************************************)

\* "Verify that the decryption share is valid" (decryption.rs,
\* DecryptionSharePrecomputed::verify): the share a validator made verifies.  Its
\* Lagrange coefficient is missing from the equation.
OwnPrecomputedShareVerifies ==
    \A s \in shares, e \in sent :
        variant = "precomputed" /\ s.header = Header(e.ct) =>
            VerifyPrecomputed(at, s.share, s.index, KeyOf(s.index), e.ct)
=============================================================================
