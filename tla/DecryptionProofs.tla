--------------------------- MODULE DecryptionProofs ---------------------------
(***************************************************************************)
(* Theorems about threshold decryption, for every ceremony, polynomial,    *)
(* message, key and selection.                                             *)
(***************************************************************************)
EXTENDS Decryption, ContextProofs

N == Len(ritual.validators)
Point(k) == DomainElement(N, k)
\* The private share of slot k.
Share(k) == Eval(phi, Point(k))

\* What the ceremony left behind: contexts that agree, and an aggregate with one
\* share of phi for every slot, blinded with the key of that slot.
RitualFacts ==
    /\ ritual \in Rituals /\ variant \in Variants
    /\ WellIndexed(ritual.validators)
    /\ ritual.shares_num = N /\ ritual.threshold \in 1..N
    /\ phi \in [1..ritual.threshold -> Fr]
    /\ phi[1] # Zero /\ phi[ritual.threshold] # Zero
HolderFacts ==
    \A i \in Slots : /\ ExactContext(dkgs[i]) /\ dkgs[i].domain = N
                     /\ dkgs[i].me.share_index = i /\ KeyOf(i) \in Fr \ {Zero}
AggregateFacts ==
    /\ at \in AggregatedTranscript /\ at.public_key = phi[1]
    /\ DOMAIN at.aggregate.shares = 1..N
    /\ \A k \in Slots : at.aggregate.shares[k + 1] = Mul(Share(k), KeyOf(k))
ContextFacts ==
    variant = "contexts" => contexts = SetupSimple(phi, ritual.shares_num, Factors)
Established == RitualFacts /\ HolderFacts /\ AggregateFacts /\ ContextFacts

\* What a ceremony's parameters give.
LEMMA RitualGiven ==
    ASSUME NEW r \in Rituals
    PROVE  LET V == {r.validators[i] : i \in DOMAIN r.validators}
           IN  /\ Holders(V) /\ r.validators \in Seq(V)
               /\ Len(r.validators) \in 1..MaxDomain
               /\ r.threshold \in Nat /\ r.shares_num \in Nat
               /\ r.threshold \in 1..Len(r.validators) /\ r.shares_num = Len(r.validators)
               /\ \A i \in 1..Len(r.validators) :
                    Succeeded(DkgNew(r.validators, r, r.validators[i]))
               /\ WellIndexed(r.validators)
<1> DEFINE vs == r.validators
           V == {vs[i] : i \in DOMAIN vs}
<1>1. RitualAssumption(r)
  BY RitualsAssumption
<1>2. /\ r.threshold \in 1..Len(vs) /\ r.shares_num = Len(vs) /\ Len(vs) <= MaxDomain
      /\ vs \in Seq(V)
      /\ \A i \in DOMAIN vs : vs[i].ek \in Fr /\ vs[i].share_index \in Nat
      /\ \A i \in DOMAIN vs : Succeeded(DkgNew(vs, r, vs[i]))
  BY <1>1 DEF RitualAssumption
<1>3. Holders(V)
  BY <1>2 DEF Holders
<1> HIDE DEF V
<1>4. Len(vs) \in Nat /\ DOMAIN vs = 1..Len(vs)
  BY <1>2
<1>5. Len(vs) \in 1..MaxDomain /\ r.threshold \in Nat /\ r.shares_num \in Nat /\ 1 \in DOMAIN vs
  BY <1>2, <1>4, DomainAssumption
<1>6. Succeeded(DkgNew(vs, r, vs[1]))
  BY <1>2, <1>5
<1>7. WellIndexed(vs)
  BY <1>2, <1>3, <1>5, <1>6, AcceptedWellIndexed
<1>8. QED
  BY <1>2, <1>3, <1>4, <1>5, <1>7 DEF V

\* The holder of slot i, and its context.
LEMMA InitHolders ==
    ASSUME Init, NEW i \in Slots
    PROVE  /\ ExactContext(dkgs[i]) /\ dkgs[i].domain = N /\ dkgs[i].threshold = ritual.threshold
           /\ dkgs[i].me.share_index = i /\ KeyOf(i) \in Fr \ {Zero}
           /\ \A k \in Slots : dkgs[k].validators[i] = dkgs[i].me
<1> DEFINE vs == ritual.validators
           Chosen(k) == CHOOSE v \in ValidatorSet : v.share_index = k
<1>1. ritual \in Rituals
  BY DEF Init
<1>2. /\ Holders(ValidatorSet) /\ vs \in Seq(ValidatorSet)
      /\ Len(vs) \in 1..MaxDomain
      /\ ritual.threshold \in Nat /\ ritual.shares_num \in Nat
      /\ \A j \in 1..Len(vs) : Succeeded(DkgNew(vs, ritual, vs[j]))
      /\ WellIndexed(vs)
  BY <1>1, RitualGiven DEF ValidatorSet
<1>3. \A k \in Slots : dkgs[k] = DkgNew(vs, ritual, Chosen(k)).val
  BY DEF Init
<1>4. \A k \in Slots : \E j \in 1..Len(vs) : Chosen(k) = vs[j] /\ vs[j].share_index = k
  <2> SUFFICES ASSUME NEW k \in Slots
               PROVE  \E j \in 1..Len(vs) : Chosen(k) = vs[j] /\ vs[j].share_index = k
    OBVIOUS
  <2>1. k \in 0..(Len(vs) - 1)
    BY DEF Slots
  <2>2. \E v \in ValidatorSet : v.share_index = k
    <3>1. PICK j \in 1..Len(vs) : vs[j].share_index = k
      BY <1>2, <2>1 DEF WellIndexed
    <3>2. vs[j] \in ValidatorSet
      BY <1>2 DEF WellIndexed, ValidatorSet
    <3>3. QED
      BY <3>1, <3>2
  <2>3. Chosen(k) \in ValidatorSet /\ Chosen(k).share_index = k
    BY <2>2
  <2> HIDE DEF Chosen
  <2>4. QED
    BY <1>2, <2>3 DEF ValidatorSet, WellIndexed
<1> HIDE DEF Chosen
<1>5. ASSUME NEW k \in Slots
      PROVE  /\ ExactContext(dkgs[k]) /\ dkgs[k].domain = Len(vs) /\ dkgs[k].me = Chosen(k)
             /\ dkgs[k].threshold = ritual.threshold
             /\ \A j \in 1..Len(vs) : dkgs[k].validators[vs[j].share_index] = vs[j]
  <2>1. Succeeded(DkgNew(vs, ritual, Chosen(k)))
    BY <1>2, <1>4
  <2>2. QED
    BY SMTT(60), <1>2, <1>3, <2>1, MemberContext
<1>6. PICK j \in 1..Len(vs) : Chosen(i) = vs[j] /\ vs[j].share_index = i
  BY <1>4
<1>7. /\ ExactContext(dkgs[i]) /\ dkgs[i].domain = N /\ dkgs[i].threshold = ritual.threshold
      /\ dkgs[i].me = vs[j]
  BY <1>5, <1>6 DEF N
<1>8. vs[j].ek \in Fr \ {Zero}
  BY <1>2 DEF WellIndexed
<1>9. \A k \in Slots : dkgs[k].validators[i] = vs[j]
  BY <1>5, <1>6
<1>10. QED
  BY <1>6, <1>7, <1>8, <1>9 DEF KeyOf

\* The ceremony ends established.
LEMMA InitEstablished == Init => Established
<1> SUFFICES ASSUME Init PROVE Established
  OBVIOUS
<1> USE DEF N, Slots
<1> DEFINE d == dkgs[0]
           t == PvssNew(phi, d).val
<1>1. ritual \in Rituals /\ variant \in Variants
  BY DEF Init
<1>2. /\ Len(ritual.validators) \in 1..MaxDomain /\ ritual.threshold \in 1..N
      /\ ritual.shares_num = N /\ WellIndexed(ritual.validators) /\ N \in Nat \ {0}
  <2>1. /\ Len(ritual.validators) \in 1..MaxDomain /\ ritual.threshold \in 1..Len(ritual.validators)
        /\ ritual.shares_num = Len(ritual.validators) /\ WellIndexed(ritual.validators)
    BY <1>1, RitualGiven
  <2>2. QED
    BY <2>1, DomainAssumption
<1>3. /\ phi \in Seq(Fr) /\ phi # <<>> /\ phi[1] # Zero
      /\ Len(phi) = ritual.threshold /\ phi[ritual.threshold] # Zero
  <2>1. phi \in Polys /\ Len(phi) = ritual.threshold /\ phi[ritual.threshold] # Zero
    BY DEF Init
  <2>2. QED
    BY <2>1, DrawsAssumption
<1>4. RitualFacts
  BY <1>1, <1>2, <1>3 DEF RitualFacts
<1>5. HolderFacts
  BY InitHolders DEF HolderFacts
<1>6. 0 \in Slots /\ ExactContext(d) /\ d.domain = N
  BY <1>2, InitHolders
<1>7. \A k \in Slots : d.validators[k].ek = KeyOf(k)
  BY <1>6, InitHolders DEF KeyOf
<1> HIDE DEF N
<1>8. /\ t = [coeffs |-> phi,
              shares |-> [i \in 1..N |->
                            Mul(Eval(phi, DomainElement(N, i - 1)), d.validators[i - 1].ek)],
              sigma  |-> phi[1]]
      /\ t \in Transcript
  <2> HIDE DEF d
  <2>1. \A v : Ok(v).val = v
    BY DEF Ok
  <2>2. QED
    BY <1>3, <1>6, <2>1, PvssNewExact
<1>9. at = [aggregate |-> t, public_key |-> phi[1]]
  <2>1. at = FromTranscripts(<<t>>).val
    BY DEF Init
  <2>2. t.coeffs = phi
    BY <1>8
  <2> HIDE DEF t
  <2>3. FromTranscripts(<<t>>) = Ok([aggregate |-> t, public_key |-> t.coeffs[1]])
    BY <1>3, <1>8, <2>2, SingleAggregate
  <2>4. QED
    BY <2>1, <2>2, <2>3 DEF Ok
<1>10. AggregateFacts
  <2> HIDE DEF d
  <2>1. at \in AggregatedTranscript /\ at.public_key = phi[1] /\ at.aggregate = t
    <3>1. phi[1] \in Fr
      BY <1>3
    <3> HIDE DEF t
    <3>2. QED
      BY <1>8, <1>9, <3>1 DEF AggregatedTranscript
  <2>2. t.shares = [i \in 1..N |->
                      Mul(Eval(phi, DomainElement(N, i - 1)), d.validators[i - 1].ek)]
    BY <1>8
  <2> HIDE DEF t
  <2>3. DOMAIN at.aggregate.shares = 1..N
    BY <2>1, <2>2
  <2>4. ASSUME NEW k \in Slots
        PROVE  at.aggregate.shares[k + 1] = Mul(Share(k), KeyOf(k))
    <3>1. k + 1 \in 1..N /\ (k + 1) - 1 = k
      BY <1>2 DEF N
    <3>2. PICK j \in 1..N : j = k + 1 /\ j - 1 = k
      BY <3>1
    <3>3. t.shares[j] = Mul(Eval(phi, DomainElement(N, j - 1)), d.validators[j - 1].ek)
      BY <2>2
    <3>4. QED
      BY <1>7, <2>1, <3>2, <3>3 DEF Share, Point
  <2>5. QED
    BY <2>1, <2>3, <2>4 DEF AggregateFacts
<1>11. ContextFacts
  BY DEF Init, ContextFacts
<1>12. QED
  BY <1>4, <1>5, <1>10, <1>11 DEF Established

-----------------------------------------------------------------------------
\* What encrypt returns for the random element r.
Encrypted(msg, aad, r) ==
    LET payload == Seal(Mul(phi[1], r), r, msg, aad)
    IN  [commitment |-> r,
         auth_tag   |-> [scalar |-> r, point |-> TagHash(r, Sha256(payload), aad)],
         payload    |-> payload]

\* An entry of sent is one call of encrypt.
FromEncrypt(e) == e.ct \in wire /\ \E r \in Scalars : e.ct = Encrypted(e.msg, e.aad, r)

\* A ciphertext in circulation has the parts of one, and its authentication tag is a
\* multiple of the hash point of some call: nobody else makes hash points.
Circulating(ct) ==
    /\ ct.commitment \in Fr /\ ct.auth_tag.scalar \in Fr
    /\ ct = [commitment |-> ct.commitment,
             auth_tag   |-> [scalar |-> ct.auth_tag.scalar, point |-> ct.auth_tag.point],
             payload    |-> ct.payload]
    /\ \E e \in sent : ct.auth_tag.point = e.ct.auth_tag.point

CiphertextFacts == (\A e \in sent : FromEncrypt(e)) /\ (\A ct \in wire : Circulating(ct))

\* What encrypt returns.
LEMMA EncryptForm ==
    ASSUME Established, NEW msg, NEW aad, NEW r \in Scalars
    PROVE  /\ r \in Fr \ {Zero} /\ phi[1] \in Fr /\ phi[1] # Zero
           /\ Encrypt(msg, aad, at.public_key, r) = Ok(Encrypted(msg, aad, r))
<1>1. phi[1] \in Fr /\ phi[1] # Zero /\ at.public_key = phi[1]
  BY DEF Established, RitualFacts, AggregateFacts
<1>2. r \in Fr \ {Zero}
  BY DrawsAssumption
<1>3. Encrypt(msg, aad, at.public_key, r) = Ok(Encrypted(msg, aad, r))
  BY <1>1 DEF Encrypt, Encrypted
<1>4. QED
  BY <1>1, <1>2, <1>3

\* CiphertextHeader::check passes only what encrypt made, under its own aad.
LEMMA CheckedWasSent ==
    ASSUME CiphertextFacts, NEW ct \in wire, NEW aad, Succeeded(CheckHeader(Header(ct), aad))
    PROVE  \E e \in sent : e.ct = ct /\ e.aad = aad
<1>1. /\ ct.commitment # Zero /\ ct.auth_tag.scalar = ct.commitment
      /\ ct.auth_tag.point = TagHash(ct.commitment, Sha256(ct.payload), aad)
  BY DEF CheckHeader, Header, TagMatches, Succeeded, Err, Ok
<1>2. Circulating(ct)
  BY DEF CiphertextFacts
<1>3. PICK e \in sent : ct.auth_tag.point = e.ct.auth_tag.point
  BY <1>2 DEF Circulating
<1>4. PICK r \in Scalars : e.ct = Encrypted(e.msg, e.aad, r)
  BY DEF CiphertextFacts, FromEncrypt
<1> DEFINE payload == Seal(Mul(phi[1], r), r, e.msg, e.aad)
<1>5. e.ct = [commitment |-> r,
              auth_tag   |-> [scalar |-> r, point |-> TagHash(r, Sha256(payload), e.aad)],
              payload    |-> payload]
  BY <1>4 DEF Encrypted
<1> HIDE DEF payload
<1>6. TagHash(ct.commitment, Sha256(ct.payload), aad) = TagHash(r, Sha256(payload), e.aad)
  BY <1>1, <1>3, <1>5
<1>7. ct.commitment = r /\ aad = e.aad /\ ct.payload = payload
  BY <1>6 DEF TagHash, Sha256
<1>8. ct.auth_tag.scalar = r /\ ct.auth_tag.point = TagHash(r, Sha256(payload), e.aad)
  BY <1>1, <1>7
<1>9. ct = e.ct
  BY <1>2, <1>5, <1>7, <1>8 DEF Circulating
<1>10. QED
  BY <1>7, <1>9

\* A ciphertext that encrypt made passes the check and opens under its own secret, to
\* its own message, and under no other secret.
LEMMA SentOpens ==
    ASSUME Established, CiphertextFacts, NEW e \in sent, NEW secret
    PROVE  /\ e.ct \in wire /\ e.ct.commitment \in Fr \ {Zero}
           /\ Succeeded(CheckHeader(Header(e.ct), e.aad))
           /\ secret = Mul(phi[1], e.ct.commitment) =>
                DecryptWithSharedSecret(e.ct, e.aad, secret) = Ok(e.msg)
           /\ secret # Mul(phi[1], e.ct.commitment) =>
                ~ Succeeded(DecryptWithSharedSecret(e.ct, e.aad, secret))
<1>1. PICK r \in Scalars : e.ct = Encrypted(e.msg, e.aad, r)
  BY DEF CiphertextFacts, FromEncrypt
<1>2. r \in Fr \ {Zero} /\ phi[1] \in Fr
  BY EncryptForm
<1> DEFINE payload == Seal(Mul(phi[1], r), r, e.msg, e.aad)
<1>3. e.ct = [commitment |-> r,
              auth_tag   |-> [scalar |-> r, point |-> TagHash(r, Sha256(payload), e.aad)],
              payload    |-> payload]
  BY <1>1 DEF Encrypted
<1>4. /\ payload.msg = e.msg /\ payload.key = Mul(phi[1], r)
      /\ payload = Seal(Mul(phi[1], r), r, e.msg, e.aad)
      /\ Seal(secret, r, e.msg, e.aad).key = secret
  BY DEF Seal
<1> HIDE DEF payload
<1>5. /\ e.ct.commitment = r /\ e.ct.payload = payload /\ e.ct.auth_tag.scalar = r
      /\ e.ct.auth_tag.point = TagHash(r, Sha256(payload), e.aad)
  BY <1>3
<1>6. CheckHeader(Header(e.ct), e.aad) = Ok(TRUE)
  BY <1>2, <1>5 DEF CheckHeader, Header, TagMatches
<1>7. Succeeded(CheckHeader(Header(e.ct), e.aad))
  BY <1>6 DEF Succeeded, Ok
<1>8. DecryptWithSharedSecret(e.ct, e.aad, secret)
        = IF payload = Seal(secret, r, e.msg, e.aad) THEN Ok(e.msg)
          ELSE Err("CiphertextVerificationFailed")
  BY <1>4, <1>5, <1>7 DEF DecryptWithSharedSecret, Open
<1>9. payload = Seal(secret, r, e.msg, e.aad) <=> secret = Mul(phi[1], r)
  BY <1>4
<1>10. ~ Succeeded(Err("CiphertextVerificationFailed"))
  BY DEF Succeeded, Err
<1>11. e.ct \in wire
  BY DEF CiphertextFacts, FromEncrypt
<1>12. QED
  BY <1>2, <1>5, <1>7, <1>8, <1>9, <1>10, <1>11

\* Whatever is opened, with whatever secret, is one call of encrypt.
LEMMA OpenedWasSent ==
    ASSUME Established, CiphertextFacts, NEW ct \in wire, NEW aad, NEW secret,
           Succeeded(DecryptWithSharedSecret(ct, aad, secret))
    PROVE  \E e \in sent : /\ e.ct = ct /\ e.aad = aad
                           /\ secret = Mul(phi[1], ct.commitment)
                           /\ DecryptWithSharedSecret(ct, aad, secret) = Ok(e.msg)
<1>1. Succeeded(CheckHeader(Header(ct), aad))
  BY DEF DecryptWithSharedSecret
<1>2. PICK e \in sent : e.ct = ct /\ e.aad = aad
  BY <1>1, CheckedWasSent
<1>3. secret = Mul(phi[1], e.ct.commitment)
  BY <1>2, SentOpens
<1>4. DecryptWithSharedSecret(e.ct, e.aad, secret) = Ok(e.msg)
  BY <1>3, SentOpens
<1>5. QED
  BY <1>2, <1>3, <1>4

-----------------------------------------------------------------------------
\* No step changes what the ceremony left behind.
LEMMA SetupKept == [Next]_vars => UNCHANGED setup
<1> SUFFICES ASSUME [Next]_vars PROVE UNCHANGED setup
  OBVIOUS
<1>1. CASE UNCHANGED vars
  BY <1>1 DEF vars
<1>2. CASE \E msg \in Messages, aad \in Aads, r \in Scalars : DoEncrypt(msg, aad, r)
  BY <1>2 DEF DoEncrypt
<1>3. CASE \E how \in Damages, a, b, c \in wire : Damage(how, a, b, c)
  BY <1>3 DEF Damage
<1>4. CASE NextSimple
  BY <1>4 DEF NextSimple, CreateSimple, SpoilSimple, DecryptSimple, Publish, DecryptWith
<1>5. CASE NextPrecomputed
  BY <1>5 DEF NextPrecomputed, CreatePrecomputed, DecryptPrecomputed, Publish, DecryptWith
<1>6. CASE NextContexts
  BY <1>6 DEF NextContexts, CreateByContext, SpoilByContext, CreateByContextPrecomputed,
              DecryptByContexts, DecryptPrecomputed, Publish, DecryptWith
<1>7. CASE HaveResult
  BY <1>7 DEF HaveResult
<1>8. QED
  BY <1>1, <1>2, <1>3, <1>4, <1>5, <1>6, <1>7 DEF Next

\* No step changes what the ceremony left behind.
LEMMA EstablishedKept == Established /\ [Next]_vars => Established'
<1> SUFFICES ASSUME Established, [Next]_vars PROVE Established'
  OBVIOUS
<1>1. UNCHANGED <<variant, ritual, phi, dkgs, at, contexts>>
  BY SetupKept DEF setup
<1>2. QED
  BY <1>1 DEF Established, RitualFacts, HolderFacts, AggregateFacts, ContextFacts, N, Slots,
              Share, Point, KeyOf

\* encrypt and the journey are all that changes the ciphertexts.
LEMMA OthersKeepCiphertexts ==
    ASSUME [Next]_vars
    PROVE  \/ \E msg \in Messages, aad \in Aads, r \in Scalars : DoEncrypt(msg, aad, r)
           \/ \E how \in Damages, a, b, c \in wire : Damage(how, a, b, c)
           \/ UNCHANGED <<sent, wire>>
<1>1. CASE UNCHANGED vars
  BY <1>1 DEF vars
<1>4. CASE NextSimple
  BY <1>4 DEF NextSimple, CreateSimple, SpoilSimple, DecryptSimple, Publish, DecryptWith
<1>5. CASE NextPrecomputed
  BY <1>5 DEF NextPrecomputed, CreatePrecomputed, DecryptPrecomputed, Publish, DecryptWith
<1>6. CASE NextContexts
  BY <1>6 DEF NextContexts, CreateByContext, SpoilByContext, CreateByContextPrecomputed,
              DecryptByContexts, DecryptPrecomputed, Publish, DecryptWith
<1>7. CASE HaveResult
  BY <1>7 DEF HaveResult
<1>8. QED
  BY <1>1, <1>4, <1>5, <1>6, <1>7 DEF Next

\* A recombined or damaged ciphertext still has somebody's hash point.
LEMMA AlterCirculates ==
    ASSUME NEW how \in Damages, NEW a, NEW b, NEW c,
           Circulating(a), Circulating(b), Circulating(c)
    PROVE  Circulating(Alter(how, a, b, c))
<1>1. how \in {"recombine", "garble", "identity"}
  BY FaultsAssumption
<1>2. CASE how = "recombine"
  <2>1. Alter(how, a, b, c) = [commitment |-> a.commitment, auth_tag |-> b.auth_tag,
                               payload |-> c.payload]
    BY <1>2 DEF Alter
  <2>2. b.auth_tag = [scalar |-> b.auth_tag.scalar, point |-> b.auth_tag.point]
    BY DEF Circulating
  <2>3. QED
    BY <2>1, <2>2 DEF Circulating
<1>3. CASE how = "garble"
  <2>1. Alter(how, a, b, c) = [a EXCEPT !.payload.intact = FALSE]
    BY <1>3 DEF Alter
  <2>2. a = [commitment |-> a.commitment,
             auth_tag   |-> [scalar |-> a.auth_tag.scalar, point |-> a.auth_tag.point],
             payload    |-> a.payload]
    BY DEF Circulating
  <2>3. PICK payload : payload = [a.payload EXCEPT !.intact = FALSE]
    OBVIOUS
  <2>4. [a EXCEPT !.payload.intact = FALSE] = [a EXCEPT !.payload = payload]
    BY <2>3
  <2>5. PICK commitment, tag, old : a = [commitment |-> commitment, auth_tag |-> tag, payload |-> old]
    BY <2>2
  <2>6. [a EXCEPT !.payload = payload] = [commitment |-> commitment, auth_tag |-> tag, payload |-> payload]
    BY <2>5
  <2>7. a.commitment = commitment /\ a.auth_tag = tag
    BY <2>5
  <2>8. tag = [scalar |-> tag.scalar, point |-> tag.point]
    BY <2>2, <2>7
  <2>9. QED
    BY <2>1, <2>4, <2>6, <2>7, <2>8 DEF Circulating
<1>4. CASE how = "identity"
  <2>1. Alter(how, a, b, c) = [a EXCEPT !.commitment = Zero, !.auth_tag.scalar = Zero]
    BY <1>4 DEF Alter
  <2>2. a = [commitment |-> a.commitment,
             auth_tag   |-> [scalar |-> a.auth_tag.scalar, point |-> a.auth_tag.point],
             payload    |-> a.payload]
    BY DEF Circulating
  <2>3. PICK commitment, scalar, point, payload :
          a = [commitment |-> commitment, auth_tag |-> [scalar |-> scalar, point |-> point],
               payload |-> payload]
    BY <2>2
  <2>4. PICK tag : tag = [scalar |-> scalar, point |-> point]
    OBVIOUS
  <2>5. [tag EXCEPT !.scalar = Zero] = [scalar |-> Zero, point |-> point]
    BY <2>4
  <2>6. a = [commitment |-> commitment, auth_tag |-> tag, payload |-> payload]
    BY <2>3, <2>4
  <2>7. PICK b1 : b1 = [a EXCEPT !.commitment = Zero]
    OBVIOUS
  <2>8. b1 = [commitment |-> Zero, auth_tag |-> tag, payload |-> payload]
    BY <2>6, <2>7
  <2>9. PICK x : x = [a EXCEPT !.commitment = Zero, !.auth_tag.scalar = Zero]
    OBVIOUS
  <2>10. x = [b1 EXCEPT !.auth_tag = [tag EXCEPT !.scalar = Zero]]
    BY <2>6, <2>7, <2>8, <2>9
  <2>11. x = [commitment |-> Zero, auth_tag |-> [scalar |-> Zero, point |-> point],
              payload |-> payload]
    BY <2>5, <2>8, <2>10
  <2>12. a.auth_tag.point = point
    BY <2>3
  <2>13. Circulating(x)
    BY <2>11, <2>12, FrClosed DEF Circulating
  <2>14. QED
    BY <2>1, <2>9, <2>13
<1>5. QED
  BY <1>1, <1>2, <1>3, <1>4

\* What circulates keeps circulating as the calls of encrypt accumulate.
LEMMA CirculatesOn ==
    ASSUME NEW ct, Circulating(ct), sent \subseteq sent'
    PROVE  Circulating(ct)'
BY DEF Circulating

\* Every step keeps what is known of the ciphertexts.
LEMMA CiphertextsKept ==
    ASSUME Established, CiphertextFacts, [Next]_vars
    PROVE  /\ CiphertextFacts' /\ sent \subseteq sent' /\ wire \subseteq wire'
<1>0. phi' = phi /\ at' = at
  BY SetupKept DEF setup
<1>1. ASSUME NEW msg \in Messages, NEW aad \in Aads, NEW r \in Scalars, DoEncrypt(msg, aad, r)
      PROVE  CiphertextFacts' /\ sent \subseteq sent' /\ wire \subseteq wire'
  <2>1. PICK ct : ct = Encrypted(msg, aad, r)
    OBVIOUS
  <2> DEFINE e  == [ct |-> ct, msg |-> msg, aad |-> aad]
  <2>2. /\ r \in Fr \ {Zero}
        /\ Encrypt(msg, aad, at.public_key, r) = Ok(ct) /\ Ok(ct).val = ct
    BY <2>1, EncryptForm DEF Ok
  <2>3. sent' = sent \cup {e} /\ wire' = wire \cup {ct}
    BY <1>1, <2>2 DEF DoEncrypt
  <2>4. \A m, x, s : Encrypted(m, x, s)' = Encrypted(m, x, s)
    BY <1>0 DEF Encrypted
  <2>5. e.ct = ct /\ e.msg = msg /\ e.aad = aad
    OBVIOUS
  <2>6. /\ ct.commitment = r /\ ct.auth_tag.scalar = r
        /\ ct = [commitment |-> ct.commitment,
                 auth_tag   |-> [scalar |-> ct.auth_tag.scalar, point |-> ct.auth_tag.point],
                 payload    |-> ct.payload]
    BY <2>1 DEF Encrypted
  <2> HIDE DEF e
  <2>7. FromEncrypt(e)'
    BY <2>1, <2>3, <2>4, <2>5 DEF FromEncrypt
  <2>8. Circulating(ct)'
    <3>1. \E f \in sent' : ct.auth_tag.point = f.ct.auth_tag.point
      BY <2>3, <2>5
    <3>2. QED
      BY <2>2, <2>6, <3>1 DEF Circulating
  <2>9. \A f \in sent : FromEncrypt(f)'
    BY <2>3, <2>4 DEF CiphertextFacts, FromEncrypt
  <2>10. \A x \in wire : Circulating(x)'
    BY <2>3, CirculatesOn DEF CiphertextFacts
  <2>11. QED
    BY <2>3, <2>7, <2>8, <2>9, <2>10 DEF CiphertextFacts
<1>2. ASSUME NEW how \in Damages, NEW a \in wire, NEW b \in wire, NEW c \in wire, Damage(how, a, b, c)
      PROVE  CiphertextFacts' /\ sent \subseteq sent' /\ wire \subseteq wire'
  <2>1. sent' = sent /\ wire' = wire \cup {Alter(how, a, b, c)}
    BY <1>2 DEF Damage
  <2>2. \A x \in wire' : Circulating(x)
    BY <2>1, AlterCirculates DEF CiphertextFacts
  <2>3. \A m, x, s : Encrypted(m, x, s)' = Encrypted(m, x, s)
    BY <1>0 DEF Encrypted
  <2>4. \A x \in wire' : Circulating(x)'
    BY <2>1, <2>2 DEF Circulating
  <2>5. \A e \in sent' : FromEncrypt(e)'
    BY <2>1, <2>3 DEF CiphertextFacts, FromEncrypt
  <2>6. QED
    BY <2>1, <2>4, <2>5 DEF CiphertextFacts
<1>3. CASE UNCHANGED <<sent, wire>>
  <2>1. \A m, x, s : Encrypted(m, x, s)' = Encrypted(m, x, s)
    BY <1>0 DEF Encrypted
  <2>2. QED
    BY <1>3, <2>1 DEF CiphertextFacts, FromEncrypt, Circulating
<1>4. QED
  BY <1>1, <1>2, <1>3, OthersKeepCiphertexts

-----------------------------------------------------------------------------
\* The slots of the ceremony and their points.
LEMMA SlotFacts ==
    ASSUME Established
    PROVE  /\ N \in Nat \ {0} /\ N \in 0..MaxDomain /\ N <= DomainSize(N) /\ DomainSize(N) \in Nat
           /\ phi \in Seq(Fr) /\ Len(phi) = ritual.threshold /\ Len(phi) <= DomainSize(N)
           /\ \A k \in 0..(DomainSize(N) - 1) : /\ Point(k) \in Fr \ {Zero} /\ Share(k) \in Fr
           /\ Slots \subseteq 0..(DomainSize(N) - 1) /\ Slots \subseteq Nat
           /\ 0 \in Slots
<1>1. N \in Nat \ {0} /\ N \in 0..MaxDomain /\ MaxDomain \in Nat
  BY DomainAssumption DEF Established, RitualFacts, WellIndexed, N
<1>2. /\ N <= DomainSize(N) /\ DomainSize(N) \in Nat
      /\ \A k \in 0..(DomainSize(N) - 1) : Point(k) \in Fr \ {Zero}
  BY <1>1, DomainAssumption DEF Point
<1>3. ritual.threshold \in 1..N /\ phi \in [1..ritual.threshold -> Fr]
  BY DEF Established, RitualFacts
<1>4. ritual.threshold \in Nat
  BY <1>1, <1>3
<1>5. phi \in Seq(Fr) /\ Len(phi) = ritual.threshold
  BY <1>3, <1>4, SeqOf
<1>6. \A k \in 0..(DomainSize(N) - 1) : Share(k) \in Fr
  BY <1>2, <1>5, EvalType DEF Share
<1>7. Slots = 0..(N - 1)
  BY DEF Slots, N
<1>8. QED
  BY <1>1, <1>2, <1>3, <1>5, <1>6, <1>7

\* Every context answers for every slot alike.
LEMMA SlotAnswers ==
    ASSUME Established, NEW i \in Slots, NEW k \in Slots
    PROVE  /\ GetShare(at, i) = Ok(Mul(Share(i), KeyOf(i)))
           /\ GetDomainPoint(dkgs[k], i) = Ok(Point(i))
<1>1. i + 1 \in 1..N /\ (i + 1) - 1 = i /\ N \in Nat
  BY SlotFacts DEF Slots, N
<1>2. GetShare(at, i) = Ok(Mul(Share(i), KeyOf(i)))
  BY <1>1 DEF GetShare, Established, AggregateFacts
<1>3. DOMAIN dkgs[k].validators = 0..(N - 1) /\ dkgs[k].domain = N
  BY DEF Established, HolderFacts, ExactContext
<1>4. Cardinality(DOMAIN dkgs[k].validators) = N
  BY <1>1, <1>3, ValuesOfDense
<1>5. DomainPoints(dkgs[k]) = [j \in 1..N |-> DomainElement(N, j - 1)]
  BY <1>3, <1>4 DEF DomainPoints
<1>6. PICK j \in 1..N : j = i + 1 /\ j - 1 = i
  BY <1>1
<1>7. j \in DOMAIN DomainPoints(dkgs[k]) /\ DomainPoints(dkgs[k])[j] = Point(i)
  BY <1>5, <1>6 DEF Point
<1>8. QED
  BY <1>2, <1>6, <1>7 DEF GetDomainPoint

\* What create_decryption_share_simple makes, with its own or with another key.
SimpleForm(v, i, ct, dk) ==
    \E d \in Fr, c \in Fr :
        /\ v = [decryption_share |-> d, checksum |-> c, domain_point |-> Point(i)]
        /\ dk = KeyOf(i) => /\ d = Mul(ct.commitment, Share(i))
                            /\ c = Mul(ct.commitment, Inv(dk))

\* What create_decryption_share_simple returns to the holder of a slot.
LEMMA SimpleMade ==
    ASSUME Established, CiphertextFacts, NEW i \in Slots, NEW ct \in wire, NEW aad,
           NEW dk \in Fr, Succeeded(CreateDecryptionShareSimple(at, dkgs[i], Header(ct), aad, dk))
    PROVE  /\ \E e \in sent : e.ct = ct /\ e.aad = aad
           /\ SimpleForm(CreateDecryptionShareSimple(at, dkgs[i], Header(ct), aad, dk).val, i, ct, dk)
<1> DEFINE y == Mul(Share(i), KeyOf(i))
           share == CreateShare(y, dk, Header(ct), aad, One)
           d == Mul(Mul(ct.commitment, One), Mul(y, Inv(dk)))
           c == Mul(ct.commitment, Inv(dk))
<1>1. GetShare(at, i) = Ok(y) /\ GetDomainPoint(dkgs[i], i) = Ok(Point(i))
  BY SlotAnswers
<1>2. dkgs[i].me.share_index = i /\ KeyOf(i) \in Fr \ {Zero} /\ Share(i) \in Fr
  BY SlotFacts DEF Established, HolderFacts
<1>3. ct.commitment \in Fr
  BY DEF CiphertextFacts, Circulating
<1>4. \A v : Succeeded(Ok(v)) /\ Ok(v).val = v
  BY DEF Succeeded, Ok
<1>5. Succeeded(share)
      /\ CreateDecryptionShareSimple(at, dkgs[i], Header(ct), aad, dk).val
           = [decryption_share |-> share.val.decryption_share, checksum |-> share.val.checksum,
              domain_point |-> Point(i)]
  <2> HIDE DEF y
  <2> QED
    BY <1>1, <1>2, <1>4 DEF CreateDecryptionShareSimple
<1>6. dk # Zero /\ Succeeded(CheckHeader(Header(ct), aad))
      /\ share.val = [decryption_share |-> d, checksum |-> c]
  <2> HIDE DEF y
  <2> QED
    BY <1>5, CreateShareForm
<1>7. y \in Fr /\ Inv(dk) \in Fr
  BY <1>2, FrClosed
<1>8. d \in Fr /\ c \in Fr
  BY <1>3, <1>7, FrClosed
<1>9. Mul(ct.commitment, One) = ct.commitment
  BY <1>3, FrMultiplicative
<1>10. dk = KeyOf(i) => Mul(y, Inv(dk)) = Share(i)
  BY <1>2, BlindUnblind
<1>11. \E e \in sent : e.ct = ct /\ e.aad = aad
  BY <1>6, CheckedWasSent
<1> HIDE DEF y
<1>12. dk = KeyOf(i) => d = Mul(ct.commitment, Share(i))
  BY <1>9, <1>10
<1>13. CreateDecryptionShareSimple(at, dkgs[i], Header(ct), aad, dk).val
         = [decryption_share |-> d, checksum |-> c, domain_point |-> Point(i)]
  <2> HIDE DEF d, c
  <2> QED
    BY <1>5, <1>6
<1>14. QED
  <2> HIDE DEF d
  <2> QED
    BY <1>8, <1>11, <1>12, <1>13 DEF SimpleForm

-----------------------------------------------------------------------------
\* The points of the slots K in ascending order, and the Lagrange coefficient of k
\* among them.
PointsOfSlots(K) == [j \in 1..Cardinality(K) |-> Point(SortedKeys(K)[j])]
Coefficient(K, k) == PrepareCombineSimple(PointsOfSlots(K))[Rank(K, k)]

\* The slots K in order, their points and their coefficients.
LEMMA PointsFacts ==
    ASSUME Established, NEW K, K \subseteq Slots
    PROVE  /\ IsFiniteSet(K) /\ K \in SUBSET Nat /\ Cardinality(K) \in Nat
           /\ SortedKeys(K) \in [1..Cardinality(K) -> K]
           /\ \A i, j \in 1..Cardinality(K) : SortedKeys(K)[i] = SortedKeys(K)[j] => i = j
           /\ \A k \in K : Rank(K, k) \in 1..Cardinality(K) /\ SortedKeys(K)[Rank(K, k)] = k
           /\ PointsOfSlots(K) \in [1..Cardinality(K) -> Fr \ {Zero}]
           /\ DistinctPoints(PointsOfSlots(K), Cardinality(K))
           /\ PrepareCombineSimple(PointsOfSlots(K)) \in [1..Cardinality(K) -> Fr]
           /\ \A k \in K : Coefficient(K, k) \in Fr
<1> DEFINE n == Cardinality(K)
           keys == SortedKeys(K)
           m == [k \in K |-> k]
<1>1. Slots \subseteq Nat /\ N \in Nat /\ N \in 0..MaxDomain /\ Slots \subseteq 0..(DomainSize(N) - 1)
  BY SlotFacts
<1>2. IsFiniteSet(Slots)
  BY <1>1, FS_Interval DEF Slots, N
<1>3. IsFiniteSet(K) /\ K \in SUBSET Nat
  BY <1>1, <1>2, FS_Subset
<1>4. DOMAIN m = K
  OBVIOUS
<1> HIDE DEF m
<1>5. /\ n \in Nat /\ keys \in [1..n -> K]
      /\ \A i, j \in 1..n : keys[i] = keys[j] => i = j
      /\ \A k \in K : Rank(K, k) \in 1..n /\ keys[Rank(K, k)] = k
  BY <1>3, <1>4, ValuesRanked
<1> HIDE DEF n, keys
<1>6. keys \in [1..n -> 0..(DomainSize(N) - 1)]
  BY <1>1, <1>5
<1>7. PointsOfSlots(K) = [i \in 1..n |-> DomainElement(N, keys[i])]
  BY DEF PointsOfSlots, Point, n, keys
<1>8. /\ PointsOfSlots(K) \in [1..n -> Fr \ {Zero}] /\ PointsOfSlots(K) \in [1..n -> Fr]
      /\ DistinctPoints(PointsOfSlots(K), n)
  BY <1>1, <1>5, <1>6, <1>7, PointList
<1>9. PrepareCombineSimple(PointsOfSlots(K)) \in [1..n -> Fr]
  BY <1>5, <1>8, LagrangeForm
<1>10. \A k \in K : Coefficient(K, k) \in Fr
  BY <1>5, <1>9 DEF Coefficient
<1>11. QED
  BY <1>3, <1>5, <1>8, <1>9, <1>10 DEF n, keys

\* The selected validators' points, as the code collects them.
Selectable(selected) == selected \subseteq ValidatorSet
IndicesOf(selected) == {s.share_index : s \in selected}

\* The code collects the points of exactly the selected slots, by rank.
LEMMA SelectedForm ==
    ASSUME Established, NEW selected \in SUBSET ValidatorSet, NEW i \in Slots,
           NEW K, K = IndicesOf(selected)
    PROVE  /\ K \subseteq Slots
           /\ DOMAIN SelectedPoints(dkgs[i], selected) = K
           /\ i \in K => SelectedCoefficient(SelectedPoints(dkgs[i], selected), i) = Coefficient(K, i)
           /\ Collect([k \in K |-> k]) = SortedKeys(K)
<1> DEFINE points == SelectedPoints(dkgs[i], selected)
           known == {k \in {v.share_index : v \in selected} : Succeeded(GetDomainPoint(dkgs[i], k))}
<1>1. K \subseteq Slots
  <2>1. \A v \in ValidatorSet : v.share_index \in Slots
    BY DEF ValidatorSet, Slots, Established, RitualFacts, WellIndexed
  <2>2. QED
    BY <2>1 DEF IndicesOf
<1>2. \A k \in K : GetDomainPoint(dkgs[i], k) = Ok(Point(k))
  BY <1>1, SlotAnswers
<1>3. \A v : Succeeded(Ok(v)) /\ Ok(v).val = v
  BY DEF Succeeded, Ok
<1>4. known = K
  BY <1>2, <1>3 DEF IndicesOf
<1>5. points = [k \in known |-> GetDomainPoint(dkgs[i], k).val]
  BY DEF SelectedPoints
<1> HIDE DEF known, points
<1>6. points = [k \in K |-> Point(k)]
  BY <1>2, <1>3, <1>4, <1>5
<1>7. /\ IsFiniteSet(K) /\ K \in SUBSET Nat /\ Cardinality(K) \in Nat
      /\ SortedKeys(K) \in [1..Cardinality(K) -> K]
  BY <1>1, PointsFacts
<1>8. Collect(points) = [j \in 1..Cardinality(K) |-> points[SortedKeys(K)[j]]]
  <2>1. DOMAIN points = K
    BY <1>6
  <2>2. QED
    BY <1>7, <2>1, CollectRanked
<1>9. Collect(points) = PointsOfSlots(K)
  BY <1>6, <1>7, <1>8 DEF PointsOfSlots
<1>10. SelectedCoefficient(points, i) = Coefficient(K, i)
  BY <1>6, <1>9 DEF SelectedCoefficient, Coefficient, Rank
<1>11. Collect([k \in K |-> k]) = SortedKeys(K)
  <2> DEFINE m == [k \in K |-> k]
  <2>1. DOMAIN m = K /\ \A k \in K : m[k] = k
    OBVIOUS
  <2> HIDE DEF m
  <2>2. Collect(m) = [j \in 1..Cardinality(K) |-> m[SortedKeys(K)[j]]]
    BY <1>7, <2>1, CollectRanked
  <2>3. QED
    BY <1>7, <2>1, <2>2 DEF m
<1>12. QED
  BY <1>1, <1>6, <1>10, <1>11 DEF points

\* What create_decryption_share_precomputed makes.
PrecomputedForm(r, i, ct, aad, K) ==
    /\ \E e \in sent : e.ct = ct /\ e.aad = aad
    /\ i \in K /\ K \subseteq Slots
    /\ r.val.decryption_share = Mul(Mul(ct.commitment, Coefficient(K, i)), Share(i))

\* What create_decryption_share_precomputed returns.
LEMMA PrecomputedMade ==
    ASSUME Established, CiphertextFacts, NEW i \in Slots, NEW ct \in wire, NEW aad,
           NEW selected, Selectable(selected), NEW K, K = IndicesOf(selected), NEW r,
           r = CreateDecryptionSharePrecomputed(at, dkgs[i], Header(ct), aad, KeyOf(i), selected),
           Succeeded(r)
    PROVE  PrecomputedForm(r, i, ct, aad, K)
<1> DEFINE y == Mul(Share(i), KeyOf(i))
           points == SelectedPoints(dkgs[i], selected)
           share == CreateShare(y, KeyOf(i), Header(ct), aad, SelectedCoefficient(points, i))
<1>1. GetShare(at, i) = Ok(y)
  BY SlotAnswers
<1>2. dkgs[i].me.share_index = i /\ KeyOf(i) \in Fr \ {Zero} /\ Share(i) \in Fr
  BY SlotFacts DEF Established, HolderFacts
<1>3. \A v : Succeeded(Ok(v)) /\ Ok(v).val = v
  BY DEF Succeeded, Ok
<1>4. \A v : ~ Succeeded(Err(v))
  BY DEF Succeeded, Err
<1>5. i \in DOMAIN points /\ Succeeded(share)
      /\ r.val.decryption_share = share.val.decryption_share
  <2> HIDE DEF y, points
  <2> QED
    BY <1>1, <1>2, <1>3, <1>4 DEF CreateDecryptionSharePrecomputed, points
<1>6. /\ K \subseteq Slots /\ DOMAIN points = K
      /\ i \in K => SelectedCoefficient(points, i) = Coefficient(K, i)
  BY SelectedForm DEF Selectable
<1>7. Succeeded(CheckHeader(Header(ct), aad))
      /\ share.val = [decryption_share |-> Mul(Mul(ct.commitment, SelectedCoefficient(points, i)),
                                               Mul(y, Inv(KeyOf(i)))),
                      checksum |-> Mul(ct.commitment, Inv(KeyOf(i)))]
  <2> HIDE DEF y, points
  <2> QED
    BY <1>5, CreateShareForm
<1>8. Mul(y, Inv(KeyOf(i))) = Share(i)
  BY <1>2, BlindUnblind
<1>9. \E e \in sent : e.ct = ct /\ e.aad = aad
  BY <1>7, CheckedWasSent
<1> HIDE DEF y, points, share
<1>10. QED
  BY <1>5, <1>6, <1>7, <1>8, <1>9 DEF PrecomputedForm

-----------------------------------------------------------------------------
\* The contexts setup_simple hands out: one for every element of the domain, and every
\* one knows the points and the blinded shares of all.
LEMMA ContextsForm ==
    ASSUME Established, variant = "contexts"
    PROVE  /\ DOMAIN contexts = 1..DomainSize(N)
           /\ \A k \in DOMAIN contexts :
                /\ contexts[k].index = k - 1 /\ contexts[k].b \in Fr \ {Zero}
                /\ contexts[k].private_key_share = Share(k - 1)
                /\ DOMAIN contexts[k].public = 1..DomainSize(N)
                /\ \A j \in 1..DomainSize(N) :
                     /\ contexts[k].public[j].domain = Point(j - 1)
                     /\ contexts[k].public[j].share_commitment = Share(j - 1)
                     /\ contexts[k].public[j].ek \in Fr \ {Zero}
                     /\ contexts[k].public[j].blinded_key_share
                          = Mul(Share(j - 1), contexts[k].public[j].ek)
<1> DEFINE evals == Fft(phi, N)
           public == [j \in DOMAIN evals |->
                        [domain            |-> DomainElement(N, j - 1),
                         share_commitment  |-> evals[j],
                         blinded_key_share |-> Mul(evals[j], Factors[j]),
                         ek                |-> Factors[j]]]
           size == DomainSize(N)
<1>1. /\ N \in 0..MaxDomain /\ size \in Nat /\ phi \in Seq(Fr) /\ Len(phi) <= size
  BY SlotFacts
<1>2. ritual.shares_num = N /\ ritual \in Rituals
  BY DEF Established, RitualFacts
<1>3. contexts = SetupSimple(phi, N, Factors)
  BY <1>2 DEF Established, ContextFacts
<1>4. \A j \in 1..size : Factors[j] \in Fr \ {Zero}
  <2>1. Factors \in Seq(Fr \ {Zero}) /\ size <= Len(Factors)
    BY <1>2, ContextsAssumption
  <2>2. QED
    BY <1>1, <2>1
<1>5. DOMAIN evals = 1..size /\ \A j \in 1..size : evals[j] = Share(j - 1)
  <2>1. /\ DOMAIN evals = 1..size
        /\ \A i \in 0..(size - 1) : i + 1 \in 1..size /\ evals[i + 1] = Eval(phi, DomainElement(N, i))
    BY <1>1, FftValues
  <2> HIDE DEF evals, size
  <2>2. ASSUME NEW j \in 1..size PROVE evals[j] = Share(j - 1)
    <3>1. PICK i \in 0..(size - 1) : j = i + 1 /\ i = j - 1
      BY <1>1
    <3>2. QED
      BY <2>1, <3>1 DEF Share, Point
  <2>3. QED
    BY <2>1, <2>2
<1>6. contexts = [k \in DOMAIN evals |->
                    [index |-> k - 1, b |-> Factors[k], private_key_share |-> evals[k],
                     public |-> public]]
  BY <1>3 DEF SetupSimple
<1> HIDE DEF evals, size
<1>7. /\ DOMAIN public = 1..size
      /\ \A j \in 1..size : /\ public[j].domain = Point(j - 1) /\ public[j].ek = Factors[j]
                            /\ public[j].share_commitment = Share(j - 1)
                            /\ public[j].blinded_key_share = Mul(Share(j - 1), Factors[j])
  BY <1>5 DEF Point
<1> HIDE DEF public
<1>8. /\ DOMAIN contexts = 1..size
      /\ \A k \in 1..size : /\ contexts[k].index = k - 1 /\ contexts[k].b = Factors[k]
                            /\ contexts[k].private_key_share = Share(k - 1)
                            /\ contexts[k].public = public
  BY <1>5, <1>6
<1>9. ASSUME NEW k \in DOMAIN contexts
      PROVE  /\ contexts[k].index = k - 1 /\ contexts[k].b \in Fr \ {Zero}
             /\ contexts[k].private_key_share = Share(k - 1)
             /\ DOMAIN contexts[k].public = 1..size
             /\ \A j \in 1..size :
                  /\ contexts[k].public[j].domain = Point(j - 1)
                  /\ contexts[k].public[j].share_commitment = Share(j - 1)
                  /\ contexts[k].public[j].ek \in Fr \ {Zero}
                  /\ contexts[k].public[j].blinded_key_share
                       = Mul(Share(j - 1), contexts[k].public[j].ek)
  <2>1. contexts[k].public = public
    BY <1>8
  <2>2. QED
    BY <1>4, <1>7, <1>8, <2>1
<1>10. QED
  BY <1>8, <1>9 DEF size

\* What create_share of a context makes.
LEMMA ContextMade ==
    ASSUME Established, CiphertextFacts, variant = "contexts", NEW k \in DOMAIN contexts,
           NEW ct \in wire, NEW aad, Succeeded(ContextShare(contexts[k], Header(ct), aad))
    PROVE  /\ \E e \in sent : e.ct = ct /\ e.aad = aad
           /\ \E d \in Fr, c \in Fr :
                ContextShare(contexts[k], Header(ct), aad).val
                  = [decryption_share |-> d, checksum |-> c]
<1> DEFINE d == Mul(Mul(ct.commitment, One), contexts[k].private_key_share)
           c == Mul(ct.commitment, Inv(contexts[k].b))
<1>1. contexts[k].b \in Fr /\ contexts[k].private_key_share \in Fr
  <2>1. k - 1 \in 0..(DomainSize(N) - 1)
    BY SlotFacts, ContextsForm
  <2>2. QED
    BY <2>1, SlotFacts, ContextsForm
<1>2. ct.commitment \in Fr
  BY DEF CiphertextFacts, Circulating
<1>3. /\ Succeeded(CheckHeader(Header(ct), aad))
      /\ ContextShare(contexts[k], Header(ct), aad).val = [decryption_share |-> d, checksum |-> c]
  BY ShareFromForm DEF ContextShare
<1>4. d \in Fr /\ c \in Fr
  BY <1>1, <1>2, FrClosed
<1>5. \E e \in sent : e.ct = ct /\ e.aad = aad
  BY <1>3, CheckedWasSent
<1>6. QED
  BY <1>3, <1>4, <1>5

\* The points of a selection as it was given, and what create_share_precomputed makes.
PointsInOrder(order) == [j \in DOMAIN order |-> Point(order[j])]
\* Its coefficient is the one at the position of the context's own index.
LEMMA ContextPrecomputedMade ==
    ASSUME Established, CiphertextFacts, variant = "contexts", NEW k \in DOMAIN contexts,
           NEW ct \in wire, NEW aad, NEW selected \in Selections,
           Succeeded(ContextSharePrecomputed(contexts[k], Header(ct), aad, selected))
    PROVE  /\ \E e \in sent : e.ct = ct /\ e.aad = aad
           /\ \A j \in DOMAIN selected : selected[j] + 1 \in DOMAIN contexts
           /\ k \in DOMAIN selected
           /\ ContextSharePrecomputed(contexts[k], Header(ct), aad, selected).val.decryption_share
                = Mul(Mul(ct.commitment, PrepareCombineSimple(PointsInOrder(selected))[k]), Share(k - 1))
<1> DEFINE c == contexts[k]
           xs == [j \in DOMAIN selected |-> c.public[selected[j] + 1].domain]
           lambda == PrepareCombineSimple(xs)
<1>1. \A e : ~ Succeeded(Panic(e))
  BY DEF Succeeded, Panic
<1>2. c.index + 1 = k
  <2>1. c.index = k - 1 /\ k \in Nat
    BY SlotFacts, ContextsForm
  <2>2. QED
    BY <2>1
<1>3. /\ \A j \in DOMAIN selected : selected[j] + 1 \in DOMAIN c.public
      /\ k \in DOMAIN lambda
      /\ ContextSharePrecomputed(c, Header(ct), aad, selected)
           = ShareFrom(c.private_key_share, c.b, Header(ct), aad, lambda[k])
  <2>1. ContextSharePrecomputed(c, Header(ct), aad, selected)
          = IF \E j \in DOMAIN selected : selected[j] + 1 \notin DOMAIN c.public
            THEN Panic("public_decryption_contexts")
            ELSE IF c.index + 1 \notin DOMAIN lambda THEN Panic("lagrange_coeffs")
            ELSE ShareFrom(c.private_key_share, c.b, Header(ct), aad, lambda[c.index + 1])
    BY DEF ContextSharePrecomputed
  <2>2. Succeeded(ContextSharePrecomputed(c, Header(ct), aad, selected))
    OBVIOUS
  <2> HIDE DEF c, lambda
  <2>3. QED
    BY <1>1, <1>2, <2>1, <2>2
<1>4. DOMAIN lambda = DOMAIN selected
  BY DEF PrepareCombineSimple, LagrangeBasisAt
<1>5. selected \in Seq(Nat)
  BY ContextsAssumption
<1>6. \A j \in DOMAIN selected :
        /\ selected[j] + 1 \in 1..DomainSize(N) /\ (selected[j] + 1) - 1 = selected[j]
        /\ c.public[selected[j] + 1].domain = Point(selected[j])
  <2>1. DOMAIN c.public = 1..DomainSize(N) /\ \A j \in 1..DomainSize(N) : c.public[j].domain = Point(j - 1)
    BY ContextsForm
  <2> HIDE DEF c
  <2>2. ASSUME NEW j \in DOMAIN selected
        PROVE  /\ selected[j] + 1 \in 1..DomainSize(N) /\ (selected[j] + 1) - 1 = selected[j]
               /\ c.public[selected[j] + 1].domain = Point(selected[j])
    <3>1. selected[j] \in Nat
      BY <1>5
    <3>2. PICK m \in 1..DomainSize(N) : m = selected[j] + 1 /\ m - 1 = selected[j]
      BY <1>3, <2>1, <3>1
    <3>3. QED
      BY <2>1, <3>2
  <2>3. QED
    BY <2>2
<1>7. xs = PointsInOrder(selected)
  BY <1>6 DEF PointsInOrder
<1>8. /\ Succeeded(CheckHeader(Header(ct), aad))
      /\ ShareFrom(c.private_key_share, c.b, Header(ct), aad, lambda[k]).val
           = [decryption_share |-> Mul(Mul(ct.commitment, lambda[k]), c.private_key_share),
              checksum |-> Mul(ct.commitment, Inv(c.b))]
  <2> HIDE DEF lambda, c
  <2> QED
    BY <1>3, ShareFromForm DEF c
<1>9. c.private_key_share = Share(k - 1)
  BY ContextsForm
<1>10. \E e \in sent : e.ct = ct /\ e.aad = aad
  BY <1>8, CheckedWasSent
<1>11. \A j \in DOMAIN selected : selected[j] + 1 \in DOMAIN contexts
  BY <1>6, ContextsForm
<1> HIDE DEF xs, c
<1>12. QED
  BY <1>3, <1>4, <1>7, <1>8, <1>9, <1>10, <1>11 DEF c

-----------------------------------------------------------------------------
\* What is known of a share in circulation, whoever made it, by the variant in use.
SimpleFacts(s) ==
    /\ s.index \in Slots /\ s.share.checksum \in Fr /\ s.share.domain_point \in Fr \ {Zero}
    /\ s.made => /\ s.share.decryption_share = Mul(s.header.commitment, Share(s.index))
                 /\ s.share.checksum = Mul(s.header.commitment, Inv(KeyOf(s.index)))
                 /\ s.share.domain_point = Point(s.index)

PrecomputedFacts(s) ==
    /\ s.index \in Slots
    /\ \E K \in SUBSET Slots :
         /\ s.index \in K /\ s.order = SortedKeys(K)
         /\ s.share.decryption_share
              = Mul(Mul(s.header.commitment, Coefficient(K, s.index)), Share(s.index))

ContextShareFacts(s) ==
    /\ s.index \in Nat /\ s.index + 1 \in DOMAIN contexts
    /\ s.order = <<>> => s.share.checksum \in Fr
    /\ s.order # <<>> =>
         /\ s.order \in Seq(Nat) /\ s.index + 1 \in DOMAIN s.order
         /\ \A j \in DOMAIN s.order : s.order[j] + 1 \in DOMAIN contexts
         /\ s.share.decryption_share
              = Mul(Mul(s.header.commitment,
                        PrepareCombineSimple(PointsInOrder(s.order))[s.index + 1]),
                    Share(s.index))

ShareFacts(s) ==
    /\ \E e \in sent : Header(e.ct) = s.header /\ e.aad = s.aad
    /\ s.share.decryption_share \in Fr
    /\ variant = "simple" => SimpleFacts(s)
    /\ variant = "precomputed" => PrecomputedFacts(s)
    /\ variant = "contexts" => ContextShareFacts(s)

\* What a faulty validator makes of a share still has the parts of one.
LEMMA SpoilParts ==
    ASSUME NEW how \in Faults, NEW d \in Fr, NEW c \in Fr, NEW x \in Fr \ {Zero},
           NEW v, v = [decryption_share |-> d, checksum |-> c, domain_point |-> x]
    PROVE  /\ Spoil(how, v).decryption_share \in Fr
           /\ Spoil(how, v).checksum \in Fr
           /\ Spoil(how, v).domain_point \in Fr \ {Zero}
<1>1. how \in {"share", "checksum", "both", "point"}
  BY FaultsAssumption
<1>2. /\ Add(d, One) \in Fr /\ Add(d, d) \in Fr /\ Add(c, One) \in Fr /\ Add(c, c) \in Fr
      /\ Neg(One) \in Fr /\ Mul(x, Neg(One)) \in Fr
  BY FrClosed
<1>3. Mul(x, Neg(One)) # Zero
  <2>1. Neg(One) # Zero
    <3>1. Add(One, Zero) = One /\ Add(One, Neg(One)) = Zero
      BY FrClosed, FrAdditive
    <3>2. QED
      BY <3>1, FrClosed
  <2>2. QED
    BY <1>2, <2>1, NoZeroDivisors
<1>4. CASE how = "share"
  <2>1. Spoil(how, v) = [v EXCEPT !.decryption_share = Add(@, One)]
    BY <1>4 DEF Spoil
  <2>2. QED
    BY <1>2, <2>1
<1>5. CASE how = "checksum"
  <2>1. Spoil(how, v) = [v EXCEPT !.checksum = Add(@, One)]
    BY <1>5 DEF Spoil
  <2>2. QED
    BY <1>2, <2>1
<1>6. CASE how = "both"
  <2>1. Spoil(how, v) = [v EXCEPT !.decryption_share = Add(@, @), !.checksum = Add(@, @)]
    BY <1>6 DEF Spoil
  <2>2. QED
    BY <1>2, <2>1
<1>7. CASE how = "point"
  <2>1. Spoil(how, v) = [v EXCEPT !.domain_point = Mul(@, Neg(One))]
    BY <1>7 DEF Spoil
  <2>2. QED
    BY <1>2, <1>3, <2>1
<1>8. QED
  BY <1>1, <1>4, <1>5, <1>6, <1>7

\* The same for a share of a context, which has no point.
LEMMA SpoilContextParts ==
    ASSUME NEW how \in Faults, how # "point", NEW d \in Fr, NEW c \in Fr,
           NEW v, v = [decryption_share |-> d, checksum |-> c]
    PROVE  Spoil(how, v).decryption_share \in Fr /\ Spoil(how, v).checksum \in Fr
<1>1. how \in {"share", "checksum", "both"}
  BY FaultsAssumption
<1>2. Add(d, One) \in Fr /\ Add(d, d) \in Fr /\ Add(c, One) \in Fr /\ Add(c, c) \in Fr
  BY FrClosed
<1>4. CASE how = "share"
  <2>1. Spoil(how, v) = [v EXCEPT !.decryption_share = Add(@, One)]
    BY <1>4 DEF Spoil
  <2>2. QED
    BY <1>2, <2>1
<1>5. CASE how = "checksum"
  <2>1. Spoil(how, v) = [v EXCEPT !.checksum = Add(@, One)]
    BY <1>5 DEF Spoil
  <2>2. QED
    BY <1>2, <2>1
<1>6. CASE how = "both"
  <2>1. Spoil(how, v) = [v EXCEPT !.decryption_share = Add(@, @), !.checksum = Add(@, @)]
    BY <1>6 DEF Spoil
  <2>2. QED
    BY <1>2, <2>1
<1>8. QED
  BY <1>1, <1>4, <1>5, <1>6

\* The commitment of a header.
LEMMA HeaderCommitment ==
    ASSUME NEW ct
    PROVE  Header(ct).commitment = ct.commitment
BY DEF Header

\* Every share that a step publishes is as ShareFacts says.
Record(index, ct, aad, order, made, share) ==
    [index |-> index, header |-> Header(ct), aad |-> aad,
     order |-> order, made |-> made, share |-> share]

\* A simple share in circulation, own, made with a wrong key or spoiled.
LEMMA SimplePublished ==
    ASSUME Established, CiphertextFacts, variant = "simple", NEW i \in Slots, NEW ct \in wire, NEW aad
    PROVE  /\ \A dk \in Keys \cup {KeyOf(i)} :
                LET r == CreateDecryptionShareSimple(at, dkgs[i], Header(ct), aad, dk)
                IN  Succeeded(r) => ShareFacts(Record(i, ct, aad, <<>>, dk = KeyOf(i), r.val))
           /\ \A how \in Faults :
                LET r == CreateDecryptionShareSimple(at, dkgs[i], Header(ct), aad, KeyOf(i))
                IN  Succeeded(r) => ShareFacts(Record(i, ct, aad, <<>>, FALSE, Spoil(how, r.val)))
<1>0. KeyOf(i) \in Fr /\ Point(i) \in Fr \ {Zero}
  BY SlotFacts DEF Established, HolderFacts
<1>1. ASSUME NEW dk \in Keys \cup {KeyOf(i)},
             Succeeded(CreateDecryptionShareSimple(at, dkgs[i], Header(ct), aad, dk))
      PROVE  ShareFacts(Record(i, ct, aad, <<>>, dk = KeyOf(i),
                   CreateDecryptionShareSimple(at, dkgs[i], Header(ct), aad, dk).val))
  <2>1. PICK v : v = CreateDecryptionShareSimple(at, dkgs[i], Header(ct), aad, dk).val
    OBVIOUS
  <2>2. dk \in Fr
    BY <1>0, DrawsAssumption
  <2>3. PICK e \in sent : e.ct = ct /\ e.aad = aad
    BY <1>1, <2>2, SimpleMade
  <2>4. PICK d \in Fr, c \in Fr :
                /\ v = [decryption_share |-> d, checksum |-> c, domain_point |-> Point(i)]
                /\ dk = KeyOf(i) => /\ d = Mul(ct.commitment, Share(i))
                                    /\ c = Mul(ct.commitment, Inv(dk))
    BY <1>1, <2>1, <2>2, SimpleMade DEF SimpleForm
  <2>5. PICK s : s = Record(i, ct, aad, <<>>, dk = KeyOf(i), v)
    OBVIOUS
  <2>6. /\ s.index = i /\ s.header = Header(ct) /\ s.aad = aad /\ s.share = v
        /\ s.made <=> dk = KeyOf(i)
    BY <2>5 DEF Record
  <2>7. SimpleFacts(s)
    BY <1>0, <2>4, <2>6, HeaderCommitment DEF SimpleFacts
  <2>8. s.share.decryption_share \in Fr
    BY <2>4, <2>6
  <2>9. ShareFacts(s)
    BY <2>3, <2>6, <2>7, <2>8 DEF ShareFacts
  <2>10. QED
    BY <2>1, <2>5, <2>9
<1>2. ASSUME NEW how \in Faults,
             Succeeded(CreateDecryptionShareSimple(at, dkgs[i], Header(ct), aad, KeyOf(i)))
      PROVE  ShareFacts(Record(i, ct, aad, <<>>, FALSE,
                   Spoil(how, CreateDecryptionShareSimple(at, dkgs[i], Header(ct), aad, KeyOf(i)).val)))
  <2>1. PICK v : v = CreateDecryptionShareSimple(at, dkgs[i], Header(ct), aad, KeyOf(i)).val
    OBVIOUS
  <2>2. PICK dk \in Fr : dk = KeyOf(i)
    BY <1>0
  <2>a. Succeeded(CreateDecryptionShareSimple(at, dkgs[i], Header(ct), aad, dk))
    BY <1>2, <2>2
  <2>b. v = CreateDecryptionShareSimple(at, dkgs[i], Header(ct), aad, dk).val
    BY <2>1, <2>2
  <2>3. PICK e \in sent : e.ct = ct /\ e.aad = aad
    BY <2>a, SimpleMade
  <2>4. PICK d \in Fr, c \in Fr :
                /\ v = [decryption_share |-> d, checksum |-> c, domain_point |-> Point(i)]
                /\ dk = KeyOf(i) => /\ d = Mul(ct.commitment, Share(i))
                                    /\ c = Mul(ct.commitment, Inv(dk))
    <3>1. SimpleForm(v, i, ct, dk)
      BY <2>a, <2>b, SimpleMade
    <3>2. QED
      BY <3>1 DEF SimpleForm
  <2>5. PICK w : w = Spoil(how, v)
    OBVIOUS
  <2>6. w.decryption_share \in Fr /\ w.checksum \in Fr /\ w.domain_point \in Fr \ {Zero}
    BY <1>0, <2>4, <2>5, SpoilParts
  <2>7. PICK s : s = Record(i, ct, aad, <<>>, FALSE, w)
    OBVIOUS
  <2>8. s.index = i /\ s.header = Header(ct) /\ s.aad = aad /\ s.share = w /\ s.made = FALSE
    BY <2>7 DEF Record
  <2>9. SimpleFacts(s)
    BY <2>6, <2>8 DEF SimpleFacts
  <2>10. ShareFacts(s)
    BY <2>3, <2>6, <2>8, <2>9 DEF ShareFacts
  <2>11. QED
    BY <2>1, <2>5, <2>7, <2>10
<1>3. QED
  BY <1>1, <1>2, Zenon

-----------------------------------------------------------------------------
\* The other three ways to publish a share.
LEMMA PrecomputedPublished ==
    ASSUME Established, CiphertextFacts, variant = "precomputed", NEW i \in Slots, NEW ct \in wire,
           NEW aad, NEW selected \in SUBSET ValidatorSet, NEW r,
           r = CreateDecryptionSharePrecomputed(at, dkgs[i], Header(ct), aad, KeyOf(i), selected),
           Succeeded(r)
    PROVE  ShareFacts(Record(i, ct, aad, Collect([k \in {s.share_index : s \in selected} |-> k]), TRUE, r.val))
<1>1. PICK K : K = IndicesOf(selected)
  OBVIOUS
<1>2. /\ \E e \in sent : e.ct = ct /\ e.aad = aad
      /\ i \in K /\ K \subseteq Slots
      /\ r.val.decryption_share = Mul(Mul(ct.commitment, Coefficient(K, i)), Share(i))
  <2>1. Selectable(selected)
    BY DEF Selectable
  <2>2. PrecomputedForm(r, i, ct, aad, K)
    BY <1>1, <2>1, PrecomputedMade
  <2>3. QED
    BY <2>2 DEF PrecomputedForm
<1>3. Collect([k \in K |-> k]) = SortedKeys(K)
  BY <1>1, SelectedForm
<1>4. ct.commitment \in Fr /\ Share(i) \in Fr
  BY SlotFacts DEF CiphertextFacts, Circulating
<1>5. Coefficient(K, i) \in Fr
  BY <1>2, PointsFacts
<1>6. r.val.decryption_share \in Fr
  BY <1>2, <1>4, <1>5, FrClosed
<1>7. PICK s : s = Record(i, ct, aad, SortedKeys(K), TRUE, r.val)
  OBVIOUS
<1>8. /\ s.index = i /\ s.header = Header(ct) /\ s.aad = aad /\ s.share = r.val
      /\ s.order = SortedKeys(K)
  BY <1>7 DEF Record
<1>9. s.header.commitment = ct.commitment
  BY <1>8, HeaderCommitment
<1>10. PrecomputedFacts(s)
  BY <1>2, <1>8, <1>9 DEF PrecomputedFacts
<1>11. ShareFacts(s)
  BY <1>2, <1>6, <1>8, <1>10 DEF ShareFacts
<1>12. QED
  BY <1>1, <1>3, <1>7, <1>11 DEF IndicesOf

\* A share of a context in circulation, own or spoiled.
LEMMA ContextPublished ==
    ASSUME Established, CiphertextFacts, variant = "contexts", NEW k \in DOMAIN contexts,
           NEW ct \in wire, NEW aad, NEW r, r = ContextShare(contexts[k], Header(ct), aad), Succeeded(r)
    PROVE  /\ ShareFacts(Record(contexts[k].index, ct, aad, <<>>, TRUE, r.val))
           /\ \A how \in Faults : how # "point" =>
                ShareFacts(Record(contexts[k].index, ct, aad, <<>>, FALSE, Spoil(how, r.val)))
<1>1. contexts[k].index \in Nat /\ contexts[k].index + 1 = k
  <2>1. contexts[k].index = k - 1 /\ k \in 1..DomainSize(N)
    BY ContextsForm
  <2>2. QED
    BY <2>1, SlotFacts
<1>2. PICK e \in sent : e.ct = ct /\ e.aad = aad
  BY ContextMade
<1>3. PICK d \in Fr, c \in Fr : r.val = [decryption_share |-> d, checksum |-> c]
  BY ContextMade
<1>4. ASSUME NEW made, NEW v, v.decryption_share \in Fr, v.checksum \in Fr
      PROVE  ShareFacts(Record(contexts[k].index, ct, aad, <<>>, made, v))
  <2>1. PICK s : s = Record(contexts[k].index, ct, aad, <<>>, made, v)
    OBVIOUS
  <2>2. /\ s.index = contexts[k].index /\ s.header = Header(ct) /\ s.aad = aad /\ s.share = v
        /\ s.order = <<>>
    BY <2>1 DEF Record
  <2>3. ContextShareFacts(s)
    BY <1>1, <1>4, <2>2 DEF ContextShareFacts
  <2>4. ShareFacts(s)
    BY <1>2, <1>4, <2>2, <2>3 DEF ShareFacts
  <2>5. QED
    BY <2>1, <2>4
<1>5. ShareFacts(Record(contexts[k].index, ct, aad, <<>>, TRUE, r.val))
  BY <1>3, <1>4
<1>6. ASSUME NEW how \in Faults, how # "point"
      PROVE  ShareFacts(Record(contexts[k].index, ct, aad, <<>>, FALSE, Spoil(how, r.val)))
  BY <1>3, <1>4, <1>6, SpoilContextParts
<1>7. QED
  BY <1>5, <1>6

\* A precomputed share of a context in circulation.
LEMMA ContextPrecomputedPublished ==
    ASSUME Established, CiphertextFacts, variant = "contexts", NEW k \in DOMAIN contexts,
           NEW ct \in wire, NEW aad, NEW selected \in Selections, NEW r,
           r = ContextSharePrecomputed(contexts[k], Header(ct), aad, selected), Succeeded(r)
    PROVE  ShareFacts(Record(contexts[k].index, ct, aad, selected, TRUE, r.val))
<1>1. contexts[k].index \in Nat /\ contexts[k].index + 1 = k /\ contexts[k].index = k - 1
      /\ k - 1 \in 0..(DomainSize(N) - 1)
  <2>1. contexts[k].index = k - 1 /\ k \in 1..DomainSize(N)
    BY ContextsForm
  <2>2. QED
    BY <2>1, SlotFacts
<1> DEFINE lambda == PrepareCombineSimple(PointsInOrder(selected))
<1>2. /\ \E e \in sent : e.ct = ct /\ e.aad = aad
      /\ \A j \in DOMAIN selected : selected[j] + 1 \in DOMAIN contexts
      /\ k \in DOMAIN selected
      /\ r.val.decryption_share = Mul(Mul(ct.commitment, lambda[k]), Share(k - 1))
  BY ContextPrecomputedMade
<1>3. selected \in Seq(Nat)
  BY ContextsAssumption
<1>4. lambda[k] \in Fr
  <2>1. Len(selected) \in Nat /\ DOMAIN selected = 1..Len(selected)
    BY <1>3
  <2>2. \A j \in DOMAIN selected : selected[j] \in 0..(DomainSize(N) - 1)
    <3>1. DOMAIN contexts = 1..DomainSize(N)
      BY ContextsForm
    <3>2. QED
      BY SMTT(60), <1>2, <1>3, <3>1, SlotFacts
  <2>3. PointsInOrder(selected) \in [1..Len(selected) -> Fr]
    BY <2>1, <2>2, SlotFacts DEF PointsInOrder
  <2>4. lambda \in [1..Len(selected) -> Fr]
    BY <2>1, <2>3, LagrangeForm
  <2> HIDE DEF lambda
  <2>5. QED
    BY <1>2, <2>1, <2>4
<1>5. ct.commitment \in Fr /\ Share(k - 1) \in Fr
  BY <1>1, SlotFacts DEF CiphertextFacts, Circulating
<1> HIDE DEF lambda
<1>6. r.val.decryption_share \in Fr
  BY <1>2, <1>4, <1>5, FrClosed
<1>7. PICK s : s = Record(contexts[k].index, ct, aad, selected, TRUE, r.val)
  OBVIOUS
<1>8. /\ s.index = contexts[k].index /\ s.header = Header(ct) /\ s.aad = aad /\ s.share = r.val
      /\ s.order = selected
  BY <1>7 DEF Record
<1>9. s.header.commitment = ct.commitment
  BY <1>8, HeaderCommitment
<1>10. ContextShareFacts(s)
  <2>1. s.index \in Nat /\ s.index + 1 = k /\ s.index = k - 1
    BY <1>1, <1>8
  <2>2. s.order # <<>>
    BY <1>2, <1>8
  <2>3. s.share.decryption_share = Mul(Mul(s.header.commitment, lambda[s.index + 1]), Share(s.index))
    BY <1>2, <1>8, <1>9, <2>1
  <2>4. QED
    BY <1>2, <1>3, <1>8, <2>1, <2>2, <2>3 DEF ContextShareFacts, lambda
<1>11. QED
  BY <1>2, <1>6, <1>7, <1>8, <1>10 DEF ShareFacts

\* Every share a step adds is as ShareFacts says.
LEMMA NewShares ==
    ASSUME Established, CiphertextFacts, [Next]_vars, NEW s \in shares'
    PROVE  s \in shares \/ ShareFacts(s)
<1>0. \A i, ct, aad, order, made, v :
        Publish(i, ct, aad, order, made, v) /\ ShareFacts(Record(i, ct, aad, order, made, v))
          => s \in shares \/ ShareFacts(s)
  BY DEF Publish, Record
<1>1. CASE UNCHANGED vars
  BY <1>1 DEF vars
<1>2. CASE \E msg \in Messages, aad \in Aads, r \in Scalars : DoEncrypt(msg, aad, r)
  BY <1>2 DEF DoEncrypt
<1>3. CASE \E how \in Damages, a, b, c \in wire : Damage(how, a, b, c)
  BY <1>3 DEF Damage
<1>4. CASE NextSimple
  <2>1. PICK ct \in wire, aad \in Aads :
          \/ \E i \in Slots :
                \/ \E dk \in Keys \cup {dkgs[i].me.ek} : CreateSimple(i, ct, aad, dk)
                \/ \E how \in Faults : SpoilSimple(i, ct, aad, how)
          \/ \E basket \in Baskets(shares) : DecryptSimple(ct, aad, basket)
    BY <1>4 DEF NextSimple
  <2>2. variant = "simple"
    BY <1>4 DEF NextSimple
  <2>3. ASSUME NEW i \in Slots, NEW dk \in Keys \cup {dkgs[i].me.ek}, CreateSimple(i, ct, aad, dk)
        PROVE  s \in shares \/ ShareFacts(s)
    <3>1. PICK r : r = CreateDecryptionShareSimple(at, dkgs[i], Header(ct), aad, dk)
      OBVIOUS
    <3>2. Succeeded(r) /\ Publish(i, ct, aad, <<>>, dk = KeyOf(i), r.val)
      BY <2>3, <3>1 DEF CreateSimple, KeyOf
    <3>3. dk \in Keys \cup {KeyOf(i)}
      BY DEF KeyOf
    <3>4. ShareFacts(Record(i, ct, aad, <<>>, dk = KeyOf(i), r.val))
      BY <2>2, <3>1, <3>2, <3>3, SimplePublished
    <3>5. QED
      BY <1>0, <3>2, <3>4
  <2>4. ASSUME NEW i \in Slots, NEW how \in Faults, SpoilSimple(i, ct, aad, how)
        PROVE  s \in shares \/ ShareFacts(s)
    <3>1. PICK r : r = CreateDecryptionShareSimple(at, dkgs[i], Header(ct), aad, KeyOf(i))
      OBVIOUS
    <3>2. Succeeded(r) /\ Publish(i, ct, aad, <<>>, FALSE, Spoil(how, r.val))
      BY <2>4, <3>1 DEF SpoilSimple, KeyOf
    <3>4. ShareFacts(Record(i, ct, aad, <<>>, FALSE, Spoil(how, r.val)))
      BY <2>2, <3>1, <3>2, SimplePublished
    <3>5. QED
      BY <1>0, <3>2, <3>4
  <2>5. CASE \E basket \in Baskets(shares) : DecryptSimple(ct, aad, basket)
    BY <2>5 DEF DecryptSimple, DecryptWith
  <2>6. QED
    BY <2>1, <2>3, <2>4, <2>5
<1>5. CASE NextPrecomputed
  <2>1. PICK ct \in wire, aad \in Aads :
          \/ \E i \in Slots, selected \in SUBSET ValidatorSet : CreatePrecomputed(i, ct, aad, selected)
          \/ \E basket \in Baskets(shares) : DecryptPrecomputed("precomputed", ct, aad, basket)
    BY <1>5 DEF NextPrecomputed
  <2>2. variant = "precomputed"
    BY <1>5 DEF NextPrecomputed
  <2>3. ASSUME NEW i \in Slots, NEW selected \in SUBSET ValidatorSet,
               CreatePrecomputed(i, ct, aad, selected)
        PROVE  s \in shares \/ ShareFacts(s)
    <3>1. PICK r : r = CreateDecryptionSharePrecomputed(at, dkgs[i], Header(ct), aad, KeyOf(i), selected)
      OBVIOUS
    <3>2. PICK order : order = Collect([k \in {v.share_index : v \in selected} |-> k])
      OBVIOUS
    <3>3. Succeeded(r) /\ Publish(i, ct, aad, order, TRUE, r.val)
      BY <2>3, <3>1, <3>2 DEF CreatePrecomputed, KeyOf
    <3>4. ShareFacts(Record(i, ct, aad, order, TRUE, r.val))
      BY <2>2, <3>1, <3>2, <3>3, PrecomputedPublished
    <3>5. QED
      BY <1>0, <3>3, <3>4
  <2>5. CASE \E basket \in Baskets(shares) : DecryptPrecomputed("precomputed", ct, aad, basket)
    BY <2>5 DEF DecryptPrecomputed, DecryptWith
  <2>6. QED
    BY <2>1, <2>3, <2>5
<1>6. CASE NextContexts
  <2>1. PICK ct \in wire, aad \in Aads :
             \/ \E k \in DOMAIN contexts :
                   \/ CreateByContext(contexts[k], ct, aad)
                   \/ \E how \in Faults : SpoilByContext(contexts[k], ct, aad, how)
                   \/ \E selected \in Selections :
                         CreateByContextPrecomputed(contexts[k], ct, aad, selected)
             \/ \E basket, indices : DecryptByContexts(ct, aad, basket, indices)
             \/ \E basket : DecryptPrecomputed("contexts_precomputed", ct, aad, basket)
    BY <1>6, Zenon DEF NextContexts
  <2>2. variant = "contexts"
    BY <1>6 DEF NextContexts
  <2>3. ASSUME NEW k \in DOMAIN contexts, CreateByContext(contexts[k], ct, aad)
        PROVE  s \in shares \/ ShareFacts(s)
    <3>1. PICK r : r = ContextShare(contexts[k], Header(ct), aad)
      OBVIOUS
    <3>2. Succeeded(r) /\ Publish(contexts[k].index, ct, aad, <<>>, TRUE, r.val)
      BY <2>3, <3>1 DEF CreateByContext
    <3>3. ShareFacts(Record(contexts[k].index, ct, aad, <<>>, TRUE, r.val))
      BY <2>2, <3>1, <3>2, ContextPublished
    <3>4. QED
      BY <1>0, <3>2, <3>3
  <2>4. ASSUME NEW k \in DOMAIN contexts, NEW how \in Faults, SpoilByContext(contexts[k], ct, aad, how)
        PROVE  s \in shares \/ ShareFacts(s)
    <3>1. PICK r : r = ContextShare(contexts[k], Header(ct), aad)
      OBVIOUS
    <3>2. Succeeded(r) /\ how # "point" /\ Publish(contexts[k].index, ct, aad, <<>>, FALSE, Spoil(how, r.val))
      BY <2>4, <3>1 DEF SpoilByContext
    <3>3. ShareFacts(Record(contexts[k].index, ct, aad, <<>>, FALSE, Spoil(how, r.val)))
      BY <2>2, <3>1, <3>2, ContextPublished
    <3>4. QED
      BY <1>0, <3>2, <3>3
  <2>5. ASSUME NEW k \in DOMAIN contexts, NEW selected \in Selections,
               CreateByContextPrecomputed(contexts[k], ct, aad, selected)
        PROVE  s \in shares \/ ShareFacts(s)
    <3>1. PICK r : r = ContextSharePrecomputed(contexts[k], Header(ct), aad, selected)
      OBVIOUS
    <3>2. Succeeded(r) /\ Publish(contexts[k].index, ct, aad, selected, TRUE, r.val)
      BY <2>5, <3>1 DEF CreateByContextPrecomputed
    <3>3. ShareFacts(Record(contexts[k].index, ct, aad, selected, TRUE, r.val))
      BY <2>2, <3>1, <3>2, ContextPrecomputedPublished
    <3>4. QED
      BY <1>0, <3>2, <3>3
  <2>6. CASE \E basket, indices : DecryptByContexts(ct, aad, basket, indices)
    BY <2>6 DEF DecryptByContexts, DecryptWith
  <2>7. CASE \E basket : DecryptPrecomputed("contexts_precomputed", ct, aad, basket)
    BY <2>7 DEF DecryptPrecomputed, DecryptWith
  <2>8. QED
    BY <2>1, <2>3, <2>4, <2>5, <2>6, <2>7
<1>7. CASE HaveResult
  BY <1>7 DEF HaveResult
<1>8. QED
  BY <1>1, <1>2, <1>3, <1>4, <1>5, <1>6, <1>7 DEF Next

\* ShareFacts stays true of a share, whatever happens after it was published.
LEMMA SharesKept ==
    ASSUME Established, CiphertextFacts, \A s \in shares : ShareFacts(s), [Next]_vars
    PROVE  \A s \in shares' : ShareFacts(s)'
<1> SUFFICES ASSUME NEW s \in shares' PROVE ShareFacts(s)'
  OBVIOUS
<1>1. ShareFacts(s)
  BY NewShares
<1>2. UNCHANGED <<variant, ritual, phi, dkgs, at, contexts>>
  BY SetupKept DEF setup
<1>3. sent \subseteq sent'
  BY CiphertextsKept
<1>4. \A k : Share(k)' = Share(k) /\ Point(k)' = Point(k) /\ KeyOf(k)' = KeyOf(k)
  BY <1>2 DEF Share, Point, N, KeyOf
<1>5. Slots' = Slots
  BY <1>2 DEF Slots
<1>6. \A K, k : Coefficient(K, k)' = Coefficient(K, k)
  BY <1>4 DEF Coefficient, PointsOfSlots
<1>7. \A o : PointsInOrder(o)' = PointsInOrder(o)
  BY <1>4 DEF PointsInOrder
<1>8. variant = "simple" => SimpleFacts(s)'
  BY <1>1, <1>4, <1>5 DEF ShareFacts, SimpleFacts
<1>9. variant = "precomputed" => PrecomputedFacts(s)'
  BY <1>1, <1>4, <1>5, <1>6 DEF ShareFacts, PrecomputedFacts
<1>10. variant = "contexts" => ContextShareFacts(s)'
  BY <1>1, <1>2, <1>4, <1>7 DEF ShareFacts, ContextShareFacts
<1>11. QED
  BY <1>1, <1>2, <1>3, <1>8, <1>9, <1>10 DEF ShareFacts

-----------------------------------------------------------------------------
\* The last decryption: what was opened with which secret.
Answered(kind, secret) ==
    out.variant = kind /\ out.res = DecryptWithSharedSecret(out.ct, out.aad, secret)
OutSimple ==
    /\ variant = "simple" /\ out.basket \in Baskets(shares)
    /\ Answered("simple", CombineSharesSimple(Bare(out.basket)))
OutPrecomputed ==
    /\ variant = "precomputed" /\ out.basket \in Baskets(shares)
    /\ Answered("precomputed", ShareCombinePrecomputed(Bare(out.basket)))
OutContexts ==
    /\ variant = "contexts" /\ out.basket \in Baskets(Simple)
    /\ out.pubs \in Seq(Nat) /\ \A k \in DOMAIN out.pubs : out.pubs[k] + 1 \in DOMAIN contexts
    /\ Answered("contexts", CreateSharedSecretSimple(PublicContexts(out.pubs), Bare(out.basket)))
OutContextsPrecomputed ==
    /\ variant = "contexts" /\ out.basket \in Baskets(shares \ Simple)
    /\ Answered("contexts_precomputed", ShareCombinePrecomputed(Bare(out.basket)))
OutFacts ==
    out # Idle =>
        /\ out.ct \in wire
        /\ OutSimple \/ OutPrecomputed \/ OutContexts \/ OutContextsPrecomputed

\* The inductive invariant.
DInv == /\ Established /\ CiphertextFacts
        /\ \A s \in shares : ShareFacts(s)
        /\ OutFacts

\* A basket holds at least one share, all of them in circulation.
LEMMA BasketFacts ==
    ASSUME NEW S, NEW basket \in Baskets(S)
    PROVE  \E m \in Nat \ {0} : basket \in [1..m -> S] /\ DOMAIN basket = 1..m /\ Len(basket) = m
<1>1. PICK m \in 1..MaxBasket : basket \in [1..m -> S]
  BY DEF Baskets
<1>2. m \in Nat \ {0}
  OBVIOUS
<1>3. basket \in Seq(S) /\ Len(basket) = m
  BY <1>1, <1>2
<1>4. QED
  BY <1>1, <1>2, <1>3

\* The contexts beside a basket are a list of indices.
LEMMA BesideType ==
    ASSUME NEW basket, NEW m \in Nat, DOMAIN basket = 1..m, Len(basket) = m,
           \A k \in 1..m : basket[k].index \in Nat, NEW indices \in Beside(basket), m # 0
    PROVE  indices \in Seq(Nat)
<1>1. PICK n \in (m - 1)..(m + 1) :
        \/ indices = [k \in 1..n |-> IF k \in DOMAIN basket THEN basket[k].index ELSE k - 1]
        \/ indices = [k \in 1..n |-> k - 1]
  BY DEF Beside
<1>2. n \in Nat
  OBVIOUS
<1>3. indices \in [1..n -> Nat]
  BY <1>1, <1>2
<1>4. QED
  BY <1>2, <1>3

\* Only a decryption leaves a result.
LEMMA DecryptSteps ==
    ASSUME [Next]_vars
    PROVE  \/ UNCHANGED vars
           \/ out' = Idle
           \/ \E ct \in wire, aad \in Aads :
                \/ /\ variant = "simple"
                   /\ \E basket \in Baskets(shares) : DecryptSimple(ct, aad, basket)
                \/ /\ variant = "precomputed"
                   /\ \E basket \in Baskets(shares) : DecryptPrecomputed("precomputed", ct, aad, basket)
                \/ /\ variant = "contexts"
                   /\ \E basket \in Baskets(Simple) : \E indices \in Beside(basket) :
                        /\ \A k \in DOMAIN indices : indices[k] + 1 \in DOMAIN contexts
                        /\ DecryptByContexts(ct, aad, basket, indices)
                \/ /\ variant = "contexts"
                   /\ \E basket \in Baskets(shares \ Simple) :
                        DecryptPrecomputed("contexts_precomputed", ct, aad, basket)
<1>0. \A i, ct, aad, order, made, v : Publish(i, ct, aad, order, made, v) => out' = Idle
  BY DEF Publish
<1>1. CASE UNCHANGED vars
  BY <1>1
<1>2. CASE \E msg \in Messages, aad \in Aads, r \in Scalars : DoEncrypt(msg, aad, r)
  BY <1>2 DEF DoEncrypt
<1>3. CASE \E how \in Damages, a, b, c \in wire : Damage(how, a, b, c)
  BY <1>3 DEF Damage
<1>4. CASE NextSimple
  <2>1. PICK ct \in wire, aad \in Aads :
          \/ \E i \in Slots :
                \/ \E dk \in Keys \cup {dkgs[i].me.ek} : CreateSimple(i, ct, aad, dk)
                \/ \E how \in Faults : SpoilSimple(i, ct, aad, how)
          \/ \E basket \in Baskets(shares) : DecryptSimple(ct, aad, basket)
    BY <1>4 DEF NextSimple
  <2>2. variant = "simple"
    BY <1>4 DEF NextSimple
  <2>3. ASSUME NEW i, NEW dk, CreateSimple(i, ct, aad, dk) PROVE out' = Idle
    BY <1>0, <2>3 DEF CreateSimple
  <2>4. ASSUME NEW i, NEW how, SpoilSimple(i, ct, aad, how) PROVE out' = Idle
    BY <1>0, <2>4 DEF SpoilSimple
  <2>5. QED
    BY <2>1, <2>2, <2>3, <2>4
<1>5. CASE NextPrecomputed
  <2>1. PICK ct \in wire, aad \in Aads :
          \/ \E i \in Slots, selected \in SUBSET ValidatorSet : CreatePrecomputed(i, ct, aad, selected)
          \/ \E basket \in Baskets(shares) : DecryptPrecomputed("precomputed", ct, aad, basket)
    BY <1>5 DEF NextPrecomputed
  <2>2. variant = "precomputed"
    BY <1>5 DEF NextPrecomputed
  <2>3. ASSUME NEW i, NEW selected, CreatePrecomputed(i, ct, aad, selected) PROVE out' = Idle
    BY <1>0, <2>3 DEF CreatePrecomputed
  <2>4. QED
    BY <2>1, <2>2, <2>3
<1>6. CASE NextContexts
  <2>1. PICK ct \in wire, aad \in Aads :
             \/ \E k \in DOMAIN contexts :
                   \/ CreateByContext(contexts[k], ct, aad)
                   \/ \E how \in Faults : SpoilByContext(contexts[k], ct, aad, how)
                   \/ \E selected \in Selections :
                         CreateByContextPrecomputed(contexts[k], ct, aad, selected)
             \/ \E basket \in Baskets(Simple) : \E indices \in Beside(basket) :
                   /\ \A k \in DOMAIN indices : indices[k] + 1 \in DOMAIN contexts
                   /\ DecryptByContexts(ct, aad, basket, indices)
             \/ \E basket \in Baskets(shares \ Simple) :
                   DecryptPrecomputed("contexts_precomputed", ct, aad, basket)
    BY <1>6 DEF NextContexts
  <2>2. variant = "contexts"
    BY <1>6 DEF NextContexts
  <2>3. ASSUME NEW c, CreateByContext(c, ct, aad) PROVE out' = Idle
    BY <1>0, <2>3 DEF CreateByContext
  <2>4. ASSUME NEW c, NEW how, SpoilByContext(c, ct, aad, how) PROVE out' = Idle
    BY <1>0, <2>4 DEF SpoilByContext
  <2>5. ASSUME NEW c, NEW selected, CreateByContextPrecomputed(c, ct, aad, selected) PROVE out' = Idle
    BY <1>0, <2>5 DEF CreateByContextPrecomputed
  <2>6. QED
    BY <2>1, <2>2, <2>3, <2>4, <2>5, Zenon
<1>7. CASE HaveResult
  BY <1>7 DEF HaveResult
<1>8. QED
  BY <1>1, <1>2, <1>3, <1>4, <1>5, <1>6, <1>7 DEF Next

\* DInv holds at the start, every step keeps it, and so it holds always.
LEMMA InitDInv == Init => DInv
BY InitEstablished DEF Init, DInv, CiphertextFacts, OutFacts

\* Every step keeps what is known of the last decryption.
LEMMA OutKept ==
    ASSUME DInv, [Next]_vars
    PROVE  OutFacts'
<1>1. CASE UNCHANGED vars
  BY <1>1 DEF DInv, OutFacts, OutSimple, OutPrecomputed, OutContexts, OutContextsPrecomputed,
              Answered, Simple, PublicContexts, vars, setup
<1>2. CASE out' = Idle
  BY <1>2 DEF OutFacts, Idle
<1>3. ASSUME NEW kind, NEW ct \in wire, NEW aad, NEW basket, NEW pubs, NEW secret,
             DecryptWith(kind, ct, aad, basket, pubs, secret)
      PROVE  /\ out'.variant = kind /\ out'.ct \in wire' /\ out'.basket = basket /\ out'.pubs = pubs
             /\ out'.res = DecryptWithSharedSecret(out'.ct, out'.aad, secret)
             /\ UNCHANGED <<variant, contexts, sent, wire, shares>> /\ Simple' = Simple
             /\ Answered(kind, secret)'
  BY <1>3 DEF DecryptWith, setup, Simple, Answered
<1>4. ASSUME NEW ct \in wire, NEW aad, variant = "simple",
             NEW basket \in Baskets(shares), DecryptSimple(ct, aad, basket)
      PROVE  OutFacts'
  <2>1. PICK secret : secret = CombineSharesSimple(Bare(basket))
    OBVIOUS
  <2>2. DecryptWith("simple", ct, aad, basket, <<>>, secret)
    BY <1>4, <2>1 DEF DecryptSimple
  <2>3. OutSimple'
    BY <1>3, <1>4, <2>1, <2>2 DEF OutSimple, Answered
  <2>4. QED
    BY <1>3, <2>2, <2>3 DEF OutFacts
<1>5. ASSUME NEW ct \in wire, NEW aad, variant = "precomputed",
             NEW basket \in Baskets(shares), DecryptPrecomputed("precomputed", ct, aad, basket)
      PROVE  OutFacts'
  <2>1. PICK secret : secret = ShareCombinePrecomputed(Bare(basket))
    OBVIOUS
  <2>2. DecryptWith("precomputed", ct, aad, basket, <<>>, secret)
    BY <1>5, <2>1 DEF DecryptPrecomputed
  <2>3. OutPrecomputed'
    BY <1>3, <1>5, <2>1, <2>2 DEF OutPrecomputed, Answered
  <2>4. QED
    BY <1>3, <2>2, <2>3 DEF OutFacts
<1>6. ASSUME NEW ct \in wire, NEW aad, variant = "contexts", NEW basket \in Baskets(Simple),
             NEW indices \in Beside(basket),
             \A k \in DOMAIN indices : indices[k] + 1 \in DOMAIN contexts,
             DecryptByContexts(ct, aad, basket, indices)
      PROVE  OutFacts'
  <2>1. PICK secret : secret = CreateSharedSecretSimple(PublicContexts(indices), Bare(basket))
    OBVIOUS
  <2>2. DecryptWith("contexts", ct, aad, basket, indices, secret)
    BY <1>6, <2>1 DEF DecryptByContexts
  <2>3. indices \in Seq(Nat)
    <3>1. PICK m \in Nat \ {0} : basket \in [1..m -> Simple] /\ DOMAIN basket = 1..m /\ Len(basket) = m
      BY BasketFacts
    <3>2. \A k \in 1..m : basket[k].index \in Nat
      BY <1>6, <3>1 DEF DInv, ShareFacts, ContextShareFacts, Simple
    <3>3. QED
      BY <3>1, <3>2, BesideType
  <2>4. PublicContexts(indices)' = PublicContexts(indices)
    BY <1>3, <2>2 DEF PublicContexts
  <2>5. OutContexts'
    <3>1. /\ out'.variant = "contexts" /\ out'.basket = basket /\ out'.pubs = indices
          /\ out'.res = DecryptWithSharedSecret(out'.ct, out'.aad, secret)
          /\ variant' = variant /\ contexts' = contexts /\ Simple' = Simple
      BY <1>3, <2>2
    <3>2. PublicContexts(out.pubs)' = PublicContexts(indices)
      BY <2>4, <3>1 DEF PublicContexts
    <3>3. Answered("contexts", CreateSharedSecretSimple(PublicContexts(out.pubs), Bare(out.basket)))'
      BY <2>1, <3>1, <3>2 DEF Answered
    <3>4. QED
      BY <1>6, <2>3, <3>1, <3>3 DEF OutContexts, Baskets
  <2>6. QED
    BY <1>3, <2>2, <2>5 DEF OutFacts
<1>7. ASSUME NEW ct \in wire, NEW aad, variant = "contexts",
             NEW basket \in Baskets(shares \ Simple),
             DecryptPrecomputed("contexts_precomputed", ct, aad, basket)
      PROVE  OutFacts'
  <2>1. PICK secret : secret = ShareCombinePrecomputed(Bare(basket))
    OBVIOUS
  <2>2. DecryptWith("contexts_precomputed", ct, aad, basket, <<>>, secret)
    BY <1>7, <2>1 DEF DecryptPrecomputed
  <2>3. OutContextsPrecomputed'
    BY <1>3, <1>7, <2>1, <2>2 DEF OutContextsPrecomputed, Answered
  <2>4. QED
    BY <1>3, <2>2, <2>3 DEF OutFacts
<1>8. QED
  <2>1. CASE ~ UNCHANGED vars /\ out' # Idle
    BY <2>1, <1>4, <1>5, <1>6, <1>7, DecryptSteps
  <2>2. QED
    BY <1>1, <1>2, <2>1

\* Every step keeps the inductive invariant.
LEMMA NextDInv == DInv /\ [Next]_vars => DInv'
<1> SUFFICES ASSUME DInv, [Next]_vars PROVE DInv'
  OBVIOUS
<1>1. Established'
  BY EstablishedKept DEF DInv
<1>2. CiphertextFacts'
  BY CiphertextsKept DEF DInv
<1>3. \A s \in shares' : ShareFacts(s)'
  BY SharesKept DEF DInv
<1>4. OutFacts'
  BY OutKept
<1>5. QED
  BY <1>1, <1>2, <1>3, <1>4 DEF DInv

\* So it holds always.
LEMMA AlwaysDInv == Spec => []DInv
BY InitDInv, NextDInv, PTL DEF Spec

-----------------------------------------------------------------------------
\* Ciphertexts and shares are made of group elements and belong to slots.
LEMMA TypeFromDInv == DInv => TypeOK
<1> SUFFICES ASSUME DInv PROVE TypeOK
  OBVIOUS
<1>1. ritual \in Rituals /\ at \in AggregatedTranscript /\ variant \in Variants
  BY DEF DInv, Established, RitualFacts, AggregateFacts
<1>2. \A ct \in wire : ct.commitment \in Fr /\ ct.auth_tag.scalar \in Fr
  BY DEF DInv, CiphertextFacts, Circulating
<1>3. \A e \in sent : e.ct \in wire
  BY DEF DInv, CiphertextFacts, FromEncrypt
<1>4. ASSUME NEW s \in shares
      PROVE  /\ s.index + 1 \in DOMAIN (IF variant = "contexts" THEN contexts ELSE at.aggregate.shares)
             /\ s.share.decryption_share \in Fr
             /\ variant = "simple" => s.share.domain_point \in Fr \ {Zero}
  <2>1. ShareFacts(s)
    BY DEF DInv
  <2>2. variant \in {"simple", "precomputed", "contexts"}
    BY <1>1, FaultsAssumption
  <2>3. CASE variant = "contexts"
    BY <2>1, <2>3 DEF ShareFacts, ContextShareFacts
  <2>4. CASE variant \in {"simple", "precomputed"}
    <3>1. s.index \in Slots
      BY <2>1, <2>4 DEF ShareFacts, SimpleFacts, PrecomputedFacts
    <3>2. Established
      BY DEF DInv
    <3>3. s.index + 1 \in 1..N
      BY <3>1, <3>2, SlotFacts DEF Slots, N
    <3>4. DOMAIN at.aggregate.shares = 1..N
      BY <3>2 DEF Established, AggregateFacts
    <3>5. QED
      BY <2>1, <2>4, <3>3, <3>4 DEF ShareFacts, SimpleFacts
  <2>5. QED
    BY <2>2, <2>3, <2>4
<1>5. out.variant \in {"none", "contexts_precomputed"} \cup Variants
  BY <1>1 DEF DInv, OutFacts, OutSimple, OutPrecomputed, OutContexts, OutContextsPrecomputed,
              Answered, Idle
<1>6. QED
  BY <1>1, <1>2, <1>3, <1>4, <1>5 DEF TypeOK

\* Type correctness: see TypeOK.
THEOREM DecryptionTypeCorrect == Spec => []TypeOK
BY AlwaysDInv, TypeFromDInv, PTL

-----------------------------------------------------------------------------
\* A decryption that returned a plaintext was given one call's ciphertext.
LEMMA DecryptedWasSent ==
    ASSUME DInv, Decrypted
    PROVE  \E e \in sent : /\ e.ct = out.ct /\ e.aad = out.aad /\ out.ct \in wire
                           /\ out.res = Ok(e.msg) /\ out.res.val = e.msg
<1>1. out # Idle
  BY DEF Decrypted, Idle
<1>2. out.ct \in wire /\ \E secret : out.res = DecryptWithSharedSecret(out.ct, out.aad, secret)
  BY <1>1 DEF DInv, OutFacts, OutSimple, OutPrecomputed, OutContexts, OutContextsPrecomputed,
              Answered
<1>3. PICK secret : out.res = DecryptWithSharedSecret(out.ct, out.aad, secret)
  BY <1>2
<1>4. Succeeded(DecryptWithSharedSecret(out.ct, out.aad, secret))
  BY <1>3 DEF Decrypted
<1>5. PICK e \in sent : /\ e.ct = out.ct /\ e.aad = out.aad
                        /\ DecryptWithSharedSecret(out.ct, out.aad, secret) = Ok(e.msg)
  BY <1>2, <1>4, OpenedWasSent DEF DInv
<1>6. out.res = Ok(e.msg)
  BY <1>3, <1>5
<1>7. out.res.val = e.msg
  BY <1>6 DEF Ok
<1>8. QED
  BY <1>2, <1>5, <1>6, <1>7

\* decrypt_with_shared_secret returns only what encrypt was given, for every message,
\* aad, damage and combination of shares: see DecryptsOnlyWhatWasEncrypted.
THEOREM OnlyEncryptedDecrypts == Spec => []DecryptsOnlyWhatWasEncrypted
<1>1. DInv => DecryptsOnlyWhatWasEncrypted
  BY DecryptedWasSent DEF DecryptsOnlyWhatWasEncrypted, Genuine
<1>2. QED
  BY <1>1, AlwaysDInv, PTL

\* Validators answer only headers that encrypt made, under their own aad: see
\* SharesOnlyForEncrypted.
THEOREM OnlyEncryptedAnswered == Spec => []SharesOnlyForEncrypted
<1>1. DInv => SharesOnlyForEncrypted
  BY DEF DInv, ShareFacts, SharesOnlyForEncrypted
<1>2. QED
  BY <1>1, AlwaysDInv, PTL

\* The validators together are the holder of the joint private key: see
\* ThresholdMatchesPrivateKey.
THEOREM MatchesPrivateKey == Spec => []ThresholdMatchesPrivateKey
<1>1. ASSUME DInv PROVE ThresholdMatchesPrivateKey
  <2>1. Established /\ CiphertextFacts
    BY <1>1 DEF DInv
  <2>2. \A ct \in wire : ct.commitment \in Fr
    BY <2>1 DEF CiphertextFacts, Circulating
  <2>3. phi[1] \in Fr
    BY <2>1 DEF Established, RitualFacts
  <2>4. \A ct \in wire : Pairing(ct.commitment, phi[1]) = Mul(phi[1], ct.commitment)
    BY <2>2, <2>3, FrMultiplicative DEF Pairing
  <2>5. ASSUME NEW e \in sent
        PROVE  DecryptSymmetric(e.ct, e.aad, phi[1]) = Ok(e.msg)
    <3>1. e.ct \in wire
      BY <2>1 DEF CiphertextFacts, FromEncrypt
    <3>2. PICK secret : secret = Pairing(e.ct.commitment, phi[1])
      OBVIOUS
    <3>3. secret = Mul(phi[1], e.ct.commitment)
      BY <2>4, <3>1, <3>2
    <3>4. DecryptWithSharedSecret(e.ct, e.aad, secret) = Ok(e.msg)
      BY <2>1, <3>3, SentOpens
    <3>5. QED
      BY <3>2, <3>4 DEF DecryptSymmetric
  <2>6. ASSUME NEW ct \in wire, NEW aad \in Aads
        PROVE  Succeeded(DecryptSymmetric(ct, aad, phi[1])) <=>
                 \E e \in sent : e.ct = ct /\ e.aad = aad /\ DecryptSymmetric(ct, aad, phi[1]) = Ok(e.msg)
    <3>1. ASSUME Succeeded(DecryptSymmetric(ct, aad, phi[1]))
          PROVE  \E e \in sent : e.ct = ct /\ e.aad = aad /\ DecryptSymmetric(ct, aad, phi[1]) = Ok(e.msg)
      <4>1. PICK secret : secret = Pairing(ct.commitment, phi[1])
        OBVIOUS
      <4>2. DecryptSymmetric(ct, aad, phi[1]) = DecryptWithSharedSecret(ct, aad, secret)
        BY <4>1 DEF DecryptSymmetric
      <4>3. Succeeded(DecryptWithSharedSecret(ct, aad, secret))
        BY <3>1, <4>2
      <4>4. PICK e \in sent : e.ct = ct /\ e.aad = aad
                              /\ DecryptWithSharedSecret(ct, aad, secret) = Ok(e.msg)
        BY <2>1, <4>3, OpenedWasSent
      <4>5. QED
        BY <4>2, <4>4
    <3>2. \A v : Succeeded(Ok(v))
      BY DEF Succeeded, Ok
    <3>3. QED
      BY <3>1, <3>2
  <2>7. Decrypted => out.res = DecryptSymmetric(out.ct, out.aad, phi[1])
    <3>1. SUFFICES ASSUME Decrypted PROVE out.res = DecryptSymmetric(out.ct, out.aad, phi[1])
      OBVIOUS
    <3>2. PICK e \in sent : e.ct = out.ct /\ e.aad = out.aad /\ out.res = Ok(e.msg)
      BY <1>1, <3>1, DecryptedWasSent
    <3>3. QED
      BY <2>5, <3>2
  <2>8. QED
    BY <2>6, <2>7 DEF ThresholdMatchesPrivateKey
<1>2. QED
  BY <1>1, AlwaysDInv, PTL

-----------------------------------------------------------------------------
\* What it takes to pass verify_decryption_share_simple for slot k.
LEMMA VerifiesForm ==
    ASSUME Established, NEW s, NEW k \in Slots, NEW ct
    PROVE  Verifies(s, k, ct) <=>
             /\ s.share.domain_point = Point(k)
             /\ s.share.decryption_share = Mul(s.share.checksum, Mul(Share(k), KeyOf(k)))
             /\ Mul(s.share.checksum, KeyOf(k)) = Mul(ct.commitment, One)
<1> DEFINE y == Mul(Share(k), KeyOf(k))
<1>1. 0 \in Slots
  BY SlotFacts
<1>2. GetShare(at, k) = Ok(y) /\ GetDomainPoint(dkgs[0], k) = Ok(Point(k))
  BY <1>1, SlotAnswers
<1>3. \A v : Succeeded(Ok(v)) /\ Ok(v).val = v
  BY DEF Succeeded, Ok
<1> HIDE DEF y
<1>4. VerifyDecryptionShareSimple(at, dkgs[0], s.share, k, KeyOf(k), ct)
        = Ok(s.share.domain_point = Point(k) /\ VerifyChecksum(s.share, y, KeyOf(k), ct))
  BY <1>2, <1>3 DEF VerifyDecryptionShareSimple
<1>5. Verifies(s, k, ct) <=> s.share.domain_point = Point(k) /\ VerifyChecksum(s.share, y, KeyOf(k), ct)
  BY <1>3, <1>4 DEF Verifies, Holds
<1>6. QED
  BY <1>5 DEF VerifyChecksum, Pairing, y

\* The two equations of ValidatorShareChecksum::verify leave one decryption share.
LEMMA ChecksumPins ==
    ASSUME NEW c \in Fr, NEW z \in Fr, NEW ek \in Fr, NEW u \in Fr, Mul(c, ek) = Mul(u, One)
    PROVE  Mul(c, Mul(z, ek)) = Mul(u, z)
<1>1. Mul(c, ek) = u
  BY FrMultiplicative
<1>2. Mul(z, ek) = Mul(ek, z)
  BY FrMultiplicative
<1>3. Mul(c, Mul(ek, z)) = Mul(Mul(c, ek), z)
  BY FrMultiplicative
<1>4. QED
  BY <1>1, <1>2, <1>3

\* A share that verifies for slot k is slot k's.
LEMMA VerifiedIsRight ==
    ASSUME DInv, variant = "simple", NEW s \in shares, NEW k \in Slots, NEW ct \in wire,
           Verifies(s, k, ct)
    PROVE  /\ s.share.domain_point = Point(k)
           /\ s.share.decryption_share = Mul(ct.commitment, Share(k))
<1>1. Established /\ ct.commitment \in Fr
  BY DEF DInv, CiphertextFacts, Circulating
<1>2. KeyOf(k) \in Fr /\ Share(k) \in Fr
  BY <1>1, SlotFacts DEF Established, HolderFacts
<1>3. s.share.checksum \in Fr
  BY DEF DInv, ShareFacts, SimpleFacts
<1>4. /\ s.share.domain_point = Point(k)
      /\ s.share.decryption_share = Mul(s.share.checksum, Mul(Share(k), KeyOf(k)))
      /\ Mul(s.share.checksum, KeyOf(k)) = Mul(ct.commitment, One)
  BY <1>1, VerifiesForm
<1>5. QED
  BY <1>1, <1>2, <1>3, <1>4, ChecksumPins

\* A simple share that verifies for a slot is that slot's share, whoever made it: see
\* VerifiedShareIsCorrect.
THEOREM VerifiedCorrect == Spec => []VerifiedShareIsCorrect
<1>1. DInv => VerifiedShareIsCorrect
  BY VerifiedIsRight DEF VerifiedShareIsCorrect, Share, Point, N
<1>2. QED
  BY <1>1, AlwaysDInv, PTL

\* A simple share made with the validator's own key verifies: see OwnShareVerifies.
THEOREM OwnVerifies == Spec => []OwnShareVerifies
<1>1. ASSUME DInv, NEW s \in shares, NEW e \in sent, variant = "simple", s.made, s.header = Header(e.ct)
      PROVE  Verifies(s, s.index, e.ct)
  <2> DEFINE k == s.index
             u == e.ct.commitment
  <2>1. Established /\ e.ct \in wire
    BY <1>1 DEF DInv, CiphertextFacts, FromEncrypt
  <2>2. u \in Fr /\ s.header.commitment = u
    BY <1>1, <2>1, HeaderCommitment DEF DInv, CiphertextFacts, Circulating
  <2>3. /\ k \in Slots /\ s.share.decryption_share = Mul(u, Share(k))
        /\ s.share.checksum = Mul(u, Inv(KeyOf(k))) /\ s.share.domain_point = Point(k)
    BY <1>1, <2>2 DEF DInv, ShareFacts, SimpleFacts
  <2>4. KeyOf(k) \in Fr /\ KeyOf(k) # Zero /\ Share(k) \in Fr
    BY <2>1, <2>3, SlotFacts DEF Established, HolderFacts
  <2>5. Inv(KeyOf(k)) \in Fr /\ Mul(KeyOf(k), Inv(KeyOf(k))) = One
    BY <2>4, FrClosed, FrMultiplicative
  <2>6. Mul(s.share.checksum, KeyOf(k)) = Mul(u, One)
    <3>1. Mul(Mul(u, Inv(KeyOf(k))), KeyOf(k)) = Mul(u, Mul(Inv(KeyOf(k)), KeyOf(k)))
      BY <2>2, <2>4, <2>5, FrMultiplicative
    <3>2. Mul(Inv(KeyOf(k)), KeyOf(k)) = One
      BY <2>4, <2>5, FrMultiplicative
    <3>3. QED
      BY <2>3, <3>1, <3>2
  <2>7. s.share.checksum \in Fr
    BY <2>2, <2>3, <2>5, FrClosed
  <2>8. Mul(s.share.checksum, Mul(Share(k), KeyOf(k))) = Mul(u, Share(k))
    BY <2>2, <2>4, <2>6, <2>7, ChecksumPins
  <2>9. QED
    BY <2>1, <2>3, <2>6, <2>8, VerifiesForm
<1>2. DInv => OwnShareVerifies
  BY <1>1 DEF OwnShareVerifies
<1>3. QED
  BY <1>2, AlwaysDInv, PTL

-----------------------------------------------------------------------------
\* Shares of p in the exponent u, each weighted with the coefficient of its point, add
\* up to p's constant term in the exponent u.
LEMMA MulWeights ==
    ASSUME NEW a \in Fr, NEW b \in Fr, NEW c \in Fr
    PROVE  /\ Mul(Mul(a, b), c) = Mul(a, Mul(c, b))
           /\ Mul(Mul(a, c), b) = Mul(Mul(a, b), c)
<1>1. Mul(b, c) = Mul(c, b)
  BY FrMultiplicative
<1>2. Mul(Mul(a, b), c) = Mul(a, Mul(b, c)) /\ Mul(Mul(a, c), b) = Mul(a, Mul(c, b))
  BY FrMultiplicative
<1>3. QED
  BY <1>1, <1>2

WeightedShares(ds, n, xs, t, p, u) ==
    /\ n \in Nat /\ t \in Nat \ {0} /\ xs \in [1..n -> Fr \ {Zero}] /\ DistinctPoints(xs, n)
    /\ p \in [1..t -> Fr] /\ u \in Fr /\ ds \in [1..n -> Fr]
    /\ \A i \in 1..n : ds[i] = Mul(Mul(u, Eval(p, xs[i])), PrepareCombineSimple(xs)[i])

\* The combination is that of the values of p, in the exponent u.
LEMMA SumOfShares ==
    ASSUME NEW ds, NEW n, NEW xs, NEW t, NEW p, NEW u, WeightedShares(ds, n, xs, t, p, u)
    PROVE  FSum(ds) = Mul(u, Combined(n, xs, p)) /\ Combined(n, xs, p) \in Fr
<1> USE DEF WeightedShares
<1> DEFINE L == PrepareCombineSimple(xs)
           c == [j \in 1..n |-> Mul(L[j], Eval(p, xs[j]))]
<1>1. t \in Nat /\ xs \in [1..n -> Fr]
  OBVIOUS
<1>2. c \in [1..n -> Fr] /\ Combined(n, xs, p) \in Fr
  BY <1>1, CombinedType
<1>3. FSum(c) = Combined(n, xs, p)
  BY DEF Combined
<1>4. \A j \in 1..n : L[j] \in Fr /\ Eval(p, xs[j]) \in Fr
  BY <1>1, LagrangeForm, FoldTypes
<1> HIDE DEF L
<1>5. \A j \in 1..n : Mul(Mul(u, Eval(p, xs[j])), L[j]) = Mul(u, Mul(L[j], Eval(p, xs[j])))
  BY <1>4, MulWeights
<1>6. ds = [j \in 1..n |-> Mul(u, c[j])]
  BY <1>5 DEF L
<1> HIDE DEF c
<1>7. FSum([j \in 1..n |-> Mul(u, c[j])]) = Mul(u, FSum(c))
  BY <1>2, FSumScale
<1>8. QED
  BY <1>2, <1>3, <1>6, <1>7

\* As many shares as p has coefficients give its constant term, one share less does not.
LEMMA SecretOfShares ==
    ASSUME NEW ds, NEW n, NEW xs, NEW t, NEW p, NEW u, WeightedShares(ds, n, xs, t, p, u)
    PROVE  /\ n >= t => FSum(ds) = Mul(p[1], u)
           /\ n = t - 1 /\ p[t] # Zero /\ u # Zero => FSum(ds) # Mul(p[1], u)
<1>1. FSum(ds) = Mul(u, Combined(n, xs, p)) /\ Combined(n, xs, p) \in Fr
  BY SumOfShares
<1> USE DEF WeightedShares
<1>2. t \in Nat \ {0} /\ n \in Nat /\ xs \in [1..n -> Fr] /\ p[1] \in Fr /\ u \in Fr
  OBVIOUS
<1>3. Mul(p[1], u) = Mul(u, p[1])
  BY <1>2, FrMultiplicative
<1>4. ASSUME n >= t PROVE FSum(ds) = Mul(p[1], u)
  <2>1. t \in 1..n
    BY <1>2, <1>4
  <2>2. Combined(n, xs, p) = p[1]
    BY <1>2, <2>1, EnoughPoints
  <2>3. QED
    BY <1>1, <1>3, <2>2
<1>5. ASSUME n = t - 1, p[t] # Zero, u # Zero PROVE FSum(ds) # Mul(p[1], u)
  <2>1. t = n + 1 /\ p \in [1..(n + 1) -> Fr] /\ p[n + 1] # Zero
    BY <1>2, <1>5
  <2>2. \A i \in 1..n : xs[i] # Zero
    OBVIOUS
  <2>3. Combined(n, xs, p) # Eval(p, Zero)
    BY <1>2, <2>1, <2>2, OnePointShort
  <2>4. Eval(p, Zero) = p[1]
    BY <1>2, EvalAtZero
  <2>5. Mul(u, Combined(n, xs, p)) # Mul(u, p[1])
    BY <1>1, <1>2, <1>5, <2>3, <2>4, MulCancel
  <2>6. QED
    BY <1>1, <1>3, <2>5
<1>6. QED
  BY <1>4, <1>5

\* The coefficients of distinct points other than zero are not zero.
LEMMA CoefficientsNonzero ==
    ASSUME NEW n \in Nat, NEW xs \in [1..n -> Fr \ {Zero}], NEW j \in 1..n
    PROVE  PrepareCombineSimple(xs)[j] # Zero
<1> DEFINE f == [m \in 1..n |-> LagrangeFactor(xs, j, m)]
<1>1. xs \in [1..n -> Fr]
  OBVIOUS
<1>2. f \in [1..n -> Fr] /\ PrepareCombineSimple(xs)[j] = FProd(f)
  BY <1>1, LagrangeForm
<1>3. \A a \in Fr \ {Zero} : Inv(a) \in Fr /\ Inv(a) # Zero
  <2>1. \A a \in Fr : Inv(a) \in Fr /\ Mul(Zero, a) = Zero
    BY FrClosed, MulZero
  <2>2. \A a \in Fr \ {Zero} : Mul(Inv(a), a) = One /\ One # Zero
    BY FrClosed, FrMultiplicative
  <2>3. QED
    BY <2>1, <2>2
<1>4. ASSUME NEW m \in 1..n PROVE f[m] # Zero
  <2>1. xs[m] \in Fr /\ xs[j] \in Fr /\ xs[m] # Zero /\ One # Zero
    BY FrClosed, FrMultiplicative
  <2>2. CASE xs[j] = xs[m]
    BY <2>1, <2>2 DEF LagrangeFactor
  <2>3. CASE xs[j] # xs[m]
    <3>1. Sub(xs[m], Zero) = xs[m] /\ Sub(xs[m], xs[j]) \in Fr /\ Sub(xs[m], xs[j]) # Zero
      BY <2>1, <2>3, SubFacts, FrClosed
    <3>2. f[m] = Mul(xs[m], Inv(Sub(xs[m], xs[j])))
      BY <2>3, <3>1 DEF LagrangeFactor, Div
    <3>3. QED
      BY <1>3, <2>1, <3>1, <3>2, NoZeroDivisors
  <2>4. QED
    BY <2>2, <2>3
<1> HIDE DEF f
<1>5. QED
  BY <1>2, <1>4, FProdNonzero

\* Enough shares without the last of them do not give the constant term, unless the one
\* that is missing is zero.
LEMMA SecretNeedsAll ==
    ASSUME NEW ds, NEW n, NEW xs, NEW t, NEW p, NEW u, WeightedShares(ds, n, xs, t, p, u),
           n >= t, u # Zero, Eval(p, xs[n]) # Zero
    PROVE  FSum(FrontOf(ds, n)) # Mul(p[1], u)
<1>0. FSum(ds) = Mul(p[1], u)
  BY SecretOfShares
<1> USE DEF WeightedShares
<1>1. n \in Nat \ {0} /\ n \in 1..n /\ xs \in [1..n -> Fr] /\ xs[n] \in Fr
  OBVIOUS
<1>2. Eval(p, xs[n]) \in Fr
  BY <1>1, FoldTypes
<1>3. PrepareCombineSimple(xs)[n] \in Fr /\ PrepareCombineSimple(xs)[n] # Zero
  BY <1>1, LagrangeForm, CoefficientsNonzero
<1>4. ds[n] \in Fr /\ ds[n] # Zero
  <2>1. Mul(u, Eval(p, xs[n])) \in Fr /\ Mul(u, Eval(p, xs[n])) # Zero
    BY <1>2, NoZeroDivisors, FrClosed
  <2>2. ds[n] = Mul(Mul(u, Eval(p, xs[n])), PrepareCombineSimple(xs)[n])
    BY <1>1
  <2>3. QED
    BY <1>1, <1>3, <2>1, <2>2, NoZeroDivisors
<1>5. /\ FrontOf(ds, n) \in [1..(n - 1) -> Fr]
      /\ FSum(ds) = Add(FSum(FrontOf(ds, n)), ds[n])
  BY <1>1, FSumLast
<1>6. FSum(FrontOf(ds, n)) \in Fr
  BY <1>1, <1>5, FoldTypes
<1>8. \A a \in Fr, b \in Fr : Add(a, b) = a => b = Zero
  BY AddCancel, FrClosed, FrAdditive
<1>9. QED
  BY <1>4, <1>5, <1>6, <1>0, <1>8

\* The same with the coefficients already inside the shares, in any order.
WeightedAlready(ds, n, xs, t, p, u, pi) ==
    /\ n \in Nat /\ t \in Nat \ {0} /\ xs \in [1..n -> Fr \ {Zero}] /\ DistinctPoints(xs, n)
    /\ p \in [1..t -> Fr] /\ u \in Fr /\ ds \in [1..n -> Fr]
    /\ pi \in [1..n -> 1..n] /\ \A i, j \in 1..n : pi[i] = pi[j] => i = j
    /\ \A i \in 1..n : ds[i] = Mul(Mul(u, PrepareCombineSimple(xs)[pi[i]]), Eval(p, xs[pi[i]]))

\* Such a sum is that of SecretOfShares, reordered.
LEMMA SecretOfWeighted ==
    ASSUME NEW ds, NEW n, NEW xs, NEW t, NEW p, NEW u, NEW pi,
           WeightedAlready(ds, n, xs, t, p, u, pi)
    PROVE  /\ n >= t => FSum(ds) = Mul(p[1], u)
           /\ n = t - 1 /\ p[t] # Zero /\ u # Zero => FSum(ds) # Mul(p[1], u)
<1> USE DEF WeightedAlready
<1> DEFINE L == PrepareCombineSimple(xs)
           e == [i \in 1..n |-> Mul(Mul(u, Eval(p, xs[i])), L[i])]
<1>1. \A j \in 1..n : L[j] \in Fr /\ Eval(p, xs[j]) \in Fr
  <2>1. t \in Nat /\ xs \in [1..n -> Fr]
    OBVIOUS
  <2>2. L \in [1..n -> Fr]
    BY <2>1, LagrangeForm
  <2>3. \A x \in Fr : Eval(p, x) \in Fr
    BY <2>1, FoldTypes
  <2> HIDE DEF L
  <2>4. QED
    BY <2>1, <2>2, <2>3
<1> HIDE DEF L
<1>2. e \in [1..n -> Fr] /\ \A i \in 1..n : e[i] = Mul(Mul(u, Eval(p, xs[i])), L[i])
  BY <1>1, FrClosed
<1>3. WeightedShares(e, n, xs, t, p, u)
  <2> HIDE DEF e
  <2> QED
    BY <1>2 DEF L, WeightedShares
<1>4. \A j \in 1..n : Mul(Mul(u, L[j]), Eval(p, xs[j])) = Mul(Mul(u, Eval(p, xs[j])), L[j])
  BY <1>1, MulWeights
<1>5. ds = [i \in 1..n |-> e[pi[i]]]
  BY <1>4 DEF L
<1> HIDE DEF e
<1>6. FSum([i \in 1..n |-> e[pi[i]]]) = FSum(e)
  BY <1>2, FSumPermuted
<1>7. QED
  BY <1>3, <1>5, <1>6, SecretOfShares

\* The client that combined the right secret has its plaintext.
LEMMA RightSecretDecrypts ==
    ASSUME DInv, NEW e \in sent, Genuine(e), NEW secret, NEW kind,
           Answered(kind, secret), kind # "none", secret = Mul(phi[1], out.ct.commitment)
    PROVE  Decrypted
<1>1. out.ct = e.ct /\ out.aad = e.aad
  BY DEF Genuine
<1>2. DecryptWithSharedSecret(e.ct, e.aad, secret) = Ok(e.msg)
  BY <1>1, SentOpens DEF DInv
<1>3. out.res = Ok(e.msg) /\ out.variant # "none"
  BY <1>1, <1>2 DEF Answered
<1>4. QED
  BY <1>3 DEF Decrypted, Succeeded, Ok

\* A sum that is not the secret opens nothing.
LEMMA WrongSecretOpensNothing ==
    ASSUME DInv, Decrypted, NEW kind, NEW secret, Answered(kind, secret)
    PROVE  secret = Mul(phi[1], out.ct.commitment) /\ out.ct.commitment # Zero
<1>1. PICK e \in sent : e.ct = out.ct /\ e.aad = out.aad
  BY DecryptedWasSent
<1>2. Succeeded(DecryptWithSharedSecret(e.ct, e.aad, secret))
  BY <1>1 DEF Answered, Decrypted
<1>3. QED
  BY <1>1, <1>2, SentOpens DEF DInv

\* What kind of decryption left the result.
LEMMA OutCases ==
    ASSUME DInv, out.variant # "none"
    PROVE  /\ out.ct \in wire /\ out.ct.commitment \in Fr
           /\ out.variant = "simple" => OutSimple
           /\ out.variant = "precomputed" => OutPrecomputed
           /\ out.variant = "contexts" => OutContexts
           /\ out.variant = "contexts_precomputed" => OutContextsPrecomputed
<1>1. out # Idle
  BY DEF Idle
<1>2. out.ct \in wire /\ (OutSimple \/ OutPrecomputed \/ OutContexts \/ OutContextsPrecomputed)
  BY <1>1 DEF DInv, OutFacts
<1>3. out.ct.commitment \in Fr
  BY <1>2 DEF DInv, CiphertextFacts, Circulating
<1>4. QED
  BY <1>2, <1>3 DEF OutSimple, OutPrecomputed, OutContexts, OutContextsPrecomputed, Answered

\* The shares of the last simple decryption, when every one is its own slot's share and
\* none comes twice, are combined with the coefficients of their points.
RightShares ==
    \A i \in DOMAIN out.basket :
        /\ out.basket[i].share.domain_point = Point(out.basket[i].index)
        /\ out.basket[i].share.decryption_share
             = Mul(out.ct.commitment, Share(out.basket[i].index))

\* They are weighted shares of the joint polynomial.
LEMMA SimpleCombined ==
    ASSUME DInv, OutSimple, out.ct.commitment \in Fr, ForThisCiphertext, RightShares
    PROVE  \E ds, xs :
             /\ CombineSharesSimple(Bare(out.basket)) = FSum(ds)
             /\ WeightedShares(ds, Len(out.basket), xs, ritual.threshold, phi, out.ct.commitment)
<1> DEFINE b == out.basket
           u == out.ct.commitment
<1>1. Established /\ u \in Fr /\ variant = "simple" /\ b \in Baskets(shares)
  BY DEF DInv, OutSimple
<1>2. PICK m \in Nat \ {0} : b \in [1..m -> shares] /\ DOMAIN b = 1..m /\ Len(b) = m
  BY <1>1, BasketFacts
<1> DEFINE f == [i \in 1..m |-> b[i].index]
           xs == [i \in 1..m |-> DomainElement(N, f[i])]
<1>3. \A i \in 1..m : b[i] \in shares /\ b[i].index \in Slots
  BY <1>1, <1>2 DEF DInv, ShareFacts, SimpleFacts
<1>4. \A i \in 1..m : /\ b[i].share.domain_point = Point(b[i].index)
                      /\ b[i].share.decryption_share = Mul(u, Share(b[i].index))
  BY <1>2 DEF RightShares
<1>5. N \in 0..MaxDomain /\ Slots \subseteq 0..(DomainSize(N) - 1)
  BY <1>1, SlotFacts
<1>6. f \in [1..m -> 0..(DomainSize(N) - 1)] /\ \A i, j \in 1..m : f[i] = f[j] => i = j
  BY <1>2, <1>3, <1>5 DEF ForThisCiphertext
<1> HIDE DEF f
<1>7. xs \in [1..m -> Fr \ {Zero}] /\ DistinctPoints(xs, m)
  <2> HIDE DEF b, u
  <2> QED
    BY <1>5, <1>6, PointList
<1>8. xs \in [1..m -> Fr]
  BY <1>7
<1>9. \A i \in 1..m : xs[i] = Point(b[i].index)
  BY DEF f, Point
<1>10. ritual.threshold \in Nat \ {0} /\ phi \in [1..ritual.threshold -> Fr]
  <2>1. ritual.threshold \in 1..N /\ phi \in [1..ritual.threshold -> Fr]
    BY <1>1 DEF Established, RitualFacts
  <2>2. QED
    BY <1>1, <2>1, SlotFacts
<1> DEFINE L == PrepareCombineSimple(xs)
           ds == [i \in 1..m |-> Mul(Mul(u, Eval(phi, xs[i])), L[i])]
<1>11. L \in [1..m -> Fr] /\ DOMAIN L = 1..m
  BY <1>8, LagrangeForm
<1>12. Bare(b) = [i \in 1..m |-> b[i].share] /\ DOMAIN Bare(b) = 1..m
  BY <1>2 DEF Bare
<1> HIDE DEF b, u, xs
<1>13. [i \in DOMAIN Bare(b) |-> Bare(b)[i].domain_point] = xs
  <2>1. \A i \in 1..m : Bare(b)[i].domain_point = xs[i]
    BY <1>4, <1>9, <1>12
  <2>2. QED
    BY <1>8, <1>12, <2>1
<1>14. CombineSharesSimple(Bare(b))
         = FSum([i \in DOMAIN Bare(b) \cap DOMAIN L |-> Mul(Bare(b)[i].decryption_share, L[i])])
  BY <1>13 DEF CombineSharesSimple, ShareCombineSimple
<1> HIDE DEF L
<1>15. \A i \in 1..m : Bare(b)[i].decryption_share = Mul(u, Eval(phi, xs[i]))
  BY <1>4, <1>9, <1>12 DEF Share
<1>16. [i \in DOMAIN Bare(b) \cap DOMAIN L |-> Mul(Bare(b)[i].decryption_share, L[i])] = ds
  BY <1>11, <1>12, <1>15
<1>17. \A i \in 1..m : Eval(phi, xs[i]) \in Fr
  BY <1>1, <1>8, SlotFacts, EvalType
<1>18. ds \in [1..m -> Fr] /\ \A i \in 1..m : ds[i] = Mul(Mul(u, Eval(phi, xs[i])), L[i])
  BY <1>1, <1>11, <1>17, FrClosed
<1>19. WeightedShares(ds, m, xs, ritual.threshold, phi, u)
  <2> HIDE DEF ds
  <2> QED
    BY <1>1, <1>2, <1>7, <1>10, <1>18 DEF L, WeightedShares
<1>20. QED
  BY <1>2, <1>14, <1>16, <1>19 DEF b, u

\* Any security_threshold simple shares that verify, of different validators and in any
\* order, decrypt, for every ceremony, ciphertext and basket: see
\* EnoughVerifiedSharesDecrypt.
THEOREM EnoughSharesDecrypt == Spec => []EnoughVerifiedSharesDecrypt
<1>1. ASSUME DInv, out.variant = "simple", NEW e \in sent, Genuine(e), ForThisCiphertext,
             Len(out.basket) >= ritual.threshold,
             \A i \in DOMAIN out.basket : Verifies(out.basket[i], out.basket[i].index, out.ct)
      PROVE  Decrypted
  <2>1. OutSimple /\ out.ct \in wire /\ out.ct.commitment \in Fr
    BY <1>1, OutCases
  <2>2. /\ variant = "simple" /\ out.basket \in Baskets(shares)
        /\ Answered("simple", CombineSharesSimple(Bare(out.basket)))
    BY <2>1 DEF OutSimple
  <2>3. \A i \in DOMAIN out.basket : out.basket[i] \in shares /\ out.basket[i].index \in Slots
    BY <1>1, <2>2, BasketFacts DEF DInv, ShareFacts, SimpleFacts
  <2>4. RightShares
    BY <1>1, <2>1, <2>2, <2>3, VerifiedIsRight DEF RightShares
  <2>5. PICK ds, xs :
          /\ CombineSharesSimple(Bare(out.basket)) = FSum(ds)
          /\ WeightedShares(ds, Len(out.basket), xs, ritual.threshold, phi, out.ct.commitment)
    BY <1>1, <2>1, <2>4, SimpleCombined
  <2>6. FSum(ds) = Mul(phi[1], out.ct.commitment)
    BY <1>1, <2>5, SecretOfShares
  <2>7. PICK secret : secret = CombineSharesSimple(Bare(out.basket))
    OBVIOUS
  <2>8. QED
    BY <1>1, <2>2, <2>5, <2>6, <2>7, RightSecretDecrypts
<1>2. DInv => EnoughVerifiedSharesDecrypt
  BY <1>1 DEF EnoughVerifiedSharesDecrypt
<1>3. QED
  BY <1>2, AlwaysDInv, PTL

\* The public contexts that a client combines by belong to the domain of the ceremony.
LEMMA BatchPoints ==
    ASSUME DInv, OutContexts, NEW k \in DOMAIN out.pubs
    PROVE  LET pub == contexts[1].public[out.pubs[k] + 1]
           IN  /\ out.pubs[k] \in 0..(DomainSize(N) - 1) /\ Share(out.pubs[k]) \in Fr
               /\ PublicContexts(out.pubs)[k] = pub
               /\ pub.domain = Point(out.pubs[k]) /\ pub.share_commitment = Share(out.pubs[k])
               /\ pub.ek \in Fr /\ pub.blinded_key_share = Mul(Share(out.pubs[k]), pub.ek)
<1> DEFINE j == out.pubs[k] + 1
           pub == contexts[1].public[j]
<1>1. Established /\ variant = "contexts"
  BY DEF DInv, OutContexts
<1>2. out.pubs[k] \in Nat /\ j \in DOMAIN contexts
  BY DEF OutContexts
<1>3. DOMAIN contexts = 1..DomainSize(N) /\ DomainSize(N) \in Nat
  BY <1>1, ContextsForm, SlotFacts
<1>4. 1 \in DOMAIN contexts /\ j - 1 = out.pubs[k] /\ out.pubs[k] \in 0..(DomainSize(N) - 1)
  BY <1>2, <1>3
<1>5. /\ pub.domain = Point(out.pubs[k]) /\ pub.ek \in Fr /\ pub.share_commitment = Share(out.pubs[k])
      /\ pub.blinded_key_share = Mul(Share(out.pubs[k]), pub.ek)
  <2> HIDE DEF j
  <2> QED
    BY <1>1, <1>2, <1>3, <1>4, ContextsForm
<1>6. Share(out.pubs[k]) \in Fr
  BY <1>1, <1>2, <1>3, <1>4, SlotFacts
<1>7. PublicContexts(out.pubs)[k] = pub
  BY DEF PublicContexts
<1>8. QED
  BY <1>4, <1>5, <1>6, <1>7

\* verify_decryption_shares_simple pins every share to the point of the public context
\* beside it.
LEMMA BatchPins ==
    ASSUME DInv, OutContexts, NEW k \in DOMAIN out.basket, k \in DOMAIN out.pubs,
           VerifyDecryptionSharesSimple(PublicContexts(out.pubs), out.ct, Bare(out.basket))
    PROVE  Bare(out.basket)[k].decryption_share = Mul(out.ct.commitment, Share(out.pubs[k]))
<1> DEFINE b == out.basket
           u == out.ct.commitment
           pub == contexts[1].public[out.pubs[k] + 1]
<1>1. Established /\ variant = "contexts" /\ b \in Baskets(Simple)
  BY DEF DInv, OutContexts
<1>2. /\ Share(out.pubs[k]) \in Fr /\ PublicContexts(out.pubs)[k] = pub
      /\ pub.ek \in Fr /\ pub.blinded_key_share = Mul(Share(out.pubs[k]), pub.ek)
  BY BatchPoints
<1>3. u \in Fr
  <2>1. out.ct \in wire
    BY OutCases DEF OutContexts, Answered
  <2>2. QED
    BY <2>1 DEF DInv, CiphertextFacts, Circulating
<1>4. b[k] \in Simple /\ Bare(b)[k] = b[k].share /\ DOMAIN Bare(b) = DOMAIN b
  BY <1>1, BasketFacts DEF Bare
<1>5. b[k].share.checksum \in Fr
  BY <1>1, <1>4 DEF DInv, ShareFacts, ContextShareFacts, Simple
<1>6. VerifyChecksum(b[k].share, pub.blinded_key_share, pub.ek, out.ct)
  <2>1. k \in DOMAIN PublicContexts(out.pubs)
    BY DEF PublicContexts
  <2>2. QED
    BY <1>2, <1>4, <2>1 DEF VerifyDecryptionSharesSimple
<1>7. /\ b[k].share.decryption_share = Mul(b[k].share.checksum, Mul(Share(out.pubs[k]), pub.ek))
      /\ Mul(b[k].share.checksum, pub.ek) = Mul(u, One)
  BY <1>2, <1>6 DEF VerifyChecksum, Pairing
<1> HIDE DEF pub, u, b
<1>8. b[k].share.decryption_share = Mul(u, Share(out.pubs[k]))
  BY <1>2, <1>3, <1>5, <1>7, ChecksumPins
<1>9. QED
  BY <1>4, <1>8 DEF u, b

\* Different contexts and shares that the batch check accepts: the client adds up the
\* weighted shares of the contexts, as far as there are shares.
LEMMA BatchCombined ==
    ASSUME DInv, OutContexts,
           \A i, j \in DOMAIN out.pubs : out.pubs[i] = out.pubs[j] => i = j,
           VerifyDecryptionSharesSimple(PublicContexts(out.pubs), out.ct, Bare(out.basket))
    PROVE  \E n \in Nat, m \in Nat \ {0} : \E xs, ds :
             /\ DOMAIN out.pubs = 1..n /\ Len(out.pubs) = n /\ Len(out.basket) = m
             /\ WeightedShares(ds, n, xs, ritual.threshold, phi, out.ct.commitment)
             /\ \A i \in 1..n : xs[i] = Point(out.pubs[i])
             /\ CreateSharedSecretSimple(PublicContexts(out.pubs), Bare(out.basket))
                  = FSum([i \in (1..m) \cap (1..n) |-> ds[i]])
<1> DEFINE b == out.basket
           u == out.ct.commitment
           pubs == PublicContexts(out.pubs)
<1>1. out.ct \in wire /\ u \in Fr /\ Established
  <2>1. out.variant = "contexts"
    BY DEF OutContexts, Answered
  <2>2. QED
    BY <2>1, OutCases DEF DInv
<1>2. variant = "contexts" /\ b \in Baskets(Simple) /\ out.pubs \in Seq(Nat)
  BY DEF OutContexts
<1>3. PICK m \in Nat \ {0} : b \in [1..m -> Simple] /\ DOMAIN b = 1..m /\ Len(b) = m
  BY <1>2, BasketFacts
<1>4. PICK n \in Nat : DOMAIN out.pubs = 1..n /\ Len(out.pubs) = n
  BY <1>2
<1>5. N \in 0..MaxDomain /\ DomainSize(N) \in Nat
  BY <1>1, SlotFacts
<1> DEFINE f == [i \in 1..n |-> out.pubs[i]]
           xs == [i \in 1..n |-> DomainElement(N, f[i])]
           L == PrepareCombineSimple(xs)
           ds == [i \in 1..n |-> Mul(Mul(u, Eval(phi, xs[i])), L[i])]
<1>6. f \in [1..n -> 0..(DomainSize(N) - 1)] /\ \A i, j \in 1..n : f[i] = f[j] => i = j
  <2>1. \A i \in 1..n : out.pubs[i] \in 0..(DomainSize(N) - 1)
    BY <1>4, BatchPoints
  <2>2. \A i, j \in 1..n : out.pubs[i] = out.pubs[j] => i = j
    BY <1>4
  <2> HIDE DEF b, u, pubs
  <2>3. QED
    BY <2>1, <2>2
<1> HIDE DEF f
<1>7. /\ xs \in [1..n -> Fr \ {Zero}] /\ xs \in [1..n -> Fr]
      /\ DistinctPoints(xs, n) /\ DOMAIN xs = 1..n
  <2>1. xs \in [1..n -> Fr \ {Zero}] /\ DistinctPoints(xs, n)
    <3> HIDE DEF b, u, pubs
    <3>0. PICK h \in [1..n -> 0..(DomainSize(N) - 1)] :
            h = f /\ \A i, j \in 1..n : h[i] = h[j] => i = j
      BY <1>6
    <3>1. PICK ys : ys = [i \in 1..n |-> DomainElement(N, h[i])]
      OBVIOUS
    <3>2. ys \in [1..n -> Fr \ {Zero}] /\ DistinctPoints(ys, n)
      BY ZenonT(90), <1>5, <3>0, <3>1, PointList
    <3>3. QED
      BY <3>0, <3>1, <3>2
  <2>2. QED
    BY <2>1
<1>8. \A i \in 1..n : xs[i] = Point(out.pubs[i])
  BY DEF f, Point
<1> HIDE DEF xs
<1>9. DOMAIN pubs = 1..n /\ DOMAIN Bare(b) = 1..m
  BY <1>3, <1>4 DEF PublicContexts, Bare
<1>10. /\ \A i \in 1..n : pubs[i].domain = xs[i]
       /\ \A i \in (1..m) \cap (1..n) : Bare(b)[i].decryption_share = Mul(u, Eval(phi, xs[i]))
  <2>1. \A i \in 1..n : pubs[i].domain = Point(out.pubs[i])
    BY <1>4, BatchPoints
  <2>2. \A i \in (1..m) \cap (1..n) : Bare(b)[i].decryption_share = Mul(u, Share(out.pubs[i]))
    BY <1>3, <1>4, BatchPins
  <2>3. QED
    BY <1>8, <2>1, <2>2 DEF Share
<1> HIDE DEF b, u, pubs
<1>11. [k \in DOMAIN pubs |-> pubs[k].domain] = xs
  BY <1>7, <1>9, <1>10
<1>12. L \in [1..n -> Fr] /\ DOMAIN L = 1..n
  BY <1>4, <1>7, LagrangeForm
<1>13. CreateSharedSecretSimple(pubs, Bare(b))
         = FSum([i \in DOMAIN Bare(b) \cap DOMAIN L |-> Mul(Bare(b)[i].decryption_share, L[i])])
  BY <1>11 DEF CreateSharedSecretSimple, ShareCombineSimple
<1> HIDE DEF L
<1>14. [i \in DOMAIN Bare(b) \cap DOMAIN L |-> Mul(Bare(b)[i].decryption_share, L[i])]
         = [i \in (1..m) \cap (1..n) |-> ds[i]]
  BY <1>9, <1>10, <1>12
<1>15. ritual.threshold \in Nat \ {0} /\ phi \in [1..ritual.threshold -> Fr]
  <2>1. ritual.threshold \in 1..N /\ phi \in [1..ritual.threshold -> Fr]
    BY <1>1 DEF Established, RitualFacts
  <2>2. QED
    BY <1>5, <2>1
<1>16. \A i \in 1..n : Eval(phi, xs[i]) \in Fr
  BY <1>1, <1>7, SlotFacts, EvalType
<1>17. ds \in [1..n -> Fr] /\ \A i \in 1..n : ds[i] = Mul(Mul(u, Eval(phi, xs[i])), L[i])
  BY <1>1, <1>12, <1>16, FrClosed DEF u
<1> HIDE DEF ds
<1>18. WeightedShares(ds, n, xs, ritual.threshold, phi, u)
  BY <1>1, <1>4, <1>7, <1>15, <1>17 DEF L, WeightedShares, u
<1>19. /\ DOMAIN out.pubs = 1..n /\ Len(out.pubs) = n /\ Len(out.basket) = m
       /\ WeightedShares(ds, n, xs, ritual.threshold, phi, out.ct.commitment)
       /\ \A i \in 1..n : xs[i] = Point(out.pubs[i])
       /\ CreateSharedSecretSimple(PublicContexts(out.pubs), Bare(out.basket))
            = FSum([i \in (1..m) \cap (1..n) |-> ds[i]])
  BY <1>3, <1>4, <1>8, <1>13, <1>14, <1>18 DEF b, u, pubs
<1> HIDE DEF xs
<1> WITNESS n \in Nat, m \in Nat \ {0}
<1> WITNESS xs, ds
<1>20. QED
  BY <1>19

\* For every ceremony: shares that the batch check accepts, with at least threshold
\* contexts beside them and none twice, decrypt if there is a share for every context,
\* whichever shares were spoiled, and do not if the last context has none.
THEOREM BatchVouches == Spec => []BatchCheckVouches
<1>1. ASSUME DInv, out.variant = "contexts", NEW e \in sent, Genuine(e),
             Len(out.pubs) >= ritual.threshold,
             \A i, j \in DOMAIN out.pubs : out.pubs[i] = out.pubs[j] => i = j,
             VerifyDecryptionSharesSimple(PublicContexts(out.pubs), out.ct, Bare(out.basket))
      PROVE  /\ Len(out.pubs) <= Len(out.basket) => Decrypted
             /\ (/\ Len(out.pubs) = Len(out.basket) + 1
                 /\ contexts[1].public[out.pubs[Len(out.pubs)] + 1].share_commitment # Zero)
                  => ~ Decrypted
  <2> DEFINE u == out.ct.commitment
             secret == CreateSharedSecretSimple(PublicContexts(out.pubs), Bare(out.basket))
  <2>1. OutContexts /\ Answered("contexts", secret)
    BY <1>1, OutCases DEF OutContexts
  <2>0. PICK n \in Nat, m \in Nat \ {0} : \E xs, ds :
             /\ DOMAIN out.pubs = 1..n /\ Len(out.pubs) = n /\ Len(out.basket) = m
             /\ WeightedShares(ds, n, xs, ritual.threshold, phi, u)
             /\ \A i \in 1..n : xs[i] = Point(out.pubs[i])
             /\ secret = FSum([i \in (1..m) \cap (1..n) |-> ds[i]])
    BY <1>1, <2>1, BatchCombined
  <2>2. PICK xs, ds :
             /\ DOMAIN out.pubs = 1..n /\ Len(out.pubs) = n /\ Len(out.basket) = m
             /\ WeightedShares(ds, n, xs, ritual.threshold, phi, u)
             /\ \A i \in 1..n : xs[i] = Point(out.pubs[i])
             /\ secret = FSum([i \in (1..m) \cap (1..n) |-> ds[i]])
    BY <2>0
  <2>3. n >= ritual.threshold /\ ritual.threshold \in Nat \ {0} /\ ds \in [1..n -> Fr]
    BY <1>1, <2>2 DEF WeightedShares
  <2>4. FSum(ds) = Mul(phi[1], u)
    BY <2>2, <2>3, SecretOfShares
  <2> HIDE DEF secret
  <2>5. ASSUME n <= m PROVE Decrypted
    <3>1. [i \in (1..m) \cap (1..n) |-> ds[i]] = ds
      BY <2>3, <2>5
    <3>2. PICK x : x = secret
      OBVIOUS
    <3>3. QED
      BY <1>1, <2>1, <2>2, <2>4, <3>1, <3>2, RightSecretDecrypts DEF u
  <2>6. ASSUME n = m + 1, contexts[1].public[out.pubs[n] + 1].share_commitment # Zero, Decrypted
        PROVE  FALSE
    <3>1. [i \in (1..m) \cap (1..n) |-> ds[i]] = FrontOf(ds, n)
      BY <2>3, <2>6 DEF FrontOf
    <3>2. Eval(phi, xs[n]) # Zero
      <4>1. n \in DOMAIN out.pubs /\ n \in 1..n
        BY <2>2, <2>6
      <4>2. contexts[1].public[out.pubs[n] + 1].share_commitment = Share(out.pubs[n])
        BY <1>1, <2>1, <4>1, BatchPoints
      <4>3. QED
        BY <2>2, <2>6, <4>1, <4>2 DEF Share
    <3>3. PICK x : x = secret
      OBVIOUS
    <3>4. x = Mul(phi[1], u) /\ u # Zero
      BY <1>1, <2>1, <2>6, <3>3, WrongSecretOpensNothing
    <3>5. FSum(FrontOf(ds, n)) # Mul(phi[1], u)
      BY <2>2, <2>3, <3>2, <3>4, SecretNeedsAll
    <3>6. QED
      BY <2>2, <3>1, <3>3, <3>4, <3>5
  <2>7. QED
    BY <2>2, <2>5, <2>6
<1>2. DInv => BatchCheckVouches
  BY <1>1 DEF BatchCheckVouches
<1>3. QED
  BY <1>2, AlwaysDInv, PTL

-----------------------------------------------------------------------------
\* As many places as things, when every place holds exactly one.
Pairs(pi, m, n) ==
    /\ m \in Nat /\ n \in Nat /\ pi \in [1..m -> 1..n]
    /\ \A i, j \in 1..m : pi[i] = pi[j] => i = j
    /\ \A k \in 1..n : \E i \in 1..m : pi[i] = k

\* Then there are as many of the one as of the other.
LEMMA OneForEach ==
    ASSUME NEW pi, NEW m, NEW n, Pairs(pi, m, n)
    PROVE  m = n
<1> USE DEF Pairs
<1> DEFINE g == [k \in 1..n |-> CHOOSE i \in 1..m : pi[i] = k]
<1>1. m <= n
  BY InjectionBound
<1>2. \A k \in 1..n : g[k] \in 1..m /\ pi[g[k]] = k
  OBVIOUS
<1> HIDE DEF g
<1>3. g \in [1..n -> 1..m]
  BY <1>2 DEF g
<1>4. \A k, l \in 1..n : g[k] = g[l] => k = l
  BY <1>2
<1>5. n <= m
  BY <1>3, <1>4, InjectionBound
<1>6. QED
  BY <1>1, <1>5

\* The selection a precomputed share was made for is the set of indices it lists.
LEMMA SelectionOf ==
    ASSUME Established, NEW s, NEW K, K \subseteq Slots, s.order = SortedKeys(K)
    PROVE  SelectedBy(s) = K
<1> DEFINE n == Cardinality(K)
           keys == SortedKeys(K)
<1>1. /\ keys \in [1..n -> K]
      /\ \A k \in K : Rank(K, k) \in 1..n /\ keys[Rank(K, k)] = k
  BY PointsFacts
<1>2. DOMAIN keys = 1..n
  BY <1>1
<1> HIDE DEF n, keys
<1>3. {keys[k] : k \in 1..n} = K
  BY <1>1
<1>4. QED
  BY <1>2, <1>3 DEF SelectedBy, keys

\* Every share of the last decryption was made for exactly the validators it comes from.
WholeSelection == \A i \in DOMAIN out.basket : SelectedBy(out.basket[i]) = BasketIndices

\* Then the shares already carry the coefficients of their points.
LEMMA PrecomputedCombined ==
    ASSUME DInv, OutPrecomputed, out.ct.commitment \in Fr, ForThisCiphertext, WholeSelection
    PROVE  /\ Len(out.basket) = Cardinality(BasketIndices) /\ Len(out.basket) \in Nat
           /\ \E ds, xs, pi :
                /\ ShareCombinePrecomputed(Bare(out.basket)) = FSum(ds)
                /\ WeightedAlready(ds, Len(out.basket), xs, ritual.threshold, phi,
                                   out.ct.commitment, pi)
<1> DEFINE b == out.basket
           u == out.ct.commitment
           K == BasketIndices
           n == Cardinality(K)
           xs == PointsOfSlots(K)
           L == PrepareCombineSimple(xs)
<1>1. u \in Fr /\ Established
  BY DEF DInv
<1>2. variant = "precomputed" /\ b \in Baskets(shares)
  BY DEF OutPrecomputed
<1>3. PICK m \in Nat \ {0} : b \in [1..m -> shares] /\ DOMAIN b = 1..m /\ Len(b) = m
  BY <1>2, BasketFacts
<1>4. K = {b[i].index : i \in 1..m}
  BY <1>3 DEF BasketIndices
<1>5. \A i \in 1..m : b[i] \in shares /\ PrecomputedFacts(b[i]) /\ b[i].header.commitment = u
  <2>1. \A i \in 1..m : b[i].header = Header(out.ct)
    BY <1>3 DEF ForThisCiphertext
  <2>2. \A i \in 1..m : b[i] \in shares /\ PrecomputedFacts(b[i])
    BY <1>2, <1>3 DEF DInv, ShareFacts
  <2>3. QED
    BY <2>1, <2>2 DEF Header
<1>6. \A i, j \in 1..m : b[i].index = b[j].index => i = j
  BY <1>3 DEF ForThisCiphertext
<1>7. K \subseteq Slots /\ \A i \in 1..m : b[i].index \in K
  BY <1>4, <1>5 DEF PrecomputedFacts
<1>8. \A i \in 1..m : SelectedBy(b[i]) = K
  BY <1>3 DEF WholeSelection
<1> HIDE DEF b, u, K
<1>9. ASSUME NEW i \in 1..m
      PROVE  b[i].share.decryption_share
               = Mul(Mul(u, Coefficient(K, b[i].index)), Share(b[i].index))
  <2>1. PICK J \in SUBSET Slots :
          /\ b[i].order = SortedKeys(J)
          /\ b[i].share.decryption_share
               = Mul(Mul(b[i].header.commitment, Coefficient(J, b[i].index)), Share(b[i].index))
    BY <1>5 DEF PrecomputedFacts
  <2>2. J = K
    BY <1>1, <1>8, <2>1, SelectionOf
  <2>3. QED
    BY <1>5, <2>1, <2>2
<1>10. /\ n \in Nat /\ xs \in [1..n -> Fr \ {Zero}] /\ DistinctPoints(xs, n) /\ L \in [1..n -> Fr]
       /\ \A k \in K : Rank(K, k) \in 1..n /\ SortedKeys(K)[Rank(K, k)] = k
       /\ SortedKeys(K) \in [1..n -> K]
       /\ \A i, j \in 1..n : SortedKeys(K)[i] = SortedKeys(K)[j] => i = j
  BY <1>1, <1>7, PointsFacts
<1>11. \A k \in K : xs[Rank(K, k)] = Point(k)
  BY <1>10 DEF PointsOfSlots
<1> DEFINE pi == [i \in 1..m |-> Rank(K, b[i].index)]
           ds == [i \in 1..m |-> b[i].share.decryption_share]
<1>12. pi \in [1..m -> 1..n]
  BY <1>7, <1>10
<1>13. \A i, j \in 1..m : pi[i] = pi[j] => i = j
  BY <1>6, <1>7, <1>10
<1>14. ASSUME NEW k \in 1..n PROVE \E i \in 1..m : pi[i] = k
  <2>1. PICK l \in K : l = SortedKeys(K)[k]
    BY <1>10
  <2>2. Rank(K, l) = k
    BY <1>10, <2>1
  <2>3. PICK i \in 1..m : b[i].index = l
    BY <1>4
  <2>4. QED
    BY <2>2, <2>3
<1> HIDE DEF pi
<1>15. m = n
  <2> HIDE DEF n, xs, L, ds
  <2>1. Pairs(pi, m, n)
    BY <1>3, <1>10, <1>12, <1>13, <1>14 DEF Pairs
  <2>2. QED
    BY <2>1, OneForEach
<1>16. \A i \in 1..m : /\ xs[pi[i]] = Point(b[i].index)
                       /\ L[pi[i]] = Coefficient(K, b[i].index)
  BY <1>7, <1>11 DEF pi, Coefficient
<1>17. ritual.threshold \in Nat \ {0} /\ phi \in [1..ritual.threshold -> Fr]
  <2>1. ritual.threshold \in 1..N /\ phi \in [1..ritual.threshold -> Fr]
    BY <1>1 DEF Established, RitualFacts
  <2>2. QED
    BY <1>1, <2>1, SlotFacts
<1>18. ds \in [1..n -> Fr]
  BY <1>5, <1>15 DEF DInv, ShareFacts
<1>19. \A i \in 1..n : ds[i] = Mul(Mul(u, L[pi[i]]), Eval(phi, xs[pi[i]]))
  BY <1>9, <1>15, <1>16 DEF Share
<1>20. ShareCombinePrecomputed(Bare(b)) = FSum(ds)
  <2>1. Bare(b) = [i \in 1..m |-> b[i].share]
    BY <1>3 DEF Bare
  <2>2. [i \in DOMAIN Bare(b) |-> Bare(b)[i].decryption_share] = ds
    BY <2>1
  <2>3. QED
    BY <2>2 DEF ShareCombinePrecomputed
<1> HIDE DEF ds, xs, n
<1>21. WeightedAlready(ds, n, xs, ritual.threshold, phi, u, pi)
  BY <1>1, <1>10, <1>12, <1>13, <1>15, <1>17, <1>18, <1>19 DEF WeightedAlready, u
<1>22. QED
  BY <1>3, <1>15, <1>20, <1>21 DEF b, u, n, K

\* The precomputed shares of exactly the selected validators, at least
\* security_threshold, decrypt in any order: see SelectionDecrypts.
THEOREM SelectedDecrypt == Spec => []SelectionDecrypts
<1>1. ASSUME DInv, out.variant = "precomputed", NEW e \in sent, Genuine(e), ForThisCiphertext,
             \A i \in DOMAIN out.basket : SelectedBy(out.basket[i]) = BasketIndices,
             Cardinality(BasketIndices) >= ritual.threshold
      PROVE  Decrypted
  <2>1. OutPrecomputed /\ out.ct.commitment \in Fr
    BY <1>1, OutCases
  <2>2. Answered("precomputed", ShareCombinePrecomputed(Bare(out.basket)))
    BY <2>1 DEF OutPrecomputed
  <2>3. WholeSelection
    BY <1>1 DEF WholeSelection
  <2>4. PICK ds, xs, pi :
          /\ ShareCombinePrecomputed(Bare(out.basket)) = FSum(ds)
          /\ WeightedAlready(ds, Len(out.basket), xs, ritual.threshold, phi, out.ct.commitment, pi)
    BY <1>1, <2>1, <2>3, PrecomputedCombined
  <2>5. Len(out.basket) >= ritual.threshold
    BY <1>1, <2>1, <2>3, PrecomputedCombined
  <2>6. FSum(ds) = Mul(phi[1], out.ct.commitment)
    BY <2>4, <2>5, SecretOfWeighted
  <2>7. PICK secret : secret = ShareCombinePrecomputed(Bare(out.basket))
    OBVIOUS
  <2>8. QED
    BY <1>1, <2>2, <2>4, <2>6, <2>7, RightSecretDecrypts
<1>2. DInv => SelectionDecrypts
  BY <1>1 DEF SelectionDecrypts
<1>3. QED
  BY <1>2, AlwaysDInv, PTL

\* The contexts 0 to n - 1, selected in that order, decrypt together if they are at least
\* the threshold: see PrefixSelectionDecrypts.
THEOREM PrefixDecrypts == Spec => []PrefixSelectionDecrypts
<1>1. ASSUME DInv, out.variant = "contexts_precomputed", NEW e \in sent, Genuine(e),
             ForThisCiphertext,
             \A i, j \in DOMAIN out.basket : out.basket[i].order = out.basket[j].order,
             BasketIndices = SelectedBy(out.basket[1]),
             \A k \in DOMAIN out.basket[1].order : out.basket[1].order[k] = k - 1,
             Cardinality(BasketIndices) >= ritual.threshold
      PROVE  Decrypted
  <2> DEFINE b == out.basket
             u == out.ct.commitment
             o == b[1].order
             n == Len(o)
             xs == PointsInOrder(o)
             L == PrepareCombineSimple(xs)
  <2>1. OutContextsPrecomputed /\ u \in Fr /\ Established
    BY <1>1, OutCases DEF DInv
  <2>2. /\ variant = "contexts" /\ b \in Baskets(shares \ Simple)
        /\ Answered("contexts_precomputed", ShareCombinePrecomputed(Bare(b)))
    BY <2>1 DEF OutContextsPrecomputed
  <2>3. PICK m \in Nat \ {0} : b \in [1..m -> shares \ Simple] /\ DOMAIN b = 1..m
    BY <2>2, BasketFacts
  <2>4. \A i \in 1..m : /\ b[i] \in shares /\ b[i].order # <<>> /\ b[i].order = o
                        /\ b[i].header.commitment = u /\ ContextShareFacts(b[i])
    <3>1. \A i \in 1..m : b[i].header = Header(out.ct)
      BY <1>1, <2>3 DEF ForThisCiphertext
    <3>2. \A i \in 1..m : b[i] \in shares /\ b[i].order # <<>>
      BY <2>3 DEF Simple
    <3>3. \A i \in 1..m : ContextShareFacts(b[i])
      BY <1>1, <2>2, <3>2 DEF DInv, ShareFacts
    <3>4. \A i \in 1..m : b[i].order = o
      BY <1>1, <2>3
    <3>5. QED
      BY <3>1, <3>2, <3>3, <3>4 DEF Header
  <2>5. \A i, j \in 1..m : b[i].index = b[j].index => i = j
    BY <1>1, <2>3 DEF ForThisCiphertext
  <2>6. /\ o \in Seq(Nat) /\ \A j \in DOMAIN o : o[j] + 1 \in DOMAIN contexts
        /\ \A i \in 1..m : /\ b[i].index \in Nat /\ b[i].index + 1 \in DOMAIN o
                           /\ b[i].share.decryption_share
                                = Mul(Mul(u, L[b[i].index + 1]), Share(b[i].index))
    <3>1. 1 \in 1..m
      BY <2>3
    <3>2. QED
      BY <2>4, <3>1 DEF ContextShareFacts
  <2>7. n \in Nat /\ DOMAIN o = 1..n /\ o \in [1..n -> Nat] /\ \A k \in 1..n : o[k] = k - 1
    <3>1. \A k \in DOMAIN o : o[k] = k - 1
      BY <1>1
    <3> HIDE DEF o
    <3>2. QED
      BY <2>6, <3>1
  <2>8. {b[i].index : i \in 1..m} = {o[k] : k \in 1..n} /\ BasketIndices = {o[k] : k \in 1..n}
    BY <1>1, <2>3, <2>7 DEF BasketIndices, SelectedBy
  <2>9. Cardinality(BasketIndices) = n
    <3>1. BasketIndices = 0..(n - 1)
      <4> HIDE DEF n, o
      <4>1. ASSUME NEW x \in 0..(n - 1) PROVE \E k \in 1..n : o[k] = x
        <5>1. PICK k \in 1..n : k = x + 1
          <6>1. n \in Nat
            BY <2>7
          <6>2. QED
            BY <6>1
        <5>2. o[k] = k - 1
          BY <2>7
        <5>3. k - 1 = x
          BY <5>1
        <5>4. QED
          BY <5>2, <5>3
      <4>2. \A k \in 1..n : o[k] \in 0..(n - 1)
        BY <2>7
      <4>3. {o[k] : k \in 1..n} = 0..(n - 1)
        BY <4>1, <4>2
      <4>4. QED
        BY <2>8, <4>3
    <3> HIDE DEF n
    <3>2. Cardinality(0..(n - 1)) = n
      BY <2>7, FS_Interval
    <3>3. QED
      BY <3>1, <3>2
  <2> HIDE DEF b, u, o, n
  <2>10. /\ N \in 0..MaxDomain /\ DomainSize(N) \in Nat /\ DOMAIN contexts = 1..DomainSize(N)
    BY <2>1, <2>2, SlotFacts, ContextsForm
  <2>11. o \in [1..n -> 0..(DomainSize(N) - 1)] /\ \A i, j \in 1..n : o[i] = o[j] => i = j
    <3>1. \A i, j \in 1..n : o[i] = o[j] => i = j
      BY <2>7
    <3>2. ASSUME NEW k \in 1..n PROVE o[k] \in 0..(DomainSize(N) - 1)
      <4>1. o[k] \in Nat
        BY <2>7
      <4>2. o[k] + 1 \in 1..DomainSize(N) /\ DomainSize(N) \in Nat
        BY <2>6, <2>7, <2>10
      <4>3. QED
        BY <4>1, <4>2
    <3>3. QED
      BY <2>7, <3>1, <3>2
  <2>12. xs \in [1..n -> Fr \ {Zero}] /\ DistinctPoints(xs, n)
    <3>1. xs = [i \in 1..n |-> DomainElement(N, o[i])]
      BY <2>7 DEF PointsInOrder, Point
    <3>2. QED
      BY <2>7, <2>10, <2>11, <3>1, PointList
  <2> DEFINE pi == [i \in 1..m |-> b[i].index + 1]
             ds == [i \in 1..m |-> b[i].share.decryption_share]
  <2>13. pi \in [1..m -> 1..n]
    BY <2>6, <2>7
  <2>14. ASSUME NEW i \in 1..m, NEW j \in 1..m, pi[i] = pi[j] PROVE i = j
    <3>1. b[i].index \in Nat /\ b[j].index \in Nat /\ b[i].index + 1 = b[j].index + 1
      BY <2>6, <2>14
    <3>2. b[i].index = b[j].index
      BY <3>1
    <3>3. QED
      BY <2>5, <3>2
  <2>15. ASSUME NEW k \in 1..n PROVE \E i \in 1..m : pi[i] = k
    <3>1. PICK i \in 1..m : b[i].index = k - 1
      BY <2>7, <2>8
    <3>2. QED
      BY <3>1
  <2>16. ASSUME NEW i \in 1..m
         PROVE  xs[pi[i]] = Point(b[i].index) /\ L[pi[i]] = L[b[i].index + 1]
    <3>1. PICK k \in 1..n : k = b[i].index + 1
      BY <2>6, <2>7
    <3>2. pi[i] = k /\ o[k] = b[i].index
      BY <2>6, <2>7, <3>1
    <3>3. xs[k] = Point(o[k])
      BY <2>7 DEF PointsInOrder
    <3>4. QED
      BY <3>1, <3>2, <3>3
  <2> HIDE DEF pi
  <2>17. m = n
    <3> HIDE DEF xs, L, ds
    <3>1. Pairs(pi, m, n)
      BY <2>3, <2>7, <2>13, <2>14, <2>15 DEF Pairs
    <3>2. QED
      BY <3>1, OneForEach
  <2>18. /\ ritual.threshold \in Nat \ {0} /\ phi \in [1..ritual.threshold -> Fr]
         /\ n >= ritual.threshold
    <3>1. ritual.threshold \in 1..N /\ phi \in [1..ritual.threshold -> Fr]
      BY <2>1 DEF Established, RitualFacts
    <3>2. QED
      BY <1>1, <2>1, <2>7, <2>9, <3>1, SlotFacts
  <2>19. ds \in [1..n -> Fr]
    BY <1>1, <2>4, <2>17 DEF DInv, ShareFacts
  <2>20. \A i \in 1..n : ds[i] = Mul(Mul(u, L[pi[i]]), Eval(phi, xs[pi[i]]))
    BY <2>6, <2>16, <2>17 DEF Share
  <2>21. ShareCombinePrecomputed(Bare(b)) = FSum(ds)
    <3>1. Bare(b) = [i \in 1..m |-> b[i].share]
      BY <2>3 DEF Bare
    <3>2. [i \in DOMAIN Bare(b) |-> Bare(b)[i].decryption_share] = ds
      BY <3>1
    <3>3. QED
      BY <3>2 DEF ShareCombinePrecomputed
  <2> HIDE DEF ds, xs
  <2>22. WeightedAlready(ds, n, xs, ritual.threshold, phi, u, pi)
    BY <2>1, <2>7, <2>12, <2>13, <2>14, <2>17, <2>18, <2>19, <2>20 DEF WeightedAlready, u
  <2>23. FSum(ds) = Mul(phi[1], u)
    BY <2>18, <2>22, SecretOfWeighted
  <2>24. PICK secret : secret = ShareCombinePrecomputed(Bare(b))
    OBVIOUS
  <2>25. QED
    BY <1>1, <2>2, <2>21, <2>23, <2>24, RightSecretDecrypts DEF u
<1>2. DInv => PrefixSelectionDecrypts
  BY <1>1 DEF PrefixSelectionDecrypts
<1>3. QED
  BY <1>2, AlwaysDInv, PTL

-----------------------------------------------------------------------------
\* The threshold is sharp: one share less than security_threshold, each made by its
\* validator for this ciphertext and none twice, never decrypts, whichever validators
\* they come from.  TooFewSharesNeverDecrypt also speaks of fewer shares, which TLC checks.
OneShareShortNeverDecrypts ==
    (/\ out.variant \in {"simple", "precomputed"}
     /\ \A i \in DOMAIN out.basket : out.basket[i].made
     /\ ForThisCiphertext
     /\ out.variant = "precomputed" => WholeSelection
     /\ Len(out.basket) = ritual.threshold - 1)
    => ~ Decrypted

\* security_threshold - 1 shares never decrypt: see OneShareShortNeverDecrypts.
THEOREM OneShareShort == Spec => []OneShareShortNeverDecrypts
<1>1. ASSUME DInv, out.variant \in {"simple", "precomputed"},
             \A i \in DOMAIN out.basket : out.basket[i].made, ForThisCiphertext,
             out.variant = "precomputed" => WholeSelection,
             Len(out.basket) = ritual.threshold - 1, Decrypted
      PROVE  FALSE
  <2>1. out.ct.commitment \in Fr /\ Established
    BY <1>1, OutCases DEF DInv
  <2>2. phi[ritual.threshold] # Zero
    BY <2>1 DEF Established, RitualFacts
  <2>3. CASE out.variant = "simple"
    <3>1. OutSimple
      BY <1>1, <2>3, OutCases
    <3>2. /\ variant = "simple" /\ out.basket \in Baskets(shares)
          /\ Answered("simple", CombineSharesSimple(Bare(out.basket)))
      BY <3>1 DEF OutSimple
    <3>3. \A i \in DOMAIN out.basket : out.basket[i] \in shares /\ SimpleFacts(out.basket[i])
      BY <1>1, <3>2, BasketFacts DEF DInv, ShareFacts
    <3>4. \A i \in DOMAIN out.basket : out.basket[i].header.commitment = out.ct.commitment
      BY <1>1 DEF ForThisCiphertext, Header
    <3>5. RightShares
      BY <1>1, <3>3, <3>4 DEF RightShares, SimpleFacts
    <3>6. PICK ds, xs :
            /\ CombineSharesSimple(Bare(out.basket)) = FSum(ds)
            /\ WeightedShares(ds, Len(out.basket), xs, ritual.threshold, phi, out.ct.commitment)
      BY <1>1, <2>1, <3>1, <3>5, SimpleCombined
    <3>7. PICK secret : secret = CombineSharesSimple(Bare(out.basket))
      OBVIOUS
    <3>8. secret = Mul(phi[1], out.ct.commitment) /\ out.ct.commitment # Zero
      BY <1>1, <3>2, <3>7, WrongSecretOpensNothing
    <3>9. FSum(ds) # Mul(phi[1], out.ct.commitment)
      BY <1>1, <2>2, <3>6, <3>8, SecretOfShares
    <3>10. QED
      BY <3>6, <3>7, <3>8, <3>9
  <2>4. CASE out.variant = "precomputed"
    <3>1. OutPrecomputed /\ WholeSelection
      BY <1>1, <2>4, OutCases
    <3>2. Answered("precomputed", ShareCombinePrecomputed(Bare(out.basket)))
      BY <3>1 DEF OutPrecomputed
    <3>3. PICK ds, xs, pi :
            /\ ShareCombinePrecomputed(Bare(out.basket)) = FSum(ds)
            /\ WeightedAlready(ds, Len(out.basket), xs, ritual.threshold, phi, out.ct.commitment, pi)
      BY <1>1, <2>1, <3>1, PrecomputedCombined
    <3>4. PICK secret : secret = ShareCombinePrecomputed(Bare(out.basket))
      OBVIOUS
    <3>5. secret = Mul(phi[1], out.ct.commitment) /\ out.ct.commitment # Zero
      BY <1>1, <3>2, <3>4, WrongSecretOpensNothing
    <3>6. FSum(ds) # Mul(phi[1], out.ct.commitment)
      BY <1>1, <2>2, <3>3, <3>5, SecretOfWeighted
    <3>7. QED
      BY <3>3, <3>4, <3>5, <3>6
  <2>5. QED
    BY <1>1, <2>3, <2>4
<1>2. DInv => OneShareShortNeverDecrypts
  BY <1>1 DEF OneShareShortNeverDecrypts
<1>3. QED
  BY <1>2, AlwaysDInv, PTL
=============================================================================
