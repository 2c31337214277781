------------------------------ MODULE DkgProofs ------------------------------
(***************************************************************************)
(* The ceremony of Dkg, for every field, every ritual, any number of       *)
(* clients and dealers, and every sequence of calls: first what no call    *)
(* breaks (IInv), then what an accepting verdict is worth (CInv).          *)
(***************************************************************************)
EXTENDS Dkg, ContextProofs

-----------------------------------------------------------------------------
\* Whatever a faulty dealer publishes still deserializes as a transcript.
LEMMA DistortType ==
    ASSUME NEW t \in Transcript, NEW how \in Distortions \cup {"wrong_share"}
    PROVE  Distort(t, how) \in Transcript
<1>1. /\ t.coeffs \in Seq(Fr) /\ t.shares \in Seq(Fr) /\ t.sigma \in Fr
      /\ t = [coeffs |-> t.coeffs, shares |-> t.shares, sigma |-> t.sigma]
  BY DEF Transcript
<1>2. \A c, s \in Seq(Fr) : \A g \in Fr : [coeffs |-> c, shares |-> s, sigma |-> g] \in Transcript
  BY DEF Transcript
<1>3. how \in {"none", "no_coeffs", "wrong_sigma", "wrong_share", "short_shares", "zero"}
  BY FaultsAssumption
<1>4. CASE how = "none"
  BY <1>4 DEF Distort
<1>5. CASE how = "no_coeffs"
  <2>1. Distort(t, how) = [coeffs |-> <<>>, shares |-> t.shares, sigma |-> t.sigma]
    BY <1>1, <1>5 DEF Distort
  <2>2. <<>> \in Seq(Fr)
    OBVIOUS
  <2>3. QED
    BY <1>1, <1>2, <2>1, <2>2
<1>6. CASE how = "wrong_sigma"
  <2>1. Distort(t, how) = [coeffs |-> t.coeffs, shares |-> t.shares, sigma |-> Add(t.sigma, One)]
    BY <1>1, <1>6 DEF Distort
  <2>2. QED
    BY <1>1, <1>2, <2>1, FrClosed
<1>7. CASE how = "wrong_share"
  <2>1. Distort(t, how) = [coeffs |-> t.coeffs, shares |-> BumpLast(t.shares), sigma |-> t.sigma]
    BY <1>1, <1>7 DEF Distort
  <2>2. BumpLast(t.shares) \in Seq(Fr)
    <3>1. PICK l \in Nat : DOMAIN t.shares = 1..l /\ \A i \in 1..l : t.shares[i] \in Fr
      BY <1>1
    <3>2. BumpLast(t.shares) \in [1..l -> Fr]
      BY <3>1, FrClosed DEF BumpLast
    <3>3. QED
      BY <3>2
  <2>3. QED
    BY <1>1, <1>2, <2>1, <2>2
<1>8. CASE how = "short_shares"
  <2>1. Distort(t, how) = [coeffs |-> t.coeffs,
                           shares |-> SubSeq(t.shares, 1, Len(t.shares) - 1), sigma |-> t.sigma]
    BY <1>1, <1>8 DEF Distort
  <2>2. SubSeq(t.shares, 1, Len(t.shares) - 1) \in Seq(Fr)
    BY <1>1
  <2>3. QED
    BY <1>1, <1>2, <2>1, <2>2
<1>9. CASE how = "zero"
  <2> DEFINE zc == [i \in DOMAIN t.coeffs |-> Zero]
             zs == [i \in DOMAIN t.shares |-> Zero]
  <2>1. Distort(t, how) = [coeffs |-> zc, shares |-> zs, sigma |-> Zero]
    BY <1>9 DEF Distort
  <2>2. zc \in Seq(Fr) /\ zs \in Seq(Fr)
    <3>1. PICK k \in Nat : DOMAIN t.coeffs = 1..k
      BY <1>1
    <3>2. PICK l \in Nat : DOMAIN t.shares = 1..l
      BY <1>1
    <3>3. zc \in [1..k -> Fr] /\ zs \in [1..l -> Fr]
      BY <3>1, <3>2, FrClosed
    <3>4. QED
      <4> HIDE DEF zc, zs
      <4> QED
        BY <3>3
  <2>3. QED
    <3> HIDE DEF zc, zs
    <3> QED
      BY <1>2, <2>1, <2>2, FrClosed
<1>10. QED
  BY <1>3, <1>4, <1>5, <1>6, <1>7, <1>8, <1>9

\* aggregate accepts two transcripts of one shape.
LEMMA AggregatePair ==
    ASSUME NEW a \in Transcript, NEW b \in Transcript, SameShape(a, b)
    PROVE  Aggregate(<<a, b>>).val \in Transcript
<1> DEFINE ts == <<a, b>>
           turns == [i \in DOMAIN ts |-> MatchLengths(ts[1], ts[i])]
<1>1. ts \in Seq(Transcript) /\ ts # <<>> /\ DOMAIN ts = {1, 2} /\ ts[1] = a /\ ts[2] = b
  OBVIOUS
<1>2. \A i \in DOMAIN ts : SameShape(ts[1], ts[i]) /\ turns[i] = Ok(TRUE)
  BY <1>1 DEF SameShape, MatchLengths
<1>3. \A i \in DOMAIN ts : Holds(turns[i])
  BY <1>2 DEF Holds, Succeeded, Ok
<1>4. FirstFailure(turns) = Ok(TRUE)
  BY <1>3 DEF FirstFailure
<1>5. Succeeded(Aggregate(ts))
  BY <1>1, <1>2, <1>4 DEF Aggregate, Succeeded, Ok
<1>6. QED
  BY <1>1, <1>5, AggregateType

\* What arrives in serialized form still deserializes as an aggregate.
LEMMA TamperType ==
    ASSUME NEW at \in AggregatedTranscript, NEW how \in Tamperings, NEW z \in Transcript
    PROVE  Tamper(at, how, z) \in AggregatedTranscript
<1>1. /\ at.aggregate \in Transcript /\ at.public_key \in Fr
      /\ at = [aggregate |-> at.aggregate, public_key |-> at.public_key]
  BY DEF AggregatedTranscript
<1>2. \A t \in Transcript : \A g \in Fr : [aggregate |-> t, public_key |-> g] \in AggregatedTranscript
  BY DEF AggregatedTranscript
<1>3. how \in {"none", "public_key", "shares", "reblind"}
  BY FaultsAssumption
<1>4. CASE how = "none"
  BY <1>4 DEF Tamper
<1>5. CASE how = "public_key"
  <2>1. Tamper(at, how, z) = [aggregate |-> at.aggregate, public_key |-> Add(at.public_key, One)]
    BY <1>1, <1>5 DEF Tamper
  <2>2. QED
    BY <1>1, <1>2, <2>1, FrClosed
<1>6. CASE how = "shares"
  <2>1. Tamper(at, how, z) = [aggregate |-> Distort(at.aggregate, "wrong_share"),
                              public_key |-> at.public_key]
    BY <1>1, <1>6 DEF Tamper
  <2>2. QED
    BY <1>1, <1>2, <2>1, DistortType
<1>7. CASE how = "reblind" /\ ~ SameShape(at.aggregate, z)
  BY <1>7 DEF Tamper
<1>8. CASE how = "reblind" /\ SameShape(at.aggregate, z)
  <2>1. Tamper(at, how, z) = [aggregate |-> Aggregate(<<at.aggregate, z>>).val,
                              public_key |-> at.public_key]
    BY <1>1, <1>8 DEF Tamper
  <2>2. QED
    BY <1>1, <1>2, <1>8, <2>1, AggregatePair
<1>9. QED
  BY <1>3, <1>4, <1>5, <1>6, <1>7, <1>8

\* aggregate_transcripts returns an error or an aggregate.
LEMMA AggregateTranscriptsType ==
    ASSUME NEW d, NEW ms \in Seq(Message)
    PROVE  LET r == AggregateTranscripts(d, ms)
           IN  /\ r.kind \in {"ok", "err"}
               /\ Succeeded(r) => r.val \in AggregatedTranscript
<1> DEFINE turns == [i \in DOMAIN ms |-> VerifyMessage(d, ms, i)]
           checked == VerifyTranscripts(d, ms)
<1>1. IsOutcome(FirstFailure(turns))
  <2>1. DOMAIN turns \subseteq Nat
    OBVIOUS
  <2>2. \A i \in DOMAIN turns : IsOutcome(turns[i])
    BY OutcomeForms DEF VerifyMessage
  <2>3. QED
    <3> HIDE DEF turns
    <3> QED
      BY <2>1, <2>2, FirstFailureOutcome
<1>2. IsOutcome(checked)
  <2> HIDE DEF turns
  <2>1. \/ checked = FirstFailure(turns)
        \/ \E e : checked = Err(e)
        \/ checked = Ok(TRUE)
    BY DEF VerifyTranscripts, turns
  <2>2. QED
    BY <1>1, <2>1, OutcomeForms
<1>3. Transcripts(ms) \in Seq(Transcript)
  BY MessageParts DEF Message
<1>4. QED
  <2> HIDE DEF checked
  <2> QED
    BY <1>2, <1>3, FromTranscriptsType DEF AggregateTranscripts, checked, IsOutcome
-----------------------------------------------------------------------------
\* The strengthening: a client whose last call was a verify that said Ok(true) has
\* an aggregate.  Without it a step that gives another client its aggregate
\* could be thought to change what this client verified.
AcceptedHeld == \A c \in Clients : Accepted(c) => c \in DOMAIN agg

\* The joint inductive invariant.
IInv ==
    /\ TypeOK
    /\ ContextIndicesExact
    /\ NoPanic
    /\ AcceptedHeld
    /\ EveryDealerContributes

\* The contexts of a reachable state are exact in the sense of PvssProofs.
LEMMA ContextsAreExact ==
    ASSUME TypeOK, ContextIndicesExact
    PROVE  \A a \in DOMAIN dkg : ExactContext(dkg[a])
<1> SUFFICES ASSUME NEW a \in DOMAIN dkg PROVE ExactContext(dkg[a])
  OBVIOUS
<1>1. IsContext(dkg[a]) /\ ritual \in Rituals
  BY DEF TypeOK
<1>2. ritual.validators \in Seq(Validator) /\ Len(ritual.validators) <= MaxDomain
  BY <1>1, RitualsAssumption DEF RitualAssumption
<1>3. Len(ritual.validators) \in Nat /\ MaxDomain \in Nat
  BY <1>2, DomainAssumption
<1>4. /\ dkg[a].threshold > 0
      /\ dkg[a].domain = Len(ritual.validators)
      /\ DOMAIN dkg[a].validators = 0..(dkg[a].domain - 1)
      /\ \A k \in DOMAIN dkg[a].validators :
           dkg[a].validators[k].share_index = k /\ dkg[a].validators[k].ek # Zero
  BY DEF ContextIndicesExact
<1>5. \A k \in DOMAIN dkg[a].validators : dkg[a].validators[k].ek \in Fr
  BY <1>1 DEF IsContext, Validator
<1>6. dkg[a].threshold \in Nat \ {0} /\ dkg[a].domain \in 0..MaxDomain
  BY <1>1, <1>2, <1>3, <1>4 DEF IsContext
<1>7. QED
  BY <1>4, <1>5, <1>6 DEF ExactContext

\* Those who may call Dkg::new or send a message are validators of some kind.
LEMMA CallersAreValidators ==
    ASSUME TypeOK
    PROVE  RitualValidators \cup Strangers \subseteq Validator
<1>1. ritual.validators \in Seq(Validator)
  BY RitualsAssumption DEF TypeOK, RitualAssumption
<1>2. \A i \in DOMAIN ritual.validators : ritual.validators[i] \in Validator
  <2> HIDE DEF Validator
  <2> QED
    BY <1>1
<1>3. QED
  BY <1>2, StrangersAssumption DEF RitualValidators

\* A step that leaves a client's inbox, aggregate and last call alone, or makes its
\* last call another one than verify, keeps what verify established.
LEMMA VerdictsKept ==
    ASSUME AcceptedHeld, EveryDealerContributes,
           \A c \in Clients :
              \/ last'[c].op # "verify"
              \/ /\ inbox'[c] = inbox[c] /\ last'[c] = last[c]
                 /\ c \in DOMAIN agg => c \in DOMAIN agg' /\ agg'[c] = agg[c]
    PROVE  AcceptedHeld' /\ EveryDealerContributes'
<1>1. ASSUME NEW c \in Clients, Accepted(c)'
      PROVE  /\ Accepted(c) /\ c \in DOMAIN agg'
             /\ inbox'[c] = inbox[c] /\ agg'[c] = agg[c]
  BY <1>1 DEF Accepted, AcceptedHeld
<1>2. AcceptedHeld'
  BY <1>1 DEF AcceptedHeld
<1>3. EveryDealerContributes'
  <2> SUFFICES ASSUME NEW c \in Clients, Accepted(c)'
               PROVE  /\ agg'[c].public_key =
                           FSum([i \in DOMAIN inbox'[c] |-> inbox'[c][i].transcript.coeffs[1]])
                      /\ \A i \in DOMAIN inbox'[c] :
                           LET t == inbox'[c][i].transcript
                           IN  t.coeffs[1] # Zero /\ t.sigma = t.coeffs[1]
    BY DEF EveryDealerContributes
  <2>1. /\ Accepted(c) /\ inbox'[c] = inbox[c] /\ agg'[c] = agg[c]
    BY <1>1
  <2>2. QED
    BY <2>1 DEF EveryDealerContributes
<1>4. QED
  BY <1>2, <1>3

\* The inductive invariant holds at first.
LEMMA InitIInv == Init => IInv
<1> SUFFICES ASSUME Init PROVE IInv
  OBVIOUS
<1>1. TypeOK
  <2>1. inbox \in [Clients -> Seq(Message)]
    <3>1. <<>> \in Seq(Message)
      OBVIOUS
    <3>2. QED
      BY <3>1 DEF Init
  <2>2. \A c \in Clients : IsCall(last[c])
    BY DEF Init, Idle, IsCall, Ok, Succeeded
  <2>3. QED
    BY <2>1, <2>2 DEF Init, TypeOK
<1>2. AcceptedHeld /\ EveryDealerContributes
  BY DEF Init, Idle, Accepted, AcceptedHeld, EveryDealerContributes
<1>3. QED
  BY <1>1, <1>2 DEF Init, IInv, ContextIndicesExact, NoPanic
-----------------------------------------------------------------------------
\* Dkg::new makes a context only for a validator of the list, under its key.
LEMMA DealerIsListed ==
    ASSUME NEW vs, NEW params, NEW me, Succeeded(DkgNew(vs, params, me))
    PROVE  LET d == DkgNew(vs, params, me).val
           IN  me.share_index \in DOMAIN d.validators /\ d.validators[me.share_index].ek = me.ek
<1>1. \A e : ~ Succeeded(Err(e)) /\ ~ Succeeded(Panic(e))
  BY DEF Succeeded, Err, Panic
<1>2. /\ me.share_index \in DOMAIN ByIndex(vs) /\ ByIndex(vs)[me.share_index].ek = me.ek
      /\ DkgNew(vs, params, me) =
           Ok([threshold |-> params.threshold, shares_num |-> params.shares_num,
               validators |-> ByIndex(vs), domain |-> Len(vs), me |-> me])
  BY <1>1 DEF DkgNew
<1>3. QED
  BY <1>2 DEF Ok

\* Dkg::new: the new context is exact, the others stay.
LEMMA NewDkgStep ==
    ASSUME IInv, NEW me \in RitualValidators \cup Strangers, NewDkg(me)
    PROVE  IInv'
<1> DEFINE r == DkgNew(ritual.validators, ritual, me)
<1>1. ritual \in Rituals /\ RitualAssumption(ritual) /\ me \in Validator
  BY RitualsAssumption, CallersAreValidators DEF IInv, TypeOK
<1>2. /\ r.kind \in {"ok", "err"}
      /\ Succeeded(r) =>
           /\ IsContext(r.val)
           /\ r.val.threshold > 0
           /\ r.val.domain = Len(ritual.validators)
           /\ DOMAIN r.val.validators = 0..(Len(ritual.validators) - 1)
           /\ \A k \in DOMAIN r.val.validators :
                r.val.validators[k].share_index = k /\ r.val.validators[k].ek # Zero
  <2>1. Holders(Validator)
    BY DEF Holders, Validator
  <2>2. /\ ritual.validators \in Seq(Validator) /\ Len(ritual.validators) <= MaxDomain
        /\ ritual.threshold \in Nat /\ ritual.shares_num \in Nat
    BY <1>1 DEF RitualAssumption
  <2>3. /\ r.kind \in {"ok", "err"}
        /\ Succeeded(r) =>
             /\ ExactContext(r.val)
             /\ r.val.threshold = ritual.threshold /\ r.val.shares_num = ritual.shares_num
             /\ r.val.domain = Len(ritual.validators) /\ r.val.me = me
             /\ \A k \in 0..(Len(ritual.validators) - 1) : r.val.validators[k] \in Validator
    BY <2>1, <2>2, DkgNewExact
  <2>4. Succeeded(r) => /\ me.share_index \in DOMAIN r.val.validators
                        /\ r.val.validators[me.share_index].ek = me.ek
    BY DealerIsListed
  <2> HIDE DEF r
  <2>5. QED
    BY SMTT(60), <1>1, <2>2, <2>3, <2>4 DEF ExactContext, IsContext
<1> HIDE DEF r
<1>3. /\ dkg' = IF Succeeded(r) THEN Put(dkg, me.address, r.val) ELSE dkg
      /\ Trap("Dkg::new", r)
      /\ UNCHANGED <<ritual, board, honest, inbox, agg, last>>
  BY DEF NewDkg, r
<1>4. me.address \in Addresses
  BY <1>1 DEF Validator
<1>5. \A a \in DOMAIN dkg' : \/ a \in DOMAIN dkg /\ dkg'[a] = dkg[a]
                             \/ a \in Addresses /\ Succeeded(r) /\ dkg'[a] = r.val
  BY <1>3, <1>4 DEF Put
<1>6. TypeOK'
  <2>1. DOMAIN dkg' \subseteq Addresses /\ \A a \in DOMAIN dkg' : IsContext(dkg'[a])
    BY <1>2, <1>5 DEF IInv, TypeOK
  <2>2. QED
    BY <1>3, <2>1 DEF IInv, TypeOK
<1>7. ContextIndicesExact'
  BY <1>2, <1>3, <1>5 DEF IInv, ContextIndicesExact
<1>8. NoPanic'
  BY <1>2, <1>3 DEF IInv, NoPanic, Trap
<1>9. AcceptedHeld' /\ EveryDealerContributes'
  BY <1>3, VerdictsKept DEF IInv
<1>10. QED
  BY <1>6, <1>7, <1>8, <1>9 DEF IInv

\* generate_transcript does not panic in an exact context and makes a transcript.
LEMMA GenerateTranscriptStep ==
    ASSUME IInv, NEW a \in DOMAIN dkg, NEW phi \in Draws(dkg[a].threshold),
           GenerateTranscript(a, phi)
    PROVE  IInv'
<1> DEFINE r == PvssNew(phi, dkg[a])
           m == [sender |-> dkg[a].me, transcript |-> r.val]
<1>1. ExactContext(dkg[a]) /\ phi \in Seq(Fr) /\ phi # <<>>
  BY ContextsAreExact, PolysAssumption DEF IInv, Draws
<1>2. r.kind = "ok" /\ r.val \in Transcript
  BY <1>1, PvssNewExact DEF Ok
<1>3. m \in Message
  BY <1>2 DEF Message, IInv, TypeOK, IsContext
<1>4. /\ board' = board \cup {m} /\ honest' = honest \cup {m} /\ panics' = panics
      /\ UNCHANGED <<ritual, dkg, inbox, agg, last>>
  <2> HIDE DEF r
  <2> QED
    BY <1>2 DEF GenerateTranscript, r, Succeeded, Trap
<1>5. TypeOK'
  <2> HIDE DEF m
  <2> QED
    BY <1>3, <1>4 DEF IInv, TypeOK
<1>6. ContextIndicesExact' /\ NoPanic'
  BY <1>4 DEF IInv, ContextIndicesExact, NoPanic
<1>7. AcceptedHeld' /\ EveryDealerContributes'
  BY <1>4, VerdictsKept DEF IInv
<1>8. QED
  BY <1>5, <1>6, <1>7 DEF IInv

\* Publishing any well-formed message.
LEMMA PostStep ==
    ASSUME IInv, NEW m \in Message, Post(m)
    PROVE  IInv'
<1>1. TypeOK'
  BY DEF IInv, TypeOK, Post
<1>2. ContextIndicesExact' /\ NoPanic'
  BY DEF IInv, ContextIndicesExact, NoPanic, Post
<1>3. AcceptedHeld' /\ EveryDealerContributes'
  <2>1. UNCHANGED <<inbox, agg, last>>
    BY DEF Post
  <2>2. QED
    BY <2>1, VerdictsKept DEF IInv
<1>4. QED
  BY <1>1, <1>2, <1>3 DEF IInv

\* A forged transcript keeps it.
LEMMA PostForgedStep ==
    ASSUME IInv, NEW a \in DOMAIN dkg, NEW s \in RitualValidators \cup Strangers,
           NEW phi \in Polys, NEW how \in Distortions, PostForged(a, s, phi, how)
    PROVE  IInv'
<1>1. ExactContext(dkg[a]) /\ phi \in Seq(Fr) /\ phi # <<>>
  BY ContextsAreExact, PolysAssumption DEF IInv
<1>2. Distort(PvssNew(phi, dkg[a]).val, how) \in Transcript
  BY <1>1, PvssNewExact, DistortType
<1>3. [sender |-> s, transcript |-> Distort(PvssNew(phi, dkg[a]).val, how)] \in Message
  BY <1>2, CallersAreValidators DEF IInv, Message
<1>4. QED
  BY <1>3, PostStep DEF PostForged

\* A copied transcript keeps it.
LEMMA PostCopyStep ==
    ASSUME IInv, NEW s \in RitualValidators \cup Strangers, NEW m \in board, PostCopy(s, m)
    PROVE  IInv'
<1>1. [sender |-> s, transcript |-> m.transcript] \in Message
  BY CallersAreValidators DEF IInv, TypeOK, Message
<1>2. QED
  BY <1>1, PostStep DEF PostCopy

\* A message arrives: the client's earlier verdict no longer is its last call.
LEMMA ReceiveStep ==
    ASSUME IInv, NEW c \in Clients, NEW m \in board, Receive(c, m)
    PROVE  IInv'
<1>1. /\ inbox' = [inbox EXCEPT ![c] = Append(inbox[c], m)]
      /\ last' = [last EXCEPT ![c] = Idle]
      /\ UNCHANGED <<ritual, dkg, board, honest, agg, panics>>
  BY DEF Receive
<1>2. inbox \in [Clients -> Seq(Message)] /\ DOMAIN last = Clients /\ m \in Message
  BY DEF IInv, TypeOK
<1>3. TypeOK'
  <2>1. inbox' \in [Clients -> Seq(Message)]
    <3> HIDE DEF Message
    <3>1. Append(inbox[c], m) \in Seq(Message)
      BY <1>2
    <3>2. QED
      BY <1>1, <1>2, <3>1
  <2>2. DOMAIN last' = Clients /\ \A d \in Clients : IsCall(last'[d])
    <3>1. IsCall(Idle)
      BY DEF Idle, IsCall, Ok, Succeeded
    <3>2. QED
      BY <1>1, <1>2, <3>1 DEF IInv, TypeOK
  <2>3. QED
    BY <1>1, <2>1, <2>2 DEF IInv, TypeOK
<1>4. ContextIndicesExact' /\ NoPanic'
  BY <1>1 DEF IInv, ContextIndicesExact, NoPanic
<1>5. AcceptedHeld' /\ EveryDealerContributes'
  <2>1. \A d \in Clients : \/ last'[d].op # "verify"
                           \/ inbox'[d] = inbox[d] /\ last'[d] = last[d]
    BY <1>1, <1>2 DEF Idle
  <2>2. QED
    BY <1>1, <2>1, VerdictsKept DEF IInv
<1>6. QED
  BY <1>3, <1>4, <1>5 DEF IInv
\* A client replaces its aggregate, and its last call is not a verify any more.
LEMMA AggregateReplaced ==
    ASSUME IInv, NEW c \in Clients, NEW at \in AggregatedTranscript, NEW l, IsCall(l),
           l.op # "verify", agg' = Put(agg, c, at), last' = [last EXCEPT ![c] = l],
           UNCHANGED <<ritual, dkg, board, honest, inbox, panics>>
    PROVE  IInv'
<1>1. DOMAIN last = Clients /\ DOMAIN agg \subseteq Clients
  BY DEF IInv, TypeOK
<1>2. /\ DOMAIN agg' = DOMAIN agg \cup {c} /\ agg'[c] = at
      /\ \A d \in DOMAIN agg : d # c => agg'[d] = agg[d]
  BY DEF Put
<1>3. TypeOK'
  <2>1. DOMAIN last' = Clients /\ \A d \in Clients : IsCall(last'[d])
    BY <1>1 DEF IInv, TypeOK
  <2>2. DOMAIN agg' \subseteq Clients /\ \A d \in DOMAIN agg' : agg'[d] \in AggregatedTranscript
    BY <1>1, <1>2 DEF IInv, TypeOK
  <2>3. QED
    BY <2>1, <2>2 DEF IInv, TypeOK
<1>4. ContextIndicesExact' /\ NoPanic'
  BY DEF IInv, ContextIndicesExact, NoPanic
<1>5. AcceptedHeld' /\ EveryDealerContributes'
  <2>1. \A d \in Clients :
           \/ last'[d].op # "verify"
           \/ /\ inbox'[d] = inbox[d] /\ last'[d] = last[d]
              /\ d \in DOMAIN agg => d \in DOMAIN agg' /\ agg'[d] = agg[d]
    BY <1>1, <1>2
  <2>2. QED
    BY <2>1, VerdictsKept DEF IInv
<1>6. QED
  BY <1>3, <1>4, <1>5 DEF IInv

\* A call reports its outcome and changes nothing else.
LEMMA OutcomeReported ==
    ASSUME IInv, NEW c \in Clients, NEW l, IsCall(l), last' = [last EXCEPT ![c] = l],
           UNCHANGED <<ritual, dkg, board, honest, inbox, agg, panics>>
    PROVE  TypeOK' /\ ContextIndicesExact' /\ NoPanic'
<1>1. DOMAIN last' = Clients /\ \A d \in Clients : IsCall(last'[d])
  BY DEF IInv, TypeOK
<1>2. QED
  BY <1>1 DEF IInv, TypeOK, ContextIndicesExact, NoPanic

\* Aggregation: on success the aggregate is kept, on an error the old one stays.
LEMMA KeepAggregateStep ==
    ASSUME IInv, NEW c \in Clients,
           NEW op \in {"aggregate_transcripts", "AggregatedTranscript::new"}, NEW r,
           r.kind \in {"ok", "err"}, Succeeded(r) => r.val \in AggregatedTranscript,
           KeepAggregate(c, op, r)
    PROVE  IInv'
<1> DEFINE l == Returned(op, r)
<1>1. IsCall(l) /\ l.op = op /\ l.op # "verify"
  BY DEF IsCall, Returned, Ok, Succeeded
<1>2. /\ last' = [last EXCEPT ![c] = l]
      /\ UNCHANGED <<ritual, dkg, board, honest, inbox, panics>>
      /\ agg' = IF Succeeded(r) THEN Put(agg, c, r.val) ELSE agg
  BY DEF KeepAggregate, Trap
<1> HIDE DEF l
<1>3. CASE Succeeded(r)
  BY <1>1, <1>2, <1>3, AggregateReplaced
<1>4. CASE ~ Succeeded(r)
  <2>1. TypeOK' /\ ContextIndicesExact' /\ NoPanic'
    BY <1>1, <1>2, <1>4, OutcomeReported
  <2>2. \A d \in Clients : \/ last'[d].op # "verify"
                           \/ inbox'[d] = inbox[d] /\ last'[d] = last[d]
    BY <1>1, <1>2 DEF IInv, TypeOK
  <2>3. AcceptedHeld' /\ EveryDealerContributes'
    BY <1>2, <1>4, <2>2, VerdictsKept DEF IInv
  <2>4. QED
    BY <2>1, <2>3 DEF IInv
<1>5. QED
  BY <1>3, <1>4

\* aggregate_transcripts and AggregatedTranscript::new keep it.
LEMMA AggregationStep ==
    ASSUME IInv, NEW c \in Clients,
           CallAggregateTranscripts(c) \/ CallAggregatedTranscriptNew(c)
    PROVE  IInv'
<1>1. inbox[c] \in Seq(Message)
  BY DEF IInv, TypeOK
<1>2. CASE CallAggregateTranscripts(c)
  BY <1>1, <1>2, AggregateTranscriptsType, KeepAggregateStep DEF CallAggregateTranscripts
<1>3. CASE CallAggregatedTranscriptNew(c)
  <2>1. Transcripts(inbox[c]) \in Seq(Transcript)
    BY <1>1, MessageParts DEF Message
  <2>2. QED
    BY <1>3, <2>1, FromTranscriptsType, KeepAggregateStep DEF CallAggregatedTranscriptNew
<1>4. QED
  BY <1>2, <1>3

\* An aggregate in serialized form, tampered with or not, replaces the client's.
LEMMA ReceiveAggregateStep ==
    ASSUME IInv, NEW c \in Clients, NEW from \in DOMAIN agg, NEW how \in Tamperings,
           NEW a \in DOMAIN dkg, ReceiveAggregate(c, from, how, a)
    PROVE  IInv'
<1> DEFINE t == dkg[a].threshold
           phi == [i \in 1..t |-> IF i = t /\ i > 1 THEN One ELSE Zero]
           z == PvssNew(phi, dkg[a]).val
<1>1. ExactContext(dkg[a]) /\ t \in Nat \ {0}
  BY ContextsAreExact DEF IInv, ExactContext
<1>2. phi \in Seq(Fr) /\ phi # <<>>
  <2>1. phi \in [1..t -> Fr] /\ 1 \in DOMAIN phi
    BY <1>1, FrClosed
  <2>2. QED
    <3> HIDE DEF phi, t
    <3> QED
      BY <1>1, <2>1
<1>3. z \in Transcript
  <2> HIDE DEF phi
  <2> QED
    BY <1>1, <1>2, PvssNewExact
<1>4. agg[from] \in AggregatedTranscript
  BY DEF IInv, TypeOK
<1>5. /\ agg' = Put(agg, c, Tamper(agg[from], how, z))
      /\ last' = [last EXCEPT ![c] = Idle]
      /\ UNCHANGED <<ritual, dkg, board, honest, inbox, panics>>
  BY DEF ReceiveAggregate
<1>6. IsCall(Idle) /\ Idle.op # "verify"
  BY DEF Idle, IsCall, Ok, Succeeded
<1>7. QED
  <2> HIDE DEF z
  <2>1. Tamper(agg[from], how, z) \in AggregatedTranscript
    BY <1>3, <1>4, TamperType
  <2>2. QED
    BY <1>5, <1>6, <2>1, AggregateReplaced

\* AggregatedTranscript::verify: what it accepts is what EveryDealerContributes says.
LEMMA CallVerifyStep ==
    ASSUME IInv, NEW c \in Clients \cap DOMAIN agg, CallVerify(c)
    PROVE  IInv'
<1> DEFINE r == Verify(agg[c], ritual.shares_num, ritual.threshold, inbox[c])
           l == [op |-> "verify", out |-> r]
           contributes(x) == SumOfContributions(agg[x].public_key, inbox[x])
<1>1. /\ ritual.shares_num \in Nat /\ ritual.shares_num <= MaxDomain
      /\ inbox[c] \in Seq(Message)
      /\ DOMAIN last = Clients
  BY RitualsAssumption DEF IInv, TypeOK, RitualAssumption
<1>2. IsOutcome(r) /\ (Holds(r) => contributes(c))
  <2>1. DOMAIN inbox[c] \subseteq Nat /\ \A i \in DOMAIN inbox[c] : inbox[c][i].transcript \in Transcript
    <3>1. \A i \in DOMAIN inbox[c] : inbox[c][i] \in Message
      BY <1>1
    <3>2. QED
      BY <1>1, <3>1 DEF Message
  <2>2. QED
    BY <1>1, <2>1, VerifyOutcome
<1>3. /\ last' = [last EXCEPT ![c] = l] /\ Trap("verify", r)
      /\ UNCHANGED <<ritual, dkg, board, honest, inbox, agg>>
  BY DEF CallVerify, Report
<1>4. IsCall(l) /\ panics' = panics
  <2> HIDE DEF r
  <2> QED
    BY <1>2, <1>3 DEF IsCall, IsOutcome, Trap
<1>5. TypeOK' /\ ContextIndicesExact' /\ NoPanic'
  <2> HIDE DEF l
  <2> QED
    BY <1>3, <1>4, OutcomeReported
<1>6. ASSUME NEW d \in Clients, Accepted(d)'
      PROVE  d \in DOMAIN agg' /\ contributes(d)
  <2>1. CASE d = c
    <3>1. last'[c] = l
      BY <1>1, <1>3
    <3>2. Holds(r)
      <4> HIDE DEF r
      <4> QED
        BY <1>6, <2>1, <3>1 DEF Accepted
    <3>3. QED
      <4> HIDE DEF r, contributes
      <4> QED
        BY <1>2, <1>3, <2>1, <3>2
  <2>2. CASE d # c
    <3>1. Accepted(d)
      <4> HIDE DEF l
      <4> QED
        BY <1>1, <1>3, <1>6, <2>2 DEF Accepted
    <3>2. QED
      BY <1>3, <3>1 DEF IInv, AcceptedHeld, EveryDealerContributes, SumOfContributions
  <2>3. QED
    BY <2>1, <2>2
<1>7. AcceptedHeld'
  <2> HIDE DEF contributes
  <2> QED
    BY <1>6 DEF AcceptedHeld
<1>8. EveryDealerContributes'
  BY <1>3, <1>6 DEF EveryDealerContributes, SumOfContributions
<1>9. QED
  BY <1>5, <1>7, <1>8 DEF IInv

\* verify_aggregation keeps it.
LEMMA CallVerifyAggregationStep ==
    ASSUME IInv, NEW c \in Clients \cap DOMAIN agg \cap DOMAIN dkg, CallVerifyAggregation(c)
    PROVE  IInv'
<1> DEFINE vs == ValuesOf(dkg[c].validators)
           pvss == Transcripts(inbox[c])
           r == VerifyAggregation(agg[c].aggregate, dkg[c], pvss)
           l == [op |-> "verify_aggregation", out |-> r]
<1>1. DOMAIN vs \subseteq Nat
  <2>1. ExactContext(dkg[c])
    BY ContextsAreExact DEF IInv
  <2>2. PICK n \in Nat : DOMAIN dkg[c].validators = 0..(n - 1)
    BY <2>1, DomainAssumption DEF ExactContext
  <2>3. vs = [i \in 1..n |-> dkg[c].validators[i - 1]]
    BY <2>2, ValuesOfDense
  <2>4. QED
    BY <2>3
<1>2. DOMAIN pvss \subseteq Nat
  <2>1. inbox[c] \in Seq(Message)
    BY DEF IInv, TypeOK
  <2>2. QED
    BY <2>1 DEF Transcripts
<1>3. IsOutcome(r)
  <2> HIDE DEF vs, pvss
  <2> QED
    BY <1>1, <1>2, DoVerifyAggregationOutcome DEF VerifyAggregation, vs
<1>4. /\ last' = [last EXCEPT ![c] = l] /\ Trap("verify_aggregation", r)
      /\ UNCHANGED <<ritual, dkg, board, honest, inbox, agg>>
  BY DEF CallVerifyAggregation, Report
<1>5. IsCall(l) /\ panics' = panics /\ l.op # "verify"
  <2> HIDE DEF r
  <2> QED
    BY <1>3, <1>4 DEF IsCall, IsOutcome, Trap
<1> HIDE DEF l
<1>6. TypeOK' /\ ContextIndicesExact' /\ NoPanic'
  BY <1>4, <1>5, OutcomeReported
<1>7. \A d \in Clients : \/ last'[d].op # "verify"
                         \/ inbox'[d] = inbox[d] /\ last'[d] = last[d]
  BY <1>4, <1>5 DEF IInv, TypeOK
<1>8. AcceptedHeld' /\ EveryDealerContributes'
  BY <1>4, <1>7, VerdictsKept DEF IInv
<1>9. QED
  BY <1>6, <1>8 DEF IInv
-----------------------------------------------------------------------------
\* Every step keeps it.
LEMMA NextIInv == IInv /\ [Next]_vars => IInv'
<1> SUFFICES ASSUME IInv, [Next]_vars PROVE IInv'
  OBVIOUS
<1>1. CASE UNCHANGED vars
  <2>1. UNCHANGED <<ritual, dkg, board, honest, inbox, agg, last, panics>>
    BY <1>1 DEF vars
  <2>2. TypeOK' /\ ContextIndicesExact' /\ NoPanic'
    BY <2>1 DEF IInv, TypeOK, ContextIndicesExact, NoPanic
  <2>3. AcceptedHeld' /\ EveryDealerContributes'
    BY <2>1, VerdictsKept DEF IInv
  <2>4. QED
    BY <2>2, <2>3 DEF IInv
<1>2. CASE \E me \in RitualValidators \cup Strangers : NewDkg(me)
  BY <1>2, NewDkgStep
<1>3. CASE \E a \in DOMAIN dkg : \E phi \in Draws(dkg[a].threshold) : GenerateTranscript(a, phi)
  BY <1>3, GenerateTranscriptStep
<1>4. CASE \E a \in DOMAIN dkg, s \in RitualValidators \cup Strangers,
              phi \in Polys, how \in Distortions : PostForged(a, s, phi, how)
  BY <1>4, PostForgedStep
<1>5. CASE \E s \in RitualValidators \cup Strangers, m \in board : PostCopy(s, m)
  BY <1>5, PostCopyStep
<1>6. CASE \E c \in Clients, m \in board : Receive(c, m)
  BY <1>6, ReceiveStep
<1>7. CASE \E c \in Clients \cap DOMAIN dkg : CallAggregateTranscripts(c)
  BY <1>7, AggregationStep
<1>8. CASE \E c \in Clients : CallAggregatedTranscriptNew(c)
  BY <1>8, AggregationStep
<1>9. CASE \E c \in Clients, from \in DOMAIN agg, how \in Tamperings, a \in DOMAIN dkg :
              ReceiveAggregate(c, from, how, a)
  BY <1>9, ReceiveAggregateStep
<1>10. CASE \E c \in Clients \cap DOMAIN agg : CallVerify(c)
  BY <1>10, CallVerifyStep
<1>11. CASE \E c \in Clients \cap DOMAIN agg \cap DOMAIN dkg : CallVerifyAggregation(c)
  BY <1>11, CallVerifyAggregationStep
<1>12. QED
  BY <1>1, <1>2, <1>3, <1>4, <1>5, <1>6, <1>7, <1>8, <1>9, <1>10, <1>11 DEF Next

\* So it holds always.
LEMMA AlwaysIInv == Spec => []IInv
BY InitIInv, NextIInv, PTL DEF Spec

\* The type invariant holds in every ceremony: whatever callers pass to Dkg::new
\* and whatever dealers and peers send, the contexts, messages and aggregates
\* that the API passes around keep their shapes.
THEOREM TypeCorrect == Spec => []TypeOK
<1>1. IInv => TypeOK
  BY DEF IInv
<1>2. QED
  BY <1>1, AlwaysIInv, PTL

\* Every context that Dkg::new ever returns has the share indices 0..n-1, each
\* under its own key and with an encryption key that is not the identity, for any
\* number of validators in any order.
THEOREM ContextsExact == Spec => []ContextIndicesExact
<1>1. IInv => ContextIndicesExact
  BY DEF IInv
<1>2. QED
  BY <1>1, AlwaysIInv, PTL

\* No sequence of calls on whatever transcripts and aggregates panics: the domain is
\* never too large, `evals[share_index]` is in range, the threshold is not zero
\* and zip_eq gets equal lengths.
THEOREM NeverPanics == Spec => []NoPanic
<1>1. IInv => NoPanic
  BY DEF IInv
<1>2. QED
  BY <1>1, AlwaysIInv, PTL

\* Whenever AggregatedTranscript::verify says Ok(true), the aggregate's public key is
\* the sum of the constant terms of the given transcripts, each proved by its
\* dealer and none the identity: for every field and any number of dealers.
THEOREM DealersContribute == Spec => []EveryDealerContributes
<1>1. IInv => EveryDealerContributes
  BY DEF IInv
<1>2. QED
  BY <1>1, AlwaysIInv, PTL
-----------------------------------------------------------------------------
\* What verify_transcripts says of a dealer whose transcript is invalid.
Blame(a) == <<"InvalidPvssTranscript", a>>

\* Aggregation proper blames nobody.
LEMMA FromTranscriptsBlamesNobody ==
    ASSUME NEW ts \in Seq(Transcript), NEW a, FromTranscripts(ts).kind = "err"
    PROVE  FromTranscripts(ts).val # Blame(a)
<1> DEFINE turns == [i \in DOMAIN ts |-> MatchLengths(ts[1], ts[i])]
<1>1. /\ \A i \in DOMAIN turns : ~ Holds(turns[i]) => turns[i].val # Blame(a)
      /\ DOMAIN turns \subseteq Nat
  <2>1. \A s : <<"MismatchedTranscriptLengths", s>> # Blame(a)
    BY DEF Blame
  <2>2. \A i \in DOMAIN turns : \/ turns[i] = Ok(TRUE)
                                \/ \E s : turns[i] = Err(<<"MismatchedTranscriptLengths", s>>)
    BY DEF MatchLengths
  <2>3. Holds(Ok(TRUE)) /\ \A e : Err(e).val = e
    BY DEF Holds, Succeeded, Ok, Err
  <2>4. DOMAIN turns \subseteq Nat
    OBVIOUS
  <2>5. QED
    <3> HIDE DEF turns
    <3> QED
      BY <2>1, <2>2, <2>3, <2>4
<1>2. \/ Succeeded(FirstFailure(turns))
      \/ FirstFailure(turns).val # Blame(a)
  <2> HIDE DEF turns
  <2> QED
    BY <1>1, FirstFailureCases, OutcomeForms
<1>3. CASE Succeeded(Aggregate(ts))
  <2>1. FromTranscripts(ts) = FromAggregate(Aggregate(ts).val)
    BY <1>3 DEF FromTranscripts
  <2>2. FromAggregate(Aggregate(ts).val) = Err(<<"EmptyTranscript">>)
    BY <2>1 DEF FromAggregate, Ok
  <2>3. QED
    BY <2>1, <2>2 DEF Err, Blame
<1>4. CASE ~ Succeeded(Aggregate(ts))
  <2>1. FromTranscripts(ts) = Aggregate(ts)
    BY <1>4 DEF FromTranscripts
  <2>2. \/ Aggregate(ts) = Err(<<"NoTranscriptsToAggregate">>)
        \/ Aggregate(ts) = FirstFailure(turns) /\ ~ Succeeded(FirstFailure(turns))
        \/ Aggregate(ts) = Panic("zip_eq")
    <3> HIDE DEF turns
    <3> QED
      BY <1>4, OutcomeForms DEF Aggregate, turns, Succeeded, Ok
  <2>3. QED
    BY <1>2, <2>1, <2>2 DEF Err, Panic, Blame
<1>5. QED
  BY <1>3, <1>4

\* A dealer that aggregate_transcripts blames did send an invalid transcript.
LEMMA BlameCause ==
    ASSUME NEW d, NEW ms \in Seq(Message), NEW a,
           AggregateTranscripts(d, ms).kind = "err",
           AggregateTranscripts(d, ms).val = Blame(a)
    PROVE  \E i \in DOMAIN ms : ms[i].sender.address = a /\ ~ VerifyOptimistic(ms[i].transcript)
<1> DEFINE turns == [i \in DOMAIN ms |-> VerifyMessage(d, ms, i)]
           checked == VerifyTranscripts(d, ms)
<1>1. DOMAIN turns = DOMAIN ms /\ DOMAIN turns \subseteq Nat
  OBVIOUS
<1>2. \A i \in DOMAIN turns :
         ~ Holds(turns[i]) /\ turns[i].val = Blame(a) =>
            ms[i].sender.address = a /\ ~ VerifyOptimistic(ms[i].transcript)
  BY DEF VerifyMessage, Holds, Succeeded, Ok, Err, Blame
<1>3. ~ Succeeded(checked) /\ checked.val = Blame(a)
  <2>1. Transcripts(ms) \in Seq(Transcript)
    BY MessageParts DEF Message
  <2>2. CASE Succeeded(checked)
    <3>1. AggregateTranscripts(d, ms) = FromTranscripts(Transcripts(ms))
      BY <2>2 DEF AggregateTranscripts
    <3>2. QED
      BY <2>1, <3>1, FromTranscriptsBlamesNobody
  <2>3. CASE ~ Succeeded(checked)
    BY <2>3 DEF AggregateTranscripts
  <2>4. QED
    BY <2>2, <2>3
<1>4. checked = FirstFailure(turns) /\ ~ Succeeded(FirstFailure(turns))
  <2> HIDE DEF turns
  <2>1. \/ checked = FirstFailure(turns)
        \/ checked = Err(<<"TooManyTranscripts">>)
        \/ checked = Ok(TRUE)
    BY DEF VerifyTranscripts, turns
  <2>2. checked # Err(<<"TooManyTranscripts">>)
    BY <1>3 DEF Err, Blame
  <2>3. QED
    BY <1>3, <2>1, <2>2, OutcomeForms
<1>5. \E i \in DOMAIN turns : FirstFailure(turns) = turns[i] /\ ~ Holds(turns[i])
  <2> HIDE DEF turns, checked
  <2> QED
    BY <1>1, <1>4, FirstFailureCases, OutcomeForms
<1>6. QED
  <2> HIDE DEF turns, checked
  <2> QED
    BY <1>1, <1>2, <1>3, <1>4, <1>5

\* Every transcript that generate_transcript made passes verify_optimistic.
HonestProved == \A m \in honest : VerifyOptimistic(m.transcript)

\* Who is blamed by a client's last call sent it an invalid transcript.
BlamedInvalid ==
    \A c \in Clients, a \in Addresses :
        (/\ last[c].op = "aggregate_transcripts"
         /\ last[c].out.kind = "err"
         /\ last[c].out.val = Blame(a))
        => \E i \in DOMAIN inbox[c] : /\ inbox[c][i].sender.address = a
                                      /\ ~ VerifyOptimistic(inbox[c][i].transcript)

\* A step after which each client has its old inbox and last call, or another last
\* call than aggregate_transcripts.
LEMMA BlameKept ==
    ASSUME BlamedInvalid,
           \A c \in Clients : \/ last'[c].op # "aggregate_transcripts"
                              \/ inbox'[c] = inbox[c] /\ last'[c] = last[c]
    PROVE  BlamedInvalid'
BY DEF BlamedInvalid

\* At first nobody is blamed.
LEMMA InitBlame == Init => HonestProved /\ BlamedInvalid
BY DEF Init, Idle, HonestProved, BlamedInvalid

\* An honest dealer's transcript carries the proof of its own constant term.
LEMMA GenerateProved ==
    ASSUME IInv, HonestProved, NEW a \in DOMAIN dkg, NEW phi \in Draws(dkg[a].threshold),
           GenerateTranscript(a, phi)
    PROVE  HonestProved'
<1> DEFINE tr == PvssNew(phi, dkg[a]).val
<1>1. ExactContext(dkg[a]) /\ phi \in Seq(Fr) /\ phi # <<>> /\ phi[1] # Zero
  BY ContextsAreExact, PolysAssumption DEF IInv, Draws
<1>2. tr.coeffs = phi /\ tr.sigma = phi[1]
  BY <1>1, PvssNewExact DEF Ok
<1>3. VerifyOptimistic(tr)
  <2>1. phi[1] \in Fr
    BY <1>1
  <2>2. Mul(phi[1], One) = Mul(One, phi[1])
    BY <2>1, FrClosed, FrMultiplicative
  <2>3. QED
    BY <1>1, <1>2, <2>2 DEF VerifyOptimistic, Pairing
<1>4. \A m \in honest' : m \in honest \/ m = [sender |-> dkg[a].me, transcript |-> tr]
  BY DEF GenerateTranscript
<1>5. QED
  <2> HIDE DEF tr
  <2> QED
    BY <1>3, <1>4 DEF HonestProved

\* The verdict of aggregate_transcripts on its own step.
LEMMA AggregateTranscriptsBlame ==
    ASSUME IInv, BlamedInvalid, NEW c \in Clients, CallAggregateTranscripts(c)
    PROVE  BlamedInvalid'
<1> DEFINE r == AggregateTranscripts(dkg[c], inbox[c])
<1>1. /\ last' = [last EXCEPT ![c] = Returned("aggregate_transcripts", r)]
      /\ inbox' = inbox
  BY DEF CallAggregateTranscripts, KeepAggregate
<1>2. inbox[c] \in Seq(Message) /\ DOMAIN last = Clients
  BY DEF IInv, TypeOK
<1>3. SUFFICES ASSUME NEW d \in Clients, NEW a \in Addresses,
                      last'[d].op = "aggregate_transcripts",
                      last'[d].out.kind = "err", last'[d].out.val = Blame(a)
               PROVE  \E i \in DOMAIN inbox[d] : /\ inbox[d][i].sender.address = a
                                                 /\ ~ VerifyOptimistic(inbox[d][i].transcript)
  BY <1>1 DEF BlamedInvalid
<1>4. CASE d = c
  <2>1. last'[c].out = IF Succeeded(r) THEN Ok(TRUE) ELSE r
    BY <1>1, <1>2 DEF Returned
  <2>2. r.kind = "err" /\ r.val = Blame(a)
    <3> HIDE DEF r
    <3>1. Ok(TRUE).kind # "err"
      BY DEF Ok
    <3>2. last'[c].out = r
      BY <1>3, <1>4, <2>1, <3>1
    <3>3. QED
      BY <1>3, <1>4, <3>2
  <2>3. QED
    BY <1>2, <1>4, <2>2, BlameCause
<1>5. CASE d # c
  <2>1. last'[d] = last[d]
    BY <1>1, <1>2, <1>5
  <2>2. QED
    BY <1>3, <2>1 DEF BlamedInvalid
<1>6. QED
  BY <1>4, <1>5

\* Every step keeps what is known of honest and of blamed dealers.
LEMMA NextBlame ==
    IInv /\ HonestProved /\ BlamedInvalid /\ [Next]_vars => HonestProved' /\ BlamedInvalid'
<1> SUFFICES ASSUME IInv, HonestProved, BlamedInvalid, [Next]_vars
             PROVE  HonestProved' /\ BlamedInvalid'
  OBVIOUS
<1>1. CASE \E a \in DOMAIN dkg : \E phi \in Draws(dkg[a].threshold) : GenerateTranscript(a, phi)
  <2>1. UNCHANGED <<inbox, last>>
    BY <1>1 DEF GenerateTranscript
  <2>2. QED
    BY <1>1, <2>1, GenerateProved, BlameKept
<1>2. CASE \E c \in Clients \cap DOMAIN dkg : CallAggregateTranscripts(c)
  <2>1. honest' = honest
    BY <1>2 DEF CallAggregateTranscripts, KeepAggregate
  <2>2. QED
    BY <1>2, <2>1, AggregateTranscriptsBlame DEF HonestProved
<1>3. ASSUME honest' = honest,
             \A c \in Clients : \/ last'[c].op # "aggregate_transcripts"
                                \/ inbox'[c] = inbox[c] /\ last'[c] = last[c]
      PROVE  HonestProved' /\ BlamedInvalid'
  BY <1>3, BlameKept DEF HonestProved
<1>4. CASE \/ UNCHANGED vars
           \/ \E me \in RitualValidators \cup Strangers : NewDkg(me)
           \/ \E a \in DOMAIN dkg, s \in RitualValidators \cup Strangers,
                 phi \in Polys, how \in Distortions : PostForged(a, s, phi, how)
           \/ \E s \in RitualValidators \cup Strangers, m \in board : PostCopy(s, m)
  <2>1. UNCHANGED <<honest, inbox, last>>
    BY <1>4 DEF vars, NewDkg, PostForged, PostCopy, Post
  <2>2. QED
    BY <1>3, <2>1
<1>5. ASSUME NEW c \in Clients, NEW l, l.op # "aggregate_transcripts",
             honest' = honest, last' = [last EXCEPT ![c] = l],
             inbox' = inbox \/ \E m : inbox' = [inbox EXCEPT ![c] = Append(@, m)]
      PROVE  HonestProved' /\ BlamedInvalid'
  <2>1. DOMAIN last = Clients /\ inbox \in [Clients -> Seq(Message)]
    BY DEF IInv, TypeOK
  <2>2. \A d \in Clients : d # c => inbox'[d] = inbox[d] /\ last'[d] = last[d]
    BY <1>5, <2>1
  <2>3. last'[c].op # "aggregate_transcripts"
    BY <1>5, <2>1
  <2>4. QED
    BY <1>3, <1>5, <2>2, <2>3
<1>6. CASE \E c \in Clients, m \in board : Receive(c, m)
  BY <1>5, <1>6 DEF Receive, Idle
<1>7. CASE \E c \in Clients : CallAggregatedTranscriptNew(c)
  <2>1. PICK c \in Clients : CallAggregatedTranscriptNew(c)
    BY <1>7
  <2>2. PICK r : KeepAggregate(c, "AggregatedTranscript::new", r)
    BY <2>1 DEF CallAggregatedTranscriptNew
  <2>3. Returned("AggregatedTranscript::new", r).op # "aggregate_transcripts"
    BY DEF Returned
  <2>4. QED
    BY <1>5, <2>2, <2>3 DEF KeepAggregate
<1>8. CASE \E c \in Clients, from \in DOMAIN agg, how \in Tamperings, a \in DOMAIN dkg :
              ReceiveAggregate(c, from, how, a)
  BY <1>5, <1>8 DEF ReceiveAggregate, Idle
<1>9. ASSUME NEW c \in Clients, CallVerify(c) \/ CallVerifyAggregation(c)
      PROVE  HonestProved' /\ BlamedInvalid'
  <2>1. PICK op, r : op # "aggregate_transcripts" /\ Report(c, op, r)
    BY <1>9 DEF CallVerify, CallVerifyAggregation
  <2>2. QED
    BY <1>5, <2>1 DEF Report
<1>10. QED
  BY <1>1, <1>2, <1>4, <1>6, <1>7, <1>8, <1>9 DEF Next

\* A dealer that generate_transcript served is never blamed for it: whenever
\* aggregate_transcripts returns InvalidPvssTranscript for an address, the client
\* holds a transcript under that address that the dealer did not generate.
THEOREM NoHonestDealerBlamed == Spec => []BlameIsSound
<1>1. HonestProved /\ BlamedInvalid => BlameIsSound
  BY DEF HonestProved, BlamedInvalid, BlameIsSound, Blame
<1>2. Spec => [](IInv /\ HonestProved /\ BlamedInvalid)
  BY InitIInv, NextIInv, InitBlame, NextBlame, PTL DEF Spec
<1>3. QED
  BY <1>1, <1>2, PTL
-----------------------------------------------------------------------------
\* What a client's last call returned is what it would return now: the calls compute
\* it from the ritual, the client's context, inbox and aggregate, and whatever
\* replaces one of these forgets the call.
ReportCurrent(c) ==
    /\ last[c].op = "verify" =>
         /\ c \in DOMAIN agg
         /\ last[c].out = Verify(agg[c], ritual.shares_num, ritual.threshold, inbox[c])
    /\ last[c].op = "verify_aggregation" =>
         /\ c \in DOMAIN agg /\ c \in DOMAIN dkg
         /\ last[c].out = VerifyAggregation(agg[c].aggregate, dkg[c], Transcripts(inbox[c]))
    /\ last[c].op = "aggregate_transcripts" /\ Succeeded(last[c].out) =>
         /\ c \in DOMAIN agg /\ c \in DOMAIN dkg
         /\ Succeeded(AggregateTranscripts(dkg[c], inbox[c]))
         /\ agg[c] = AggregateTranscripts(dkg[c], inbox[c]).val

ReportsCurrent == \A c \in Clients : ReportCurrent(c)

\* All participants of a ritual work with the same parameters and validators, and
\* only parameters that Dkg::new validated ever lead to a message.
ContextsAgree ==
    \A a \in DOMAIN dkg :
        /\ dkg[a].threshold = ritual.threshold /\ ritual.threshold > 0
        /\ ritual.threshold <= ritual.shares_num
        /\ dkg[a].validators = ByIndex(ritual.validators)
        /\ DOMAIN dkg[a].validators # {}
        /\ Succeeded(AssertNoShareDuplicates(ritual.validators))
DealtByContexts ==
    /\ board # {} => DOMAIN dkg # {}
    /\ \A c \in Clients : inbox[c] # <<>> => board # {}

CInv == IInv /\ ReportsCurrent /\ ContextsAgree /\ DealtByContexts

\* The inductive invariant of the ceremony holds at first.
LEMMA InitCInv == Init => CInv
<1> SUFFICES ASSUME Init PROVE CInv
  OBVIOUS
<1>1. ReportsCurrent
  BY DEF Init, Idle, ReportsCurrent, ReportCurrent
<1>2. ContextsAgree /\ DealtByContexts
  BY DEF Init, ContextsAgree, DealtByContexts
<1>3. QED
  BY <1>1, <1>2, InitIInv DEF CInv

\* A client whose inbox, aggregate, context and last call a step leaves alone.
Untouched(c) ==
    /\ inbox'[c] = inbox[c] /\ last'[c] = last[c]
    /\ c \in DOMAIN agg => c \in DOMAIN agg' /\ agg'[c] = agg[c]
    /\ c \in DOMAIN dkg => c \in DOMAIN dkg' /\ dkg'[c] = dkg[c]

\* What is known of a client's last call holds on if the step does not touch the client.
LEMMA UntouchedKeeps ==
    ASSUME NEW c \in Clients, ReportCurrent(c), ritual' = ritual, Untouched(c)
    PROVE  ReportCurrent(c)'
BY DEF ReportCurrent, Untouched

\* Dkg::new keeps it: the context it adds is exact and of its ritual.
LEMMA NewDkgCeremony ==
    ASSUME CInv, NEW me \in RitualValidators \cup Strangers, NewDkg(me)
    PROVE  ReportsCurrent' /\ ContextsAgree' /\ DealtByContexts'
<1> DEFINE r == DkgNew(ritual.validators, ritual, me)
<1>1. /\ me.address \notin DOMAIN dkg
      /\ dkg' = IF Succeeded(r) THEN Put(dkg, me.address, r.val) ELSE dkg
      /\ UNCHANGED <<ritual, board, honest, inbox, agg, last>>
  BY DEF NewDkg
<1>2. ritual.threshold \in Nat /\ ritual.shares_num \in Nat
  BY RitualsAssumption DEF CInv, IInv, TypeOK, RitualAssumption
<1>3. Succeeded(r) => /\ r.val.threshold = ritual.threshold /\ ritual.threshold > 0
                      /\ ritual.threshold <= ritual.shares_num
                      /\ r.val.validators = ByIndex(ritual.validators)
                      /\ DOMAIN r.val.validators # {}
                      /\ Succeeded(AssertNoShareDuplicates(ritual.validators))
  BY <1>2, DkgNewKeeps
<1> HIDE DEF r
<1>4. /\ DOMAIN dkg \subseteq DOMAIN dkg'
      /\ \A a \in DOMAIN dkg : dkg'[a] = dkg[a]
      /\ \A a \in DOMAIN dkg' \ DOMAIN dkg : Succeeded(r) /\ dkg'[a] = r.val
  BY <1>1 DEF Put
<1>5. ReportsCurrent'
  <2>1. \A c \in Clients : Untouched(c)
    BY <1>1, <1>4 DEF Untouched
  <2>2. QED
    BY <1>1, <2>1, UntouchedKeeps DEF CInv, ReportsCurrent
<1>6. ContextsAgree'
  BY <1>1, <1>3, <1>4 DEF CInv, ContextsAgree
<1>7. DealtByContexts'
  BY <1>1, <1>4 DEF CInv, DealtByContexts
<1>8. QED
  BY <1>5, <1>6, <1>7

\* Publishing a message touches no client.
LEMMA BoardCeremony ==
    ASSUME CInv, DOMAIN dkg # {}, UNCHANGED <<ritual, dkg, inbox, agg, last>>, board \subseteq board'
    PROVE  ReportsCurrent' /\ ContextsAgree' /\ DealtByContexts'
<1>1. \A c \in Clients : Untouched(c)
  BY DEF Untouched
<1>2. ReportsCurrent'
  BY <1>1, UntouchedKeeps DEF CInv, ReportsCurrent
<1>3. QED
  BY <1>2 DEF CInv, ContextsAgree, DealtByContexts

\* A step of one client c touches no other.
LEMMA ClientCeremony ==
    ASSUME CInv, NEW c \in Clients, UNCHANGED <<ritual, dkg, board>>, ReportCurrent(c)',
           \A d \in Clients \ {c} : Untouched(d),
           \A d \in Clients : inbox'[d] # <<>> => board # {}
    PROVE  ReportsCurrent' /\ ContextsAgree' /\ DealtByContexts'
<1>1. \A d \in Clients : ReportCurrent(d)'
  BY UntouchedKeeps DEF CInv, ReportsCurrent
<1>2. ReportsCurrent'
  BY <1>1 DEF ReportsCurrent
<1>3. QED
  BY <1>2 DEF CInv, ContextsAgree, DealtByContexts

\* A message that arrives at a client keeps it.
LEMMA ReceiveCeremony ==
    ASSUME CInv, NEW c \in Clients, NEW m \in board, Receive(c, m)
    PROVE  ReportsCurrent' /\ ContextsAgree' /\ DealtByContexts'
<1>1. /\ inbox' = [inbox EXCEPT ![c] = Append(@, m)] /\ last' = [last EXCEPT ![c] = Idle]
      /\ UNCHANGED <<ritual, dkg, board, agg>>
  BY DEF Receive
<1>2. inbox \in [Clients -> Seq(Message)] /\ DOMAIN last = Clients
  BY DEF CInv, IInv, TypeOK
<1>3. \A d \in Clients \ {c} : Untouched(d)
  BY <1>1, <1>2 DEF Untouched
<1>4. ReportCurrent(c)'
  <2>1. last'[c].op = "none"
    BY <1>1, <1>2 DEF Idle
  <2>2. QED
    BY <2>1 DEF ReportCurrent
<1>5. board # {}
  OBVIOUS
<1>6. QED
  BY <1>1, <1>3, <1>4, <1>5, ClientCeremony

\* A call that makes an aggregate keeps it, whether or not it succeeds.
LEMMA KeepCeremony ==
    ASSUME CInv, NEW c \in Clients, NEW op, NEW r, KeepAggregate(c, op, r),
           op = "AggregatedTranscript::new" \/
             (op = "aggregate_transcripts" /\ c \in DOMAIN dkg
                /\ r = AggregateTranscripts(dkg[c], inbox[c]))
    PROVE  ReportsCurrent' /\ ContextsAgree' /\ DealtByContexts'
<1>1. /\ agg' = IF Succeeded(r) THEN Put(agg, c, r.val) ELSE agg
      /\ last' = [last EXCEPT ![c] = Returned(op, r)]
      /\ UNCHANGED <<ritual, dkg, board, inbox>>
  BY DEF KeepAggregate
<1>2. DOMAIN last = Clients
  BY DEF CInv, IInv, TypeOK
<1>3. \A d \in Clients \ {c} : Untouched(d)
  BY <1>1, <1>2 DEF Untouched, Put
<1>4. last'[c] = Returned(op, r)
  BY <1>1, <1>2
<1>5. last'[c].op = op /\ (Succeeded(last'[c].out) <=> Succeeded(r))
  BY <1>4 DEF Returned, Ok, Succeeded
<1>6. Succeeded(r) => c \in DOMAIN agg' /\ agg'[c] = r.val
  BY <1>1 DEF Put
<1>7. ReportCurrent(c)'
  BY <1>1, <1>5, <1>6 DEF ReportCurrent
<1>8. \A d \in Clients : inbox'[d] # <<>> => board # {}
  BY <1>1 DEF CInv, DealtByContexts
<1>9. QED
  BY <1>1, <1>3, <1>7, <1>8, ClientCeremony

\* An aggregate that arrives, tampered with or not, keeps it.
LEMMA ReceiveAggregateCeremony ==
    ASSUME CInv, NEW c \in Clients, NEW from, NEW how, NEW a, ReceiveAggregate(c, from, how, a)
    PROVE  ReportsCurrent' /\ ContextsAgree' /\ DealtByContexts'
<1>1. PICK at : /\ agg' = Put(agg, c, at)
                /\ last' = [last EXCEPT ![c] = Idle]
                /\ UNCHANGED <<ritual, dkg, board, inbox>>
  BY DEF ReceiveAggregate
<1>2. DOMAIN last = Clients
  BY DEF CInv, IInv, TypeOK
<1>3. \A d \in Clients \ {c} : Untouched(d)
  BY <1>1, <1>2 DEF Untouched, Put
<1>4. ReportCurrent(c)'
  <2>1. last'[c].op = "none"
    BY <1>1, <1>2 DEF Idle
  <2>2. QED
    BY <2>1 DEF ReportCurrent
<1>5. \A d \in Clients : inbox'[d] # <<>> => board # {}
  BY <1>1 DEF CInv, DealtByContexts
<1>6. QED
  BY <1>1, <1>3, <1>4, <1>5, ClientCeremony

\* A verification call keeps it: what it reports is what the code computes.
LEMMA ReportCeremony ==
    ASSUME CInv, NEW c \in Clients \cap DOMAIN agg,
           CallVerify(c) \/ (c \in DOMAIN dkg /\ CallVerifyAggregation(c))
    PROVE  ReportsCurrent' /\ ContextsAgree' /\ DealtByContexts'
<1>1. UNCHANGED <<ritual, dkg, board, inbox, agg>>
  BY DEF CallVerify, CallVerifyAggregation, Report
<1>2. DOMAIN last = Clients
  BY DEF CInv, IInv, TypeOK
<1>3. \A d \in Clients \ {c} : Untouched(d)
  BY <1>1, <1>2 DEF Untouched, CallVerify, CallVerifyAggregation, Report
<1>4. CASE CallVerify(c)
  <2>1. /\ last'[c].op = "verify"
        /\ last'[c].out = Verify(agg[c], ritual.shares_num, ritual.threshold, inbox[c])
    BY <1>2, <1>4 DEF CallVerify, Report
  <2>2. ReportCurrent(c)'
    BY <1>1, <2>1 DEF ReportCurrent
  <2>3. QED
    BY <1>1, <1>3, <2>2, ClientCeremony DEF CInv, DealtByContexts
<1>5. CASE c \in DOMAIN dkg /\ CallVerifyAggregation(c)
  <2>1. /\ last'[c].op = "verify_aggregation"
        /\ last'[c].out = VerifyAggregation(agg[c].aggregate, dkg[c], Transcripts(inbox[c]))
    BY <1>2, <1>5 DEF CallVerifyAggregation, Report
  <2>2. ReportCurrent(c)'
    BY <1>1, <1>5, <2>1 DEF ReportCurrent
  <2>3. QED
    BY <1>1, <1>3, <2>2, ClientCeremony DEF CInv, DealtByContexts
<1>6. QED
  BY <1>4, <1>5

\* Every step keeps it.
LEMMA NextCInv == CInv /\ [Next]_vars => CInv'
<1> SUFFICES ASSUME CInv, [Next]_vars PROVE CInv'
  OBVIOUS
<1>1. IInv'
  BY NextIInv DEF CInv
<1> SUFFICES ReportsCurrent' /\ ContextsAgree' /\ DealtByContexts'
  BY <1>1 DEF CInv
<1>2. CASE UNCHANGED vars
  BY <1>2 DEF vars, CInv, ReportsCurrent, ReportCurrent, ContextsAgree, DealtByContexts
<1>3. CASE \E me \in RitualValidators \cup Strangers : NewDkg(me)
  BY <1>3, NewDkgCeremony
<1>4. CASE \E a \in DOMAIN dkg : \E phi \in Draws(dkg[a].threshold) : GenerateTranscript(a, phi)
  <2>1. /\ DOMAIN dkg # {} /\ UNCHANGED <<ritual, dkg, inbox, agg, last>>
        /\ board \subseteq board'
    BY <1>4 DEF GenerateTranscript
  <2>2. QED
    BY <2>1, BoardCeremony
<1>5. CASE \E a \in DOMAIN dkg, s \in RitualValidators \cup Strangers,
              phi \in Polys, how \in Distortions : PostForged(a, s, phi, how)
  <2>1. /\ DOMAIN dkg # {} /\ UNCHANGED <<ritual, dkg, inbox, agg, last>>
        /\ board \subseteq board'
    BY <1>5 DEF PostForged, Post
  <2>2. QED
    BY <2>1, BoardCeremony
<1>6. CASE \E s \in RitualValidators \cup Strangers, m \in board : PostCopy(s, m)
  <2>1. /\ DOMAIN dkg # {} /\ UNCHANGED <<ritual, dkg, inbox, agg, last>>
        /\ board \subseteq board'
    BY <1>6 DEF PostCopy, Post, CInv, DealtByContexts
  <2>2. QED
    BY <2>1, BoardCeremony
<1>7. CASE \E c \in Clients, m \in board : Receive(c, m)
  BY <1>7, ReceiveCeremony
<1>8. CASE \E c \in Clients \cap DOMAIN dkg : CallAggregateTranscripts(c)
  BY <1>8, KeepCeremony DEF CallAggregateTranscripts
<1>9. CASE \E c \in Clients : CallAggregatedTranscriptNew(c)
  BY <1>9, KeepCeremony DEF CallAggregatedTranscriptNew
<1>10. CASE \E c \in Clients, from \in DOMAIN agg, how \in Tamperings, a \in DOMAIN dkg :
              ReceiveAggregate(c, from, how, a)
  BY <1>10, ReceiveAggregateCeremony
<1>11. CASE \E c \in Clients \cap DOMAIN agg : CallVerify(c)
  BY <1>11, ReportCeremony
<1>12. CASE \E c \in Clients \cap DOMAIN agg \cap DOMAIN dkg : CallVerifyAggregation(c)
  BY <1>12, ReportCeremony
<1>13. QED
  BY <1>2, <1>3, <1>4, <1>5, <1>6, <1>7, <1>8, <1>9, <1>10, <1>11, <1>12 DEF Next

\* So it holds always.
LEMMA AlwaysCInv == Spec => []CInv
BY InitCInv, NextCInv, PTL DEF Spec
-----------------------------------------------------------------------------
\* A selection of k of len validators, in their order: what holds of each of the
\* list's slots holds of the selected ones.
LEMMA PickedHolders ==
    ASSUME NEW len \in Nat, NEW ws, DistinctHolders(ws, len), NEW k \in Nat,
           NEW vs \in Picks(k, ws)
    PROVE  /\ DistinctHolders(vs, k) /\ k <= len
           /\ \A coeffs, shares, n :
                SlotsMatch(coeffs, shares, ws, len, n) => SlotsMatch(coeffs, shares, vs, k, n)
<1>1. DOMAIN ws = 1..len
  BY DEF DistinctHolders
<1>2. PICK q \in [1..k -> 1..len] :
        /\ \A i, j \in 1..k : i < j => q[i] < q[j]
        /\ vs = [i \in 1..k |-> ws[q[i]]]
  BY <1>1 DEF Picks
<1>3. \A i, j \in 1..k : q[i] = q[j] => i = j
  BY <1>2
<1>4. DistinctHolders(vs, k)
  BY SMTT(60), <1>2, <1>3 DEF DistinctHolders
<1>5. k <= len
  <2> DEFINE S == {i \in 0..k : i = 0 \/ q[i] >= i}
  <2>1. 0 \in S
    OBVIOUS
  <2>2. ASSUME NEW i \in 1..k, i - 1 \in S PROVE i \in S
    <3>1. CASE i = 1
      BY <3>1
    <3>2. CASE i # 1
      <4>1. i - 1 \in 1..k /\ i - 1 < i
        BY <3>2
      <4>2. q[i - 1] >= i - 1 /\ q[i - 1] < q[i]
        BY <1>2, <2>2, <4>1
      <4>3. q[i - 1] \in Nat /\ q[i] \in Nat
        BY <4>1
      <4>4. QED
        BY <4>2, <4>3
    <3>3. QED
      BY <3>1, <3>2
  <2>3. \A i \in 0..k : i \in S
    <3> HIDE DEF S
    <3> QED
      BY <2>1, <2>2, IndexInduction
  <2>4. k \in S
    <3> HIDE DEF S
    <3> QED
      BY <2>3
  <2>5. QED
    BY <2>4
<1>6. ASSUME NEW coeffs, NEW shares, NEW n, SlotsMatch(coeffs, shares, ws, len, n)
      PROVE  SlotsMatch(coeffs, shares, vs, k, n)
  BY <1>2, <1>6 DEF SlotsMatch
<1>7. QED
  BY <1>4, <1>5, <1>6

\* do_verify_aggregation accepts only what do_verify_full accepts.
LEMMA AggregationFull ==
    ASSUME NEW at, NEW vs, NEW n, NEW pvss, NEW t,
           Holds(DoVerifyAggregation(at, vs, n, pvss, t))
    PROVE  Holds(DoVerifyFull(at.coeffs, at.shares, vs, n, t))
<1> DEFINE full == DoVerifyFull(at.coeffs, at.shares, vs, n, t)
           dealt == FirstFailure([i \in DOMAIN pvss |-> VerifyDealt(pvss[i])])
<1>1. \A e : ~ Holds(Err(e))
  BY DEF Holds, Err, Succeeded
<1> HIDE DEF full, dealt
<1>2. DoVerifyAggregation(at, vs, n, pvss, t) =
        IF pvss = <<>> THEN Err(<<"NoTranscriptsToVerify">>)
        ELSE IF ~ Succeeded(full) THEN full
        ELSE IF ~ full.val THEN Err(<<"InvalidTranscriptAggregate">>)
        ELSE IF ~ Succeeded(dealt) THEN dealt
        ELSE IF at.coeffs = <<>> THEN Err(<<"EmptyTranscript">>)
        ELSE IF FSum([i \in DOMAIN pvss |-> pvss[i].coeffs[1]]) = at.coeffs[1]
        THEN Ok(TRUE)
        ELSE Err(<<"InvalidTranscriptAggregate">>)
  BY DEF DoVerifyAggregation, full, dealt
<1>3. Succeeded(full) /\ full.val
  BY <1>1, <1>2 DEF Holds
<1>4. QED
  BY <1>3 DEF Holds, full

\* What verify accepted: as many validators as the ritual has shares at most, and
\* an aggregate with the public key of its constant term whose slots match.
LEMMA VerifyAccepts ==
    ASSUME NEW at, NEW n \in Nat, NEW t, NEW ms, Holds(Verify(at, n, t, ms))
    PROVE  /\ ms # <<>> /\ n <= MaxDomain
           /\ at.public_key = at.aggregate.coeffs[1]
           /\ Holds(DoVerifyFull(at.aggregate.coeffs, at.aggregate.shares, Senders(ms), n, t))
<1> DEFINE inner == DoVerifyAggregation(at.aggregate, Senders(ms), n, Transcripts(ms), t)
<1>1. \A e : ~ Holds(Err(e)) /\ ~ Holds(Panic(e))
  BY DEF Holds, Err, Panic, Succeeded
<1> HIDE DEF inner
<1>2. /\ ms # <<>> /\ ~ (n > MaxDomain) /\ at.public_key = at.aggregate.coeffs[1]
      /\ Verify(at, n, t, ms) = inner
  BY <1>1 DEF Verify, inner
<1>3. Holds(DoVerifyFull(at.aggregate.coeffs, at.aggregate.shares, Senders(ms), n, t))
  BY <1>2, AggregationFull DEF inner
<1>4. QED
  BY <1>2, <1>3, DomainAssumption

\* What slots reconstruct is the Lagrange combination of their shares.
LEMMA ReconstructIsSlotSum ==
    ASSUME NEW c, NEW n, NEW vs
    PROVE  Reconstruct(c, n, vs) = SlotSum(agg[c].aggregate.shares, vs, n)
BY DEF Reconstruct, SlotSum, SlotPoints

\* Senders with different indices hold different slots.
LEMMA SendersHold ==
    ASSUME NEW ms \in Seq(Message),
           \A i, j \in 1..Len(ms) : Senders(ms)[i].share_index = Senders(ms)[j].share_index => i = j
    PROVE  DistinctHolders(Senders(ms), Len(ms))
<1>1. Senders(ms) = [i \in 1..Len(ms) |-> ms[i].sender]
  BY DEF Senders
<1>2. \A i \in 1..Len(ms) : ms[i] \in Message
  OBVIOUS
<1>3. \A i \in 1..Len(ms) : ms[i].sender.ek \in Fr /\ ms[i].sender.share_index \in Nat
  BY <1>2 DEF Message, Validator
<1>4. QED
  BY <1>1, <1>3 DEF DistinctHolders

\* The common part of the next two theorems.
LEMMA AcceptedVerdict ==
    ASSUME CInv, NEW c \in Clients, Accepted(c), NEW k \in Nat,
           NEW vs \in Picks(k, Senders(inbox[c]))
    PROVE  /\ k = ritual.threshold =>
                Reconstruct(c, ritual.shares_num, vs) = agg[c].public_key
           /\ k + 1 = ritual.threshold =>
                Reconstruct(c, ritual.shares_num, vs) # agg[c].public_key
<1> DEFINE at == agg[c]
           n == ritual.shares_num
           t == ritual.threshold
           ms == inbox[c]
           coeffs == at.aggregate.coeffs
           shares == at.aggregate.shares
<1>1. /\ c \in DOMAIN agg /\ Holds(Verify(at, n, t, ms))
  BY DEF CInv, ReportsCurrent, ReportCurrent, Accepted
<1>2. n \in Nat /\ t \in Nat
  BY RitualsAssumption DEF CInv, IInv, TypeOK, RitualAssumption
<1>3. ms \in Seq(Message) /\ at \in AggregatedTranscript
  BY <1>1 DEF CInv, IInv, TypeOK
<1>4. coeffs \in Seq(Fr) /\ shares \in Seq(Fr)
  BY <1>3 DEF AggregatedTranscript, Transcript
<1>5. /\ ms # <<>> /\ n <= MaxDomain /\ at.public_key = coeffs[1]
      /\ Holds(DoVerifyFull(coeffs, shares, Senders(ms), n, t))
  <2> HIDE DEF at, n, t, ms
  <2> QED
    BY <1>1, <1>2, VerifyAccepts
<1>6. n \in 0..MaxDomain /\ t <= n /\ n <= DomainSize(n) /\ DomainSize(n) \in Nat
  <2>1. t <= n
    BY <1>5 DEF CInv, DealtByContexts, ContextsAgree
  <2>2. n \in 0..MaxDomain
    BY <1>2, <1>5, DomainAssumption
  <2>3. QED
    BY <2>1, <2>2, DomainAssumption
<1>7. DOMAIN Senders(ms) = 1..Len(ms) /\ Len(ms) \in Nat
  BY <1>3 DEF Senders
<1> HIDE DEF n, t, ms, coeffs, shares, at
<1>8. /\ \A i, j \in 1..Len(ms) : Senders(ms)[i].share_index = Senders(ms)[j].share_index => i = j
      /\ DegreePinned(coeffs, t)
      /\ SlotsMatch(coeffs, shares, Senders(ms), Len(ms), n)
  BY <1>4, <1>5, <1>7, DoVerifyFullSound
<1>9. DistinctHolders(Senders(ms), Len(ms))
  BY <1>3, <1>8, SendersHold
<1>10. DistinctHolders(vs, k) /\ SlotsMatch(coeffs, shares, vs, k, n)
  <2>1. vs \in Picks(k, Senders(ms))
    BY DEF ms
  <2>2. QED
    BY <1>7, <1>8, <1>9, <2>1, PickedHolders
<1>11. Len(coeffs) <= DomainSize(n)
  BY <1>2, <1>6, <1>8 DEF DegreePinned
<1>12. /\ k = t => SlotSum(shares, vs, n) = coeffs[1]
       /\ k + 1 = t => SlotSum(shares, vs, n) # coeffs[1]
  BY <1>4, <1>6, <1>8, <1>10, <1>11, AcceptedReconstructs
<1>13. Reconstruct(c, n, vs) = SlotSum(shares, vs, n)
  BY ReconstructIsSlotSum DEF shares, at
<1>14. QED
  BY <1>5, <1>12, <1>13 DEF n, t, coeffs, at

\* For every field and every ritual: after AggregatedTranscript::verify says Ok(true),
\* any security_threshold of the senders it was given reconstruct the secret of the
\* aggregate's public key, however the transcripts were forged or the aggregate was
\* tampered with.
THEOREM VerifiedReconstructs == Spec => []VerifiedAggregateReconstructs
<1>1. CInv => VerifiedAggregateReconstructs
  <2> SUFFICES ASSUME CInv, NEW c \in Clients, Accepted(c),
                      NEW vs \in Picks(ritual.threshold, Senders(inbox[c]))
               PROVE  Reconstruct(c, ritual.shares_num, vs) = agg[c].public_key
    BY DEF VerifiedAggregateReconstructs
  <2>1. ritual.threshold \in Nat
    BY RitualsAssumption DEF CInv, IInv, TypeOK, RitualAssumption
  <2>2. QED
    BY <2>1, AcceptedVerdict
<1>2. QED
  BY <1>1, AlwaysCInv, PTL

\* And no security_threshold - 1 of them do: whatever degree a dealer chose, the degree
\* check of do_verify_full keeps the effective threshold.
THEOREM ThresholdKept == Spec => []ThresholdNotLowered
<1>1. CInv => ThresholdNotLowered
  <2> SUFFICES ASSUME CInv, NEW c \in Clients, Accepted(c),
                      NEW vs \in Picks(ritual.threshold - 1, Senders(inbox[c]))
               PROVE  Reconstruct(c, ritual.shares_num, vs) # agg[c].public_key
    BY DEF ThresholdNotLowered
  <2>1. ritual.threshold \in Nat /\ ritual.shares_num \in Nat
    BY RitualsAssumption DEF CInv, IInv, TypeOK, RitualAssumption
  <2>2. inbox[c] # <<>>
    <3>1. Holds(Verify(agg[c], ritual.shares_num, ritual.threshold, inbox[c]))
      BY DEF CInv, ReportsCurrent, ReportCurrent, Accepted
    <3>2. QED
      BY <2>1, <3>1, VerifyAccepts
  <2>3. ritual.threshold > 0
    BY <2>2 DEF CInv, DealtByContexts, ContextsAgree
  <2>4. PICK k \in Nat : k = ritual.threshold - 1
    BY <2>1, <2>3
  <2>5. k + 1 = ritual.threshold /\ vs \in Picks(k, Senders(inbox[c]))
    BY <2>1, <2>4
  <2>6. QED
    BY <2>5, AcceptedVerdict
<1>2. QED
  BY <1>1, AlwaysCInv, PTL

\* After verify_aggregation, which takes the validators of the context, says Ok(true),
\* any security_threshold of all validators reconstruct the aggregate's secret, those
\* whose transcripts never arrived included.
THEOREM AggregationServesAll == Spec => []AggregationServesAllValidators
<1>1. CInv => AggregationServesAllValidators
  <2> SUFFICES ASSUME CInv, NEW c \in Clients,
                      last[c].op = "verify_aggregation", Holds(last[c].out),
                      NEW vs \in Picks(dkg[c].threshold, ValuesOf(dkg[c].validators))
               PROVE  Reconstruct(c, dkg[c].domain, vs) = agg[c].aggregate.coeffs[1]
    BY DEF AggregationServesAllValidators
  <2> DEFINE d == dkg[c]
             n == d.domain
             t == d.threshold
             ws == ValuesOf(d.validators)
             coeffs == agg[c].aggregate.coeffs
             shares == agg[c].aggregate.shares
  <2>1. /\ c \in DOMAIN agg /\ c \in DOMAIN dkg
        /\ Holds(VerifyAggregation(agg[c].aggregate, d, Transcripts(inbox[c])))
    BY DEF CInv, ReportsCurrent, ReportCurrent
  <2>2. ExactContext(d)
    BY <2>1, ContextsAreExact DEF CInv, IInv
  <2>3. /\ t \in Nat /\ n \in 0..MaxDomain /\ n \in Nat /\ n <= DomainSize(n)
        /\ DomainSize(n) \in Nat
    BY <2>2, DomainAssumption DEF ExactContext
  <2>4. coeffs \in Seq(Fr) /\ shares \in Seq(Fr)
    BY <2>1 DEF CInv, IInv, TypeOK, AggregatedTranscript, Transcript
  <2>5. Holds(DoVerifyFull(coeffs, shares, ws, n, t))
    BY <2>1, AggregationFull DEF VerifyAggregation
  <2>6. ws = [i \in 1..n |-> d.validators[i - 1]]
    BY ZenonT(90), <2>2, <2>3, ValuesOfDense DEF ExactContext
  <2>7. DOMAIN ws = 1..n /\ \A i \in 1..n : ws[i].ek \in Fr /\ ws[i].share_index \in Nat
    <3>1. \A i \in 1..n : i - 1 \in 0..(n - 1) /\ i - 1 \in Nat
      BY <2>3
    <3>2. QED
      BY <2>2, <2>6, <3>1 DEF ExactContext
  <2> HIDE DEF d, n, t, ws, coeffs, shares
  <2>8. /\ \A i, j \in 1..n : ws[i].share_index = ws[j].share_index => i = j
        /\ DegreePinned(coeffs, t)
        /\ SlotsMatch(coeffs, shares, ws, n, n)
    BY <2>3, <2>4, <2>5, <2>7, DoVerifyFullSound
  <2>9. DistinctHolders(ws, n)
    BY <2>7, <2>8 DEF DistinctHolders
  <2>10. DistinctHolders(vs, t) /\ t <= n /\ SlotsMatch(coeffs, shares, vs, t, n)
    <3>1. vs \in Picks(t, ws)
      BY DEF t, ws, d
    <3>2. QED
      BY <2>3, <2>8, <2>9, <3>1, PickedHolders
  <2>11. Len(coeffs) <= DomainSize(n)
    BY <2>3, <2>8, <2>10 DEF DegreePinned
  <2>12. SlotSum(shares, vs, n) = coeffs[1]
    BY <2>3, <2>4, <2>8, <2>10, <2>11, AcceptedReconstructs
  <2>13. QED
    BY <2>12, ReconstructIsSlotSum DEF n, d, coeffs, shares
<1>2. QED
  BY <1>1, AlwaysCInv, PTL

-----------------------------------------------------------------------------
\* The slots of the list of a context's validators match the commitments of phi when
\* each holds the value of phi at its point under its key.
LEMMA DealtSlotsMatch ==
    ASSUME NEW d, ExactContext(d), NEW phi \in Seq(Fr), Len(phi) <= DomainSize(d.domain),
           NEW shares,
           shares = [i \in 1..d.domain |-> Mul(Eval(phi, DomainElement(d.domain, i - 1)),
                                               d.validators[i - 1].ek)]
    PROVE  /\ ValuesOf(d.validators) = [i \in 1..d.domain |-> d.validators[i - 1]]
           /\ DistinctHolders(ValuesOf(d.validators), d.domain)
           /\ SlotsMatch(phi, shares, ValuesOf(d.validators), d.domain, d.domain)
<1> DEFINE n == d.domain
           vs == ValuesOf(d.validators)
<1>1. n \in Nat /\ n \in 0..MaxDomain /\ n <= DomainSize(n) /\ DomainSize(n) \in Nat
  BY DomainAssumption DEF ExactContext
<1>2. vs = [i \in 1..n |-> d.validators[i - 1]]
  BY ZenonT(90), <1>1, ValuesOfDense DEF ExactContext
<1>3. ASSUME NEW i \in 1..n
      PROVE  vs[i] = d.validators[i - 1] /\ vs[i].share_index = i - 1 /\ vs[i].ek \in Fr \ {Zero}
  <2>1. i - 1 \in 0..(n - 1)
    BY <1>1
  <2>2. QED
    BY <1>2, <2>1 DEF ExactContext
<1>4. DistinctHolders(vs, n)
  <2>1. DOMAIN vs = 1..n
    BY <1>2
  <2>2. \A i \in 1..n : vs[i].ek \in Fr /\ vs[i].share_index \in Nat
    BY <1>1, <1>3
  <2>3. \A i, j \in 1..n : vs[i].share_index = vs[j].share_index => i = j
    BY <1>1, <1>3
  <2>4. QED
    BY <2>1, <2>2, <2>3 DEF DistinctHolders
<1>5. ASSUME NEW i \in 1..n
      PROVE  /\ vs[i].share_index + 1 = i
             /\ i \in DOMAIN shares \cap DOMAIN Fft(phi, n)
             /\ Pairing(One, shares[i]) = Pairing(Fft(phi, n)[i], vs[i].ek)
  <2>1. PICK k \in 0..(DomainSize(n) - 1) : k = i - 1
    BY <1>1
  <2>2. k + 1 = i /\ vs[i].share_index + 1 = i
    BY <1>3, <2>1
  <2>3. DOMAIN Fft(phi, n) = 1..DomainSize(n) /\ Fft(phi, n)[k + 1] = Eval(phi, DomainElement(n, k))
    BY <1>1, FftValues
  <2>4. DomainElement(n, k) \in Fr
    BY <1>1, DomainAssumption
  <2> DEFINE e == Eval(phi, DomainElement(n, k))
             z == vs[i].ek
  <2>5. e \in Fr /\ z \in Fr
    BY <1>3, <2>4, EvalType
  <2>6. shares[i] = Mul(e, z)
    BY <1>3, <2>1
  <2>7. i \in DOMAIN shares \cap DOMAIN Fft(phi, n)
    BY <1>1, <2>3
  <2> HIDE DEF e, z
  <2>8. Mul(One, Mul(e, z)) = Mul(e, z)
    <3>1. Mul(e, z) \in Fr
      BY <2>5, FrClosed
    <3>2. QED
      BY <3>1, FrClosed, FrMultiplicative
  <2>9. Fft(phi, n)[i] = e
    BY <2>2, <2>3 DEF e
  <2>10. QED
    BY <2>2, <2>6, <2>7, <2>8, <2>9 DEF Pairing, z
<1>6. SlotsMatch(phi, shares, vs, n, n)
  <2> SUFFICES ASSUME NEW i \in 1..n
               PROVE  /\ vs[i].ek # Zero
                      /\ vs[i].share_index + 1 \in DOMAIN shares \cap DOMAIN Fft(phi, n)
                      /\ Pairing(One, shares[vs[i].share_index + 1])
                           = Pairing(Fft(phi, n)[vs[i].share_index + 1], vs[i].ek)
    BY DEF SlotsMatch
  <2>1. vs[i].ek # Zero
    BY <1>3
  <2>2. QED
    BY <1>5, <2>1
<1>7. QED
  BY <1>2, <1>4, <1>6

\* What an honest dealer of the ritual publishes.
DealtFrom(phi, tr) ==
    LET n == Len(ritual.validators)
    IN  /\ Len(phi) = ritual.threshold /\ phi[1] # Zero /\ phi[Len(phi)] # Zero
        /\ tr = [coeffs |-> phi,
                 shares |-> [i \in 1..n |-> Mul(Eval(phi, DomainElement(n, i - 1)),
                                                ByIndex(ritual.validators)[i - 1].ek)],
                 sigma  |-> phi[1]]
HonestDealt == \A m \in honest : \E phi \in Seq(Fr) : DealtFrom(phi, m.transcript)

\* generate_transcript posts a transcript of the dealer's own context.
LEMMA GenerateDealt ==
    ASSUME CInv, HonestDealt, NEW a \in DOMAIN dkg, NEW phi \in Draws(dkg[a].threshold),
           GenerateTranscript(a, phi)
    PROVE  HonestDealt'
<1> DEFINE d == dkg[a]
           tr == PvssNew(phi, d).val
<1>1. ExactContext(d)
  BY ContextsAreExact DEF CInv, IInv
<1>2. phi \in Seq(Fr) /\ phi # <<>> /\ Len(phi) = d.threshold /\ phi[1] # Zero /\ phi[Len(phi)] # Zero
  BY PolysAssumption DEF Draws
<1>3. d.threshold = ritual.threshold /\ d.validators = ByIndex(ritual.validators)
  BY DEF CInv, ContextsAgree
<1>4. d.domain = Len(ritual.validators)
  BY DEF CInv, IInv, ContextIndicesExact
<1>5. PvssNew(phi, d) =
        Ok([coeffs |-> phi,
            shares |-> [i \in 1..d.domain |->
                          Mul(Eval(phi, DomainElement(d.domain, i - 1)), d.validators[i - 1].ek)],
            sigma  |-> phi[1]])
  BY <1>1, <1>2, PvssNewExact
<1>6. tr = [coeffs |-> phi,
            shares |-> [i \in 1..d.domain |->
                          Mul(Eval(phi, DomainElement(d.domain, i - 1)), d.validators[i - 1].ek)],
            sigma  |-> phi[1]]
  BY <1>5 DEF Ok
<1>7. DealtFrom(phi, tr)
  <2> HIDE DEF tr, d
  <2> QED
    BY <1>2, <1>3, <1>4, <1>6 DEF DealtFrom
<1>8. /\ \A m \in honest' : m \in honest \/ m.transcript = tr
      /\ ritual' = ritual
  <2>1. \A s : [sender |-> s, transcript |-> tr].transcript = tr
    OBVIOUS
  <2> HIDE DEF tr
  <2>2. QED
    BY <2>1 DEF GenerateTranscript, tr, d
<1> HIDE DEF tr, d
<1>9. \A p, x : DealtFrom(p, x) => DealtFrom(p, x)'
  BY <1>8 DEF DealtFrom
<1>10. QED
  BY <1>2, <1>7, <1>8, <1>9 DEF HonestDealt

\* Every step keeps what is known of honest transcripts.
LEMMA NextHonest == CInv /\ HonestDealt /\ [Next]_vars => HonestDealt'
<1> SUFFICES ASSUME CInv, HonestDealt, [Next]_vars PROVE HonestDealt'
  OBVIOUS
<1>1. CASE \E a \in DOMAIN dkg : \E phi \in Draws(dkg[a].threshold) : GenerateTranscript(a, phi)
  BY <1>1, GenerateDealt
<1>2. CASE UNCHANGED <<ritual, honest>>
  <2>1. \A p, x : DealtFrom(p, x) => DealtFrom(p, x)'
    BY <1>2 DEF DealtFrom
  <2>2. QED
    BY <1>2, <2>1 DEF HonestDealt
<1>3. \/ \E a \in DOMAIN dkg : \E phi \in Draws(dkg[a].threshold) : GenerateTranscript(a, phi)
      \/ UNCHANGED <<ritual, honest>>
  BY DEF Next, vars, NewDkg, PostForged, PostCopy, Post, Receive, CallAggregateTranscripts,
         CallAggregatedTranscriptNew, KeepAggregate, ReceiveAggregate, CallVerify,
         CallVerifyAggregation, Report
<1>4. QED
  BY <1>1, <1>2, <1>3

\* For every field and ritual: what an honest dealer publishes passes verify_optimistic
\* and verify_full in the context of every participant, unless the threshold exceeds
\* the domain of the validators.
THEOREM HonestVerifies == Spec => []HonestTranscriptVerifies
<1>1. CInv /\ HonestDealt => HonestTranscriptVerifies
  <2> SUFFICES ASSUME CInv, HonestDealt, ritual.threshold <= DomainSize(Len(ritual.validators)),
                      NEW m \in honest, NEW a \in DOMAIN dkg
               PROVE  VerifyOptimistic(m.transcript) /\ Holds(VerifyFull(m.transcript, dkg[a]))
    BY DEF HonestTranscriptVerifies
  <2> DEFINE d == dkg[a]
             n == d.domain
             tr == m.transcript
             vs == ValuesOf(d.validators)
  <2>1. PICK phi \in Seq(Fr) : DealtFrom(phi, tr)
    BY DEF HonestDealt
  <2>2. ExactContext(d)
    BY ContextsAreExact DEF CInv, IInv
  <2>3. d.threshold = ritual.threshold /\ d.validators = ByIndex(ritual.validators)
        /\ DOMAIN d.validators # {} /\ n = Len(ritual.validators)
    BY DEF CInv, ContextsAgree, IInv, ContextIndicesExact
  <2>4. /\ Len(phi) = d.threshold /\ phi[1] # Zero /\ phi[Len(phi)] # Zero
        /\ tr.coeffs = phi /\ tr.sigma = phi[1]
        /\ tr.shares = [i \in 1..n |-> Mul(Eval(phi, DomainElement(n, i - 1)),
                                           d.validators[i - 1].ek)]
    <3> HIDE DEF d, n, tr
    <3> QED
      BY <2>1, <2>3 DEF DealtFrom
  <2>5. n \in Nat \ {0} /\ d.threshold \in Nat \ {0}
    BY <2>2, <2>3 DEF ExactContext
  <2>6. DegreePinned(phi, d.threshold) /\ phi # <<>> /\ phi[1] \in Fr
    BY <2>4, <2>5 DEF DegreePinned
  <2>7. VerifyOptimistic(tr)
    <3>1. Mul(phi[1], One) = Mul(One, phi[1])
      BY <2>6, FrClosed, FrMultiplicative
    <3>2. QED
      BY <2>4, <2>6, <3>1 DEF VerifyOptimistic, Pairing
  <2>8. Len(phi) <= DomainSize(n)
    BY <2>3, <2>4
  <2> HIDE DEF d, n, tr, vs
  <2>9. DistinctHolders(vs, n) /\ SlotsMatch(phi, tr.shares, vs, n, n)
    BY <2>2, <2>4, <2>8, DealtSlotsMatch DEF n, vs
  <2>10. Holds(DoVerifyFull(phi, tr.shares, vs, n, d.threshold))
    BY <2>4, <2>5, <2>6, <2>9, DoVerifyFullComplete DEF DistinctHolders
  <2>11. Holds(VerifyFull(tr, d))
    BY <2>4, <2>10 DEF VerifyFull, vs, n
  <2>12. QED
    BY <2>7, <2>11 DEF tr, d
<1>2. Init => HonestDealt
  BY DEF Init, HonestDealt
<1>3. Spec => [](CInv /\ HonestDealt)
  BY <1>2, InitCInv, NextCInv, NextHonest, PTL DEF Spec
<1>4. QED
  BY <1>1, <1>3, PTL

\* The n entries of s, all different; t has the entries of s in another order.
NoRepeats(s, n) == \A i, j \in 1..n : s[i] = s[j] => i = j
Entries(s, n) == {s[i] : i \in 1..n}
Reorders(pi, s, t, n) ==
    /\ pi \in [1..n -> 1..n] /\ NoRepeats(pi, n)
    /\ \A i \in 1..n : t[i] = s[pi[i]]

\* Two sequences without repetition that hold the same things are permutations.
LEMMA SameThingsPermuted ==
    ASSUME NEW m \in Nat, NEW n \in Nat, NEW s, NEW t, NoRepeats(s, m), NoRepeats(t, n),
           Entries(s, m) = Entries(t, n)
    PROVE  m = n /\ \E pi : Reorders(pi, s, t, n)
<1> USE DEF NoRepeats, Entries
<1>1. \A i \in 1..n : \E j \in 1..m : t[i] = s[j]
  <2>1. \A i \in 1..n : t[i] \in {t[x] : x \in 1..n}
    OBVIOUS
  <2>2. \A i \in 1..n : t[i] \in {s[x] : x \in 1..m}
    BY <2>1
  <2>3. QED
    BY <2>2
<1>2. \A j \in 1..m : \E i \in 1..n : s[j] = t[i]
  <2>1. \A j \in 1..m : s[j] \in {s[x] : x \in 1..m}
    OBVIOUS
  <2>2. \A j \in 1..m : s[j] \in {t[x] : x \in 1..n}
    BY <2>1
  <2>3. QED
    BY <2>2
<1> DEFINE pi == [i \in 1..n |-> CHOOSE j \in 1..m : t[i] = s[j]]
           rho == [j \in 1..m |-> CHOOSE i \in 1..n : s[j] = t[i]]
<1>3. pi \in [1..n -> 1..m] /\ \A i \in 1..n : t[i] = s[pi[i]]
  BY <1>1
<1>4. rho \in [1..m -> 1..n] /\ \A j \in 1..m : s[j] = t[rho[j]]
  BY <1>2
<1> HIDE DEF pi, rho
<1>5. \A i, j \in 1..n : pi[i] = pi[j] => i = j
  BY <1>3
<1>6. \A i, j \in 1..m : rho[i] = rho[j] => i = j
  BY <1>4
<1>7. n <= m
  BY SMTT(60), <1>3, <1>5, InjectionBound
<1>8. m = n
  <2>1. m <= n
    BY ZenonT(90), <1>4, <1>6, InjectionBound
  <2>2. QED
    BY <1>7, <2>1
<1>9. Reorders(pi, s, t, n)
  BY <1>3, <1>5, <1>8 DEF Reorders
<1>10. QED
  BY <1>8, <1>9

\* The component-wise sum of n transcripts with k coefficients and l shares each.
SumTranscript(ts, n, k, l) ==
    [coeffs |-> [j \in 1..k |-> FSum([i \in 1..n |-> ts[i].coeffs[j]])],
     shares |-> [j \in 1..l |-> FSum([i \in 1..n |-> ts[i].shares[j]])],
     sigma  |-> FSum([i \in 1..n |-> ts[i].sigma])]
UniformShape(ts, n, k, l) ==
    \A i \in 1..n : ts[i].coeffs \in [1..k -> Fr] /\ ts[i].shares \in [1..l -> Fr] /\ ts[i].sigma \in Fr

\* What AggregatedTranscript::new made of the n transcripts: their sum.
IsSum(ts, n, k, l) ==
    /\ n \in Nat \ {0} /\ UniformShape(ts, n, k, l)
    /\ Aggregate(ts) = Ok(SumTranscript(ts, n, k, l))
    /\ FromTranscripts(ts).val = [aggregate  |-> SumTranscript(ts, n, k, l),
                                 public_key |-> SumTranscript(ts, n, k, l).coeffs[1]]

\* What AggregatedTranscript::new returns when it succeeds.
LEMMA FromTranscriptsForm ==
    ASSUME NEW ts \in Seq(Transcript), Succeeded(FromTranscripts(ts))
    PROVE  \E k \in Nat \ {0}, l \in Nat :
              IsSum(ts, Len(ts), k, l)
<1> DEFINE n == Len(ts)
           shapes == FirstFailure([i \in DOMAIN ts |-> MatchLengths(ts[1], ts[i])])
           sum0 == [coeffs |-> [k \in DOMAIN ts[1].coeffs |->
                                  FSum([i \in DOMAIN ts |-> ts[i].coeffs[k]])],
                    shares |-> [k \in DOMAIN ts[1].shares |->
                                  FSum([i \in DOMAIN ts |-> ts[i].shares[k]])],
                    sigma  |-> FSum([i \in DOMAIN ts |-> ts[i].sigma])]
<1>1. /\ \A e : ~ Succeeded(Err(e)) /\ ~ Succeeded(Panic(e))
      /\ \A v : Ok(v).val = v
  BY DEF Succeeded, Err, Panic, Ok
<1>2. /\ Succeeded(Aggregate(ts)) /\ FromTranscripts(ts) = FromAggregate(Aggregate(ts).val)
  BY DEF FromTranscripts
<1>3. /\ ts # <<>> /\ Aggregate(ts) = Ok(sum0)
      /\ \A i \in DOMAIN ts : SameShape(ts[1], ts[i])
  <2> HIDE DEF shapes, sum0
  <2> QED
    BY <1>1, <1>2 DEF Aggregate, shapes, sum0
<1>4. /\ n \in Nat \ {0} /\ DOMAIN ts = 1..n /\ 1 \in 1..n
      /\ \A i \in 1..n : ts[i] \in Transcript
  BY <1>3
<1>5. PICK k \in Nat, l \in Nat : k = Len(ts[1].coeffs) /\ l = Len(ts[1].shares)
  <2>1. ts[1].coeffs \in Seq(Fr) /\ ts[1].shares \in Seq(Fr)
    BY <1>4 DEF Transcript
  <2>2. QED
    BY <2>1
<1>6. UniformShape(ts, n, k, l)
  <2> SUFFICES ASSUME NEW i \in 1..n
               PROVE  /\ ts[i].coeffs \in [1..k -> Fr] /\ ts[i].shares \in [1..l -> Fr]
                      /\ ts[i].sigma \in Fr
    BY DEF UniformShape
  <2>1. ts[i].coeffs \in Seq(Fr) /\ ts[i].shares \in Seq(Fr) /\ ts[i].sigma \in Fr
    BY <1>4 DEF Transcript
  <2>2. Len(ts[i].coeffs) = k /\ Len(ts[i].shares) = l
    BY <1>3, <1>4, <1>5 DEF SameShape
  <2>3. QED
    BY <2>1, <2>2
<1>7. sum0 = SumTranscript(ts, n, k, l)
  <2>1. DOMAIN ts[1].coeffs = 1..k /\ DOMAIN ts[1].shares = 1..l
    BY <1>4, <1>6 DEF UniformShape
  <2>2. QED
    BY <1>4, <2>1 DEF SumTranscript
<1>8. Aggregate(ts).val = SumTranscript(ts, n, k, l)
  <2> HIDE DEF sum0
  <2> QED
    BY <1>1, <1>3, <1>7
<1> DEFINE sum == SumTranscript(ts, n, k, l)
<1>9. /\ sum.coeffs # <<>>
      /\ FromTranscripts(ts).val = [aggregate |-> sum, public_key |-> sum.coeffs[1]]
  <2> HIDE DEF sum
  <2>1. FromTranscripts(ts) = FromAggregate(sum)
    BY <1>2, <1>8 DEF sum
  <2>2. QED
    BY <1>1, <2>1 DEF FromAggregate
<1>10. k # 0
  <2>1. sum.coeffs = [j \in 1..k |-> FSum([i \in 1..n |-> ts[i].coeffs[j]])]
    BY DEF SumTranscript
  <2>2. ASSUME k = 0 PROVE FALSE
    <3>1. sum.coeffs = <<>>
      BY <2>1, <2>2
    <3>2. QED
      BY <1>9, <3>1
  <2>3. QED
    BY <2>2
<1>11. QED
  <2>1. Aggregate(ts) = Ok(sum)
    BY <1>3, <1>7
  <2>2. IsSum(ts, n, k, l)
    <3> HIDE DEF n
    <3> QED
      BY <1>4, <1>6, <1>9, <2>1 DEF IsSum
  <2>3. k \in Nat \ {0}
    BY <1>10
  <2> HIDE DEF sum0, shapes, sum
  <2>4. QED
    BY <2>2, <2>3

\* The order of the transcripts does not matter.
LEMMA SumPermuted ==
    ASSUME NEW n \in Nat, NEW k \in Nat, NEW l \in Nat, NEW ts, NEW us,
           UniformShape(ts, n, k, l), NEW pi, Reorders(pi, ts, us, n)
    PROVE  SumTranscript(us, n, k, l) = SumTranscript(ts, n, k, l)
<1> USE DEF Reorders, NoRepeats
<1>1. ASSUME NEW j \in 1..k
      PROVE  FSum([i \in 1..n |-> us[i].coeffs[j]]) = FSum([i \in 1..n |-> ts[i].coeffs[j]])
  <2> DEFINE s == [i \in 1..n |-> ts[i].coeffs[j]]
  <2>1. s \in [1..n -> Fr]
    BY DEF UniformShape
  <2>2. [i \in 1..n |-> us[i].coeffs[j]] = [i \in 1..n |-> s[pi[i]]]
    OBVIOUS
  <2>3. FSum([i \in 1..n |-> s[pi[i]]]) = FSum(s)
    <3> HIDE DEF s
    <3> QED
      BY <2>1, FSumPermuted
  <2>4. QED
    BY <2>2, <2>3
<1>2. ASSUME NEW j \in 1..l
      PROVE  FSum([i \in 1..n |-> us[i].shares[j]]) = FSum([i \in 1..n |-> ts[i].shares[j]])
  <2> DEFINE s == [i \in 1..n |-> ts[i].shares[j]]
  <2>1. s \in [1..n -> Fr]
    BY DEF UniformShape
  <2>2. [i \in 1..n |-> us[i].shares[j]] = [i \in 1..n |-> s[pi[i]]]
    OBVIOUS
  <2>3. FSum([i \in 1..n |-> s[pi[i]]]) = FSum(s)
    <3> HIDE DEF s
    <3> QED
      BY <2>1, FSumPermuted
  <2>4. QED
    BY <2>2, <2>3
<1>3. FSum([i \in 1..n |-> us[i].sigma]) = FSum([i \in 1..n |-> ts[i].sigma])
  <2> DEFINE s == [i \in 1..n |-> ts[i].sigma]
  <2>1. s \in [1..n -> Fr]
    BY DEF UniformShape
  <2>2. [i \in 1..n |-> us[i].sigma] = [i \in 1..n |-> s[pi[i]]]
    OBVIOUS
  <2>3. FSum([i \in 1..n |-> s[pi[i]]]) = FSum(s)
    <3> HIDE DEF s
    <3> QED
      BY <2>1, FSumPermuted
  <2>4. QED
    BY <2>2, <2>3
<1>4. [j \in 1..k |-> FSum([i \in 1..n |-> us[i].coeffs[j]])]
        = [j \in 1..k |-> FSum([i \in 1..n |-> ts[i].coeffs[j]])]
  BY <1>1
<1>5. [j \in 1..l |-> FSum([i \in 1..n |-> us[i].shares[j]])]
        = [j \in 1..l |-> FSum([i \in 1..n |-> ts[i].shares[j]])]
  BY <1>2
<1>6. QED
  BY <1>3, <1>4, <1>5 DEF SumTranscript

\* verify_transcripts lets every dealer in once.
LEMMA DealersDiffer ==
    ASSUME NEW d, NEW ms \in Seq(Message), Succeeded(AggregateTranscripts(d, ms))
    PROVE  /\ \A i, j \in 1..Len(ms) : ms[i].sender.address = ms[j].sender.address => i = j
           /\ AggregateTranscripts(d, ms) = FromTranscripts(Transcripts(ms))
<1> DEFINE turns == [i \in DOMAIN ms |-> VerifyMessage(d, ms, i)]
           n == Len(ms)
<1>1. n \in Nat /\ DOMAIN ms = 1..n
  OBVIOUS
<1>2. Succeeded(VerifyTranscripts(d, ms)) /\ AggregateTranscripts(d, ms) = FromTranscripts(Transcripts(ms))
  BY DEF AggregateTranscripts
<1>3. Succeeded(FirstFailure(turns))
  <2> HIDE DEF turns
  <2> QED
    BY <1>2 DEF VerifyTranscripts, turns
<1>4. ASSUME NEW i \in DOMAIN turns
      PROVE  /\ Succeeded(turns[i]) => Holds(turns[i])
             /\ Holds(turns[i]) => ~ \E j \in 1..(i - 1) : ms[j].sender.address = ms[i].sender.address
  <2>1. turns[i] = VerifyMessage(d, ms, i)
    OBVIOUS
  <2> HIDE DEF turns
  <2>2. QED
    BY <2>1 DEF VerifyMessage, Succeeded, Holds, Ok, Err
<1>5. \A i \in 1..n : Holds(turns[i])
  <2>1. DOMAIN turns \subseteq Nat /\ DOMAIN turns = 1..n
    BY <1>1
  <2> HIDE DEF turns
  <2>2. QED
    BY <1>3, <1>4, <2>1, FirstFailureCases
<1>6. \A i \in 1..n : ~ \E j \in 1..(i - 1) : ms[j].sender.address = ms[i].sender.address
  <2>1. DOMAIN turns = 1..n
    BY <1>1
  <2> HIDE DEF turns
  <2>2. QED
    BY <1>4, <1>5, <2>1
<1>7. ASSUME NEW i \in 1..n, NEW j \in 1..n, ms[i].sender.address = ms[j].sender.address
      PROVE  i = j
  <2>1. i < j => i \in 1..(j - 1)
    BY <1>1
  <2>2. j < i => j \in 1..(i - 1)
    BY <1>1
  <2>3. ~ (i < j) /\ ~ (j < i)
    BY <1>6, <1>7, <2>1, <2>2
  <2>4. QED
    BY <1>1, <2>3
<1>8. QED
  BY <1>2, <1>7

\* For every field, ritual and number of messages: two clients that collected the same
\* messages, each in its own order, and whose aggregate_transcripts succeeded hold the
\* same aggregate, hence the same public key.
THEOREM OrderIndependent == Spec => []AggregationOrderIndependent
<1>1. CInv => AggregationOrderIndependent
  <2> SUFFICES ASSUME CInv, NEW c \in Clients, NEW d \in Clients,
                      last[c].op = "aggregate_transcripts", Succeeded(last[c].out),
                      last[d].op = "aggregate_transcripts", Succeeded(last[d].out),
                      {inbox[c][i] : i \in DOMAIN inbox[c]} = {inbox[d][i] : i \in DOMAIN inbox[d]}
               PROVE  agg[c] = agg[d]
    BY DEF AggregationOrderIndependent
  <2> DEFINE ms == inbox[c]
             ns == inbox[d]
             ts == Transcripts(ms)
             us == Transcripts(ns)
             m == Len(ms)
             n == Len(ns)
  <2>1. ms \in Seq(Message) /\ ns \in Seq(Message)
    BY DEF CInv, IInv, TypeOK
  <2>2. /\ Succeeded(AggregateTranscripts(dkg[c], ms)) /\ agg[c] = AggregateTranscripts(dkg[c], ms).val
        /\ Succeeded(AggregateTranscripts(dkg[d], ns)) /\ agg[d] = AggregateTranscripts(dkg[d], ns).val
    BY DEF CInv, ReportsCurrent, ReportCurrent
  <2>3. m \in Nat /\ n \in Nat /\ DOMAIN ms = 1..m /\ DOMAIN ns = 1..n
    BY <2>1
  <2> HIDE DEF ms, ns
  <2>4. NoRepeats(ms, m) /\ AggregateTranscripts(dkg[c], ms) = FromTranscripts(ts)
    BY <2>1, <2>2, DealersDiffer DEF NoRepeats
  <2>5. NoRepeats(ns, n) /\ AggregateTranscripts(dkg[d], ns) = FromTranscripts(us)
    BY <2>1, <2>2, DealersDiffer DEF NoRepeats
  <2>6. Entries(ms, m) = Entries(ns, n)
    BY <2>3 DEF ms, ns, Entries
  <2>7. m = n /\ \E pi : Reorders(pi, ms, ns, n)
    <3> HIDE DEF m, n
    <3> QED
      BY <2>3, <2>4, <2>5, <2>6, SameThingsPermuted
  <2>8. PICK pi : Reorders(pi, ms, ns, n)
    BY <2>7
  <2>9. /\ ts = [i \in 1..n |-> ms[i].transcript] /\ us = [i \in 1..n |-> ns[i].transcript]
    BY <2>3, <2>7 DEF Transcripts
  <2>10. ts \in Seq(Transcript) /\ us \in Seq(Transcript) /\ Len(ts) = n /\ Len(us) = n
    <3>1. \A i \in 1..n : ms[i].transcript \in Transcript /\ ns[i].transcript \in Transcript
      <4>1. \A i \in 1..n : ms[i] \in Message /\ ns[i] \in Message
        BY <2>1, <2>7
      <4>2. QED
        BY <4>1 DEF Message
    <3> HIDE DEF ts, us, m, n
    <3>2. QED
      BY <2>3, <2>9, <3>1
  <2>11. Reorders(pi, ts, us, n)
    <3> HIDE DEF ts, us, m, n
    <3> QED
      BY <2>8, <2>9 DEF Reorders
  <2> HIDE DEF ts, us, m, n
  <2>12. PICK k \in Nat \ {0}, l \in Nat : IsSum(ts, n, k, l)
    <3>1. Succeeded(FromTranscripts(ts))
      BY <2>2, <2>4
    <3>2. QED
      BY <2>10, <3>1, FromTranscriptsForm
  <2>13. PICK k2 \in Nat \ {0}, l2 \in Nat : IsSum(us, n, k2, l2)
    <3>1. Succeeded(FromTranscripts(us))
      BY <2>2, <2>5
    <3>2. QED
      BY <2>10, <3>1, FromTranscriptsForm
  <2>14. k = k2 /\ l = l2
    <3>1. 1 \in 1..n /\ pi[1] \in 1..n
      BY <2>11, <2>12 DEF IsSum, Reorders
    <3>2. us[1] = ts[pi[1]]
      BY <2>11, <3>1 DEF Reorders
    <3>3. DOMAIN us[1].coeffs = 1..k /\ DOMAIN us[1].shares = 1..l
      BY <2>12, <3>1, <3>2 DEF UniformShape, IsSum
    <3>4. DOMAIN us[1].coeffs = 1..k2 /\ DOMAIN us[1].shares = 1..l2
      BY <2>13, <3>1 DEF UniformShape, IsSum
    <3>5. \A a, b \in Nat : 1..a = 1..b => a = b
      OBVIOUS
    <3>6. QED
      BY <3>3, <3>4, <3>5
  <2>15. SumTranscript(us, n, k, l) = SumTranscript(ts, n, k, l)
    <3>1. n \in Nat /\ k \in Nat /\ l \in Nat /\ UniformShape(ts, n, k, l)
      BY <2>12 DEF IsSum
    <3>2. QED
      BY <2>11, <3>1, SumPermuted
  <2>16. FromTranscripts(us).val = FromTranscripts(ts).val
    BY <2>12, <2>13, <2>14, <2>15 DEF IsSum
  <2>17. QED
    BY <2>2, <2>4, <2>5, <2>16
<1>2. QED
  BY <1>1, AlwaysCInv, PTL

\* For every field, ritual and number of messages: when aggregate_transcripts succeeds,
\* the messages come from as many addresses as there are messages, and the public key,
\* the commitments and the blinded shares of the aggregate are the sums over the set of
\* messages, however they are listed.
THEOREM DealersCountedOnce == Spec => []EveryDealerCountedOnce
<1>1. CInv => EveryDealerCountedOnce
  <2> SUFFICES ASSUME CInv, NEW c \in Clients,
                      last[c].op = "aggregate_transcripts", Succeeded(last[c].out)
               PROVE  LET got == {inbox[c][i] : i \in DOMAIN inbox[c]}
                          sum == agg[c].aggregate
                      IN  /\ Cardinality({x.sender.address : x \in got}) = Len(inbox[c])
                          /\ \A s \in Listings(got) :
                               /\ agg[c].public_key = FSum([i \in DOMAIN s |-> s[i].transcript.coeffs[1]])
                               /\ \A k \in DOMAIN sum.coeffs :
                                    sum.coeffs[k] = FSum([i \in DOMAIN s |-> s[i].transcript.coeffs[k]])
                               /\ \A k \in DOMAIN sum.shares :
                                    sum.shares[k] = FSum([i \in DOMAIN s |-> s[i].transcript.shares[k]])
    BY DEF EveryDealerCountedOnce
  <2> DEFINE ms == inbox[c]
             ts == Transcripts(ms)
             n == Len(ms)
             got == {ms[i] : i \in DOMAIN ms}
             addresses == {x.sender.address : x \in got}
  <2>1. ms \in Seq(Message)
    BY DEF CInv, IInv, TypeOK
  <2>2. Succeeded(AggregateTranscripts(dkg[c], ms)) /\ agg[c] = AggregateTranscripts(dkg[c], ms).val
    BY DEF CInv, ReportsCurrent, ReportCurrent
  <2> HIDE DEF ms
  <2>3. n \in Nat /\ DOMAIN ms = 1..n
    BY <2>1
  <2>4. /\ \A i, j \in 1..n : ms[i].sender.address = ms[j].sender.address => i = j
        /\ AggregateTranscripts(dkg[c], ms) = FromTranscripts(ts)
    BY <2>1, <2>2, DealersDiffer
  <2>5. IsFiniteSet(1..n) /\ Cardinality(1..n) = n
    BY <2>3, FS_Interval
  <2>6. Cardinality(got) = n
    <3> DEFINE b == [i \in 1..n |-> ms[i]]
    <3>1. b \in Bijection(1..n, got)
      BY <2>3, <2>4 DEF Bijection, Injection, Surjection, IsInjective
    <3>2. ExistsBijection(1..n, got)
      <4> HIDE DEF b, got
      <4> QED
        BY <3>1 DEF ExistsBijection
    <3>3. QED
      BY <2>5, <3>2, FS_Bijection
  <2>7. Cardinality(addresses) = n
    <3> DEFINE b == [i \in 1..n |-> ms[i].sender.address]
    <3>1. b \in Bijection(1..n, addresses)
      BY <2>3, <2>4 DEF Bijection, Injection, Surjection, IsInjective
    <3>2. ExistsBijection(1..n, addresses)
      <4> HIDE DEF b, addresses
      <4> QED
        BY <3>1 DEF ExistsBijection
    <3>3. QED
      BY <2>5, <3>2, FS_Bijection
  <2>8. ASSUME NEW s \in Listings(got)
        PROVE  /\ agg[c].public_key = FSum([i \in DOMAIN s |-> s[i].transcript.coeffs[1]])
               /\ \A j \in DOMAIN agg[c].aggregate.coeffs :
                    agg[c].aggregate.coeffs[j] = FSum([i \in DOMAIN s |-> s[i].transcript.coeffs[j]])
               /\ \A j \in DOMAIN agg[c].aggregate.shares :
                    agg[c].aggregate.shares[j] = FSum([i \in DOMAIN s |-> s[i].transcript.shares[j]])
    <3>1. s \in [1..n -> got] /\ NoRepeats(s, n)
      <4> HIDE DEF n, got
      <4> QED
        BY <2>6 DEF Listings, NoRepeats
    <3>2. PICK pi \in [1..n -> 1..n] : \A i \in 1..n : s[i] = ms[pi[i]]
      <4>1. \A i \in 1..n : \E j \in 1..n : s[i] = ms[j]
        BY <2>3, <3>1
      <4> WITNESS [i \in 1..n |-> CHOOSE j \in 1..n : s[i] = ms[j]] \in [1..n -> 1..n]
      <4> QED
        BY <4>1
    <3>3. \A i, j \in 1..n : pi[i] = pi[j] => i = j
      BY <3>1, <3>2 DEF NoRepeats
    <3>4. /\ ts = [i \in 1..n |-> ms[i].transcript]
          /\ ts \in Seq(Transcript) /\ Len(ts) = n
      <4>1. \A i \in 1..n : ms[i] \in Message
        BY <2>1, <2>3
      <4>2. \A i \in 1..n : ms[i].transcript \in Transcript
        BY <4>1 DEF Message
      <4>3. ts = [i \in 1..n |-> ms[i].transcript]
        BY <2>3 DEF Transcripts
      <4> HIDE DEF ts, n
      <4>4. QED
        BY <2>3, <4>2, <4>3
    <3> HIDE DEF ts, n
    <3>5. PICK k \in Nat \ {0}, l \in Nat : IsSum(ts, n, k, l)
      <4>1. Succeeded(FromTranscripts(ts))
        BY <2>2, <2>4
      <4>2. QED
        BY <3>4, <4>1, FromTranscriptsForm
    <3> DEFINE us == [i \in 1..n |-> s[i].transcript]
    <3>6. Reorders(pi, ts, us, n)
      BY <3>2, <3>3, <3>4 DEF Reorders, NoRepeats
    <3>7. /\ agg[c].aggregate = SumTranscript(us, n, k, l)
          /\ agg[c].public_key = SumTranscript(us, n, k, l).coeffs[1]
      <4> HIDE DEF us
      <4>1. SumTranscript(us, n, k, l) = SumTranscript(ts, n, k, l)
        BY <2>3, <3>5, <3>6, SumPermuted DEF IsSum
      <4>2. agg[c] = [aggregate |-> SumTranscript(ts, n, k, l),
                      public_key |-> SumTranscript(ts, n, k, l).coeffs[1]]
        BY <2>2, <2>4, <3>5 DEF IsSum
      <4>3. QED
        BY <4>1, <4>2
    <3>8. DOMAIN s = 1..n /\ 1 \in 1..k
      BY <3>1
    <3>9. \A j : /\ [i \in DOMAIN s |-> s[i].transcript.coeffs[j]] = [i \in 1..n |-> us[i].coeffs[j]]
                 /\ [i \in DOMAIN s |-> s[i].transcript.shares[j]] = [i \in 1..n |-> us[i].shares[j]]
      BY <3>8
    <3> HIDE DEF us
    <3>10. \A j \in 1..k : SumTranscript(us, n, k, l).coeffs[j] = FSum([i \in 1..n |-> us[i].coeffs[j]])
      BY DEF SumTranscript
    <3>11. \A j \in 1..l : SumTranscript(us, n, k, l).shares[j] = FSum([i \in 1..n |-> us[i].shares[j]])
      BY DEF SumTranscript
    <3>12. /\ DOMAIN SumTranscript(us, n, k, l).coeffs = 1..k
           /\ DOMAIN SumTranscript(us, n, k, l).shares = 1..l
      BY DEF SumTranscript
    <3> HIDE DEF n
    <3>13. agg[c].public_key = FSum([i \in DOMAIN s |-> s[i].transcript.coeffs[1]])
      BY Zenon, <3>7, <3>8, <3>9, <3>10
    <3>14. QED
      BY Zenon, <3>7, <3>9, <3>10, <3>11, <3>12, <3>13
  <2> HIDE DEF n, got, addresses
  <2>9. QED
    BY <2>7, <2>8 DEF n, got, addresses, ms
<1>2. QED
  BY <1>1, AlwaysCInv, PTL

-----------------------------------------------------------------------------
\* When every slot of each of m transcripts matches its own commitments, so does
\* every slot of their sum.
LEMMA SumSlotsMatch ==
    ASSUME NEW n \in 0..MaxDomain, NEW m \in Nat, NEW k \in Nat, NEW l \in Nat, k <= DomainSize(n),
           NEW ts, UniformShape(ts, m, k, l), NEW len \in Nat, NEW vs, m # 0,
           \A i \in 1..len : vs[i].ek \in Fr /\ vs[i].share_index \in Nat,
           \A j \in 1..m : SlotsMatch(ts[j].coeffs, ts[j].shares, vs, len, n)
    PROVE  LET sum == SumTranscript(ts, m, k, l)
           IN  SlotsMatch(sum.coeffs, sum.shares, vs, len, n)
<1> DEFINE sum == SumTranscript(ts, m, k, l)
           P == [j \in 1..m |-> ts[j].coeffs]
           sc == [j \in 1..k |-> FSum([i \in 1..m |-> P[i][j]])]
           ss == [j \in 1..l |-> FSum([i \in 1..m |-> ts[i].shares[j]])]
<1>1. /\ P \in [1..m -> [1..k -> Fr]]
      /\ \A j \in 1..m : ts[j].coeffs \in Seq(Fr) /\ Len(ts[j].coeffs) = k
      /\ \A j \in 1..m : P[j] = ts[j].coeffs
      /\ \A j \in 1..m : ts[j].shares \in [1..l -> Fr]
  BY DEF UniformShape
<1>2. sum.coeffs = sc /\ sum.shares = ss
  <2>1. sc = [j \in 1..k |-> FSum([i \in 1..m |-> ts[i].coeffs[j]])]
    OBVIOUS
  <2>2. QED
    BY <2>1 DEF SumTranscript
<1>3. /\ sc \in [1..k -> Fr] /\ sc \in Seq(Fr) /\ Len(sc) = k
      /\ \A x \in Fr : Eval(sc, x) = FSum([i \in 1..m |-> Eval(P[i], x)])
  <2> HIDE DEF P
  <2>1. ASSUME NEW x \in Fr
        PROVE  sc \in [1..k -> Fr] /\ Eval(sc, x) = FSum([i \in 1..m |-> Eval(P[i], x)])
    BY ZenonT(90), <1>1, EvalSum
  <2> HIDE DEF sc
  <2>2. Zero \in Fr
    BY FrClosed
  <2>3. sc \in [1..k -> Fr]
    BY <2>1, <2>2
  <2>4. sc \in Seq(Fr) /\ Len(sc) = k
    BY <2>3, SeqOf
  <2>5. QED
    BY <2>1, <2>3, <2>4
<1> SUFFICES ASSUME NEW i \in 1..len
             PROVE  /\ vs[i].ek # Zero
                    /\ vs[i].share_index + 1 \in DOMAIN ss \cap DOMAIN Fft(sc, n)
                    /\ Pairing(One, ss[vs[i].share_index + 1])
                         = Pairing(Fft(sc, n)[vs[i].share_index + 1], vs[i].ek)
  <2> HIDE DEF sc, ss, sum
  <2> QED
    BY <1>2 DEF SlotsMatch, sum
<1> DEFINE z == vs[i].ek
           x == DomainElement(n, vs[i].share_index)
<1>4. PICK p \in Nat : p = vs[i].share_index /\ z \in Fr
  OBVIOUS
<1>5. ASSUME NEW j \in 1..m
      PROVE  /\ z # Zero /\ p + 1 \in DOMAIN ts[j].shares /\ p + 1 \in DOMAIN Fft(ts[j].coeffs, n)
             /\ Pairing(One, ts[j].shares[p + 1]) = Pairing(Fft(ts[j].coeffs, n)[p + 1], z)
  BY <1>4 DEF SlotsMatch
<1>6. DomainSize(n) \in Nat
  BY DomainAssumption
<1>7. /\ z # Zero /\ p + 1 \in 1..l /\ p \in 0..(DomainSize(n) - 1)
      /\ DOMAIN Fft(sc, n) = 1..DomainSize(n) /\ Fft(sc, n)[p + 1] = Eval(sc, x)
  <2>1. 1 \in 1..m
    OBVIOUS
  <2>2. DOMAIN Fft(ts[1].coeffs, n) = 1..DomainSize(n)
    BY <1>1, <2>1, FftValues
  <2>3. z # Zero /\ p + 1 \in 1..l /\ p + 1 \in 1..DomainSize(n)
    BY <1>1, <1>5, <2>1, <2>2
  <2>4. p \in 0..(DomainSize(n) - 1)
    BY <1>6, <2>3
  <2> HIDE DEF sc
  <2>5. DOMAIN Fft(sc, n) = 1..DomainSize(n) /\ Fft(sc, n)[p + 1] = Eval(sc, DomainElement(n, p))
    BY <1>3, <2>4, FftValues
  <2>6. QED
    BY <1>4, <2>3, <2>4, <2>5
<1>8. x \in Fr
  BY <1>4, <1>7, DomainAssumption
<1>9. ASSUME NEW j \in 1..m
      PROVE  Eval(P[j], x) \in Fr /\ ts[j].shares[p + 1] = Mul(z, Eval(P[j], x))
  <2>1. Fft(ts[j].coeffs, n)[p + 1] = Eval(ts[j].coeffs, x)
    <3>1. Fft(ts[j].coeffs, n)[p + 1] = Eval(ts[j].coeffs, DomainElement(n, p))
      BY <1>1, <1>7, FftValues
    <3>2. QED
      BY <1>4, <3>1
  <2>2. Eval(ts[j].coeffs, x) \in Fr
    BY <1>1, <1>8, EvalType
  <2>3. ts[j].shares[p + 1] \in Fr
    BY <1>1, <1>7
  <2> DEFINE e == Eval(ts[j].coeffs, x)
             y == ts[j].shares[p + 1]
  <2>4. Mul(One, y) = Mul(e, z)
    BY <1>5, <2>1 DEF Pairing
  <2>5. y \in Fr /\ e \in Fr
    BY <2>2, <2>3
  <2> HIDE DEF e, y, z
  <2>6. y = Mul(z, e)
    BY <1>4, <2>4, <2>5, FrClosed, FrMultiplicative
  <2>7. QED
    BY <1>1, <2>5, <2>6 DEF e, y
<1> DEFINE E == [j \in 1..m |-> Eval(P[j], x)]
<1>10. E \in [1..m -> Fr]
  BY <1>9
<1>11. ss[p + 1] = Mul(z, FSum(E))
  <2>1. [j \in 1..m |-> ts[j].shares[p + 1]] = [j \in 1..m |-> Mul(z, E[j])]
    BY <1>9
  <2>2. ss[p + 1] = FSum([j \in 1..m |-> ts[j].shares[p + 1]])
    BY <1>7
  <2>3. FSum([j \in 1..m |-> Mul(z, E[j])]) = Mul(z, FSum(E))
    <3> HIDE DEF E, z
    <3> QED
      BY <1>4, <1>10, FSumScale
  <2> HIDE DEF E, z, ss
  <2>4. QED
    BY <2>1, <2>2, <2>3
<1>12. Eval(sc, x) = FSum(E)
  <2> HIDE DEF sc, P, x
  <2> QED
    BY <1>3, <1>8
<1>13. FSum(E) \in Fr
  <2> HIDE DEF E
  <2> QED
    BY <1>10, FoldTypes
<1>14. Pairing(One, ss[p + 1]) = Pairing(Fft(sc, n)[p + 1], z)
  <2> HIDE DEF E, z, ss, sc, x
  <2>1. Mul(z, FSum(E)) \in Fr
    BY <1>4, <1>13, FrClosed
  <2>2. Mul(One, Mul(z, FSum(E))) = Mul(FSum(E), z)
    BY <1>4, <1>13, <2>1, FrClosed, FrMultiplicative
  <2>3. QED
    BY <1>7, <1>11, <1>12, <2>2 DEF Pairing
<1>15. DOMAIN ss = 1..l /\ p + 1 \in 1..DomainSize(n)
  BY <1>6, <1>7
<1>16. QED
  <2> HIDE DEF ss, sc
  <2> QED
    BY <1>4, <1>7, <1>14, <1>15

\* What AggregatedTranscript::verify accepts.
LEMMA VerifyComplete ==
    ASSUME NEW at, NEW n \in Nat, n <= MaxDomain, NEW t, NEW ms, NEW m \in Nat, DOMAIN ms = 1..m,
           m # 0, Len(ms) = m, m <= n, VerifyOptimistic(at.aggregate),
           at.public_key = at.aggregate.coeffs[1],
           Holds(DoVerifyFull(at.aggregate.coeffs, at.aggregate.shares, Senders(ms), n, t)),
           \A i \in 1..m : VerifyOptimistic(ms[i].transcript),
           FSum([i \in 1..m |-> ms[i].transcript.coeffs[1]]) = at.aggregate.coeffs[1]
    PROVE  Holds(Verify(at, n, t, ms))
<1> DEFINE full == DoVerifyFull(at.aggregate.coeffs, at.aggregate.shares, Senders(ms), n, t)
           ts == Transcripts(ms)
           turns == [i \in DOMAIN ts |-> VerifyDealt(ts[i])]
           dealt == FirstFailure(turns)
           firsts == [i \in DOMAIN ts |-> ts[i].coeffs[1]]
<1>1. DOMAIN ts = 1..m /\ \A i \in 1..m : ts[i] = ms[i].transcript
  BY DEF Transcripts
<1>2. ms # <<>> /\ ts # <<>>
  <2>1. 1 \in DOMAIN ms /\ 1 \in DOMAIN ts
    BY <1>1
  <2> HIDE DEF ts
  <2>2. 1 \notin DOMAIN <<>>
    OBVIOUS
  <2>3. ms # <<>>
    BY <2>1, <2>2, Zenon
  <2>4. ts # <<>>
    BY <2>1, <2>2, Zenon
  <2>5. QED
    BY <2>3, <2>4
<1>3. Succeeded(dealt)
  <2>1. ASSUME NEW i \in 1..m PROVE Holds(turns[i])
    <3>1. VerifyOptimistic(ts[i]) /\ turns[i] = VerifyDealt(ts[i])
      BY <1>1
    <3> HIDE DEF turns, ts
    <3>2. QED
      BY <3>1 DEF VerifyDealt, VerifyOptimistic, Holds, Succeeded, Ok
  <2>2. DOMAIN turns = 1..m /\ DOMAIN turns \subseteq Nat
    BY <1>1
  <2> HIDE DEF turns
  <2>3. FirstFailure(turns) = Ok(TRUE)
    BY <2>1, <2>2, FirstFailureCases
  <2>4. QED
    BY <2>3 DEF Succeeded, Ok
<1>4. FSum(firsts) = at.aggregate.coeffs[1]
  <2>1. firsts = [i \in 1..m |-> ms[i].transcript.coeffs[1]]
    BY <1>1
  <2> HIDE DEF firsts
  <2>2. QED
    BY <2>1
<1>5. Succeeded(full) /\ full.val /\ at.aggregate.coeffs # <<>>
  BY DEF Holds, VerifyOptimistic
<1>6. DoVerifyAggregation(at.aggregate, Senders(ms), n, ts, t) = Ok(TRUE)
  <2> HIDE DEF full, dealt, firsts, ts
  <2> QED
    BY <1>2, <1>3, <1>4, <1>5 DEF DoVerifyAggregation, full, dealt, firsts
<1>7. Verify(at, n, t, ms) = Ok(TRUE)
  <2>1. ~ (n < m) /\ ~ (n > MaxDomain)
    BY DomainAssumption
  <2> HIDE DEF full, dealt, firsts, turns
  <2>2. QED
    BY <1>2, <1>6, <2>1 DEF Verify
<1>8. QED
  BY <1>7 DEF Holds, Succeeded, Ok

\* For every field, ritual and number of messages: AggregatedTranscript::verify accepts
\* the aggregate of transcripts that are each valid, whichever validators sent them,
\* unless the constant or the leading terms cancel.
THEOREM ValidAccepted == Spec => []ValidTranscriptsAccepted
<1>1. CInv => ValidTranscriptsAccepted
  <2> SUFFICES ASSUME CInv, NEW c \in Clients, ritual.shares_num = Len(ritual.validators),
                      last[c].op = "verify", DOMAIN dkg # {}, CollectedValid(c),
                      agg[c].public_key # Zero, agg[c].aggregate.coeffs[ritual.threshold] # Zero
               PROVE  Accepted(c)
    BY DEF ValidTranscriptsAccepted
  <2> DEFINE rv == ritual.validators
             n == Len(rv)
             t == ritual.threshold
             ms == inbox[c]
             ts == Transcripts(ms)
             m == Len(ms)
             at == agg[c]
  <2>1. PICK a \in DOMAIN dkg : TRUE
    OBVIOUS
  <2> DEFINE d == dkg[a]
             ws == ValuesOf(d.validators)
  <2>2. /\ c \in DOMAIN agg /\ last[c].out = Verify(at, n, t, ms)
    BY DEF CInv, ReportsCurrent, ReportCurrent
  <2>3. ExactContext(d) /\ d.domain = n
    <3>1. ContextIndicesExact
      BY DEF CInv, IInv
    <3>2. ExactContext(d)
      BY ContextsAreExact DEF CInv, IInv
    <3>3. QED
      BY <3>1, <3>2 DEF ContextIndicesExact
  <2>4. /\ d.threshold = t /\ t > 0 /\ t <= n /\ d.validators = ByIndex(rv)
        /\ Succeeded(AssertNoShareDuplicates(rv))
    BY DEF CInv, ContextsAgree
  <2>5. rv \in Seq(Validator) /\ t \in Nat /\ n <= MaxDomain /\ n \in Nat /\ DOMAIN rv = 1..n
    BY RitualsAssumption DEF CInv, IInv, TypeOK, RitualAssumption
  <2>6. /\ ms \in Seq(Message) /\ m \in Nat /\ DOMAIN ms = 1..m
        /\ \A i \in 1..m : ms[i].sender \in Validator /\ ms[i].transcript \in Transcript
    <3>1. ms \in Seq(Message)
      BY DEF CInv, IInv, TypeOK
    <3>2. \A i \in 1..m : ms[i] \in Message
      BY <3>1
    <3>3. QED
      BY <3>1, <3>2 DEF Message
  <2>7. /\ Succeeded(FromTranscripts(ts)) /\ FromTranscripts(ts).val = at
        /\ \A i \in 1..m : /\ ms[i].sender \in RitualValidators
                           /\ \A j \in 1..m : ms[j].sender = ms[i].sender => i = j
                           /\ VerifyOptimistic(ms[i].transcript)
                           /\ Holds(VerifyFull(ms[i].transcript, d))
    BY <2>6 DEF CollectedValid
  <2>8. /\ ts = [i \in 1..m |-> ms[i].transcript] /\ ts \in Seq(Transcript) /\ Len(ts) = m
    <3>1. ts = [i \in 1..m |-> ms[i].transcript]
      BY <2>6 DEF Transcripts
    <3> HIDE DEF ts, ms, m
    <3>2. QED
      BY <2>6, <3>1
  <2> HIDE DEF ts, ms, m, n, t, rv, at, d, ws
  <2>9. PICK k \in Nat \ {0}, l \in Nat : IsSum(ts, m, k, l)
    BY <2>7, <2>8, FromTranscriptsForm
  <2> DEFINE sum == SumTranscript(ts, m, k, l)
  <2>10. m # 0 /\ UniformShape(ts, m, k, l) /\ at.aggregate = sum /\ at.public_key = sum.coeffs[1]
    BY <2>7, <2>9 DEF IsSum
  <2>11. ws = [i \in 1..n |-> d.validators[i - 1]] /\ DOMAIN ws = 1..n
    <3>1. DOMAIN d.validators = 0..(n - 1)
      BY <2>3 DEF ExactContext
    <3>2. ValuesOf(d.validators) = [i \in 1..n |-> d.validators[i - 1]]
      BY <2>5, <3>1, ValuesOfDense
    <3>3. QED
      BY <3>2 DEF ws
  <2>12. ASSUME NEW j \in 1..m
         PROVE  DegreePinned(ts[j].coeffs, t) /\ SlotsMatch(ts[j].coeffs, ts[j].shares, ws, n, n)
    <3>1. ts[j].coeffs \in Seq(Fr) /\ ts[j] = ms[j].transcript
      BY <2>6, <2>8 DEF Transcript
    <3>2. Holds(DoVerifyFull(ts[j].coeffs, ts[j].shares, ws, n, t))
      BY <2>3, <2>4, <2>7, <3>1 DEF VerifyFull, ws
    <3>3. QED
      BY <2>5, <2>11, <3>1, <3>2, DoVerifyFullSound
  <2>13. k = t
    <3>1. 1 \in 1..m
      BY <2>6, <2>10
    <3>2. ts[1].coeffs \in [1..k -> Fr] /\ k \in Nat
      BY <2>10, <3>1 DEF UniformShape
    <3>3. Len(ts[1].coeffs) = k
      BY <3>2, SeqOf
    <3>4. Len(ts[1].coeffs) = t
      BY <2>12, <3>1 DEF DegreePinned
    <3>5. QED
      BY <3>3, <3>4
  <2> DEFINE vs == Senders(ms)
  <2>14. DOMAIN vs = 1..m /\ \A i \in 1..m : vs[i] = ms[i].sender
    BY <2>6 DEF Senders
  <2>15. ASSUME NEW i \in 1..m
         PROVE  /\ vs[i].share_index \in 0..(n - 1)
                /\ d.validators[vs[i].share_index] = vs[i]
    <3>1. PICK q \in 1..n : vs[i] = rv[q]
      BY <2>5, <2>7, <2>14 DEF RitualValidators, rv
    <3>2. \A u, v \in 1..n : rv[u].share_index = rv[v].share_index => u = v
      BY <2>4, <2>5, NoShareDuplicates
    <3>3. rv[q].share_index \in DOMAIN ByIndex(rv) /\ ByIndex(rv)[rv[q].share_index] = rv[q]
      BY <2>5, <3>2, ByIndexFinds
    <3>4. QED
      BY <2>3, <2>4, <3>1, <3>3 DEF ExactContext
  <2>16. ASSUME NEW i \in 1..m, NEW j \in 1..m, vs[i].share_index = vs[j].share_index
         PROVE  i = j
    <3>1. vs[i] = vs[j]
      BY <2>15, <2>16
    <3>2. QED
      BY <2>7, <2>14, <3>1
  <2>17. \A i \in 1..m : vs[i].ek \in Fr /\ vs[i].share_index \in Nat
    BY <2>6, <2>14 DEF Validator
  <2>18. m <= n
    <3> DEFINE f == [i \in 1..m |-> vs[i].share_index + 1]
    <3>1. \A i \in 1..m : vs[i].share_index + 1 \in 1..n
      BY <2>5, <2>15
    <3>2. f \in [1..m -> 1..n]
      BY <3>1
    <3>3. \A i, j \in 1..m : f[i] = f[j] => i = j
      <4>1. \A u, v \in Nat : u + 1 = v + 1 => u = v
        OBVIOUS
      <4>2. QED
        BY <2>16, <2>17, <4>1
    <3> HIDE DEF f
    <3>4. QED
      BY <2>5, <2>6, <3>2, <3>3, InjectionBound
  <2>19. ASSUME NEW j \in 1..m PROVE SlotsMatch(ts[j].coeffs, ts[j].shares, vs, m, n)
    <3> SUFFICES ASSUME NEW i \in 1..m
                 PROVE  /\ vs[i].ek # Zero
                        /\ vs[i].share_index + 1 \in DOMAIN ts[j].shares \cap DOMAIN Fft(ts[j].coeffs, n)
                        /\ Pairing(One, ts[j].shares[vs[i].share_index + 1])
                             = Pairing(Fft(ts[j].coeffs, n)[vs[i].share_index + 1], vs[i].ek)
      BY DEF SlotsMatch
    <3>1. PICK p \in 1..n : p = vs[i].share_index + 1
      BY <2>5, <2>15
    <3>2. p - 1 = vs[i].share_index
      BY <3>1, <2>17
    <3>3. ws[p] = vs[i]
      BY <2>11, <2>15, <3>2
    <3>4. QED
      BY <2>12, <3>3 DEF SlotsMatch
  <2> HIDE DEF vs
  <2>20. n \in 0..MaxDomain /\ k <= DomainSize(n)
    <3>1. n \in 0..MaxDomain
      BY <2>5, DomainAssumption
    <3>2. DomainSize(n) \in Nat /\ n <= DomainSize(n)
      BY <3>1, DomainAssumption
    <3>3. QED
      BY <2>4, <2>5, <2>13, <3>1, <3>2
  <2>21. SlotsMatch(sum.coeffs, sum.shares, vs, m, n)
    <3>1. m \in Nat /\ k \in Nat /\ m # 0
      BY <2>6, <2>10
    <3>2. QED
      BY <2>10, <2>17, <2>19, <2>20, <3>1, SumSlotsMatch
  <2> DEFINE firsts == [i \in 1..m |-> ts[i].coeffs[1]]
             sigmas == [i \in 1..m |-> ts[i].sigma]
  <2>22. /\ sum.coeffs = [j \in 1..k |-> FSum([i \in 1..m |-> ts[i].coeffs[j]])]
         /\ sum.sigma = FSum(sigmas)
    BY DEF SumTranscript
  <2>23. sum.coeffs[1] = FSum(firsts) /\ FSum(firsts) \in Fr
    <3>1. 1 \in 1..k
      OBVIOUS
    <3>2. firsts \in [1..m -> Fr]
      BY <2>10, <3>1 DEF UniformShape
    <3>3. sum.coeffs[1] = FSum(firsts)
      BY <2>22, <3>1
    <3> HIDE DEF firsts, sum
    <3>4. QED
      BY <2>6, <3>2, <3>3, FoldTypes
  <2>24. sigmas = firsts
    <3>1. \A i \in 1..m : ts[i].sigma = ts[i].coeffs[1]
      BY <2>6, <2>7, <2>8, OptimisticBinds
    <3>2. QED
      BY <3>1
  <2>25. at.aggregate \in Transcript
    BY <2>2 DEF CInv, IInv, TypeOK, AggregatedTranscript, at
  <2>26. sum.coeffs \in Seq(Fr) /\ sum.coeffs # <<>> /\ Len(sum.coeffs) = t
    <3>1. sum.coeffs \in Seq(Fr)
      BY <2>10, <2>25 DEF Transcript
    <3>2. DOMAIN sum.coeffs = 1..t
      BY <2>13, <2>22
    <3> HIDE DEF sum
    <3>3. QED
      BY <2>4, <2>5, <3>1, <3>2
  <2>27. sum.coeffs[1] # Zero /\ sum.coeffs[t] # Zero
    BY <2>10 DEF at, t
  <2> HIDE DEF sum, firsts, sigmas
  <2>28. VerifyOptimistic(at.aggregate)
    <3>1. Mul(sum.coeffs[1], One) = Mul(One, sum.sigma)
      BY <2>22, <2>23, <2>24, FrClosed, FrMultiplicative
    <3>2. QED
      BY <2>10, <2>26, <2>27, <3>1 DEF VerifyOptimistic, Pairing
  <2>29. Holds(DoVerifyFull(sum.coeffs, sum.shares, vs, n, t))
    <3>1. DegreePinned(sum.coeffs, t)
      BY <2>4, <2>5, <2>26, <2>27 DEF DegreePinned
    <3>2. m \in Nat \ {0} /\ DOMAIN vs = 1..m
      BY <2>6, <2>10, <2>14
    <3>3. QED
      BY <2>16, <2>21, <2>26, <2>27, <3>1, <3>2, DoVerifyFullComplete
  <2>30. FSum([i \in 1..m |-> ms[i].transcript.coeffs[1]]) = at.aggregate.coeffs[1]
    <3>1. [i \in 1..m |-> ms[i].transcript.coeffs[1]] = firsts
      BY <2>8 DEF firsts
    <3>2. QED
      BY <2>10, <2>23, <3>1
  <2>31. Holds(Verify(at, n, t, ms))
    <3>1. /\ n \in Nat /\ n <= MaxDomain /\ m \in Nat /\ DOMAIN ms = 1..m /\ m # 0 /\ Len(ms) = m
          /\ m <= n /\ at.public_key = at.aggregate.coeffs[1]
      BY <2>5, <2>6, <2>10, <2>18 DEF m
    <3>2. Holds(DoVerifyFull(at.aggregate.coeffs, at.aggregate.shares, Senders(ms), n, t))
      BY <2>10, <2>29 DEF vs
    <3>3. \A i \in 1..m : VerifyOptimistic(ms[i].transcript)
      BY <2>7
    <3>4. QED
      BY <2>28, <2>30, <3>1, <3>2, <3>3, VerifyComplete
  <2>32. QED
    BY <2>2, <2>31 DEF Accepted
<1>2. QED
  BY <1>1, AlwaysCInv, PTL
=============================================================================
