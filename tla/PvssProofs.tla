------------------------------ MODULE PvssProofs ------------------------------
(***************************************************************************)
(* Facts about the operators of Pvss, for every field, domain and number   *)
(* of validators.                                                          *)
(***************************************************************************)
EXTENDS Pvss, AlgebraProofs, FiniteSetTheorems

\* The least element of a set of positions is one of them.
LEMMA MinInSet ==
    ASSUME NEW S, S \subseteq Nat, S # {}
    PROVE  Min(S) \in S /\ \A k \in S : Min(S) <= k
<1> DEFINE R == {ss \in Nat \X Nat : ss[1] < ss[2]}
<1>1. IsWellFoundedOn(R, Nat)
  BY NatLessThanWellFounded DEF OpToRel
<1>2. PICK m \in S : \A k \in S : ~ (<<k, m>> \in R)
  <2> HIDE DEF R
  <2> QED
    BY <1>1, WFMin
<1>3. \A k \in S : m <= k
  <2>1. SUFFICES ASSUME NEW k \in S, ~ (m <= k) PROVE FALSE
    OBVIOUS
  <2>2. k \in Nat /\ m \in Nat /\ k < m
    BY <2>1
  <2>3. <<k, m>> \in Nat \X Nat /\ <<k, m>>[1] = k /\ <<k, m>>[2] = m
    BY <2>2
  <2>4. <<k, m>> \in R
    BY <2>2, <2>3
  <2>5. QED
    <3> HIDE DEF R
    <3> QED
      BY <1>2, <2>4
<1>4. QED
  BY <1>3 DEF Min

\* A loop either finishes, every turn being Ok(true), or returns what its first
\* other turn returned.
LEMMA FirstFailureCases ==
    ASSUME NEW turns, DOMAIN turns \subseteq Nat
    PROVE  \/ /\ FirstFailure(turns) = Ok(TRUE)
              /\ \A i \in DOMAIN turns : Holds(turns[i])
           \/ \E i \in DOMAIN turns : FirstFailure(turns) = turns[i] /\ ~ Holds(turns[i])
<1> DEFINE bad == {i \in DOMAIN turns : ~ Holds(turns[i])}
<1>1. CASE bad = {}
  BY <1>1 DEF FirstFailure
<1>2. CASE bad # {}
  <2>1. Min(bad) \in bad
    <3> HIDE DEF bad
    <3>1. bad \subseteq Nat
      BY DEF bad
    <3>2. QED
      BY <1>2, <3>1, MinInSet
  <2>2. FirstFailure(turns) = turns[Min(bad)]
    BY <1>2 DEF FirstFailure
  <2>3. QED
    BY <2>1, <2>2
<1>3. QED
  BY <1>1, <1>2

\* assert_no_share_duplicates accepts only lists without a repeated index.
LEMMA NoShareDuplicates ==
    ASSUME NEW vs, NEW n \in Nat, DOMAIN vs = 1..n,
           Succeeded(AssertNoShareDuplicates(vs))
    PROVE  \A i, j \in 1..n : vs[i].share_index = vs[j].share_index => i = j
<1> DEFINE turns == [i \in DOMAIN vs |->
              IF \E j \in 1..(i - 1) : vs[j].share_index = vs[i].share_index
              THEN Err(<<"DuplicatedShareIndex", vs[i].share_index>>)
              ELSE Ok(TRUE)]
<1>1. AssertNoShareDuplicates(vs) = FirstFailure(turns)
  BY DEF AssertNoShareDuplicates
<1>2. \A i \in 1..n : Holds(turns[i]) \/ ~ Succeeded(turns[i])
  BY DEF Holds, Succeeded, Err, Ok
<1>3. \A i \in 1..n : Holds(turns[i])
  <2> HIDE DEF turns
  <2>1. DOMAIN turns = 1..n /\ DOMAIN turns \subseteq Nat
    BY DEF turns
  <2>2. \/ \A i \in DOMAIN turns : Holds(turns[i])
        \/ \E i \in DOMAIN turns : FirstFailure(turns) = turns[i] /\ ~ Holds(turns[i])
    BY <2>1, FirstFailureCases
  <2>3. QED
    BY <1>1, <1>2, <2>1, <2>2
<1>4. \A i \in 1..n : ~ \E j \in 1..(i - 1) : vs[j].share_index = vs[i].share_index
  BY <1>3 DEF Holds, Succeeded, Err, Ok
<1>5. SUFFICES ASSUME NEW i \in 1..n, NEW j \in 1..n, i < j,
                      vs[i].share_index = vs[j].share_index
               PROVE  FALSE
  OBVIOUS
<1>6. i \in 1..(j - 1)
  BY <1>5
<1>7. QED
  BY <1>4, <1>5, <1>6
-----------------------------------------------------------------------------
\* BTreeMap::values of a map with keys 0..n-1 is the list by key.
LEMMA ValuesOfDense ==
    ASSUME NEW n \in Nat, NEW m, DOMAIN m = 0..(n - 1)
    PROVE  /\ Cardinality(DOMAIN m) = n
           /\ ValuesOf(m) = [i \in 1..n |-> m[i - 1]]
<1>1. \A k \in Nat : IsFiniteSet(0..(k - 1)) /\ Cardinality(0..(k - 1)) = k
  BY FS_Interval
<1>2. Cardinality(DOMAIN m) = n
  BY <1>1
<1>3. ASSUME NEW i \in 1..n PROVE NthKey(m, i) = i - 1
  <2>1. ASSUME NEW k \in 0..(n - 1)
        PROVE  Cardinality({l \in DOMAIN m : l < k}) = k
    <3> DEFINE below == {l \in DOMAIN m : l < k}
    <3>1. \A l : l \in below <=> l \in 0..(k - 1)
      OBVIOUS
    <3>2. below = 0..(k - 1)
      <4> HIDE DEF below
      <4> QED
        BY <3>1
    <3>3. Cardinality(below) = k
      <4> HIDE DEF below
      <4> QED
        BY <1>1, <3>2
    <3>4. QED
      BY <3>3
  <2>2. \A k \in DOMAIN m : Cardinality({l \in DOMAIN m : l < k}) = i - 1 <=> k = i - 1
    BY <2>1
  <2>3. i - 1 \in DOMAIN m
    OBVIOUS
  <2>4. QED
    BY <2>2, <2>3 DEF NthKey
<1>4. QED
  BY <1>2, <1>3 DEF ValuesOf

\* What Dkg::new guarantees of a context.
ExactContext(d) ==
    /\ d.threshold \in Nat \ {0}
    /\ d.domain \in 0..MaxDomain
    /\ DOMAIN d.validators = 0..(d.domain - 1)
    /\ \A k \in 0..(d.domain - 1) :
         d.validators[k].share_index = k /\ d.validators[k].ek \in Fr \ {Zero}

\* In such a context PubliclyVerifiableSS::new does not panic, and slot i holds
\* the evaluation at point i under key i.
LEMMA PvssNewExact ==
    ASSUME NEW d, ExactContext(d), NEW phi \in Seq(Fr), phi # <<>>
    PROVE  /\ PvssNew(phi, d) =
                Ok([coeffs |-> phi,
                    shares |-> [i \in 1..d.domain |->
                                  Mul(Eval(phi, DomainElement(d.domain, i - 1)),
                                      d.validators[i - 1].ek)],
                    sigma  |-> phi[1]])
           /\ PvssNew(phi, d).val \in Transcript
<1> DEFINE n == d.domain
           m == d.validators
           shares == [i \in 1..n |-> Mul(Eval(phi, DomainElement(n, i - 1)), m[i - 1].ek)]
<1>1. n \in Nat /\ n \in 0..MaxDomain /\ n <= DomainSize(n) /\ DomainSize(n) \in Nat
  BY DomainAssumption DEF ExactContext
<1>2. Cardinality(DOMAIN m) = n /\ ValuesOf(m) = [i \in 1..n |-> m[i - 1]]
  BY <1>1, ValuesOfDense DEF ExactContext
<1>3. DomainPoints(d) = [i \in 1..n |-> DomainElement(n, i - 1)]
  BY <1>2 DEF DomainPoints
<1>4. \A i \in 1..n : m[i - 1].share_index = i - 1
  BY <1>1 DEF ExactContext
<1>5. PvssNew(phi, d) = Ok([coeffs |-> phi, shares |-> shares, sigma |-> phi[1]])
  <2> DEFINE evals == [i \in 1..n |-> Eval(phi, DomainElement(n, i - 1))]
             vs == [i \in 1..n |-> m[i - 1]]
  <2>1. \A i \in 1..n : vs[i].share_index + 1 = i
    BY <1>1, <1>4
  <2>2. ~ \E i \in DOMAIN vs : vs[i].share_index + 1 \notin DOMAIN evals
    BY <2>1
  <2>3. [i \in DOMAIN vs |-> Mul(evals[vs[i].share_index + 1], vs[i].ek)] = shares
    BY <2>1
  <2>4. d.threshold # 0
    BY DEF ExactContext
  <2>5. [i \in DOMAIN DomainPoints(d) |-> Eval(phi, DomainPoints(d)[i])] = evals
    BY <1>3
  <2>6. QED
    <3> HIDE DEF evals, vs, shares, n, m
    <3>1. vs = ValuesOf(d.validators)
      BY <1>2 DEF vs, m
    <3>2. QED
      BY <2>2, <2>3, <2>4, <2>5, <3>1 DEF PvssNew
<1>6. shares \in Seq(Fr)
  <2>1. ASSUME NEW i \in 1..n PROVE shares[i] \in Fr
    <3>1. DomainElement(n, i - 1) \in Fr
      BY <1>1, DomainAssumption
    <3>2. Eval(phi, DomainElement(n, i - 1)) \in Fr
      BY <3>1, EvalType
    <3>3. m[i - 1].ek \in Fr
      BY <1>1 DEF ExactContext
    <3>4. QED
      BY <3>2, <3>3, FrClosed
  <2>2. shares \in [1..n -> Fr]
    <3> HIDE DEF n, m
    <3> QED
      BY <2>1
  <2>3. QED
    <3> HIDE DEF shares, n
    <3> QED
      BY <1>1, <2>2
<1>7. phi[1] \in Fr
  OBVIOUS
<1>8. QED
  <2> HIDE DEF shares
  <2>1. [coeffs |-> phi, shares |-> shares, sigma |-> phi[1]] \in Transcript
    BY <1>6, <1>7 DEF Transcript
  <2>2. PvssNew(phi, d).val = [coeffs |-> phi, shares |-> shares, sigma |-> phi[1]]
    BY <1>5 DEF Ok
  <2>3. QED
    BY <1>5, <2>1, <2>2 DEF shares
-----------------------------------------------------------------------------
\* A call that returned, with a Boolean if it succeeded.
IsOutcome(r) == r.kind \in {"ok", "err"} /\ (Succeeded(r) => r.val \in BOOLEAN)

\* Ok and Err are outcomes and tell each other apart.
LEMMA OutcomeForms ==
    /\ \A b \in BOOLEAN : IsOutcome(Ok(b)) /\ Succeeded(Ok(b)) /\ Ok(b).val = b
    /\ \A e : IsOutcome(Err(e)) /\ ~ Succeeded(Err(e))
BY DEF IsOutcome, Succeeded, Ok, Err

\* A loop whose turns return Ok or an error does so too.
LEMMA FirstFailureOutcome ==
    ASSUME NEW turns, DOMAIN turns \subseteq Nat, \A i \in DOMAIN turns : IsOutcome(turns[i])
    PROVE  IsOutcome(FirstFailure(turns))
BY FirstFailureCases, OutcomeForms

\* aggregate does not reach the panic of zip_eq, and what it returns is a
\* transcript of the common shape.
LEMMA AggregateType ==
    ASSUME NEW ts \in Seq(Transcript)
    PROVE  /\ Aggregate(ts).kind \in {"ok", "err"}
           /\ Succeeded(Aggregate(ts)) => Aggregate(ts).val \in Transcript
<1> DEFINE turns == [i \in DOMAIN ts |-> MatchLengths(ts[1], ts[i])]
           n == Len(ts)
<1>1. n \in Nat /\ DOMAIN ts = 1..n /\ \A i \in 1..n : ts[i] \in Transcript
  OBVIOUS
<1>2. DOMAIN turns \subseteq Nat /\ DOMAIN turns = 1..n
  BY <1>1
<1>3. \A i \in 1..n : /\ IsOutcome(turns[i])
                      /\ Holds(turns[i]) <=> SameShape(ts[1], ts[i])
                      /\ Succeeded(turns[i]) => Holds(turns[i])
  BY <1>1 DEF MatchLengths, SameShape, IsOutcome, Succeeded, Holds, Ok, Err
<1>4. \/ FirstFailure(turns) = Ok(TRUE) /\ \A i \in 1..n : SameShape(ts[1], ts[i])
      \/ FirstFailure(turns).kind = "err"
  <2> HIDE DEF turns, n
  <2>1. CASE FirstFailure(turns) = Ok(TRUE) /\ \A i \in DOMAIN turns : Holds(turns[i])
    BY <1>2, <1>3, <2>1
  <2>2. CASE \E i \in DOMAIN turns : FirstFailure(turns) = turns[i] /\ ~ Holds(turns[i])
    BY <1>2, <1>3, <2>2 DEF IsOutcome, Succeeded
  <2>3. QED
    BY <1>2, <2>1, <2>2, FirstFailureCases
<1>5. CASE ts = <<>>
  BY <1>5 DEF Aggregate, Err, Succeeded
<1>6. CASE ts # <<>> /\ FirstFailure(turns).kind = "err"
  BY <1>6 DEF Aggregate, Succeeded
<1>7. CASE ts # <<>> /\ FirstFailure(turns) = Ok(TRUE) /\ \A i \in 1..n : SameShape(ts[1], ts[i])
  <2> DEFINE coeffs == [k \in DOMAIN ts[1].coeffs |-> FSum([i \in DOMAIN ts |-> ts[i].coeffs[k]])]
             shares == [k \in DOMAIN ts[1].shares |-> FSum([i \in DOMAIN ts |-> ts[i].shares[k]])]
             sigma == FSum([i \in DOMAIN ts |-> ts[i].sigma])
  <2>1. Aggregate(ts) = Ok([coeffs |-> coeffs, shares |-> shares, sigma |-> sigma])
    BY <1>1, <1>7 DEF Aggregate, Succeeded, Ok
  <2>2. 1 \in 1..n
    BY <1>1, <1>7
  <2>3. coeffs \in Seq(Fr)
    <3>1. ASSUME NEW k \in DOMAIN ts[1].coeffs
          PROVE  FSum([i \in DOMAIN ts |-> ts[i].coeffs[k]]) \in Fr
      <4>1. \A i \in 1..n : ts[i].coeffs[k] \in Fr
        BY <1>1, <1>7, <2>2 DEF Transcript, SameShape
      <4>2. [i \in DOMAIN ts |-> ts[i].coeffs[k]] \in Seq(Fr)
        BY <1>1, <4>1
      <4>3. QED
        BY <4>2, FSumType
    <3>2. PICK l \in Nat : DOMAIN ts[1].coeffs = 1..l
      <4>1. ts[1].coeffs \in Seq(Fr)
        BY <1>1, <2>2 DEF Transcript
      <4>2. QED
        BY <4>1
    <3>3. coeffs \in [1..l -> Fr]
      BY <3>1, <3>2
    <3>4. QED
      <4> HIDE DEF coeffs
      <4> QED
        BY <3>3
  <2>4. shares \in Seq(Fr)
    <3>1. ASSUME NEW k \in DOMAIN ts[1].shares
          PROVE  FSum([i \in DOMAIN ts |-> ts[i].shares[k]]) \in Fr
      <4>1. \A i \in 1..n : ts[i].shares[k] \in Fr
        BY <1>1, <1>7, <2>2 DEF Transcript, SameShape
      <4>2. [i \in DOMAIN ts |-> ts[i].shares[k]] \in Seq(Fr)
        BY <1>1, <4>1
      <4>3. QED
        BY <4>2, FSumType
    <3>2. PICK l \in Nat : DOMAIN ts[1].shares = 1..l
      <4>1. ts[1].shares \in Seq(Fr)
        BY <1>1, <2>2 DEF Transcript
      <4>2. QED
        BY <4>1
    <3>3. shares \in [1..l -> Fr]
      BY <3>1, <3>2
    <3>4. QED
      <4> HIDE DEF shares
      <4> QED
        BY <3>3
  <2>5. sigma \in Fr
    <3>1. [i \in DOMAIN ts |-> ts[i].sigma] \in Seq(Fr)
      BY <1>1 DEF Transcript
    <3>2. QED
      BY <3>1, FSumType
  <2>6. QED
    <3> HIDE DEF coeffs, shares, sigma
    <3> QED
      BY <2>1, <2>3, <2>4, <2>5 DEF Ok, Transcript
<1>8. QED
  BY <1>4, <1>5, <1>6, <1>7

\* AggregatedTranscript::from_transcripts binds the public key to F_0.
LEMMA FromTranscriptsType ==
    ASSUME NEW ts \in Seq(Transcript)
    PROVE  /\ FromTranscripts(ts).kind \in {"ok", "err"}
           /\ Succeeded(FromTranscripts(ts)) => FromTranscripts(ts).val \in AggregatedTranscript
<1>1. CASE ~ Succeeded(Aggregate(ts))
  BY <1>1, AggregateType DEF FromTranscripts
<1>2. CASE Succeeded(Aggregate(ts))
  <2>1. PICK a \in Transcript : Aggregate(ts).val = a
    BY <1>2, AggregateType
  <2>2. FromTranscripts(ts) = FromAggregate(a)
    BY <1>2, <2>1 DEF FromTranscripts
  <2>3. a.coeffs \in Seq(Fr) /\ (a.coeffs # <<>> => a.coeffs[1] \in Fr)
    BY DEF Transcript
  <2>4. QED
    BY <2>2, <2>3 DEF FromAggregate, AggregatedTranscript, Ok, Err, Succeeded
<1>3. QED
  BY <1>1, <1>2
-----------------------------------------------------------------------------
\* assert_no_share_duplicates returns Ok or an error.
LEMMA DuplicatesOutcome ==
    ASSUME NEW vs, DOMAIN vs \subseteq Nat
    PROVE  IsOutcome(AssertNoShareDuplicates(vs))
<1> DEFINE turns == [i \in DOMAIN vs |->
              IF \E j \in 1..(i - 1) : vs[j].share_index = vs[i].share_index
              THEN Err(<<"DuplicatedShareIndex", vs[i].share_index>>)
              ELSE Ok(TRUE)]
<1>1. DOMAIN turns \subseteq Nat
  OBVIOUS
<1>2. \A i \in DOMAIN turns : IsOutcome(turns[i])
  BY OutcomeForms
<1>3. AssertNoShareDuplicates(vs) = FirstFailure(turns)
  BY DEF AssertNoShareDuplicates
<1>4. QED
  <2> HIDE DEF turns
  <2> QED
    BY <1>1, <1>2, <1>3, FirstFailureOutcome

\* do_verify_full returns, whatever transcript and keys it is given.
LEMMA DoVerifyFullOutcome ==
    ASSUME NEW coeffs, NEW shares, NEW vs, NEW n, NEW t, DOMAIN vs \subseteq Nat
    PROVE  IsOutcome(DoVerifyFull(coeffs, shares, vs, n, t))
<1> DEFINE unique == AssertNoShareDuplicates(vs)
           turns == [i \in DOMAIN vs |-> VerifySlot(Fft(coeffs, n), shares, vs[i])]
<1>1. IsOutcome(unique)
  BY DuplicatesOutcome
<1>2. IsOutcome(FirstFailure(turns))
  <2>1. DOMAIN turns \subseteq Nat
    OBVIOUS
  <2>2. \A i \in DOMAIN turns : IsOutcome(turns[i])
    BY OutcomeForms DEF VerifySlot, VerifyValidatorShare
  <2>3. QED
    <3> HIDE DEF turns
    <3> QED
      BY <2>1, <2>2, FirstFailureOutcome
<1>3. QED
  <2> HIDE DEF unique, turns
  <2>1. \/ DoVerifyFull(coeffs, shares, vs, n, t) = unique
        \/ DoVerifyFull(coeffs, shares, vs, n, t) = Err(<<"InvalidTranscriptDegree", t>>)
        \/ DoVerifyFull(coeffs, shares, vs, n, t) = Ok(FALSE)
        \/ DoVerifyFull(coeffs, shares, vs, n, t) = FirstFailure(turns)
    BY DEF DoVerifyFull, unique, turns
  <2>2. QED
    BY <1>1, <1>2, <2>1, OutcomeForms

\* do_verify_aggregation returns; if it accepts, every transcript it was given
\* passes verify_optimistic and their constant terms add up to the aggregate's.
LEMMA DoVerifyAggregationOutcome ==
    ASSUME NEW agg, NEW vs, NEW n, NEW pvss, NEW t,
           DOMAIN vs \subseteq Nat, DOMAIN pvss \subseteq Nat
    PROVE  LET r == DoVerifyAggregation(agg, vs, n, pvss, t)
           IN  /\ IsOutcome(r)
               /\ Holds(r) =>
                    /\ \A i \in DOMAIN pvss : VerifyOptimistic(pvss[i])
                    /\ FSum([i \in DOMAIN pvss |-> pvss[i].coeffs[1]]) = agg.coeffs[1]
<1> DEFINE full == DoVerifyFull(agg.coeffs, agg.shares, vs, n, t)
           turns == [i \in DOMAIN pvss |-> VerifyDealt(pvss[i])]
           sum == FSum([i \in DOMAIN pvss |-> pvss[i].coeffs[1]])
           r == DoVerifyAggregation(agg, vs, n, pvss, t)
<1>1. IsOutcome(full)
  BY DoVerifyFullOutcome
<1>2. \A i \in DOMAIN turns : /\ IsOutcome(turns[i])
                              /\ Holds(turns[i]) <=> Succeeded(turns[i])
                              /\ Holds(turns[i]) => VerifyOptimistic(pvss[i])
  BY DEF VerifyDealt, IsOutcome, Holds, Succeeded, Ok, Err
<1>3. /\ IsOutcome(FirstFailure(turns))
      /\ Succeeded(FirstFailure(turns)) => \A i \in DOMAIN pvss : VerifyOptimistic(pvss[i])
  <2>1. DOMAIN turns = DOMAIN pvss /\ DOMAIN turns \subseteq Nat
    OBVIOUS
  <2>2. QED
    <3> HIDE DEF turns
    <3> QED
      BY <1>2, <2>1, FirstFailureCases, FirstFailureOutcome
<1>4. \/ \E e : r = Err(e)
      \/ r = full /\ ~ Succeeded(full)
      \/ r = FirstFailure(turns) /\ ~ Succeeded(FirstFailure(turns))
      \/ /\ r = Ok(TRUE)
         /\ Succeeded(FirstFailure(turns))
         /\ sum = agg.coeffs[1]
  <2> HIDE DEF full, turns, sum
  <2> QED
    BY DEF DoVerifyAggregation, full, turns, sum
<1>5. QED
  <2> HIDE DEF full, turns, r, sum
  <2>1. IsOutcome(r)
    BY <1>1, <1>3, <1>4, OutcomeForms
  <2>2. Holds(r) => /\ \A i \in DOMAIN pvss : VerifyOptimistic(pvss[i])
                    /\ sum = agg.coeffs[1]
    BY <1>3, <1>4, OutcomeForms DEF Holds
  <2>3. QED
    BY <2>1, <2>2 DEF r, sum

\* verify_optimistic equates the proof of knowledge and the constant term.
LEMMA OptimisticBinds ==
    ASSUME NEW t \in Transcript, VerifyOptimistic(t)
    PROVE  t.coeffs[1] # Zero /\ t.sigma = t.coeffs[1]
<1>1. t.coeffs \in Seq(Fr) /\ t.coeffs # <<>> /\ t.sigma \in Fr
  BY DEF Transcript, VerifyOptimistic
<1>2. t.coeffs[1] \in Fr
  BY <1>1
<1>3. Mul(t.coeffs[1], One) = t.coeffs[1] /\ Mul(One, t.sigma) = t.sigma
  BY <1>1, <1>2, FrClosed, FrMultiplicative
<1>4. QED
  BY <1>3 DEF VerifyOptimistic, Pairing

\* The transcripts and the senders of a list of messages.
LEMMA MessageParts ==
    ASSUME NEW V, NEW ms \in Seq([sender : V, transcript : Transcript])
    PROVE  /\ Transcripts(ms) \in Seq(Transcript) /\ Senders(ms) \in Seq(V)
           /\ DOMAIN Transcripts(ms) = DOMAIN ms /\ DOMAIN Senders(ms) = DOMAIN ms
           /\ \A i \in DOMAIN ms : /\ Transcripts(ms)[i] = ms[i].transcript
                                   /\ Transcripts(ms)[i] \in Transcript
<1> DEFINE M == [sender : V, transcript : Transcript]
<1>1. PICK n \in Nat : DOMAIN ms = 1..n
  OBVIOUS
<1>2. \A i \in 1..n : ms[i] \in M
  <2> HIDE DEF M
  <2>1. ms \in Seq(M)
    BY DEF M
  <2>2. QED
    BY <1>1, <2>1
<1>3. \A i \in 1..n : ms[i].transcript \in Transcript /\ ms[i].sender \in V
  BY <1>2
<1>4. Transcripts(ms) \in [1..n -> Transcript] /\ Senders(ms) \in [1..n -> V]
  BY <1>1, <1>3 DEF Transcripts, Senders
<1>5. \A i \in 1..n : Transcripts(ms)[i] = ms[i].transcript
  BY <1>1 DEF Transcripts
<1>6. QED
  BY <1>1, <1>4, <1>5

\* The public key pk is the sum of the constant terms of the messages, each of
\* them proved and none of them the identity.
SumOfContributions(pk, ms) ==
    /\ pk = FSum([i \in DOMAIN ms |-> ms[i].transcript.coeffs[1]])
    /\ \A i \in DOMAIN ms : LET t == ms[i].transcript
                            IN  t.coeffs[1] # Zero /\ t.sigma = t.coeffs[1]

\* AggregatedTranscript::verify returns; if it accepts, the public key is the sum
\* of the contributions.
LEMMA VerifyOutcome ==
    ASSUME NEW at, NEW n \in Nat, n <= MaxDomain, NEW t, NEW ms,
           DOMAIN ms \subseteq Nat, \A i \in DOMAIN ms : ms[i].transcript \in Transcript
    PROVE  LET r == Verify(at, n, t, ms)
           IN  /\ IsOutcome(r)
               /\ Holds(r) => SumOfContributions(at.public_key, ms)
<1> DEFINE r == Verify(at, n, t, ms)
           pvss == Transcripts(ms)
           vs == Senders(ms)
           inner == DoVerifyAggregation(at.aggregate, vs, n, pvss, t)
           terms == [i \in DOMAIN ms |-> ms[i].transcript.coeffs[1]]
<1>1. MaxDomain \in Nat
  BY DomainAssumption
<1>2. /\ DOMAIN pvss = DOMAIN ms /\ DOMAIN vs = DOMAIN ms
      /\ \A i \in DOMAIN ms : pvss[i] = ms[i].transcript /\ pvss[i] \in Transcript
  BY DEF Transcripts, Senders
<1>3. [i \in DOMAIN pvss |-> pvss[i].coeffs[1]] = terms
  <2> HIDE DEF pvss
  <2> QED
    BY <1>2
<1>4. /\ IsOutcome(inner)
      /\ Holds(inner) => /\ \A i \in DOMAIN pvss : VerifyOptimistic(pvss[i])
                         /\ FSum(terms) = at.aggregate.coeffs[1]
  <2> HIDE DEF pvss, vs, terms
  <2> QED
    BY <1>1, <1>2, <1>3, DoVerifyAggregationOutcome
<1>5. \/ \E e : r = Err(e)
      \/ r = inner /\ at.public_key = at.aggregate.coeffs[1]
  <2> HIDE DEF inner
  <2>1. ~ (n > MaxDomain)
    BY <1>1
  <2>2. QED
    BY <2>1 DEF Verify, inner
<1>6. IsOutcome(r)
  <2> HIDE DEF r, inner
  <2> QED
    BY <1>4, <1>5, OutcomeForms
<1>7. ASSUME Holds(r)
      PROVE  /\ at.public_key = FSum(terms)
             /\ \A i \in DOMAIN ms :
                  /\ ms[i].transcript.coeffs[1] # Zero
                  /\ ms[i].transcript.sigma = ms[i].transcript.coeffs[1]
  <2> HIDE DEF r, inner, pvss, terms, vs
  <2>1. r = inner /\ at.public_key = at.aggregate.coeffs[1]
    BY <1>5, <1>7, OutcomeForms DEF Holds
  <2>2. Holds(inner)
    BY <1>7, <2>1
  <2>3. \A i \in DOMAIN ms : VerifyOptimistic(ms[i].transcript) /\ ms[i].transcript \in Transcript
    BY <1>2, <1>4, <2>2
  <2>4. QED
    BY <1>4, <2>1, <2>2, <2>3, OptimisticBinds
<1>8. QED
  BY <1>6, <1>7 DEF SumOfContributions
-----------------------------------------------------------------------------
\* The largest element of a bounded set of naturals.
LEMMA MaxInSet ==
    ASSUME NEW n \in Nat, NEW S, S \subseteq 0..n, S # {}
    PROVE  Max(S) \in S /\ \A k \in S : k <= Max(S)
<1> DEFINE T == {n - k : k \in S}
<1>1. T \subseteq Nat /\ T # {}
  <2>1. \A k \in S : k \in 0..n /\ n - k \in Nat
    OBVIOUS
  <2>2. PICK k \in S : TRUE
    OBVIOUS
  <2>3. n - k \in T
    OBVIOUS
  <2>4. QED
    BY <2>1, <2>3
<1>2. Min(T) \in T /\ \A k \in T : Min(T) <= k
  <2> HIDE DEF T
  <2> QED
    BY <1>1, MinInSet
<1>3. PICK m \in S : Min(T) = n - m
  BY <1>2
<1>4. ASSUME NEW k \in S PROVE k <= m
  <2>1. n - k \in T
    OBVIOUS
  <2>2. n - m <= n - k
    <3> HIDE DEF T
    <3> QED
      BY <1>2, <1>3, <2>1
  <2>3. k \in Int /\ m \in Int
    OBVIOUS
  <2>4. QED
    BY <2>2, <2>3
<1>5. \A k \in S : m >= k
  BY <1>4
<1>6. QED
  BY <1>5 DEF Max

\* What do_verify_full guarantees of what it accepts.
SlotsMatch(coeffs, shares, vs, len, n) ==
    \A i \in 1..len :
        /\ vs[i].ek # Zero
        /\ vs[i].share_index + 1 \in DOMAIN shares \cap DOMAIN Fft(coeffs, n)
        /\ Pairing(One, shares[vs[i].share_index + 1])
             = Pairing(Fft(coeffs, n)[vs[i].share_index + 1], vs[i].ek)
DegreePinned(coeffs, t) == Len(coeffs) = t /\ t \in Nat \ {0} /\ coeffs[t] # Zero

\* The length without trailing identities is the full length exactly when the last
\* commitment is none.
LEMMA DegreePinning ==
    ASSUME NEW coeffs \in Seq(Fr), coeffs # <<>>
    PROVE  DegreePinningLen(coeffs) = Len(coeffs) <=> coeffs[Len(coeffs)] # Zero
<1> DEFINE t == Len(coeffs)
           S == {i \in DOMAIN coeffs : coeffs[i] # Zero}
<1>1. t \in Nat \ {0} /\ DOMAIN coeffs = 1..t
  OBVIOUS
<1>2. S \subseteq 0..t /\ \A i \in S : i <= t
  BY <1>1
<1>3. S # {} => Max(S) \in S /\ \A k \in S : k <= Max(S)
  <2> HIDE DEF S, t
  <2> QED
    BY <1>1, <1>2, MaxInSet
<1>4. DegreePinningLen(coeffs) = IF S = {} THEN 0 ELSE Max(S)
  BY DEF DegreePinningLen
<1>5. t \in S <=> coeffs[t] # Zero
  BY <1>1
<1>6. ASSUME DegreePinningLen(coeffs) = t PROVE t \in S
  <2> HIDE DEF S, t
  <2> QED
    BY <1>1, <1>3, <1>4, <1>6
<1>7. ASSUME t \in S PROVE DegreePinningLen(coeffs) = t
  <2> HIDE DEF S, t
  <2>1. Max(S) \in S /\ t <= Max(S) /\ Max(S) <= t
    BY <1>2, <1>3, <1>7
  <2>2. Max(S) = t
    <3>1. Max(S) \in 0..t
      BY <1>2, <2>1
    <3>2. \A m \in 0..t : t <= m => m = t
      BY <1>1
    <3>3. QED
      BY <2>1, <3>1, <3>2
  <2>3. QED
    BY <1>4, <1>7, <2>2
<1>8. QED
  BY <1>5, <1>6, <1>7

\* What it takes for one turn of do_verify_full to accept.
LEMMA SlotAccepted ==
    ASSUME NEW commitments, NEW shares, NEW v
    PROVE  Holds(VerifySlot(commitments, shares, v)) <=>
             /\ v.ek # Zero
             /\ v.share_index + 1 \in DOMAIN shares \cap DOMAIN commitments
             /\ Pairing(One, shares[v.share_index + 1])
                  = Pairing(commitments[v.share_index + 1], v.ek)
BY DEF VerifySlot, VerifyValidatorShare, Holds, Succeeded, Ok, Err

\* do_verify_full accepts only shares of the committed polynomial, each under its
\* validator's key.
LEMMA DoVerifyFullSound ==
    ASSUME NEW coeffs \in Seq(Fr), NEW shares, NEW vs, NEW len \in Nat, DOMAIN vs = 1..len,
           NEW n, NEW t, Holds(DoVerifyFull(coeffs, shares, vs, n, t))
    PROVE  /\ \A i, j \in 1..len : vs[i].share_index = vs[j].share_index => i = j
           /\ DegreePinned(coeffs, t)
           /\ SlotsMatch(coeffs, shares, vs, len, n)
<1> DEFINE unique == AssertNoShareDuplicates(vs)
           turns == [i \in DOMAIN vs |-> VerifySlot(Fft(coeffs, n), shares, vs[i])]
<1>1. /\ Succeeded(unique)
      /\ Len(coeffs) = t /\ DegreePinningLen(coeffs) = t
      /\ coeffs # <<>>
      /\ Holds(FirstFailure(turns))
  <2>1. IsOutcome(unique) /\ (Succeeded(unique) \/ ~ Holds(unique))
    BY DuplicatesOutcome DEF Holds
  <2>2. ~ Holds(Ok(FALSE)) /\ \A e : ~ Holds(Err(e))
    BY DEF Holds, Succeeded, Ok, Err
  <2> HIDE DEF unique, turns
  <2>3. QED
    BY <2>1, <2>2 DEF DoVerifyFull, unique, turns
<1>2. \A i, j \in 1..len : vs[i].share_index = vs[j].share_index => i = j
  BY <1>1, NoShareDuplicates
<1>3. DegreePinned(coeffs, t)
  <2>1. coeffs[Len(coeffs)] # Zero
    BY <1>1, DegreePinning
  <2>2. QED
    BY <1>1, <2>1 DEF DegreePinned
<1>4. \A i \in 1..len : Holds(turns[i])
  <2>1. DOMAIN turns = 1..len /\ DOMAIN turns \subseteq Nat
    OBVIOUS
  <2> HIDE DEF turns
  <2>2. QED
    BY <1>1, <2>1, FirstFailureCases
<1>5. SlotsMatch(coeffs, shares, vs, len, n)
  <2> SUFFICES ASSUME NEW i \in 1..len
               PROVE  /\ vs[i].ek # Zero
                      /\ vs[i].share_index + 1 \in DOMAIN shares \cap DOMAIN Fft(coeffs, n)
                      /\ Pairing(One, shares[vs[i].share_index + 1])
                           = Pairing(Fft(coeffs, n)[vs[i].share_index + 1], vs[i].ek)
    BY DEF SlotsMatch
  <2>1. Holds(VerifySlot(Fft(coeffs, n), shares, vs[i]))
    BY <1>4
  <2>2. QED
    BY <2>1, SlotAccepted
<1>6. QED
  BY <1>2, <1>3, <1>5

\* The transform gives the values of the polynomial itself at the points of a
\* domain that is not smaller than the number of its coefficients.
LEMMA FftValues ==
    ASSUME NEW n \in 0..MaxDomain, NEW p \in Seq(Fr), Len(p) <= DomainSize(n)
    PROVE  /\ DOMAIN Fft(p, n) = 1..DomainSize(n)
           /\ \A i \in 0..(DomainSize(n) - 1) :
                /\ i + 1 \in 1..DomainSize(n)
                /\ Fft(p, n)[i + 1] = Eval(p, DomainElement(n, i))
<1> DEFINE d == DomainSize(n)
           q == Resize(p, d)
           k == Len(p)
<1>1. d \in Nat /\ k \in Nat /\ p \in [1..k -> Fr] /\ k <= d
  BY DomainAssumption
<1>2. q \in [1..d -> Fr] /\ \A i \in 1..d : q[i] = IF i <= k THEN p[i] ELSE Zero
  <2> HIDE DEF d
  <2>1. q = [i \in 1..d |-> IF i <= k THEN p[i] ELSE Zero]
    BY DEF Resize
  <2>2. \A i \in 1..d : (IF i <= k THEN p[i] ELSE Zero) \in Fr
    BY <1>1, FrClosed
  <2> HIDE DEF q, k
  <2>3. QED
    BY <2>1, <2>2
<1>3. DOMAIN Fft(p, n) = 1..d
  BY DEF Fft
<1>4. ASSUME NEW i \in 0..(d - 1)
      PROVE  i + 1 \in 1..d /\ Fft(p, n)[i + 1] = Eval(p, DomainElement(n, i))
  <2>1. DomainElement(n, i) \in Fr
    BY DomainAssumption
  <2>2. i + 1 \in 1..d /\ (i + 1) - 1 = i
    BY <1>1
  <2>3. Fft(p, n)[i + 1] = Eval(q, DomainElement(n, i))
    BY <2>2 DEF Fft
  <2>4. Eval(q, DomainElement(n, i)) = Eval(p, DomainElement(n, i))
    <3> HIDE DEF q, d, k
    <3> QED
      BY <1>1, <1>2, <2>1, EvalPad
  <2>5. QED
    BY <2>2, <2>3, <2>4
<1>5. QED
  BY <1>3, <1>4

\* A validator that unblinds the slot it was checked against gets the value of the
\* committed polynomial at its own point.
LEMMA UnblindedSlot ==
    ASSUME NEW n \in 0..MaxDomain, NEW coeffs \in Seq(Fr), NEW shares \in Seq(Fr),
           Len(coeffs) <= DomainSize(n), NEW v, v.ek \in Fr, v.share_index \in Nat,
           v.ek # Zero,
           v.share_index + 1 \in DOMAIN shares \cap DOMAIN Fft(coeffs, n),
           Pairing(One, shares[v.share_index + 1])
             = Pairing(Fft(coeffs, n)[v.share_index + 1], v.ek)
    PROVE  /\ v.share_index \in 0..(DomainSize(n) - 1)
           /\ Unblind(shares[v.share_index + 1], v.ek).val
                = Eval(coeffs, DomainElement(n, v.share_index))
<1> DEFINE i == v.share_index
           y == shares[i + 1]
           e == Eval(coeffs, DomainElement(n, i))
           k == v.ek
<1>1. DomainSize(n) \in Nat
  BY DomainAssumption
<1>2. DOMAIN Fft(coeffs, n) = 1..DomainSize(n)
  BY FftValues
<1>3. i \in 0..(DomainSize(n) - 1)
  BY <1>1, <1>2
<1>4. Fft(coeffs, n)[i + 1] = e
  BY <1>3, FftValues
<1>5. DomainElement(n, i) \in Fr
  BY <1>3, DomainAssumption
<1>6. e \in Fr /\ y \in Fr /\ k \in Fr /\ Inv(k) \in Fr
  BY <1>5, EvalType, FrClosed
<1>7. Unblind(y, k).val = Mul(y, Inv(k))
  BY DEF Unblind, Ok
<1>8. Mul(One, y) = Mul(e, k)
  BY <1>4 DEF Pairing
<1> HIDE DEF y, e, k
<1>9. y = Mul(e, k)
  <2>1. Mul(One, y) = Mul(y, One)
    BY <1>6, FrClosed, FrMultiplicative
  <2>2. QED
    BY <1>6, <1>8, <2>1, FrMultiplicative
<1>10. Mul(Mul(e, k), Inv(k)) = Mul(e, Mul(k, Inv(k)))
  BY <1>6, FrMultiplicative
<1>11. Mul(k, Inv(k)) = One
  BY <1>6, FrMultiplicative DEF k
<1>12. Unblind(y, k).val = e
  BY <1>6, <1>7, <1>9, <1>10, <1>11, FrMultiplicative
<1>13. QED
  BY <1>3, <1>12 DEF y, e, k

\* Different share indices have different points, none of them zero.
LEMMA PointsOf ==
    ASSUME NEW n \in 0..MaxDomain, NEW k \in Nat, NEW f \in [1..k -> 0..(DomainSize(n) - 1)],
           \A i, j \in 1..k : f[i] = f[j] => i = j
    PROVE  /\ [i \in 1..k |-> DomainElement(n, f[i])] \in [1..k -> Fr]
           /\ DistinctPoints([i \in 1..k |-> DomainElement(n, f[i])], k)
           /\ \A i \in 1..k : [j \in 1..k |-> DomainElement(n, f[j])][i] # Zero
<1>1. \A i \in 1..k : DomainElement(n, f[i]) \in Fr \ {Zero}
  BY DomainAssumption
<1>2. ASSUME NEW i \in 1..k, NEW j \in 1..k, DomainElement(n, f[i]) = DomainElement(n, f[j])
      PROVE  i = j
  <2>1. f[i] = f[j]
    BY <1>2, DomainAssumption
  <2>2. QED
    BY <2>1
<1>3. QED
  BY <1>1, <1>2 DEF DistinctPoints

\* The points of the validators vs over the domain new(n), and what they combine the
\* slots they unblind to.
SlotPoints(vs, n) == [k \in DOMAIN vs |-> DomainElement(n, vs[k].share_index)]
SlotSum(shares, vs, n) ==
    FSum([k \in DOMAIN vs |->
            Mul(PrepareCombineSimple(SlotPoints(vs, n))[k],
                Unblind(shares[vs[k].share_index + 1], vs[k].ek).val)])

\* Validators with keys and different indices.
DistinctHolders(vs, k) ==
    /\ DOMAIN vs = 1..k
    /\ \A i \in 1..k : vs[i].ek \in Fr /\ vs[i].share_index \in Nat
    /\ \A i, j \in 1..k : vs[i].share_index = vs[j].share_index => i = j

\* What k validators of an accepted list combine their unblinded slots to is the
\* Lagrange combination of the committed polynomial at k distinct points.
LEMMA AcceptedCombination ==
    ASSUME NEW n \in 0..MaxDomain, NEW coeffs \in Seq(Fr), NEW shares \in Seq(Fr),
           Len(coeffs) <= DomainSize(n), NEW k \in Nat, NEW vs, DistinctHolders(vs, k),
           SlotsMatch(coeffs, shares, vs, k, n)
    PROVE  LET xs == SlotPoints(vs, n)
           IN  /\ xs \in [1..k -> Fr]
               /\ DistinctPoints(xs, k)
               /\ \A i \in 1..k : xs[i] # Zero
               /\ SlotSum(shares, vs, n) = Combined(k, xs, coeffs)
<1> DEFINE f == [i \in 1..k |-> vs[i].share_index]
           xs == SlotPoints(vs, n)
<1>1. ASSUME NEW i \in 1..k
      PROVE  /\ vs[i].share_index \in 0..(DomainSize(n) - 1)
             /\ Unblind(shares[vs[i].share_index + 1], vs[i].ek).val
                  = Eval(coeffs, DomainElement(n, vs[i].share_index))
  <2>1. /\ vs[i].ek # Zero
        /\ vs[i].share_index + 1 \in DOMAIN shares \cap DOMAIN Fft(coeffs, n)
        /\ Pairing(One, shares[vs[i].share_index + 1])
             = Pairing(Fft(coeffs, n)[vs[i].share_index + 1], vs[i].ek)
    BY DEF SlotsMatch
  <2>2. vs[i].ek \in Fr /\ vs[i].share_index \in Nat
    BY DEF DistinctHolders
  <2>3. QED
    BY SMTT(60), <2>1, <2>2, UnblindedSlot
<1>2. f \in [1..k -> 0..(DomainSize(n) - 1)] /\ \A i, j \in 1..k : f[i] = f[j] => i = j
  BY <1>1 DEF DistinctHolders
<1>3. DOMAIN vs = 1..k
  BY DEF DistinctHolders
<1>4. xs = [i \in 1..k |-> DomainElement(n, f[i])]
  BY <1>3 DEF SlotPoints
<1>5. /\ xs \in [1..k -> Fr] /\ DistinctPoints(xs, k)
      /\ \A i \in 1..k : xs[i] # Zero
  <2> HIDE DEF f, xs
  <2> QED
    BY <1>2, <1>4, PointsOf
<1>6. \A i \in 1..k : xs[i] = DomainElement(n, vs[i].share_index)
  BY <1>3 DEF SlotPoints
<1>7. SlotSum(shares, vs, n) = Combined(k, xs, coeffs)
  <2>1. ASSUME NEW i \in 1..k
        PROVE  Unblind(shares[vs[i].share_index + 1], vs[i].ek).val = Eval(coeffs, xs[i])
    BY <1>1, <1>6
  <2> HIDE DEF xs
  <2>2. [i \in DOMAIN vs |-> Mul(PrepareCombineSimple(xs)[i],
                               Unblind(shares[vs[i].share_index + 1], vs[i].ek).val)]
        = [i \in 1..k |-> Mul(PrepareCombineSimple(xs)[i], Eval(coeffs, xs[i]))]
    BY <1>3, <2>1
  <2>3. QED
    BY <2>2 DEF Combined, SlotSum, xs
<1>8. QED
  BY <1>5, <1>7

\* Of an accepted list, any Len(coeffs) validators reconstruct the constant term and
\* any one less do not.
LEMMA AcceptedReconstructs ==
    ASSUME NEW n \in 0..MaxDomain, NEW coeffs \in Seq(Fr), NEW shares \in Seq(Fr),
           Len(coeffs) <= DomainSize(n), NEW t, DegreePinned(coeffs, t),
           NEW k \in Nat, NEW vs, DistinctHolders(vs, k), SlotsMatch(coeffs, shares, vs, k, n)
    PROVE  /\ k = t => SlotSum(shares, vs, n) = coeffs[1]
           /\ k + 1 = t => SlotSum(shares, vs, n) # coeffs[1]
<1> DEFINE xs == SlotPoints(vs, n)
<1>1. /\ xs \in [1..k -> Fr] /\ DistinctPoints(xs, k)
      /\ \A i \in 1..k : xs[i] # Zero
      /\ SlotSum(shares, vs, n) = Combined(k, xs, coeffs)
  BY AcceptedCombination
<1> HIDE DEF xs
<1>2. coeffs \in [1..t -> Fr] /\ t \in Nat \ {0} /\ coeffs[t] # Zero
  BY DEF DegreePinned
<1>3. Eval(coeffs, Zero) = coeffs[1]
  BY <1>2, EvalAtZero
<1>4. k = t => Combined(k, xs, coeffs) = coeffs[1]
  BY <1>1, <1>2, <1>3, Interpolation
<1>5. k + 1 = t => Combined(k, xs, coeffs) # coeffs[1]
  <2> SUFFICES ASSUME k + 1 = t PROVE Combined(k, xs, coeffs) # coeffs[1]
    OBVIOUS
  <2>1. coeffs \in [1..(k + 1) -> Fr] /\ coeffs[k + 1] # Zero
    BY <1>2
  <2>2. QED
    BY <1>1, <1>3, <2>1, OnePointShort
<1>6. QED
  BY <1>1, <1>4, <1>5

\* A list without a repeated index passes assert_no_share_duplicates.
LEMMA DistinctPass ==
    ASSUME NEW vs, NEW n \in Nat, DOMAIN vs = 1..n,
           \A i, j \in 1..n : vs[i].share_index = vs[j].share_index => i = j
    PROVE  Succeeded(AssertNoShareDuplicates(vs))
<1> DEFINE turns == [i \in DOMAIN vs |->
              IF \E j \in 1..(i - 1) : vs[j].share_index = vs[i].share_index
              THEN Err(<<"DuplicatedShareIndex", vs[i].share_index>>)
              ELSE Ok(TRUE)]
<1>1. AssertNoShareDuplicates(vs) = FirstFailure(turns)
  BY DEF AssertNoShareDuplicates
<1>2. ASSUME NEW i \in DOMAIN turns PROVE Holds(turns[i])
  <2>1. ~ \E j \in 1..(i - 1) : vs[j].share_index = vs[i].share_index
    OBVIOUS
  <2>2. turns[i] = Ok(TRUE)
    BY <2>1
  <2> HIDE DEF turns
  <2>3. QED
    BY <2>2 DEF Holds, Succeeded, Ok
<1>3. DOMAIN turns \subseteq Nat
  OBVIOUS
<1> HIDE DEF turns
<1>4. FirstFailure(turns) = Ok(TRUE)
  BY <1>2, <1>3, FirstFailureCases
<1>5. QED
  BY <1>1, <1>4 DEF Succeeded, Ok

\* do_verify_full accepts every list with different indices whose slots match the
\* commitments of a polynomial of the right degree.
LEMMA DoVerifyFullComplete ==
    ASSUME NEW coeffs \in Seq(Fr), NEW shares, NEW vs, NEW len \in Nat \ {0}, DOMAIN vs = 1..len,
           NEW n, NEW t, coeffs[1] # Zero, DegreePinned(coeffs, t),
           \A i, j \in 1..len : vs[i].share_index = vs[j].share_index => i = j,
           SlotsMatch(coeffs, shares, vs, len, n)
    PROVE  Holds(DoVerifyFull(coeffs, shares, vs, n, t))
<1> DEFINE unique == AssertNoShareDuplicates(vs)
           turns == [i \in DOMAIN vs |-> VerifySlot(Fft(coeffs, n), shares, vs[i])]
<1>1. Succeeded(unique)
  BY DistinctPass
<1>2. Len(coeffs) = t /\ DegreePinningLen(coeffs) = t /\ coeffs # <<>>
  <2>1. coeffs # <<>> /\ Len(coeffs) = t /\ coeffs[Len(coeffs)] # Zero
    BY DEF DegreePinned
  <2>2. QED
    BY <2>1, DegreePinning
<1>3. vs # <<>>
  OBVIOUS
<1>4. ASSUME NEW i \in DOMAIN turns PROVE Holds(turns[i])
  <2>1. i \in 1..len /\ turns[i] = VerifySlot(Fft(coeffs, n), shares, vs[i])
    OBVIOUS
  <2>2. Holds(VerifySlot(Fft(coeffs, n), shares, vs[i]))
    BY <2>1, SlotAccepted DEF SlotsMatch
  <2>3. QED
    BY <2>1, <2>2
<1>5. DOMAIN turns \subseteq Nat
  OBVIOUS
<1>6. FirstFailure(turns) = Ok(TRUE)
  <2> HIDE DEF turns
  <2> QED
    BY <1>4, <1>5, FirstFailureCases
<1>7. DoVerifyFull(coeffs, shares, vs, n, t) = FirstFailure(turns)
  <2> HIDE DEF unique, turns
  <2> QED
    BY <1>1, <1>2, <1>3 DEF DoVerifyFull, unique, turns
<1>8. QED
  BY <1>6, <1>7 DEF Holds, Succeeded, Ok
=============================================================================
