---------------------------- MODULE ContextProofs ----------------------------
(***************************************************************************)
(* What Dkg::new makes of a list of validators, and what the collections   *)
(* ordered by share index hold, for every list and every set of indices.   *)
(***************************************************************************)
EXTENDS DecryptionShares, PvssProofs, FunctionTheorems

\* A set of validators, whatever else they carry.
Holders(V) == \A v \in V : v.ek \in Fr /\ v.share_index \in Nat

\* "n distinct indices all < n is the full range": no repetition and no index
\* out of range leave exactly 0..n-1 (the argument of PubliclyVerifiableDkg::new).
LEMMA DistinctIndicesFillRange ==
    ASSUME NEW n \in Nat, NEW f \in [1..n -> 0..(n - 1)],
           \A i, j \in 1..n : f[i] = f[j] => i = j
    PROVE  \A k \in 0..(n - 1) : \E i \in 1..n : f[i] = k
<1> DEFINE S == 1..n
           T == 0..(n - 1)
<1>1. f \in Injection(S, T)
  <2>1. f \in [S -> T] /\ \A i, j \in S : f[i] = f[j] => i = j
    OBVIOUS
  <2>2. QED
    <3> HIDE DEF S, T
    <3> QED
      BY <2>1, Fun_IsInj
<1>2. IsFiniteSet(T) /\ Cardinality(T) = n
  <2>1. \A k \in Nat : IsFiniteSet(0..(k - 1)) /\ Cardinality(0..(k - 1)) = k
    BY FS_Interval
  <2>2. QED
    BY <2>1
<1>3. Cardinality(S) = n
  BY FS_Interval
<1>4. f \in Surjection(S, T)
  <2> HIDE DEF S, T
  <2> QED
    BY <1>1, <1>2, <1>3, FS_Injection
<1>5. QED
  BY <1>4 DEF Surjection

\* The Max of a set with one element.
LEMMA MaxOfOne ==
    ASSUME NEW k \in Nat
    PROVE  Max({k}) = k
BY DEF Max

\* No more different things than places for them.
LEMMA InjectionBound ==
    ASSUME NEW m \in Nat, NEW n \in Nat, NEW f \in [1..m -> 1..n],
           \A i, j \in 1..m : f[i] = f[j] => i = j
    PROVE  m <= n
<1> DEFINE S == 1..m
           T == 1..n
<1>1. f \in Injection(S, T)
  <2>1. f \in [S -> T] /\ \A i, j \in S : f[i] = f[j] => i = j
    OBVIOUS
  <2>2. QED
    <3> HIDE DEF S, T
    <3> QED
      BY <2>1, Fun_IsInj
<1>2. \A k \in Nat : IsFiniteSet(1..k) /\ Cardinality(1..k) = k
  BY FS_Interval
<1>3. IsFiniteSet(T) /\ Cardinality(T) = n /\ Cardinality(S) = m
  BY <1>2
<1>4. Cardinality(S) <= Cardinality(T)
  <2> HIDE DEF S, T
  <2> QED
    BY <1>1, <1>3, FS_Injection
<1>5. QED
  BY <1>3, <1>4

\* What a validator list that passes all checks of PubliclyVerifiableDkg::new is
\* collected into.
LEMMA ByIndexExact ==
    ASSUME NEW n \in Nat, NEW V, Holders(V), NEW vs \in [1..n -> V],
           \A i, j \in 1..n : vs[i].share_index = vs[j].share_index => i = j,
           \A i \in 1..n : vs[i].share_index < n /\ vs[i].ek # Zero
    PROVE  /\ DOMAIN ByIndex(vs) = 0..(n - 1)
           /\ \A k \in 0..(n - 1) : /\ ByIndex(vs)[k] \in V
                                    /\ ByIndex(vs)[k].share_index = k
                                    /\ ByIndex(vs)[k].ek # Zero
<1> DEFINE f == [i \in 1..n |-> vs[i].share_index]
<1>1. \A i \in 1..n : vs[i] \in V /\ vs[i].share_index \in Nat
  BY DEF Holders
<1>2. f \in [1..n -> 0..(n - 1)]
  BY <1>1
<1>3. \A i, j \in 1..n : f[i] = f[j] => i = j
  OBVIOUS
<1>4. \A k \in 0..(n - 1) : \E i \in 1..n : f[i] = k
  <2> HIDE DEF f
  <2> QED
    BY <1>2, <1>3, DistinctIndicesFillRange
<1>5. DOMAIN ByIndex(vs) = 0..(n - 1)
  <2>1. {vs[i].share_index : i \in 1..n} = 0..(n - 1)
    <3>1. \A k : k \in {vs[i].share_index : i \in 1..n} => k \in 0..(n - 1)
      BY <1>1
    <3>2. \A k \in 0..(n - 1) : k \in {vs[i].share_index : i \in 1..n}
      BY <1>4
    <3>3. QED
      BY <3>1, <3>2
  <2>2. QED
    BY <2>1 DEF ByIndex
<1>6. ASSUME NEW k \in 0..(n - 1)
      PROVE  /\ ByIndex(vs)[k] \in V
             /\ ByIndex(vs)[k].share_index = k
             /\ ByIndex(vs)[k].ek # Zero
  <2>1. PICK i \in 1..n : vs[i].share_index = k
    BY <1>4
  <2>2. {j \in DOMAIN vs : vs[j].share_index = k} = {i}
    BY <2>1
  <2>3. Max({j \in DOMAIN vs : vs[j].share_index = k}) = i
    BY <2>2, MaxOfOne
  <2>4. ByIndex(vs)[k] = vs[i]
    BY <1>5, <2>3 DEF ByIndex
  <2>5. QED
    BY <1>1, <2>1, <2>4
<1>7. QED
  BY <1>5, <1>6

\* Every validator of the list is in the map under its share index.
LEMMA ByIndexFinds ==
    ASSUME NEW n \in Nat, NEW vs, DOMAIN vs = 1..n,
           \A i, j \in 1..n : vs[i].share_index = vs[j].share_index => i = j,
           NEW i \in 1..n
    PROVE  vs[i].share_index \in DOMAIN ByIndex(vs) /\ ByIndex(vs)[vs[i].share_index] = vs[i]
<1>1. {j \in DOMAIN vs : vs[j].share_index = vs[i].share_index} = {i}
  OBVIOUS
<1>2. Max({i}) = i
  BY MaxOfOne
<1>3. QED
  BY <1>1, <1>2 DEF ByIndex

\* Dkg::new returns; a context it returns is exact, holds what it was made from, and
\* its validators are those of the list.
LEMMA DkgNewExact ==
    ASSUME NEW V, Holders(V), NEW vs \in Seq(V), Len(vs) <= MaxDomain,
           NEW params, params.threshold \in Nat, params.shares_num \in Nat, NEW me
    PROVE  LET r == DkgNew(vs, params, me)
           IN  /\ r.kind \in {"ok", "err"}
               /\ Succeeded(r) =>
                    /\ ExactContext(r.val)
                    /\ r.val.threshold = params.threshold /\ r.val.shares_num = params.shares_num
                    /\ r.val.domain = Len(vs) /\ r.val.me = me
                    /\ \A k \in 0..(Len(vs) - 1) : r.val.validators[k] \in V
<1> DEFINE n == Len(vs)
           r == DkgNew(vs, params, me)
           turns == [i \in DOMAIN vs |-> Admit(vs[i], Len(vs))]
           context == [threshold |-> params.threshold, shares_num |-> params.shares_num,
                       validators |-> ByIndex(vs), domain |-> Len(vs), me |-> me]
<1>1. n \in Nat /\ DOMAIN vs = 1..n /\ vs \in [1..n -> V] /\ MaxDomain \in Nat
  BY DomainAssumption
<1>2. IsOutcome(AssertNoShareDuplicates(vs))
  BY <1>1, DuplicatesOutcome
<1>3. \A i \in 1..n : /\ IsOutcome(turns[i])
                      /\ Succeeded(turns[i]) => Holds(turns[i])
                      /\ Holds(turns[i]) => vs[i].share_index < n /\ vs[i].ek # Zero
  <2>1. \A i \in 1..n : vs[i].share_index \in Nat
    BY <1>1 DEF Holders
  <2>2. QED
    BY <1>1, <2>1 DEF Admit, IsOutcome, Holds, Succeeded, Ok, Err
<1>4. /\ IsOutcome(FirstFailure(turns))
      /\ Succeeded(FirstFailure(turns)) => \A i \in 1..n : vs[i].share_index < n /\ vs[i].ek # Zero
  <2>1. DOMAIN turns = 1..n /\ DOMAIN turns \subseteq Nat
    BY <1>1
  <2>2. QED
    <3> HIDE DEF turns, n
    <3> QED
      BY <1>3, <2>1, FirstFailureCases, FirstFailureOutcome
<1>5. IsOutcome(Validate(params)) /\ (Succeeded(Validate(params)) => params.threshold # 0)
  BY DEF Validate, IsOutcome, Succeeded, Ok, Err
<1>6. \/ r.kind = "err"
      \/ /\ r = Ok(context)
         /\ Succeeded(Validate(params))
         /\ Succeeded(AssertNoShareDuplicates(vs))
         /\ Succeeded(FirstFailure(turns))
  <2> HIDE DEF turns, context
  <2>1. ~ (Len(vs) > MaxDomain)
    BY <1>1
  <2>2. \A e : Err(e).kind = "err"
    BY DEF Err
  <2>3. QED
    BY <1>2, <1>4, <1>5, <2>1, <2>2 DEF DkgNew, turns, context, IsOutcome, Succeeded
<1>7. CASE r.kind = "err"
  BY <1>7 DEF Succeeded
<1>8. CASE /\ r = Ok(context)
           /\ Succeeded(Validate(params))
           /\ Succeeded(AssertNoShareDuplicates(vs))
           /\ Succeeded(FirstFailure(turns))
  <2> HIDE DEF r, turns, n
  <2>1. \A i, j \in 1..n : vs[i].share_index = vs[j].share_index => i = j
    BY <1>1, <1>8, NoShareDuplicates
  <2>2. /\ DOMAIN ByIndex(vs) = 0..(n - 1)
        /\ \A k \in 0..(n - 1) : /\ ByIndex(vs)[k] \in V
                                 /\ ByIndex(vs)[k].share_index = k
                                 /\ ByIndex(vs)[k].ek # Zero
    BY <1>1, <1>4, <1>8, <2>1, ByIndexExact
  <2>3. /\ r.kind = "ok" /\ r.val = context
        /\ context.threshold = params.threshold /\ context.shares_num = params.shares_num
        /\ context.validators = ByIndex(vs) /\ context.domain = n /\ context.me = me
    BY <1>8 DEF Ok, n
  <2>4. params.threshold \in Nat \ {0} /\ n \in 0..MaxDomain
    BY <1>1, <1>5, <1>8 DEF n
  <2>5. \A k \in 0..(n - 1) : ByIndex(vs)[k].ek \in Fr
    BY <2>2 DEF Holders
  <2> HIDE DEF context
  <2>6. ExactContext(context)
    BY <2>2, <2>3, <2>4, <2>5 DEF ExactContext
  <2>7. QED
    BY <2>2, <2>3, <2>6 DEF r, n
<1>9. QED
  BY <1>6, <1>7, <1>8

\* Parameters that Dkg::new accepts, and the validators it keeps.
LEMMA DkgNewKeeps ==
    ASSUME NEW vs, NEW params, params.threshold \in Nat, params.shares_num \in Nat, NEW me,
           Succeeded(DkgNew(vs, params, me))
    PROVE  LET d == DkgNew(vs, params, me).val
           IN  /\ d.threshold = params.threshold /\ params.threshold > 0
               /\ params.threshold <= params.shares_num
               /\ d.validators = ByIndex(vs)
               /\ DOMAIN d.validators # {}
               /\ Succeeded(AssertNoShareDuplicates(vs))
<1> DEFINE unique == AssertNoShareDuplicates(vs)
           admitted == FirstFailure([i \in DOMAIN vs |-> Admit(vs[i], Len(vs))])
           map == ByIndex(vs)
           d == [threshold |-> params.threshold, shares_num |-> params.shares_num,
                 validators |-> map, domain |-> Len(vs), me |-> me]
<1>1. /\ \A e : ~ Succeeded(Err(e)) /\ ~ Succeeded(Panic(e))
      /\ \A v : Ok(v).val = v
  BY DEF Succeeded, Err, Ok, Panic
<1>2. /\ Succeeded(Validate(params)) /\ DkgNew(vs, params, me) = Ok(d)
      /\ Succeeded(unique) /\ me.share_index \in DOMAIN map
  <2> HIDE DEF unique, admitted, map, d
  <2> QED
    BY <1>1 DEF DkgNew, unique, admitted, map, d
<1>3. ~ (params.shares_num < params.threshold) /\ params.threshold # 0
  BY <1>1, <1>2 DEF Validate
<1>4. DkgNew(vs, params, me).val = d
  BY <1>1, <1>2
<1>5. QED
  BY <1>2, <1>3, <1>4

-----------------------------------------------------------------------------
\* The position of k in the ascending order of the keys K.
Rank(K, k) == Cardinality({l \in K : l < k}) + 1

\* Ranks number the keys from 1.
LEMMA RankFacts ==
    ASSUME NEW K \in SUBSET Nat, IsFiniteSet(K)
    PROVE  /\ Cardinality(K) \in Nat
           /\ \A k \in K : Rank(K, k) \in 1..Cardinality(K)
           /\ \A k, l \in K : Rank(K, k) = Rank(K, l) => k = l
           /\ \A i \in 1..Cardinality(K) : \E k \in K : Rank(K, k) = i
<1> DEFINE n == Cardinality(K)
           Below(k) == {l \in K : l < k}
<1>1. n \in Nat
  BY FS_CardinalityType
<1>2. ASSUME NEW k \in K
      PROVE  /\ IsFiniteSet(Below(k)) /\ Cardinality(Below(k)) \in Nat
             /\ Cardinality(Below(k)) < n
  <2>1. Below(k) \subseteq K /\ k \in K /\ k \notin Below(k)
    OBVIOUS
  <2>2. Below(k) # K
    BY <2>1
  <2> HIDE DEF Below, n
  <2>3. IsFiniteSet(Below(k))
    BY <2>1, FS_Subset
  <2>4. Cardinality(Below(k)) < Cardinality(K)
    BY <2>1, <2>2, FS_Subset, FS_CardinalityType
  <2>5. QED
    BY <2>3, <2>4, FS_CardinalityType DEF n
<1>3. ASSUME NEW k \in K, NEW l \in K, l < k
      PROVE  Cardinality(Below(l)) < Cardinality(Below(k))
  <2>1. Below(l) \subseteq Below(k)
    <3>1. \A x \in K : x < l => x < k
      <4>1. \A x, y, z \in Nat : x < y /\ y < z => x < z
        OBVIOUS
      <4>2. QED
        BY <1>3, <4>1
    <3>2. QED
      BY <3>1
  <2>2. l \in Below(k) /\ l \notin Below(l)
    BY <1>3
  <2>3. Below(l) # Below(k)
    BY <2>2
  <2>4. IsFiniteSet(Below(k))
    BY <1>2
  <2> HIDE DEF Below
  <2>5. QED
    BY <2>1, <2>3, <2>4, FS_Subset, FS_CardinalityType
<1>4. \A k \in K : Rank(K, k) \in 1..n
  <2> SUFFICES ASSUME NEW k \in K PROVE Rank(K, k) \in 1..n
    OBVIOUS
  <2>1. Cardinality(Below(k)) \in Nat /\ Cardinality(Below(k)) < n
    BY <1>2
  <2>2. Rank(K, k) = Cardinality(Below(k)) + 1
    BY DEF Rank
  <2> HIDE DEF Below, n
  <2>3. QED
    BY <1>1, <2>1, <2>2
<1>5. ASSUME NEW k \in K, NEW l \in K, Rank(K, k) = Rank(K, l) PROVE k = l
  <2>1. Cardinality(Below(k)) \in Nat /\ Cardinality(Below(l)) \in Nat
    BY <1>2
  <2>2. Rank(K, k) = Cardinality(Below(k)) + 1 /\ Rank(K, l) = Cardinality(Below(l)) + 1
    BY DEF Rank
  <2>3. (l < k => Cardinality(Below(l)) < Cardinality(Below(k)))
        /\ (k < l => Cardinality(Below(k)) < Cardinality(Below(l)))
    BY <1>3
  <2> HIDE DEF Below
  <2>4. ~ (l < k) /\ ~ (k < l)
    <3>1. \A x, y \in Nat : x + 1 = y + 1 => ~ (x < y) /\ ~ (y < x)
      OBVIOUS
    <3>2. Cardinality(Below(k)) + 1 = Cardinality(Below(l)) + 1
      BY <1>5, <2>2
    <3>3. QED
      BY <2>1, <2>3, <3>1, <3>2
  <2>5. k \in Nat /\ l \in Nat
    OBVIOUS
  <2>6. QED
    BY <2>4, <2>5
<1>6. \A i \in 1..n : \E k \in K : Rank(K, k) = i
  <2> DEFINE f == [k \in K |-> Rank(K, k)]
             T == 1..n
  <2>1. f \in [K -> T] /\ \A k, l \in K : f[k] = f[l] => k = l
    BY <1>4, <1>5
  <2>2. IsFiniteSet(T) /\ Cardinality(T) = n
    <3>1. \A k \in Nat : IsFiniteSet(1..k) /\ Cardinality(1..k) = k
      BY FS_Interval
    <3>2. QED
      BY <1>1, <3>1
  <2> HIDE DEF T
  <2>3. f \in Injection(K, T)
    <3> HIDE DEF f
    <3> QED
      BY <2>1, Fun_IsInj
  <2>4. f \in Surjection(K, T)
    <3> HIDE DEF f
    <3> QED
      BY <2>2, <2>3, FS_Injection
  <2>5. \A i \in T : \E k \in K : f[k] = i
    <3> HIDE DEF f
    <3> QED
      BY <2>4 DEF Surjection
  <2>6. QED
    BY <2>5 DEF T
<1>7. QED
  BY <1>1, <1>4, <1>5, <1>6

\* The keys K in ascending order, as collections by share index enumerate them.
NthOf(K, i) == CHOOSE k \in K : Cardinality({l \in K : l < k}) = i - 1
SortedKeys(K) == [i \in 1..Cardinality(K) |-> NthOf(K, i)]

\* BTreeMap::values and collect() list the entries by rank.
LEMMA ValuesRanked ==
    ASSUME NEW K \in SUBSET Nat, IsFiniteSet(K), NEW m, DOMAIN m = K
    PROVE  LET n == Cardinality(K)
           IN  /\ n \in Nat
               /\ SortedKeys(K) \in [1..n -> K]
               /\ \A i, j \in 1..n : SortedKeys(K)[i] = SortedKeys(K)[j] => i = j
               /\ \A k \in K : Rank(K, k) \in 1..n /\ SortedKeys(K)[Rank(K, k)] = k
               /\ \A i \in 1..n : Rank(K, SortedKeys(K)[i]) = i
               /\ ValuesOf(m) = [i \in 1..n |-> m[SortedKeys(K)[i]]]
               /\ Collect(m) = [i \in 1..n |-> m[SortedKeys(K)[i]]]
<1> DEFINE n == Cardinality(K)
           keys == SortedKeys(K)
           R(k) == Cardinality({l \in K : l < k})
<1>1. /\ n \in Nat
      /\ \A k \in K : Rank(K, k) \in 1..n
      /\ \A k, l \in K : Rank(K, k) = Rank(K, l) => k = l
      /\ \A i \in 1..n : \E k \in K : Rank(K, k) = i
  BY RankFacts
<1>2. ASSUME NEW k \in K PROVE R(k) \in Nat /\ Rank(K, k) = R(k) + 1
  <2>1. {l \in K : l < k} \subseteq K
    OBVIOUS
  <2>2. IsFiniteSet({l \in K : l < k})
    BY <2>1, FS_Subset
  <2>3. QED
    BY <2>2, FS_CardinalityType DEF Rank
<1> HIDE DEF n, R
<1>3. ASSUME NEW i \in 1..n
      PROVE  keys[i] \in K /\ Rank(K, keys[i]) = i
  <2>1. PICK k \in K : Rank(K, k) = i
    BY <1>1
  <2>2. R(k) = i - 1
    BY <1>2, <2>1
  <2>3. keys[i] = CHOOSE x \in K : R(x) = i - 1
    BY DEF SortedKeys, NthOf, n, R
  <2>4. keys[i] \in K /\ R(keys[i]) = i - 1
    BY <2>2, <2>3
  <2>5. Rank(K, keys[i]) = (i - 1) + 1
    BY <1>2, <2>4
  <2>6. QED
    BY <1>1, <2>4, <2>5
<1>4. keys \in [1..n -> K]
  <2>1. keys = [i \in 1..n |-> CHOOSE k \in K : R(k) = i - 1]
    BY DEF SortedKeys, NthOf, n, R
  <2> HIDE DEF keys
  <2>2. QED
    BY <1>3, <2>1
<1> HIDE DEF keys
<1>5. \A i, j \in 1..n : keys[i] = keys[j] => i = j
  BY <1>3
<1>6. \A k \in K : keys[Rank(K, k)] = k
  BY ZenonT(90), <1>1, <1>3
<1>7. ASSUME NEW i \in 1..n PROVE NthKey(m, i) = keys[i]
  <2>1. NthKey(m, i) = NthOf(DOMAIN m, i)
    BY DEF NthKey, NthOf
  <2>2. QED
    BY <2>1 DEF SortedKeys, keys, n
<1>8. ValuesOf(m) = [i \in 1..n |-> m[keys[i]]]
  BY <1>7 DEF ValuesOf, n
<1>9. Collect(m) = [i \in 1..n |-> m[keys[i]]]
  <2> DEFINE v == [i \in 1..n |-> m[keys[i]]]
  <2>1. v \in Seq({m[k] : k \in K}) /\ Len(v) = n
    <3>1. \A i \in 1..n : m[keys[i]] \in {m[k] : k \in K}
      BY <1>4
    <3>2. v \in [1..n -> {m[k] : k \in K}]
      BY <3>1
    <3> HIDE DEF v
    <3>3. QED
      BY <1>1, <3>2
  <2>2. Collect(m) = SubSeq(v, 1, n)
    BY <1>8 DEF Collect, n
  <2> HIDE DEF v
  <2>3. QED
    BY <1>1, <2>1, <2>2 DEF v
<1>10. QED
  BY <1>1, <1>3, <1>4, <1>5, <1>6, <1>8, <1>9 DEF keys, n

-----------------------------------------------------------------------------
\* The sum of one element.
LEMMA FSumOne ==
    ASSUME NEW a \in Fr
    PROVE  FSum([i \in 1..1 |-> a]) = a
<1> DEFINE s == [i \in 1..1 |-> a]
<1>1. s \in [1..1 -> Fr] /\ s[1] = a
  OBVIOUS
<1> HIDE DEF s
<1>2. FrontOf(s, 1) \in [1..0 -> Fr] /\ FSum(s) = Add(FSum(FrontOf(s, 1)), a)
  <2>1. 1 \in Nat \ {0} /\ 1 - 1 = 0
    OBVIOUS
  <2>2. QED
    BY <1>1, <2>1, FSumLast
<1>3. FSum(FrontOf(s, 1)) = Zero
  BY <1>2, FSumEmpty
<1>4. Add(Zero, a) = a
  BY FrClosed, FrAdditive
<1>5. QED
  BY <1>2, <1>3, <1>4 DEF s

\* The aggregate of one transcript is the transcript.
LEMMA SingleAggregate ==
    ASSUME NEW t \in Transcript, t.coeffs # <<>>
    PROVE  FromTranscripts(<<t>>) = Ok([aggregate |-> t, public_key |-> t.coeffs[1]])
<1> DEFINE ts == <<t>>
           turns == [i \in DOMAIN ts |-> MatchLengths(ts[1], ts[i])]
           shapes == FirstFailure(turns)
           sum == [coeffs |-> [k \in DOMAIN ts[1].coeffs |->
                                 FSum([i \in DOMAIN ts |-> ts[i].coeffs[k]])],
                   shares |-> [k \in DOMAIN ts[1].shares |->
                                 FSum([i \in DOMAIN ts |-> ts[i].shares[k]])],
                   sigma  |-> FSum([i \in DOMAIN ts |-> ts[i].sigma])]
<1>1. DOMAIN ts = 1..1 /\ ts[1] = t /\ ts # <<>>
  OBVIOUS
<1>2. t.coeffs \in Seq(Fr) /\ t.shares \in Seq(Fr) /\ t.sigma \in Fr
  BY DEF Transcript
<1>3. sum = t
  <2> HIDE DEF ts
  <2>1. [k \in DOMAIN t.coeffs |-> FSum([i \in 1..1 |-> t.coeffs[k]])] = t.coeffs
    <3>1. ASSUME NEW k \in DOMAIN t.coeffs
          PROVE  FSum([i \in 1..1 |-> t.coeffs[k]]) = t.coeffs[k]
      <4>1. t.coeffs[k] \in Fr
        BY <1>2
      <4>2. QED
        BY <4>1, FSumOne
    <3>2. QED
      BY <1>2, <3>1
  <2>2. [k \in DOMAIN t.shares |-> FSum([i \in 1..1 |-> t.shares[k]])] = t.shares
    <3>1. ASSUME NEW k \in DOMAIN t.shares
          PROVE  FSum([i \in 1..1 |-> t.shares[k]]) = t.shares[k]
      <4>1. t.shares[k] \in Fr
        BY <1>2
      <4>2. QED
        BY <4>1, FSumOne
    <3>2. QED
      BY <1>2, <3>1
  <2>3. FSum([i \in 1..1 |-> t.sigma]) = t.sigma
    BY <1>2, FSumOne
  <2>4. /\ \A k \in DOMAIN t.coeffs : [i \in DOMAIN ts |-> ts[i].coeffs[k]] = [i \in 1..1 |-> t.coeffs[k]]
        /\ \A k \in DOMAIN t.shares : [i \in DOMAIN ts |-> ts[i].shares[k]] = [i \in 1..1 |-> t.shares[k]]
        /\ [i \in DOMAIN ts |-> ts[i].sigma] = [i \in 1..1 |-> t.sigma]
    <3>1. \A i \in 1..1 : ts[i] = t
      BY <1>1
    <3>2. QED
      BY <1>1, <3>1
  <2>5. sum = [coeffs |-> [k \in DOMAIN t.coeffs |-> FSum([i \in 1..1 |-> t.coeffs[k]])],
               shares |-> [k \in DOMAIN t.shares |-> FSum([i \in 1..1 |-> t.shares[k]])],
               sigma  |-> FSum([i \in 1..1 |-> t.sigma])]
    BY <1>1, <2>4
  <2>6. t = [coeffs |-> t.coeffs, shares |-> t.shares, sigma |-> t.sigma]
    BY DEF Transcript
  <2> HIDE DEF sum
  <2>7. QED
    BY <2>1, <2>2, <2>3, <2>5, <2>6
<1>4. Succeeded(shapes)
  <2>1. DOMAIN turns = 1..1 /\ DOMAIN turns \subseteq Nat
    BY <1>1
  <2>2. \A i \in DOMAIN turns : Holds(turns[i])
    <3>1. Holds(Ok(TRUE))
      BY DEF Holds, Succeeded, Ok
    <3>2. MatchLengths(t, t) = Ok(TRUE)
      BY DEF MatchLengths
    <3>3. \A i \in DOMAIN turns : turns[i] = MatchLengths(t, t)
      BY <1>1, <2>1
    <3>4. QED
      BY <3>1, <3>2, <3>3
  <2> HIDE DEF turns
  <2>3. FirstFailure(turns) = Ok(TRUE)
    BY <2>1, <2>2, FirstFailureCases
  <2>4. QED
    BY <2>3 DEF Succeeded, Ok
<1>5. ~ \E i \in DOMAIN ts : ~ SameShape(ts[1], ts[i])
  <2>1. \A i \in DOMAIN ts : ts[i] = ts[1]
    BY <1>1
  <2>2. QED
    BY <2>1 DEF SameShape
<1>6. Aggregate(ts) = Ok(sum)
  <2> HIDE DEF shapes, sum, ts
  <2> QED
    BY <1>1, <1>4, <1>5 DEF Aggregate, shapes, turns, sum
<1>7. QED
  <2> HIDE DEF sum, ts
  <2>1. Succeeded(Aggregate(ts)) /\ Aggregate(ts).val = t
    BY <1>3, <1>6 DEF Succeeded, Ok
  <2>2. FromTranscripts(ts) = FromAggregate(t)
    BY <2>1 DEF FromTranscripts
  <2>3. QED
    BY <2>2 DEF FromAggregate, ts

\* At least as many distinct points as coefficients give the constant term.
LEMMA EnoughPoints ==
    ASSUME NEW n \in Nat, NEW xs \in [1..n -> Fr], DistinctPoints(xs, n),
           NEW t \in 1..n, NEW p \in [1..t -> Fr]
    PROVE  Combined(n, xs, p) = p[1]
<1> DEFINE q == [i \in 1..n |-> IF i <= t THEN p[i] ELSE Zero]
<1>1. t \in Nat \ {0} /\ t <= n
  OBVIOUS
<1>2. q \in [1..n -> Fr] /\ \A i \in 1..n : q[i] = IF i <= t THEN p[i] ELSE Zero
  BY FrClosed
<1> HIDE DEF q
<1>3. \A x \in Fr : Eval(q, x) = Eval(p, x)
  BY <1>1, <1>2, EvalPad
<1>4. Combined(n, xs, q) = Eval(q, Zero)
  BY <1>2, Interpolation
<1>5. Combined(n, xs, q) = Combined(n, xs, p)
  BY <1>3 DEF Combined
<1>6. Eval(p, Zero) = p[1]
  BY <1>1, EvalAtZero
<1>7. QED
  BY <1>3, <1>4, <1>5, <1>6, FrClosed

-----------------------------------------------------------------------------
\* A list of validators that Dkg::new accepts: every index below its length comes
\* once, with a key, and the map finds the validator that has it.
WellIndexed(vs) ==
    /\ Len(vs) \in 1..MaxDomain /\ DOMAIN vs = 1..Len(vs)
    /\ DOMAIN ByIndex(vs) = 0..(Len(vs) - 1)
    /\ \A i \in 1..Len(vs) : /\ vs[i].share_index \in 0..(Len(vs) - 1)
                             /\ vs[i].ek \in Fr \ {Zero}
                             /\ ByIndex(vs)[vs[i].share_index] = vs[i]
    /\ \A i, j \in 1..Len(vs) : vs[i].share_index = vs[j].share_index => i = j
    /\ \A k \in 0..(Len(vs) - 1) : \E i \in 1..Len(vs) : vs[i].share_index = k

\* Dkg::new of some member succeeds only on such a list.
LEMMA AcceptedWellIndexed ==
    ASSUME NEW V, Holders(V), NEW vs \in Seq(V), Len(vs) \in 1..MaxDomain,
           NEW params, params.threshold \in Nat, params.shares_num \in Nat, NEW me,
           Succeeded(DkgNew(vs, params, me))
    PROVE  WellIndexed(vs)
<1> DEFINE n == Len(vs)
           d == DkgNew(vs, params, me).val
<1>1. n \in Nat \ {0} /\ DOMAIN vs = 1..n /\ n <= MaxDomain /\ MaxDomain \in Nat
  BY DomainAssumption
<1>2. ExactContext(d) /\ d.domain = n
  BY <1>1, DkgNewExact
<1>3. d.validators = ByIndex(vs) /\ Succeeded(AssertNoShareDuplicates(vs))
  BY DkgNewKeeps
<1> HIDE DEF d
<1>4. \A i, j \in 1..n : vs[i].share_index = vs[j].share_index => i = j
  BY <1>1, <1>3, NoShareDuplicates
<1>5. /\ DOMAIN ByIndex(vs) = 0..(n - 1)
      /\ \A k \in 0..(n - 1) : /\ ByIndex(vs)[k].share_index = k
                               /\ ByIndex(vs)[k].ek \in Fr \ {Zero}
  BY <1>2, <1>3 DEF ExactContext
<1>6. ASSUME NEW i \in 1..n
      PROVE  /\ vs[i].share_index \in 0..(n - 1)
             /\ vs[i].ek \in Fr \ {Zero}
             /\ ByIndex(vs)[vs[i].share_index] = vs[i]
  <2>1. vs[i].share_index \in DOMAIN ByIndex(vs) /\ ByIndex(vs)[vs[i].share_index] = vs[i]
    BY <1>1, <1>4, ByIndexFinds
  <2>2. QED
    BY <1>5, <2>1
<1>7. ASSUME NEW k \in 0..(n - 1)
      PROVE  \E i \in 1..n : vs[i].share_index = k
  <2>1. DOMAIN ByIndex(vs) = {vs[i].share_index : i \in 1..n}
    <3> HIDE DEF n
    <3> QED
      BY <1>1 DEF ByIndex
  <2>2. k \in {vs[i].share_index : i \in 1..n}
    BY <1>5, <2>1
  <2> HIDE DEF n
  <2>3. QED
    BY <2>2
<1>8. QED
  BY <1>1, <1>4, <1>5, <1>6, <1>7 DEF WellIndexed

\* The context made from such a list for one of its members.
LEMMA MemberContext ==
    ASSUME NEW V, Holders(V), NEW vs \in Seq(V), Len(vs) \in 1..MaxDomain,
           NEW params, params.threshold \in Nat, params.shares_num \in Nat, NEW me,
           Succeeded(DkgNew(vs, params, me))
    PROVE  LET d == DkgNew(vs, params, me).val
           IN  /\ ExactContext(d) /\ d.domain = Len(vs) /\ d.me = me
               /\ d.threshold = params.threshold
               /\ \A i \in 1..Len(vs) : d.validators[vs[i].share_index] = vs[i]
<1> DEFINE d == DkgNew(vs, params, me).val
<1>1. Len(vs) <= MaxDomain
  BY DomainAssumption
<1>2. ExactContext(d) /\ d.domain = Len(vs) /\ d.me = me /\ d.threshold = params.threshold
  BY <1>1, DkgNewExact
<1>3. d.validators = ByIndex(vs)
  BY DkgNewKeeps
<1>4. WellIndexed(vs)
  BY AcceptedWellIndexed
<1> HIDE DEF d
<1>5. \A i \in 1..Len(vs) : d.validators[vs[i].share_index] = vs[i]
  BY <1>3, <1>4 DEF WellIndexed
<1>6. QED
  BY <1>2, <1>5 DEF d

\* A key undoes its own blinding.
LEMMA BlindUnblind ==
    ASSUME NEW z \in Fr, NEW dk \in Fr, dk # Zero
    PROVE  Mul(Mul(z, dk), Inv(dk)) = z
<1>1. Inv(dk) \in Fr
  BY FrClosed
<1>2. Mul(Mul(z, dk), Inv(dk)) = Mul(z, Mul(dk, Inv(dk)))
  BY <1>1, FrMultiplicative
<1>3. QED
  BY <1>2, FrMultiplicative

\* What create makes from the private share z.
LEMMA ShareFromForm ==
    ASSUME NEW z, NEW dk, NEW ct, NEW aad, NEW coeff,
           Succeeded(ShareFrom(z, dk, Header(ct), aad, coeff))
    PROVE  /\ dk # Zero /\ Succeeded(CheckHeader(Header(ct), aad))
           /\ ShareFrom(z, dk, Header(ct), aad, coeff).val
                = [decryption_share |-> Mul(Mul(ct.commitment, coeff), z),
                   checksum         |-> Mul(ct.commitment, Inv(dk))]
<1>1. Header(ct).commitment = ct.commitment
  BY DEF Header
<1>2. Succeeded(CheckHeader(Header(ct), aad)) /\ Succeeded(ShareChecksum(dk, ct.commitment))
  BY <1>1 DEF ShareFrom
<1>3. dk # Zero /\ ShareChecksum(dk, ct.commitment) = Ok(Mul(ct.commitment, Inv(dk)))
  BY <1>2 DEF ShareChecksum, Succeeded, Err
<1>4. QED
  BY <1>1, <1>2, <1>3 DEF ShareFrom, Pairing, Ok

\* A decryption share made from a blinded share, with the right key or a wrong one.
LEMMA CreateShareForm ==
    ASSUME NEW y, NEW dk, NEW ct, NEW aad, NEW coeff,
           Succeeded(CreateShare(y, dk, Header(ct), aad, coeff))
    PROVE  /\ dk # Zero /\ Succeeded(CheckHeader(Header(ct), aad))
           /\ CreateShare(y, dk, Header(ct), aad, coeff).val
                = [decryption_share |-> Mul(Mul(ct.commitment, coeff), Mul(y, Inv(dk))),
                   checksum         |-> Mul(ct.commitment, Inv(dk))]
<1>1. Succeeded(Unblind(y, dk)) /\ Unblind(y, dk) = Ok(Mul(y, Inv(dk)))
  BY DEF CreateShare, Unblind, Succeeded, Err
<1>2. Unblind(y, dk).val = Mul(y, Inv(dk))
  BY <1>1 DEF Ok
<1>3. CreateShare(y, dk, Header(ct), aad, coeff) = ShareFrom(Mul(y, Inv(dk)), dk, Header(ct), aad, coeff)
  BY <1>1, <1>2 DEF CreateShare
<1>4. QED
  BY <1>3, ShareFromForm

\* Different indices give different points, and none is the point of the secret.
LEMMA PointList ==
    ASSUME NEW n \in 0..MaxDomain, NEW k \in Nat, NEW f \in [1..k -> 0..(DomainSize(n) - 1)],
           \A i, j \in 1..k : f[i] = f[j] => i = j,
           NEW xs, xs = [i \in 1..k |-> DomainElement(n, f[i])]
    PROVE  xs \in [1..k -> Fr \ {Zero}] /\ xs \in [1..k -> Fr] /\ DistinctPoints(xs, k)
<1>1. xs \in [1..k -> Fr] /\ DistinctPoints(xs, k)
  BY PointsOf
<1>2. \A i \in 1..k : xs[i] # Zero
  BY DomainAssumption
<1>3. QED
  BY <1>1, <1>2

\* collect() lists the entries by rank.
LEMMA CollectRanked ==
    ASSUME NEW K \in SUBSET Nat, IsFiniteSet(K), NEW m, DOMAIN m = K
    PROVE  Collect(m) = [j \in 1..Cardinality(K) |-> m[SortedKeys(K)[j]]]
BY ValuesRanked
=============================================================================
