----------------------------- MODULE MobilityProofs -----------------------------
(***************************************************************************)
(* Proofs about ShareMobility, for every cohort, joint polynomial, update, *)
(* baton and fault.                                                        *)
(*                                                                         *)
(* MInv, the inductive invariant, says of every slot that took no wrong    *)
(* baton which blinded share its holder has: the joint polynomial plus the *)
(* updates booked in delta, at the slot's point, under the present key.    *)
(* It holds because every transcript that verify_refresh lets pass has a   *)
(* root at zero and adds values of one polynomial (AcceptedUpdate), and    *)
(* because the equation of HandoverTranscript::validate leaves one share   *)
(* for a baton that was made correctly (BatonEquation).  What a group of   *)
(* holders can open follows by interpolation.                              *)
(***************************************************************************)
EXTENDS ShareMobility, ContextProofs

\* The threshold, the number of shares, and the polynomials kept per slot.
T == Cohort.threshold
N == Cohort.shares_num
Poly == [1..(T + 1) -> Fr]

\* The validators of the cohort, as records.
Member == [address : {Cohort.validators[i].address : i \in DOMAIN Cohort.validators},
           ek : Fr, share_index : Nat]

\* What the established ceremony gives.
LEMMA CohortGiven ==
    /\ N \in Nat \ {0} /\ N \in 1..MaxDomain /\ T \in 1..N /\ T \in Nat
    /\ Holders(Member) /\ Cohort.validators \in Seq(Member) /\ Len(Cohort.validators) = N
    /\ Succeeded(DkgNew(Cohort.validators, Cohort, Cohort.validators[1]))
    /\ WellIndexed(Cohort.validators)
<1> DEFINE vs == Cohort.validators
<1>1. /\ T \in 1..N /\ Len(vs) = N /\ vs \in Seq(Member)
      /\ \A i \in DOMAIN vs : Succeeded(DkgNew(vs, Cohort, vs[i]))
  BY CohortAssumption DEF T, N, Member
<1>2. Holders(Member)
  BY DEF Holders, Member
<1>3. N \in Nat /\ DOMAIN vs = 1..N
  BY <1>1
<1>4. T \in Nat /\ N \in Nat \ {0} /\ 1 \in DOMAIN vs
  BY <1>1, <1>3
<1>5. Succeeded(DkgNew(vs, Cohort, vs[1]))
  BY <1>1, <1>4
<1>6. Len(vs) <= MaxDomain
  <2>1. SUFFICES ASSUME Len(vs) > MaxDomain PROVE FALSE
    BY <1>3, <1>1, DomainAssumption
  <2>2. ~ Succeeded(DkgNew(vs, Cohort, vs[1]))
    BY <2>1 DEF DkgNew, Succeeded, Panic
  <2>3. QED
    BY <1>5, <2>2
<1>7. N \in 1..MaxDomain
  BY <1>1, <1>4, <1>6, DomainAssumption
<1>8. WellIndexed(vs)
  BY <1>1, <1>2, <1>4, <1>5, <1>7, AcceptedWellIndexed DEF T, N
<1>9. QED
  BY <1>1, <1>2, <1>4, <1>5, <1>7, <1>8

\* The slots, their points and the joint polynomial.
LEMMA SlotsGiven ==
    /\ Slots = 0..(N - 1) /\ Slots \subseteq Nat /\ IsFiniteSet(Slots)
    /\ DomainSize(N) \in Nat /\ N <= DomainSize(N) /\ N \in 0..MaxDomain
    /\ Slots \subseteq 0..(DomainSize(N) - 1)
    /\ \A i \in Slots : Point(i) = DomainElement(N, i) /\ Point(i) \in Fr \ {Zero}
    /\ \A i, j \in Slots : Point(i) = Point(j) => i = j
    /\ Phi \in [1..T -> Fr] /\ Phi \in Seq(Fr) /\ Len(Phi) = T /\ Phi # <<>>
    /\ Phi[1] \in Fr \ {Zero}
    /\ DOMAIN Still = 1..(T + 1) /\ Still \in Poly /\ Len(Still) = T + 1
<1>1. N \in Nat \ {0} /\ N \in 1..MaxDomain /\ T \in 1..N /\ T \in Nat
  BY CohortGiven
<1>2. Slots = 0..(N - 1) /\ Slots \subseteq Nat
  BY <1>1 DEF Slots, N
<1>3. IsFiniteSet(Slots)
  BY <1>1, <1>2, FS_Interval
<1>4. N \in 0..MaxDomain /\ DomainSize(N) \in Nat /\ N <= DomainSize(N)
  BY <1>1, DomainAssumption
<1>5. Slots \subseteq 0..(DomainSize(N) - 1)
  BY <1>1, <1>2, <1>4
<1>6. \A i \in Slots : Point(i) = DomainElement(N, i) /\ Point(i) \in Fr \ {Zero}
  BY <1>4, <1>5, DomainAssumption DEF Point, N
<1>7. \A i, j \in Slots : Point(i) = Point(j) => i = j
  BY <1>4, <1>5, <1>6, DomainAssumption
<1>8. Phi \in Seq(Fr) /\ Len(Phi) = T /\ Phi[1] # Zero
  BY CohortAssumption DEF T
<1>9. Phi \in [1..T -> Fr] /\ Phi # <<>> /\ Phi[1] \in Fr
  BY <1>1, <1>8
<1>10. DOMAIN Still = 1..(T + 1) /\ Still \in Poly
  BY FrClosed DEF Still, T, Poly
<1>11. Len(Still) = T + 1
  BY <1>1, <1>10
<1>12. QED
  BY <1>1, <1>2, <1>3, <1>4, <1>5, <1>6, <1>7, <1>8, <1>9, <1>10, <1>11

\* A loop whose turns all pass.
LEMMA AllTurnsPass ==
    ASSUME NEW turns, DOMAIN turns \subseteq Nat, \A i \in DOMAIN turns : Holds(turns[i])
    PROVE  FirstFailure(turns) = Ok(TRUE)
BY FirstFailureCases

\* Dkg::new accepts validators with the indices 0..n-1, whatever their keys.
LEMMA DkgNewAccepts ==
    ASSUME NEW n \in Nat \ {0}, n <= MaxDomain, NEW vs, DOMAIN vs = 1..n, Len(vs) = n,
           \A i \in 1..n : vs[i].share_index \in 0..(n - 1) /\ vs[i].ek # Zero,
           \A i, j \in 1..n : vs[i].share_index = vs[j].share_index => i = j,
           NEW params, Succeeded(Validate(params))
    PROVE  Succeeded(DkgNew(vs, params, vs[1]))
<1> DEFINE turns == [i \in DOMAIN vs |-> Admit(vs[i], Len(vs))]
<1>1. Succeeded(AssertNoShareDuplicates(vs))
  BY DistinctPass
<1>2. \A i \in 1..n : Admit(vs[i], n) = Ok(TRUE)
  <2>1. TAKE i \in 1..n
  <2>2. ~ (vs[i].share_index >= n) /\ vs[i].ek # Zero
    OBVIOUS
  <2>3. QED
    BY <2>2 DEF Admit
<1>3. DOMAIN turns = 1..n /\ \A i \in 1..n : turns[i] = Ok(TRUE)
  BY <1>2
<1> HIDE DEF turns
<1>4. \A i \in DOMAIN turns : Holds(turns[i])
  BY <1>3, OutcomeForms DEF Holds
<1>5. FirstFailure(turns) = Ok(TRUE)
  <2>1. DOMAIN turns \subseteq Nat
    BY <1>3
  <2>2. QED
    BY <1>4, <2>1, AllTurnsPass
<1>6. Succeeded(FirstFailure(turns))
  BY <1>5, OutcomeForms
<1>7. 1 \in 1..n /\ ~ (n > MaxDomain)
  BY DomainAssumption
<1>8. vs[1].share_index \in DOMAIN ByIndex(vs) /\ ByIndex(vs)[vs[1].share_index] = vs[1]
  BY <1>7, ByIndexFinds
<1>9. QED
  BY <1>1, <1>6, <1>7, <1>8 DEF DkgNew, turns, Succeeded, Ok

\* The keys are as they must be.
KeysOK(ks) == ks \in [Slots -> Fr \ {Zero}]

\* The context of a holder is the one of the ceremony with the present keys.
LEMMA ContextNowGiven ==
    ASSUME KeysOK(keys)
    PROVE  /\ ExactContext(ContextNow) /\ ContextNow.domain = N /\ ContextNow.threshold = T
           /\ \A i \in Slots : ContextNow.validators[i].ek = keys[i]
<1> DEFINE vs == Cohort.validators
           ms == Members
<1>0. /\ N \in Nat \ {0} /\ N \in 1..MaxDomain /\ T \in 1..N /\ T \in Nat
      /\ Holders(Member) /\ vs \in Seq(Member) /\ Len(vs) = N
      /\ Succeeded(DkgNew(vs, Cohort, vs[1]))
      /\ WellIndexed(vs)
  BY CohortGiven
<1>1. Slots = 0..(N - 1)
  BY SlotsGiven
<1>2. DOMAIN vs = 1..N /\ vs \in [1..N -> Member]
  BY <1>0
<1>3. /\ \A i \in 1..N : vs[i].share_index \in Slots
      /\ \A i, j \in 1..N : vs[i].share_index = vs[j].share_index => i = j
      /\ \A k \in Slots : \E i \in 1..N : vs[i].share_index = k
  BY <1>0, <1>1 DEF WellIndexed
<1>4. DOMAIN ms = 1..N
  BY <1>2 DEF Members
<1>5. ASSUME NEW i \in 1..N
      PROVE  /\ ms[i] \in Member /\ ms[i].share_index = vs[i].share_index
             /\ ms[i].ek = keys[vs[i].share_index]
  <2>1. vs[i] \in Member /\ vs[i].share_index \in Slots
    BY <1>2, <1>3
  <2>2. keys[vs[i].share_index] \in Fr
    BY <2>1 DEF KeysOK
  <2>3. PICK v, e : v = vs[i] /\ e = keys[vs[i].share_index]
    OBVIOUS
  <2>4. ms[i] = [v EXCEPT !.ek = e]
    BY <1>2, <2>3 DEF Members
  <2>5. v \in Member /\ e \in Fr
    BY <2>1, <2>2, <2>3
  <2>6. [v EXCEPT !.ek = e] \in Member /\ [v EXCEPT !.ek = e].share_index = v.share_index
        /\ [v EXCEPT !.ek = e].ek = e
    BY <2>5 DEF Member
  <2>7. QED
    BY <2>3, <2>4, <2>6
<1>6. ms \in [1..N -> Member]
  BY <1>4, <1>5 DEF Members
<1> HIDE DEF ms
<1>7. ms \in Seq(Member) /\ Len(ms) = N
  BY <1>0, <1>6
<1>8. \A i \in 1..N : ms[i].share_index \in 0..(N - 1) /\ ms[i].ek # Zero
  BY <1>1, <1>3, <1>5 DEF KeysOK
<1>9. \A i, j \in 1..N : ms[i].share_index = ms[j].share_index => i = j
  BY <1>3, <1>5
<1>10. Succeeded(Validate(Cohort))
  BY <1>0 DEF DkgNew
<1>11. Succeeded(DkgNew(ms, Cohort, ms[1]))
  BY <1>0, <1>4, <1>7, <1>8, <1>9, <1>10, DkgNewAccepts
<1>12. PICK d : d = DkgNew(ms, Cohort, ms[1]).val
  OBVIOUS
<1>13. /\ ExactContext(d) /\ d.domain = N /\ d.threshold = T
       /\ \A i \in 1..N : d.validators[ms[i].share_index] = ms[i]
  BY <1>0, <1>7, <1>11, <1>12, MemberContext DEF T, N
<1>14. d = ContextNow
  BY <1>12 DEF ContextNow, ms
<1>15. \A i \in Slots : d.validators[i].ek = keys[i]
  <2>1. TAKE i \in Slots
  <2>2. PICK k \in 1..N : vs[k].share_index = i
    BY <1>3
  <2>3. QED
    BY <2>2, <1>5, <1>13
<1>16. QED
  BY <1>13, <1>14, <1>15

\* resize pads a polynomial that is short enough, and keeps its values.
LEMMA ResizeGiven ==
    ASSUME NEW m \in Nat, NEW p \in Seq(Fr), Len(p) <= m
    PROVE  /\ Resize(p, m) \in [1..m -> Fr]
           /\ \A x \in Fr : Eval(Resize(p, m), x) = Eval(p, x)
           /\ \A k \in 1..m : Resize(p, m)[k] = IF k <= Len(p) THEN p[k] ELSE Zero
<1>1. PICK n \in Nat : n = Len(p)
  OBVIOUS
<1>2. p \in [1..n -> Fr]
  BY <1>1
<1>3. PICK q : q = Resize(p, m)
  OBVIOUS
<1>4. \A k \in 1..m : q[k] = IF k <= n THEN p[k] ELSE Zero
  BY <1>1, <1>3 DEF Resize
<1>5. \A k \in 1..m : (IF k <= n THEN p[k] ELSE Zero) \in Fr
  BY <1>1, <1>2, FrClosed
<1>6. q \in [1..m -> Fr]
  BY <1>1, <1>3, <1>5 DEF Resize
<1>7. \A x \in Fr : Eval(q, x) = Eval(p, x)
  BY <1>1, <1>2, <1>4, <1>6, EvalPad
<1>8. QED
  BY <1>1, <1>3, <1>4, <1>6, <1>7

\* A polynomial of full length is its own resize.
LEMMA ResizeSame ==
    ASSUME NEW m \in Nat, NEW p \in [1..m -> Fr]
    PROVE  Resize(p, m) = p /\ p \in Seq(Fr) /\ Len(p) = m
<1>1. p \in Seq(Fr) /\ Len(p) = m
  BY SeqOf
<1>2. \A k \in 1..m : Resize(p, m)[k] = p[k]
  BY <1>1 DEF Resize
<1>3. DOMAIN Resize(p, m) = 1..m
  BY DEF Resize
<1>4. QED
  BY <1>1, <1>2, <1>3 DEF Resize

\* Polynomials that fit a slot's share.
Fits(p) == p \in Seq(Fr) /\ Len(p) <= T + 1

\* The values of a sum of polynomials.
LEMMA PlusGiven ==
    ASSUME NEW p, Fits(p), NEW q, Fits(q)
    PROVE  /\ Plus(p, q) \in Poly /\ Fits(Plus(p, q))
           /\ \A x \in Fr : Eval(Plus(p, q), x) = Add(Eval(p, x), Eval(q, x))
           /\ \A k \in 1..(T + 1) :
                Plus(p, q)[k] = Add(IF k <= Len(p) THEN p[k] ELSE Zero,
                                    IF k <= Len(q) THEN q[k] ELSE Zero)
<1>1. PICK m \in Nat : m = T + 1
  BY CohortGiven
<1>2. DOMAIN Still = 1..m /\ Len(Still) = m
  BY <1>1, SlotsGiven
<1>3. PICK a, b : a = Resize(p, m) /\ b = Resize(q, m)
  OBVIOUS
<1>4. p \in Seq(Fr) /\ q \in Seq(Fr) /\ Len(p) <= m /\ Len(q) <= m
  BY <1>1 DEF Fits
<1>5. /\ a \in [1..m -> Fr]
      /\ \A x \in Fr : Eval(a, x) = Eval(p, x)
      /\ \A k \in 1..m : a[k] = IF k <= Len(p) THEN p[k] ELSE Zero
  BY <1>3, <1>4, ResizeGiven
<1>6. /\ b \in [1..m -> Fr]
      /\ \A x \in Fr : Eval(b, x) = Eval(q, x)
      /\ \A k \in 1..m : b[k] = IF k <= Len(q) THEN q[k] ELSE Zero
  BY <1>3, <1>4, ResizeGiven
<1>7. Plus(p, q) = [k \in 1..m |-> Add(a[k], b[k])]
  BY <1>2, <1>3 DEF Plus
<1>8. PICK s : s = [k \in 1..m |-> Add(a[k], b[k])]
  OBVIOUS
<1>9. s \in [1..m -> Fr]
  BY <1>5, <1>6, <1>8, FrClosed
<1>10. \A x \in Fr : Eval(s, x) = Add(Eval(a, x), Eval(b, x))
  BY <1>5, <1>6, <1>8, EvalAdd
<1>11. s \in Seq(Fr) /\ Len(s) = m
  BY <1>9, ResizeSame
<1>12. s \in Poly /\ Fits(s)
  BY <1>1, <1>9, <1>11 DEF Poly, Fits
<1>13. \A x \in Fr : Eval(s, x) = Add(Eval(p, x), Eval(q, x))
  BY <1>5, <1>6, <1>10
<1>14. \A k \in 1..m : s[k] = Add(IF k <= Len(p) THEN p[k] ELSE Zero,
                                   IF k <= Len(q) THEN q[k] ELSE Zero)
  BY <1>5, <1>6, <1>8
<1>15. QED
  BY <1>1, <1>7, <1>8, <1>12, <1>13, <1>14

\* The polynomials kept per slot fit.
LEMMA PolyFits ==
    ASSUME NEW p \in Poly
    PROVE  Fits(p) /\ Len(p) = T + 1
<1>1. PICK m \in Nat : m = T + 1
  BY CohortGiven
<1>2. p \in [1..m -> Fr]
  BY <1>1 DEF Poly
<1>3. QED
  BY <1>1, <1>2, ResizeSame DEF Fits

\* The joint polynomial fits.
LEMMA PhiFits == Fits(Phi)
BY SlotsGiven, CohortGiven DEF Fits

\* A sum of zeros.
LEMMA FSumZeros ==
    ASSUME NEW n \in Nat, NEW s \in [1..n -> Fr], \A i \in 1..n : s[i] = Zero
    PROVE  FSum(s) = Zero
<1>1. s = [i \in 1..n |-> Mul(Zero, s[i])]
  BY MulZero, FrClosed
<1>2. FSum([i \in 1..n |-> Mul(Zero, s[i])]) = Mul(Zero, FSum(s))
  BY FSumScale, FrClosed
<1>3. FSum(s) \in Fr
  BY FoldTypes
<1>4. QED
  BY <1>1, <1>2, <1>3, MulZero

\* The sum of the polynomials cs[p] of a batch, coefficient by coefficient in the
\* order of the producers.
BatchTotal(batch, cs) ==
    [k \in 1..(T + 1) |-> FSum(ValuesOf([p \in batch |-> Resize(cs[p], T + 1)[k]]))]

\* Its value is the sum of the values, and it has a root at zero if each has.
LEMMA BatchTotalGiven ==
    ASSUME NEW batch \in SUBSET Nat, IsFiniteSet(batch), NEW cs,
           \A p \in batch : Fits(cs[p])
    PROVE  /\ BatchTotal(batch, cs) \in Poly
           /\ \A x, c \in Fr :
                FSum(ValuesOf([p \in batch |-> Mul(c, Eval(cs[p], x))]))
                  = Mul(c, Eval(BatchTotal(batch, cs), x))
           /\ (\A p \in batch : Len(cs[p]) >= 1 /\ cs[p][1] = Zero)
                => BatchTotal(batch, cs)[1] = Zero
<1>1. PICK m \in Nat : m = T + 1 /\ 1 \in 1..m
  BY CohortGiven
<1>2. PICK n : n = Cardinality(batch)
  OBVIOUS
<1>3. PICK ks : ks = SortedKeys(batch)
  OBVIOUS
<1>4. n \in Nat /\ ks \in [1..n -> batch]
  <2>1. PICK f : f = [p \in batch |-> p]
    OBVIOUS
  <2>2. QED
    BY <1>2, <1>3, <2>1, ValuesRanked
<1>5. \A f : DOMAIN f = batch => ValuesOf(f) = [i \in 1..n |-> f[ks[i]]]
  BY <1>2, <1>3, ValuesRanked
<1>6. \A p \in batch : /\ cs[p] \in Seq(Fr) /\ Len(cs[p]) <= m
                       /\ Resize(cs[p], m) \in [1..m -> Fr]
                       /\ \A x \in Fr : Eval(Resize(cs[p], m), x) = Eval(cs[p], x)
                       /\ \A k \in 1..m : Resize(cs[p], m)[k]
                                            = IF k <= Len(cs[p]) THEN cs[p][k] ELSE Zero
  BY <1>1, ResizeGiven DEF Fits
<1>7. PICK P : P = [i \in 1..n |-> Resize(cs[ks[i]], m)]
  OBVIOUS
<1>8. P \in [1..n -> [1..m -> Fr]]
  BY <1>4, <1>6, <1>7
<1>9. \A k \in 1..m : ValuesOf([p \in batch |-> Resize(cs[p], m)[k]]) = [i \in 1..n |-> P[i][k]]
  <2>1. TAKE k \in 1..m
  <2>2. PICK f : f = [p \in batch |-> Resize(cs[p], m)[k]]
    OBVIOUS
  <2>3. ValuesOf(f) = [i \in 1..n |-> f[ks[i]]]
    BY ZenonT(90), <1>5, <2>2
  <2>4. \A i \in 1..n : f[ks[i]] = P[i][k]
    BY <1>4, <1>7, <2>2
  <2>5. [i \in 1..n |-> f[ks[i]]] = [i \in 1..n |-> P[i][k]]
    BY <2>4
  <2>6. QED
    BY <2>2, <2>3, <2>5
<1>10. BatchTotal(batch, cs) = [k \in 1..m |-> FSum([i \in 1..n |-> P[i][k]])]
  BY <1>1, <1>9 DEF BatchTotal
<1>11. PICK total : total = [k \in 1..m |-> FSum([i \in 1..n |-> P[i][k]])]
  OBVIOUS
<1>12. /\ total \in [1..m -> Fr]
       /\ \A x \in Fr : Eval(total, x) = FSum([i \in 1..n |-> Eval(P[i], x)])
  <2>1. \A x \in Fr : /\ total \in [1..m -> Fr]
                       /\ Eval(total, x) = FSum([i \in 1..n |-> Eval(P[i], x)])
    <3>1. TAKE x \in Fr
    <3>2. /\ [k \in 1..m |-> FSum([i \in 1..n |-> P[i][k]])] \in [1..m -> Fr]
          /\ Eval([k \in 1..m |-> FSum([i \in 1..n |-> P[i][k]])], x)
               = FSum([i \in 1..n |-> Eval(P[i], x)])
      BY <1>4, <1>8, EvalSum
    <3>3. QED
      BY <1>11, <3>2
  <2>2. QED
    BY <2>1, FrClosed
<1>13. ASSUME NEW x \in Fr, NEW c \in Fr
       PROVE  FSum(ValuesOf([p \in batch |-> Mul(c, Eval(cs[p], x))])) = Mul(c, Eval(total, x))
  <2>1. PICK f : f = [p \in batch |-> Mul(c, Eval(cs[p], x))]
    OBVIOUS
  <2>2. ValuesOf(f) = [i \in 1..n |-> f[ks[i]]]
    BY ZenonT(90), <1>5, <2>1
  <2>3. PICK s : s = [i \in 1..n |-> Eval(P[i], x)]
    OBVIOUS
  <2>4. \A i \in 1..n : P[i] \in [1..m -> Fr] /\ Eval(P[i], x) \in Fr
    BY <1>8, FoldTypes
  <2>5. s \in [1..n -> Fr]
    BY <2>3, <2>4
  <2>6. \A i \in 1..n : f[ks[i]] = Mul(c, s[i])
    BY <1>4, <1>6, <1>7, <2>1, <2>3
  <2>7. ValuesOf(f) = [i \in 1..n |-> Mul(c, s[i])]
    <3>1. [i \in 1..n |-> f[ks[i]]] = [i \in 1..n |-> Mul(c, s[i])]
      BY <2>6
    <3>2. QED
      BY <2>2, <3>1
  <2>8. FSum([i \in 1..n |-> Mul(c, s[i])]) = Mul(c, FSum(s))
    BY <1>4, <2>5, FSumScale
  <2>9. Eval(total, x) = FSum(s)
    BY <1>12, <2>3
  <2>10. QED
    BY <2>1, <2>7, <2>8, <2>9
<1>14. ASSUME \A p \in batch : Len(cs[p]) >= 1 /\ cs[p][1] = Zero
       PROVE  total[1] = Zero
  <2>1. PICK s : s = [i \in 1..n |-> P[i][1]]
    OBVIOUS
  <2>2. s \in [1..n -> Fr]
    BY <1>1, <1>8, <2>1
  <2>3. \A i \in 1..n : s[i] = Zero
    <3>1. TAKE i \in 1..n
    <3>2. PICK p \in batch : p = ks[i]
      BY <1>4
    <3>3. s[i] = Resize(cs[p], m)[1]
      BY <1>7, <2>1, <3>2
    <3>4. Resize(cs[p], m)[1] = IF 1 <= Len(cs[p]) THEN cs[p][1] ELSE Zero
      BY <1>1, <1>6
    <3>5. QED
      BY <1>14, <3>3, <3>4
  <2>4. FSum(s) = Zero
    BY <1>4, <2>2, <2>3, FSumZeros
  <2>5. QED
    BY <1>1, <1>11, <2>1, <2>4
<1>15. total \in Poly
  BY <1>1, <1>12 DEF Poly
<1>16. QED
  BY <1>10, <1>11, <1>13, <1>14, <1>15
-----------------------------------------------------------------------------
\* The points of the slots of a group, in the order of the slots.
GroupPoints(S) == [j \in 1..T |-> Point(SortedKeys(S)[j])]
Weights(S) == PrepareCombineSimple(GroupPoints(S))

\* The group S in order: distinct slots, distinct points, weights that are not zero.
LEMMA GroupGiven ==
    ASSUME NEW S \in Groups
    PROVE  /\ S \subseteq Slots /\ S \in SUBSET Nat /\ IsFiniteSet(S) /\ Cardinality(S) = T
           /\ SortedKeys(S) \in [1..T -> S]
           /\ \A i, j \in 1..T : SortedKeys(S)[i] = SortedKeys(S)[j] => i = j
           /\ \A k \in S : Rank(S, k) \in 1..T /\ SortedKeys(S)[Rank(S, k)] = k
           /\ \A i \in 1..T : Rank(S, SortedKeys(S)[i]) = i
           /\ \A m : DOMAIN m = S => Collect(m) = [j \in 1..T |-> m[SortedKeys(S)[j]]]
           /\ GroupPoints(S) \in [1..T -> Fr \ {Zero}] /\ GroupPoints(S) \in [1..T -> Fr]
           /\ DistinctPoints(GroupPoints(S), T)
           /\ Weights(S) \in [1..T -> Fr \ {Zero}]
<1>1. /\ S \subseteq Slots /\ Cardinality(S) = T
      /\ T \in Nat /\ Slots \subseteq Nat /\ IsFiniteSet(Slots)
  BY SlotsGiven, CohortGiven DEF Groups, T
<1>2. S \in SUBSET Nat /\ IsFiniteSet(S)
  BY <1>1, FS_Subset
<1>3. PICK f : f = [k \in S |-> k]
  OBVIOUS
<1>4. /\ SortedKeys(S) \in [1..T -> S]
      /\ \A i, j \in 1..T : SortedKeys(S)[i] = SortedKeys(S)[j] => i = j
      /\ \A k \in S : Rank(S, k) \in 1..T /\ SortedKeys(S)[Rank(S, k)] = k
      /\ \A i \in 1..T : Rank(S, SortedKeys(S)[i]) = i
  <2>1. DOMAIN f = S
    BY <1>3
  <2>2. /\ SortedKeys(S) \in [1..Cardinality(S) -> S]
        /\ \A i, j \in 1..Cardinality(S) : SortedKeys(S)[i] = SortedKeys(S)[j] => i = j
        /\ \A k \in S : Rank(S, k) \in 1..Cardinality(S) /\ SortedKeys(S)[Rank(S, k)] = k
        /\ \A i \in 1..Cardinality(S) : Rank(S, SortedKeys(S)[i]) = i
    BY <1>2, <2>1, ValuesRanked
  <2>3. QED
    BY <1>1, <2>2
<1>5. \A m : DOMAIN m = S => Collect(m) = [j \in 1..T |-> m[SortedKeys(S)[j]]]
  BY <1>1, <1>2, CollectRanked
<1>6. PICK ks : ks = SortedKeys(S)
  OBVIOUS
<1>7. ks \in [1..T -> Slots] /\ \A i, j \in 1..T : ks[i] = ks[j] => i = j
  BY <1>1, <1>4, <1>6
<1>8. PICK xs : xs = [j \in 1..T |-> Point(ks[j])]
  OBVIOUS
<1>9. xs \in [1..T -> Fr \ {Zero}] /\ xs \in [1..T -> Fr] /\ DistinctPoints(xs, T)
  <2>1. \A j \in 1..T : Point(ks[j]) \in Fr \ {Zero}
    BY <1>7, SlotsGiven
  <2>2. \A i, j \in 1..T : Point(ks[i]) = Point(ks[j]) => i = j
    BY <1>7, SlotsGiven
  <2>3. QED
    BY <1>8, <2>1, <2>2 DEF DistinctPoints
<1>10. GroupPoints(S) = xs
  BY <1>6, <1>8 DEF GroupPoints
<1>11. PICK L : L = PrepareCombineSimple(xs)
  OBVIOUS
<1>12. /\ L \in [1..T -> Fr]
       /\ L = [j \in 1..T |-> FProd([m \in 1..T |-> LagrangeFactor(xs, j, m)])]
       /\ \A j \in 1..T : [m \in 1..T |-> LagrangeFactor(xs, j, m)] \in [1..T -> Fr]
  BY <1>1, <1>9, <1>11, LagrangeForm
<1>13. ASSUME NEW j \in 1..T, NEW m \in 1..T
       PROVE  LagrangeFactor(xs, j, m) # Zero
  <2>1. xs[j] \in Fr /\ xs[m] \in Fr /\ xs[m] # Zero
    BY <1>9
  <2>2. CASE xs[j] = xs[m]
    BY <2>2, FrClosed DEF LagrangeFactor
  <2>3. CASE xs[j] # xs[m]
    <3>1. PICK a, b : a = Sub(xs[m], Zero) /\ b = Sub(xs[m], xs[j])
      OBVIOUS
    <3>2. a \in Fr /\ a # Zero
      BY <2>1, <3>1, SubFacts, FrClosed
    <3>3. b \in Fr /\ b # Zero
      BY <2>1, <2>3, <3>1, SubFacts
    <3>4. Inv(b) \in Fr /\ Mul(b, Inv(b)) = One
      BY <3>3, FrClosed, FrMultiplicative
    <3>5. Inv(b) # Zero
      BY <3>3, <3>4, MulZero, FrClosed
    <3>6. Mul(a, Inv(b)) # Zero
      BY <3>2, <3>4, <3>5, NoZeroDivisors
    <3>7. QED
      BY <2>3, <3>1, <3>6 DEF LagrangeFactor, Div
  <2>4. QED
    BY <2>2, <2>3
<1>14. ASSUME NEW j \in 1..T PROVE L[j] # Zero
  <2>1. PICK fs : fs = [m \in 1..T |-> LagrangeFactor(xs, j, m)]
    OBVIOUS
  <2>2. fs \in [1..T -> Fr] /\ \A m \in 1..T : fs[m] # Zero
    BY <1>12, <1>13, <2>1
  <2>3. FProd(fs) # Zero
    BY <1>1, <2>2, FProdNonzero
  <2>4. QED
    BY <1>12, <2>1, <2>3
<1>15. Weights(S) \in [1..T -> Fr \ {Zero}]
  BY <1>10, <1>11, <1>12, <1>14 DEF Weights
<1>16. QED
  BY <1>1, <1>2, <1>4, <1>5, <1>9, <1>10, <1>15

\* The secret the group S combines from the private shares z.
GroupSecret(S, z) == FSum([j \in 1..T |-> Mul(Weights(S)[j], z[SortedKeys(S)[j]])])

\* Shares of one polynomial of degree below the threshold combine to its constant term.
LEMMA OneGenerationCombines ==
    ASSUME NEW S \in Groups, NEW p \in Poly, p[T + 1] = Zero,
           NEW z, \A i \in S : z[i] = Eval(p, Point(i))
    PROVE  GroupSecret(S, z) = p[1]
<1>1. T \in Nat /\ T >= 1 /\ p \in [1..(T + 1) -> Fr]
  BY CohortGiven DEF Poly
<1>2. PICK q : q = [k \in 1..T |-> p[k]]
  OBVIOUS
<1>3. q \in [1..T -> Fr]
  BY <1>1, <1>2
<1>4. \A k \in 1..(T + 1) : p[k] = IF k <= T THEN q[k] ELSE Zero
  BY <1>1, <1>2
<1>5. \A x \in Fr : Eval(p, x) = Eval(q, x)
  <2>1. TAKE x \in Fr
  <2>2. PICK m \in Nat : m = T + 1
    BY <1>1
  <2>3. p \in [1..m -> Fr] /\ T <= m /\ \A k \in 1..m : p[k] = IF k <= T THEN q[k] ELSE Zero
    BY <1>1, <1>4, <2>2
  <2>4. QED
    BY <1>1, <1>3, <2>2, <2>3, EvalPad
<1>6. PICK ks, xs, L : ks = SortedKeys(S) /\ xs = GroupPoints(S) /\ L = Weights(S)
  OBVIOUS
<1>7. /\ ks \in [1..T -> S] /\ xs \in [1..T -> Fr] /\ DistinctPoints(xs, T)
      /\ S \subseteq Slots
  BY <1>6, GroupGiven
<1>8. \A j \in 1..T : xs[j] = Point(ks[j])
  BY <1>6 DEF GroupPoints
<1>9. \A j \in 1..T : z[ks[j]] = Eval(q, xs[j])
  BY <1>5, <1>7, <1>8
<1>10. GroupSecret(S, z) = FSum([j \in 1..T |-> Mul(L[j], Eval(q, xs[j]))])
  <2>1. GroupSecret(S, z) = FSum([j \in 1..T |-> Mul(L[j], z[ks[j]])])
    BY <1>6 DEF GroupSecret
  <2>2. [j \in 1..T |-> Mul(L[j], z[ks[j]])] = [j \in 1..T |-> Mul(L[j], Eval(q, xs[j]))]
    BY <1>9
  <2>3. QED
    BY <2>1, <2>2
<1>11. L = PrepareCombineSimple(xs)
  BY <1>6 DEF Weights
<1>12. GroupSecret(S, z) = Combined(T, xs, q)
  BY <1>10, <1>11 DEF Combined
<1>13. Combined(T, xs, q) = Eval(q, Zero)
  BY <1>1, <1>3, <1>7, Interpolation
<1>14. Eval(q, Zero) = q[1] /\ q[1] = p[1]
  BY <1>1, <1>2, <1>3, EvalAtZero
<1>15. QED
  BY <1>12, <1>13, <1>14

\* Two groups of shares that differ in one slot combine to different secrets.
LEMMA OneShareMatters ==
    ASSUME NEW S \in Groups, NEW i \in S, NEW z \in [S -> Fr], NEW w \in [S -> Fr],
           \A j \in S \ {i} : z[j] = w[j],
           GroupSecret(S, z) = GroupSecret(S, w)
    PROVE  z[i] = w[i]
<1>1. T \in Nat /\ T >= 1
  BY CohortGiven
<1>2. PICK ks, L, r : ks = SortedKeys(S) /\ L = Weights(S) /\ r = Rank(S, i)
  OBVIOUS
<1>3. /\ ks \in [1..T -> S] /\ L \in [1..T -> Fr \ {Zero}] /\ r \in 1..T /\ ks[r] = i
      /\ \A j, k \in 1..T : ks[j] = ks[k] => j = k
  BY <1>2, GroupGiven
<1>4. PICK a, b : /\ a = [j \in 1..T |-> Mul(L[j], z[ks[j]])]
                  /\ b = [j \in 1..T |-> Mul(L[j], w[ks[j]])]
  OBVIOUS
<1>5. a \in [1..T -> Fr] /\ b \in [1..T -> Fr]
  BY <1>3, <1>4, FrClosed
<1>6. \A j \in 1..T : j # r => a[j] = b[j]
  BY <1>3, <1>4
<1>7. PICK n \in Nat : n + 1 = T
  <2>1. T - 1 \in Nat /\ (T - 1) + 1 = T
    BY <1>1
  <2>2. QED
    BY <2>1
<1>8. a \in [1..(n + 1) -> Fr] /\ b \in [1..(n + 1) -> Fr] /\ r \in 1..(n + 1)
  BY <1>3, <1>5, <1>7
<1>9. /\ Without(a, n, r) \in [1..n -> Fr] /\ FSum(a) = Add(FSum(Without(a, n, r)), a[r])
  BY <1>8, FSumWithout
<1>10. FSum(b) = Add(FSum(Without(b, n, r)), b[r])
  BY <1>8, FSumWithout
<1>11. Without(a, n, r) = Without(b, n, r)
  <2>1. \A j \in 1..n : (IF j < r THEN a[j] ELSE a[j + 1]) = (IF j < r THEN b[j] ELSE b[j + 1])
    <3>1. TAKE j \in 1..n
    <3>2. PICK k : k = j + 1
      OBVIOUS
    <3>3. k \in 1..T /\ j \in 1..T /\ (j < r => j # r) /\ (~ (j < r) => k # r)
      BY <1>3, <1>7, <3>2
    <3>4. QED
      BY <1>6, <3>2, <3>3
  <2>2. QED
    BY <2>1 DEF Without
<1>12. FSum(a) = FSum(b)
  BY <1>2, <1>4 DEF GroupSecret
<1>13. a[r] = b[r]
  <2>1. PICK c : c = FSum(Without(a, n, r))
    OBVIOUS
  <2>2. c \in Fr
    BY <1>9, <2>1, FoldTypes
  <2>3. a[r] \in Fr /\ b[r] \in Fr
    BY <1>3, <1>5
  <2>4. Add(c, a[r]) = Add(c, b[r])
    BY <1>9, <1>10, <1>11, <1>12, <2>1
  <2>5. QED
    BY <2>2, <2>3, <2>4, AddCancel
<1>14. Mul(L[r], z[i]) = Mul(L[r], w[i])
  BY <1>3, <1>4, <1>13
<1>15. L[r] \in Fr /\ L[r] # Zero /\ z[i] \in Fr /\ w[i] \in Fr
  BY <1>3
<1>16. QED
  BY <1>14, <1>15, MulCancel

\* The sample ciphertext is well formed, and the joint secret alone opens it.
LEMMA SampleGiven ==
    /\ Sample.commitment = One /\ Succeeded(CheckHeader(Header(Sample), "aad"))
    /\ \A secret : DecryptWithSharedSecret(Sample, "aad", secret) = Ok("m") <=> secret = Phi[1]
<1>1. Phi[1] \in Fr /\ Phi[1] # Zero /\ One \in Fr /\ One # Zero /\ Mul(Phi[1], One) = Phi[1]
  BY SlotsGiven, FrClosed, FrMultiplicative
<1>2. PICK payload : payload = Seal(Phi[1], One, "m", "aad")
  OBVIOUS
<1>3. Sample = [commitment |-> One,
                auth_tag   |-> [scalar |-> One, point |-> TagHash(One, Sha256(payload), "aad")],
                payload    |-> payload]
  BY <1>1, <1>2 DEF Sample, Encrypt, Ok
<1>4. PICK ct : ct = Sample
  OBVIOUS
<1>5. /\ ct.commitment = One /\ ct.payload = payload
      /\ ct.auth_tag.scalar = One /\ ct.auth_tag.point = TagHash(One, Sha256(payload), "aad")
  BY <1>3, <1>4
<1>6. /\ Header(ct).commitment = One /\ Header(ct).auth_tag = ct.auth_tag
      /\ Header(ct).digest = Sha256(payload)
  BY <1>5 DEF Header
<1>7. CheckHeader(Header(ct), "aad") = Ok(TRUE)
  BY <1>1, <1>5, <1>6 DEF CheckHeader, TagMatches
<1>8. Succeeded(CheckHeader(Header(ct), "aad"))
  BY <1>7 DEF Succeeded, Ok
<1>9. payload.msg = "m"
  BY <1>2 DEF Seal
<1>10. ASSUME NEW secret
       PROVE  DecryptWithSharedSecret(ct, "aad", secret) = Ok("m") <=> secret = Phi[1]
  <2>1. DecryptWithSharedSecret(ct, "aad", secret)
          = IF payload = Seal(secret, One, "m", "aad") THEN Ok("m")
            ELSE Err("CiphertextVerificationFailed")
    BY <1>5, <1>8, <1>9 DEF DecryptWithSharedSecret, Open
  <2>2. Ok("m") # Err("CiphertextVerificationFailed")
    BY DEF Ok, Err
  <2>3. payload = Seal(secret, One, "m", "aad") <=> secret = Phi[1]
    BY <1>2 DEF Seal
  <2>4. QED
    BY <2>1, <2>2, <2>3
<1>11. QED
  BY <1>4, <1>5, <1>8, <1>10

\* A holder's copy has a share for its slot, and its key is not zero.
CopyOK(S, copies, dks) ==
    \A i \in S : /\ i + 1 \in DOMAIN copies[i].aggregate.shares
                 /\ copies[i].aggregate.shares[i + 1] \in Fr
                 /\ dks[i] \in Fr /\ dks[i] # Zero

\* The private shares of the holders of the slots S.
Privates(S, copies, dks) == [i \in S |-> PrivateShare(copies[i], i, dks[i])]

\* They are the blinded shares over the keys.
LEMMA PrivatesGiven ==
    ASSUME NEW S, NEW copies, NEW dks, CopyOK(S, copies, dks)
    PROVE  /\ Privates(S, copies, dks) \in [S -> Fr]
           /\ \A i \in S :
                LET y == copies[i].aggregate.shares[i + 1]
                IN  /\ GetShare(copies[i], i) = Ok(y) /\ Unblind(y, dks[i]) = Ok(Mul(y, Inv(dks[i])))
                    /\ Privates(S, copies, dks)[i] = Mul(y, Inv(dks[i]))
<1>1. ASSUME NEW i \in S, NEW y, y = copies[i].aggregate.shares[i + 1]
      PROVE  /\ GetShare(copies[i], i) = Ok(y) /\ Unblind(y, dks[i]) = Ok(Mul(y, Inv(dks[i])))
             /\ PrivateShare(copies[i], i, dks[i]) = Mul(y, Inv(dks[i]))
             /\ Mul(y, Inv(dks[i])) \in Fr
  <2>1. i + 1 \in DOMAIN copies[i].aggregate.shares /\ y \in Fr /\ dks[i] \in Fr /\ dks[i] # Zero
    BY <1>1 DEF CopyOK
  <2>2. GetShare(copies[i], i) = Ok(y)
    BY <1>1, <2>1 DEF GetShare
  <2>3. Unblind(y, dks[i]) = Ok(Mul(y, Inv(dks[i])))
    BY <2>1 DEF Unblind
  <2>4. GetShare(copies[i], i).val = y /\ Unblind(y, dks[i]).val = Mul(y, Inv(dks[i]))
    BY <2>2, <2>3 DEF Ok
  <2>5. PrivateShare(copies[i], i, dks[i]) = Mul(y, Inv(dks[i]))
    BY <2>4 DEF PrivateShare
  <2>6. QED
    BY <2>1, <2>2, <2>3, <2>5, FrClosed
<1>2. Privates(S, copies, dks) \in [S -> Fr]
  BY <1>1 DEF Privates
<1>3. QED
  BY <1>1, <1>2 DEF Privates

\* What a holder makes of the sample ciphertext with the coefficient c.
LEMMA HolderShare ==
    ASSUME NEW S, NEW copies, NEW dks, CopyOK(S, copies, dks), NEW i \in S, NEW c \in Fr,
           NEW y, y = GetShare(copies[i], i).val
    PROVE  /\ Succeeded(Unblind(y, dks[i]))
           /\ Succeeded(CreateShare(y, dks[i], Header(Sample), "aad", c))
           /\ CreateShare(y, dks[i], Header(Sample), "aad", c).val.decryption_share
                = Mul(c, Privates(S, copies, dks)[i])
<1>1. PICK z : z = Privates(S, copies, dks)[i]
  OBVIOUS
<1>2. /\ Unblind(y, dks[i]) = Ok(z) /\ z \in Fr /\ dks[i] # Zero
  <2>1. PICK u : u = copies[i].aggregate.shares[i + 1]
    OBVIOUS
  <2>2. /\ GetShare(copies[i], i) = Ok(u) /\ Unblind(u, dks[i]) = Ok(Mul(u, Inv(dks[i])))
        /\ z = Mul(u, Inv(dks[i])) /\ z \in Fr
    BY <1>1, <2>1, PrivatesGiven
  <2>3. y = u
    BY <2>2 DEF Ok
  <2>4. QED
    BY <2>2, <2>3 DEF CopyOK
<1>3. Unblind(y, dks[i]).val = z /\ Succeeded(Unblind(y, dks[i]))
  BY <1>2 DEF Ok, Succeeded
<1>4. CreateShare(y, dks[i], Header(Sample), "aad", c)
        = ShareFrom(z, dks[i], Header(Sample), "aad", c)
  BY <1>3 DEF CreateShare
<1>5. PICK h : h = Header(Sample)
  OBVIOUS
<1>6. h.commitment = One /\ Succeeded(CheckHeader(h, "aad"))
  BY <1>5, SampleGiven DEF Header
<1>7. ShareChecksum(dks[i], One) = Ok(Mul(One, Inv(dks[i])))
  BY <1>2 DEF ShareChecksum
<1>8. Succeeded(ShareChecksum(dks[i], One))
  BY <1>7 DEF Succeeded, Ok
<1>9. ShareFrom(z, dks[i], h, "aad", c)
        = Ok([decryption_share |-> Mul(Mul(One, c), z),
              checksum         |-> ShareChecksum(dks[i], One).val])
  BY <1>6, <1>8 DEF ShareFrom, Pairing
<1>10. Mul(One, c) = c
  BY FrMultiplicative, FrClosed
<1>11. QED
  BY <1>1, <1>3, <1>4, <1>5, <1>9, <1>10 DEF Succeeded, Ok

\* The simple variant opens the sample exactly when the private shares combine to the
\* joint secret.
LEMMA SimpleOpens ==
    ASSUME NEW S \in Groups, NEW copies, NEW dks, CopyOK(S, copies, dks)
    PROVE  OpensSimple(S, copies, dks) <=> GroupSecret(S, Privates(S, copies, dks)) = Phi[1]
<1> DEFINE share(i) == UpdatableShareSimple(GetShare(copies[i], i).val, dks[i],
                                            Header(Sample), "aad").val
           m == [i \in S |-> [decryption_share |-> share(i).decryption_share,
                              domain_point     |-> Point(i)]]
<1>1. PICK z : z = Privates(S, copies, dks)
  OBVIOUS
<1>2. PICK ks, xs, L : ks = SortedKeys(S) /\ xs = GroupPoints(S) /\ L = Weights(S)
  OBVIOUS
<1>3. /\ ks \in [1..T -> S] /\ xs \in [1..T -> Fr] /\ L \in [1..T -> Fr] /\ z \in [S -> Fr]
      /\ L = PrepareCombineSimple(xs)
  BY <1>1, <1>2, GroupGiven, PrivatesGiven DEF Weights
<1>4. \A i \in S : share(i).decryption_share = z[i]
  <2>1. TAKE i \in S
  <2>2. PICK y : y = GetShare(copies[i], i).val
    OBVIOUS
  <2>3. /\ Succeeded(CreateShare(y, dks[i], Header(Sample), "aad", One))
        /\ CreateShare(y, dks[i], Header(Sample), "aad", One).val.decryption_share = Mul(One, z[i])
    BY <1>1, <2>2, FrClosed, HolderShare
  <2>4. Mul(One, z[i]) = z[i]
    BY <1>3, FrClosed, FrMultiplicative
  <2>5. QED
    BY <2>2, <2>3, <2>4 DEF UpdatableShareSimple, Unwrap
<1>5. DOMAIN m = S /\ \A i \in S : m[i].decryption_share = z[i] /\ m[i].domain_point = Point(i)
  BY <1>4
<1>6. PICK basket : basket = Collect(m)
  OBVIOUS
<1> HIDE DEF m
<1>7. basket = [j \in 1..T |-> m[ks[j]]]
  BY <1>2, <1>5, <1>6, GroupGiven
<1>8. /\ DOMAIN basket = 1..T
      /\ \A j \in 1..T : basket[j].decryption_share = z[ks[j]] /\ basket[j].domain_point = xs[j]
  BY <1>2, <1>3, <1>5, <1>7 DEF GroupPoints
<1>9. [j \in DOMAIN basket |-> basket[j].domain_point] = xs
  BY <1>3, <1>8
<1>10. CombineSharesSimple(basket)
         = FSum([j \in 1..T |-> Mul(basket[j].decryption_share, L[j])])
  BY <1>3, <1>8, <1>9 DEF CombineSharesSimple, ShareCombineSimple
<1>11. [j \in 1..T |-> Mul(basket[j].decryption_share, L[j])] = [j \in 1..T |-> Mul(L[j], z[ks[j]])]
  BY <1>3, <1>8, FrMultiplicative
<1>12. CombineSharesSimple(basket) = GroupSecret(S, z)
  BY <1>2, <1>10, <1>11 DEF GroupSecret
<1>13. OpensSimple(S, copies, dks)
         <=> DecryptWithSharedSecret(Sample, "aad", CombineSharesSimple(basket)) = Ok("m")
  BY <1>6 DEF OpensSimple, m
<1>14. QED
  BY <1>1, <1>12, <1>13, SampleGiven

\* So does the precomputed variant.
LEMMA PrecomputedOpens ==
    ASSUME NEW S \in Groups, NEW copies, NEW dks, CopyOK(S, copies, dks)
    PROVE  OpensPrecomputed(S, copies, dks) <=> GroupSecret(S, Privates(S, copies, dks)) = Phi[1]
<1> DEFINE points == [i \in S |-> Point(i)]
           share(i) == UpdatableSharePrecomputed(GetShare(copies[i], i).val, dks[i],
                                                 Header(Sample), "aad", i, points).val
           m == [i \in S |-> share(i)]
<1>1. PICK z : z = Privates(S, copies, dks)
  OBVIOUS
<1>2. PICK ks, xs, L : ks = SortedKeys(S) /\ xs = GroupPoints(S) /\ L = Weights(S)
  OBVIOUS
<1>3. /\ ks \in [1..T -> S] /\ xs \in [1..T -> Fr] /\ L \in [1..T -> Fr] /\ z \in [S -> Fr]
      /\ L = PrepareCombineSimple(xs)
      /\ \A j \in 1..T : Rank(S, ks[j]) = j
      /\ \A k \in S : Rank(S, k) \in 1..T
  BY <1>1, <1>2, GroupGiven, PrivatesGiven DEF Weights
<1>4. DOMAIN points = S
  OBVIOUS
<1>5. Collect(points) = xs
  <2>1. Collect(points) = [j \in 1..T |-> points[ks[j]]]
    <3> HIDE DEF points
    <3> QED
      BY <1>2, <1>4, GroupGiven
  <2>2. \A j \in 1..T : points[ks[j]] = Point(ks[j])
    BY <1>3
  <2>3. QED
    BY <1>2, <2>1, <2>2 DEF GroupPoints
<1> HIDE DEF points
<1>6. \A i \in S : SelectedCoefficient(points, i) = L[Rank(S, i)]
  BY <1>3, <1>4, <1>5 DEF SelectedCoefficient, Rank
<1>7. \A i \in S : share(i).decryption_share = Mul(L[Rank(S, i)], z[i])
  <2>1. TAKE i \in S
  <2>2. PICK y, c : y = GetShare(copies[i], i).val /\ c = L[Rank(S, i)]
    OBVIOUS
  <2>3. c \in Fr
    BY <1>3, <2>2
  <2>4. /\ Succeeded(Unblind(y, dks[i]))
        /\ CreateShare(y, dks[i], Header(Sample), "aad", c).val.decryption_share = Mul(c, z[i])
    BY <1>1, <2>2, <2>3, HolderShare
  <2>5. UpdatableSharePrecomputed(y, dks[i], Header(Sample), "aad", i, points)
          = CreateShare(y, dks[i], Header(Sample), "aad", c)
    BY <1>4, <1>6, <2>2, <2>4 DEF UpdatableSharePrecomputed
  <2>6. QED
    BY <2>2, <2>4, <2>5
<1>8. DOMAIN m = S /\ \A i \in S : m[i].decryption_share = Mul(L[Rank(S, i)], z[i])
  BY <1>7
<1>9. PICK basket : basket = Collect(m)
  OBVIOUS
<1> HIDE DEF m
<1>10. basket = [j \in 1..T |-> m[ks[j]]]
  BY <1>2, <1>8, <1>9, GroupGiven
<1>11. /\ DOMAIN basket = 1..T
       /\ \A j \in 1..T : basket[j].decryption_share = Mul(L[j], z[ks[j]])
  BY <1>3, <1>8, <1>10
<1>12. [j \in DOMAIN basket |-> basket[j].decryption_share] = [j \in 1..T |-> Mul(L[j], z[ks[j]])]
  BY <1>11
<1>13. ShareCombinePrecomputed(basket) = GroupSecret(S, z)
  BY <1>2, <1>12 DEF ShareCombinePrecomputed, GroupSecret
<1>14. OpensPrecomputed(S, copies, dks)
         <=> DecryptWithSharedSecret(Sample, "aad", ShareCombinePrecomputed(basket)) = Ok("m")
  BY <1>9 DEF OpensPrecomputed, m, points
<1>15. QED
  BY <1>1, <1>13, <1>14, SampleGiven
-----------------------------------------------------------------------------
\* An update transcript as it may be posted: commitments to a polynomial that fits, and
\* either that polynomial is short enough for the domain or the entries commit to its
\* values.
Entry == [update : Fr, commitment : Fr]
UpdateOK(ut) ==
    /\ Fits(ut.coeffs) /\ Len(ut.coeffs) >= 1
    /\ DOMAIN ut.updates \subseteq Slots
    /\ \A i \in DOMAIN ut.updates : ut.updates[i] \in Entry
    /\ \/ Len(ut.coeffs) <= T
       \/ \A i \in DOMAIN ut.updates : ut.updates[i].commitment = Eval(ut.coeffs, Point(i))

\* An update transcript made correctly for the keys ks.
SoundUpdate(ut, ks) ==
    /\ ut.coeffs \in [1..T -> Fr] /\ ut.coeffs[1] = Zero
    /\ DOMAIN ut.updates = Slots
    /\ \A i \in Slots :
         ut.updates[i] = [update     |-> Mul(ks[i], Eval(ut.coeffs, Point(i))),
                          commitment |-> Eval(ut.coeffs, Point(i))]

\* PrepareShareUpdates over the present context.
LEMMA PreparedGiven ==
    ASSUME KeysOK(keys), NEW poly, Fits(poly),
           NEW ut, ut = PrepareShareUpdates(DomainAndKeyMap(ContextNow), poly)
    PROVE  /\ ut.coeffs = poly /\ DOMAIN ut.updates = Slots
           /\ \A i \in Slots :
                /\ Eval(poly, Point(i)) \in Fr /\ keys[i] \in Fr
                /\ ut.updates[i] = [update     |-> Mul(keys[i], Eval(poly, Point(i))),
                                    commitment |-> Eval(poly, Point(i))]
                /\ ut.updates[i] \in Entry
<1>1. PICK d : d = ContextNow
  OBVIOUS
<1>2. /\ ExactContext(d) /\ d.domain = N /\ \A i \in Slots : d.validators[i].ek = keys[i]
  BY <1>1, ContextNowGiven
<1>3. N \in Nat /\ Slots = 0..(N - 1)
  BY CohortGiven, SlotsGiven
<1>4. DOMAIN d.validators = Slots
  BY <1>2, <1>3 DEF ExactContext
<1>5. Cardinality(DOMAIN d.validators) = N
  BY <1>3, <1>4, ValuesOfDense
<1>6. DomainPoints(d) = [k \in 1..N |-> DomainElement(N, k - 1)]
  BY <1>2, <1>5 DEF DomainPoints
<1>7. ASSUME NEW i \in Slots PROVE DomainPoints(d)[i + 1] = Point(i)
  <2>1. i \in Nat /\ i < N
    BY <1>3
  <2>2. PICK k : k = i + 1
    OBVIOUS
  <2>3. k \in 1..N /\ k - 1 = i
    BY <1>3, <2>1, <2>2
  <2>4. DomainPoints(d)[k] = DomainElement(N, i)
    BY <1>6, <2>3
  <2>5. QED
    BY <2>2, <2>4, SlotsGiven
<1>8. PICK pk : pk = DomainAndKeyMap(d)
  OBVIOUS
<1>9. DOMAIN pk = Slots /\ \A i \in Slots : pk[i].point = Point(i) /\ pk[i].ek = keys[i]
  BY <1>2, <1>4, <1>7, <1>8 DEF DomainAndKeyMap
<1>10. ut = PrepareShareUpdates(pk, poly)
  BY <1>1, <1>8
<1>11. ut.coeffs = poly /\ DOMAIN ut.updates = Slots
  BY <1>9, <1>10 DEF PrepareShareUpdates
<1>12. ASSUME NEW i \in Slots
       PROVE  /\ Eval(poly, Point(i)) \in Fr /\ keys[i] \in Fr
              /\ ut.updates[i] = [update     |-> Mul(keys[i], Eval(poly, Point(i))),
                                  commitment |-> Eval(poly, Point(i))]
              /\ ut.updates[i] \in Entry
  <2>1. poly \in Seq(Fr) /\ Point(i) \in Fr /\ keys[i] \in Fr
    BY SlotsGiven DEF Fits, KeysOK
  <2>2. Eval(poly, Point(i)) \in Fr
    BY <2>1, EvalType
  <2>3. ut.updates[i] = [update     |-> Mul(keys[i], Eval(poly, Point(i))),
                         commitment |-> Eval(poly, Point(i))]
    BY <1>9, <1>10 DEF PrepareShareUpdates
  <2>4. Mul(keys[i], Eval(poly, Point(i))) \in Fr
    BY <2>1, <2>2, FrClosed
  <2>5. QED
    BY <2>1, <2>2, <2>3, <2>4 DEF Entry
<1>13. QED
  BY <1>11, <1>12

\* A random polynomial with the root zero has the free term zero.
LEMMA RootGiven ==
    ASSUME NEW tail \in Tails, NEW poly, poly = PolynomialWithRoot(tail, Zero)
    PROVE  poly \in [1..T -> Fr] /\ poly[1] = Zero /\ Fits(poly) /\ Len(poly) = T
<1>1. tail \in Seq(Fr) /\ Len(tail) = T - 1 /\ T \in Nat /\ T >= 1
  BY MobilityAssumption, CohortGiven DEF T
<1>2. PICK p : p = <<Zero>> \o tail
  OBVIOUS
<1>3. p \in Seq(Fr) /\ Len(p) = T /\ p[1] = Zero
  BY <1>1, <1>2, FrClosed
<1>4. p \in [1..T -> Fr] /\ 1 \in 1..T
  BY <1>1, <1>3
<1>5. Eval(p, Zero) = Zero
  BY <1>1, <1>3, <1>4, EvalAtZero
<1>6. Sub(Zero, Zero) = Zero
  BY SubFacts, FrClosed
<1>7. poly = [p EXCEPT ![1] = Zero]
  BY <1>2, <1>5, <1>6 DEF PolynomialWithRoot
<1>8. poly \in [1..T -> Fr] /\ poly[1] = Zero
  BY <1>4, <1>7, FrClosed
<1>9. poly \in Seq(Fr) /\ Len(poly) = T
  BY <1>1, <1>8, ResizeSame
<1>10. QED
  BY <1>1, <1>8, <1>9 DEF Fits

\* generate_refresh_transcript makes a correct update transcript for the present keys.
LEMMA GeneratedGiven ==
    ASSUME KeysOK(keys), NEW tail \in Tails,
           NEW ut, ut = GenerateRefreshTranscript(ContextNow, tail)
    PROVE  UpdateOK(ut) /\ SoundUpdate(ut, keys)
<1>1. PICK poly : poly = PolynomialWithRoot(tail, Zero)
  OBVIOUS
<1>2. poly \in [1..T -> Fr] /\ poly[1] = Zero /\ Fits(poly) /\ Len(poly) = T
  BY <1>1, RootGiven
<1>3. ut = PrepareShareUpdates(DomainAndKeyMap(ContextNow), poly)
  BY <1>1 DEF GenerateRefreshTranscript
<1>4. /\ ut.coeffs = poly /\ DOMAIN ut.updates = Slots
      /\ \A i \in Slots :
            /\ ut.updates[i] = [update     |-> Mul(keys[i], Eval(poly, Point(i))),
                                commitment |-> Eval(poly, Point(i))]
            /\ ut.updates[i] \in Entry
  BY <1>2, <1>3, PreparedGiven
<1>5. T >= 1 /\ T \in Nat
  BY CohortGiven
<1>6. UpdateOK(ut)
  <2>1. Fits(ut.coeffs) /\ Len(ut.coeffs) >= 1 /\ Len(ut.coeffs) <= T
    BY <1>2, <1>4, <1>5
  <2>2. DOMAIN ut.updates \subseteq Slots /\ \A i \in DOMAIN ut.updates : ut.updates[i] \in Entry
    BY <1>4
  <2>3. QED
    BY <2>1, <2>2 DEF UpdateOK
<1>7. SoundUpdate(ut, keys)
  BY <1>2, <1>4 DEF SoundUpdate
<1>8. QED
  BY <1>6, <1>7

\* What a faulty producer posts still has the shape of an update transcript.
LEMMA SpoiltGiven ==
    ASSUME KeysOK(keys), NEW tail \in Tails, NEW how \in UpdateFaults, NEW victim \in Slots,
           NEW poly, poly = PolynomialWithRoot(tail, Zero),
           NEW ut, ut = GenerateRefreshTranscript(ContextNow, tail),
           NEW w, w = SpoilUpdate(how, ContextNow, poly, ut, victim)
    PROVE  UpdateOK(w)
<1>1. poly \in [1..T -> Fr] /\ poly[1] = Zero /\ Fits(poly) /\ Len(poly) = T
  BY RootGiven
<1>2. T \in Nat /\ T >= 1
  BY CohortGiven
<1>3. how \in {"update", "commitment", "root", "missing", "degree"}
  BY MobilityAssumption
<1>4. /\ ut.coeffs = poly /\ DOMAIN ut.updates = Slots
      /\ \A i \in Slots : ut.updates[i] \in Entry
  BY <1>1, PreparedGiven DEF GenerateRefreshTranscript
<1>5. ut = [coeffs |-> poly, updates |-> ut.updates]
  BY <1>1 DEF GenerateRefreshTranscript, PrepareShareUpdates
<1>6. PICK us : us = ut.updates
  OBVIOUS
<1>7. us \in [Slots -> Entry] /\ ut = [coeffs |-> poly, updates |-> us]
  <2>1. us = [i \in Slots |-> us[i]]
    BY <1>4, <1>6 DEF GenerateRefreshTranscript, PrepareShareUpdates
  <2>2. QED
    BY <1>4, <1>5, <1>6, <2>1
<1>8. keys[victim] \in Fr /\ us[victim] \in Entry /\ us[victim].update \in Fr /\ us[victim].commitment \in Fr
  BY <1>7 DEF KeysOK, Entry
<1>9. ASSUME NEW vs, w = [coeffs |-> poly, updates |-> vs], DOMAIN vs \subseteq Slots,
             \A i \in DOMAIN vs : vs[i] \in Entry
      PROVE  UpdateOK(w)
  BY <1>1, <1>2, <1>9 DEF UpdateOK
<1>10. CASE how = "update"
  <2>1. PICK e : e = [us[victim] EXCEPT !.update = Add(@, One)]
    OBVIOUS
  <2>2. e \in Entry
    BY <1>8, <2>1, FrClosed DEF Entry
  <2>3. w = [ut EXCEPT !.updates[victim].update = Add(@, One)]
    BY <1>10 DEF SpoilUpdate
  <2>4. w = [coeffs |-> poly, updates |-> [us EXCEPT ![victim] = e]]
    BY <1>7, <2>1, <2>3
  <2>5. [us EXCEPT ![victim] = e] \in [Slots -> Entry]
    BY <1>7, <2>2
  <2>6. QED
    BY <1>9, <2>4, <2>5
<1>11. CASE how = "commitment"
  <2>1. PICK e : e = [update |-> Add(us[victim].update, keys[victim]),
                      commitment |-> Add(us[victim].commitment, One)]
    OBVIOUS
  <2>2. e \in Entry
    BY <1>8, <2>1, FrClosed DEF Entry
  <2>3. w = [ut EXCEPT !.updates[victim] =
               [update |-> Add(@.update, keys[victim]), commitment |-> Add(@.commitment, One)]]
    BY <1>11 DEF SpoilUpdate
  <2>4. w = [coeffs |-> poly, updates |-> [us EXCEPT ![victim] = e]]
    BY <1>7, <2>1, <2>3
  <2>5. [us EXCEPT ![victim] = e] \in [Slots -> Entry]
    BY <1>7, <2>2
  <2>6. QED
    BY <1>9, <2>4, <2>5
<1>12. CASE how = "root"
  <2>1. PICK q : q = [poly EXCEPT ![1] = Add(@, One)]
    OBVIOUS
  <2>2. q \in [1..T -> Fr]
    BY <1>1, <1>2, <2>1, FrClosed
  <2>3. q \in Seq(Fr) /\ Len(q) = T
    BY <1>2, <2>2, ResizeSame
  <2>4. Fits(q)
    BY <1>2, <2>3 DEF Fits
  <2>5. w = PrepareShareUpdates(DomainAndKeyMap(ContextNow), q)
    BY <1>12, <2>1 DEF SpoilUpdate
  <2>6. /\ w.coeffs = q /\ DOMAIN w.updates = Slots
        /\ \A i \in Slots : w.updates[i] \in Entry
    BY <2>4, <2>5, PreparedGiven
  <2>7. QED
    BY <1>2, <2>3, <2>4, <2>6 DEF UpdateOK
<1>13. CASE how = "missing"
  <2>1. PICK vs : vs = [i \in Slots \ {victim} |-> us[i]]
    OBVIOUS
  <2>2. w = [ut EXCEPT !.updates = [i \in DOMAIN ut.updates \ {victim} |-> ut.updates[i]]]
    BY <1>13 DEF SpoilUpdate
  <2>3. DOMAIN us = Slots
    BY <1>7
  <2>4. w = [ut EXCEPT !.updates = vs]
    BY <1>6, <2>1, <2>2, <2>3
  <2>5. w = [coeffs |-> poly, updates |-> vs]
    BY <1>7, <2>4
  <2>6. DOMAIN vs \subseteq Slots /\ \A i \in DOMAIN vs : vs[i] \in Entry
    BY <1>7, <2>1
  <2>7. QED
    BY <1>9, <2>5, <2>6
<1>14. CASE how = "degree"
  <2>1. PICK q : q = Append(poly, One)
    OBVIOUS
  <2>2. poly \in Seq(Fr)
    BY <1>1 DEF Fits
  <2>3. q \in Seq(Fr) /\ Len(q) = T + 1
    BY <1>1, <2>1, <2>2, FrClosed
  <2>4. Fits(q)
    BY <1>2, <2>3 DEF Fits
  <2>5. w = PrepareShareUpdates(DomainAndKeyMap(ContextNow), q)
    BY <1>14, <2>1 DEF SpoilUpdate
  <2>6. /\ w.coeffs = q /\ DOMAIN w.updates = Slots
        /\ \A i \in Slots :
             /\ w.updates[i] = [update     |-> Mul(keys[i], Eval(q, Point(i))),
                                commitment |-> Eval(q, Point(i))]
             /\ w.updates[i] \in Entry
    BY <2>4, <2>5, PreparedGiven
  <2>7. \A i \in Slots : w.updates[i].commitment = Eval(w.coeffs, Point(i))
    <3>1. TAKE i \in Slots
    <3>2. PICK a, b : a = Mul(keys[i], Eval(q, Point(i))) /\ b = Eval(q, Point(i))
      OBVIOUS
    <3>3. w.updates[i] = [update |-> a, commitment |-> b]
      BY <2>6, <3>2
    <3>4. QED
      BY <2>6, <3>2, <3>3
  <2>8. Fits(w.coeffs) /\ Len(w.coeffs) >= 1
    BY <1>2, <2>3, <2>4, <2>6
  <2>9. DOMAIN w.updates \subseteq Slots /\ \A i \in DOMAIN w.updates : w.updates[i] \in Entry
    BY <2>6
  <2>10. \A i \in DOMAIN w.updates : w.updates[i].commitment = Eval(w.coeffs, Point(i))
    BY <2>7, <2>9
  <2>11. QED
    BY <2>8, <2>9, <2>10 DEF UpdateOK
<1>15. QED
  BY <1>3, <1>10, <1>11, <1>12, <1>13, <1>14

\* collect() over the slots lists the entries by share index.
LEMMA CollectSlots ==
    ASSUME NEW m, DOMAIN m = Slots
    PROVE  Collect(m) = [k \in 1..N |-> m[k - 1]]
<1>1. N \in Nat /\ DOMAIN m = 0..(N - 1)
  BY CohortGiven, SlotsGiven
<1>2. Cardinality(DOMAIN m) = N /\ ValuesOf(m) = [k \in 1..N |-> m[k - 1]]
  BY <1>1, ValuesOfDense
<1>3. PICK s : s = [k \in 1..N |-> m[k - 1]]
  OBVIOUS
<1>4. SubSeq(s, 1, N) = s
  BY <1>1, <1>3
<1>5. QED
  BY <1>2, <1>3, <1>4 DEF Collect

\* One turn of the loop of verify_recovery passes or fails; it never returns Ok(false).
LEMMA TurnGiven ==
    ASSUME NEW ut, NEW ks, NEW cs, NEW i, NEW r, r = VerifyUpdateAt(ut, ks, cs, i)
    PROVE  /\ Succeeded(r) => Holds(r)
           /\ Succeeded(r) <=>
                /\ i \in DOMAIN ks /\ i + 1 \in DOMAIN cs
                /\ Mul(One, ut.updates[i].update) = Mul(ut.updates[i].commitment, ks[i])
                /\ cs[i + 1] = ut.updates[i].commitment
<1>1. PICK v : v = VerifyUpdate(ut.updates[i], ks[i])
  OBVIOUS
<1>2. Succeeded(v) <=> Mul(One, ut.updates[i].update) = Mul(ut.updates[i].commitment, ks[i])
  BY <1>1 DEF VerifyUpdate, Pairing, Succeeded, Ok, Err
<1>3. r = IF i \notin DOMAIN ks THEN Panic("validator_public_keys.get")
          ELSE IF ~ Succeeded(v) THEN Panic("update.verify")
          ELSE IF i + 1 \notin DOMAIN cs THEN Err(<<"InvalidShareIndex", i>>)
          ELSE IF cs[i + 1] # ut.updates[i].commitment THEN Panic("assert_eq")
          ELSE Ok(TRUE)
  BY <1>1 DEF VerifyUpdateAt
<1>4. /\ Succeeded(Ok(TRUE)) /\ Holds(Ok(TRUE))
      /\ \A e : ~ Succeeded(Err(e)) /\ ~ Succeeded(Panic(e))
  BY DEF Succeeded, Holds, Ok, Err, Panic
<1>5. QED
  BY <1>2, <1>3, <1>4

\* verify_recovery passes when every turn does and the root is one.
LEMMA RecoveryGiven ==
    ASSUME NEW ut, UpdateOK(ut), NEW ks, NEW n, NEW cs, cs = Fft(ut.coeffs, n)
    PROVE  Succeeded(VerifyRefresh(ut, ks, n)) <=>
             /\ \A i \in DOMAIN ut.updates : Succeeded(VerifyUpdateAt(ut, ks, cs, i))
             /\ ut.coeffs[1] = Zero
<1>1. PICK K : K = DOMAIN ut.updates
  OBVIOUS
<1>2. K \in SUBSET Nat /\ IsFiniteSet(K)
  BY <1>1, SlotsGiven, FS_Subset DEF UpdateOK
<1>3. PICK m : m = [i \in K |-> VerifyUpdateAt(ut, ks, cs, i)]
  OBVIOUS
<1>4. DOMAIN m = K /\ \A i \in K : m[i] = VerifyUpdateAt(ut, ks, cs, i)
  BY <1>3
<1>5. PICK c, sk : c = Cardinality(K) /\ sk = SortedKeys(K)
  OBVIOUS
<1>6. /\ c \in Nat /\ sk \in [1..c -> K]
      /\ \A k \in K : Rank(K, k) \in 1..c /\ sk[Rank(K, k)] = k
      /\ ValuesOf(m) = [j \in 1..c |-> m[sk[j]]]
  BY <1>2, <1>4, <1>5, ValuesRanked
<1>7. PICK turns : turns = ValuesOf(m)
  OBVIOUS
<1>8. DOMAIN turns = 1..c /\ DOMAIN turns \subseteq Nat /\ \A j \in 1..c : turns[j] = m[sk[j]]
  BY <1>6, <1>7
<1>9. \A i \in K : Succeeded(m[i]) => Holds(m[i])
  BY <1>4, TurnGiven
<1>10. Succeeded(FirstFailure(turns)) <=> \A i \in K : Succeeded(m[i])
  <2>1. ASSUME Succeeded(FirstFailure(turns)), NEW i \in K PROVE Succeeded(m[i])
    <3>1. CASE \A j \in DOMAIN turns : Holds(turns[j])
      <4>1. PICK j \in 1..c : sk[j] = i
        BY <1>6
      <4>2. QED
        BY <1>8, <3>1, <4>1 DEF Holds
    <3>2. CASE \E j \in DOMAIN turns : FirstFailure(turns) = turns[j] /\ ~ Holds(turns[j])
      <4>1. PICK j \in 1..c : FirstFailure(turns) = m[sk[j]] /\ ~ Holds(m[sk[j]])
        BY <1>8, <3>2
      <4>2. QED
        BY <1>6, <1>9, <2>1, <4>1
    <3>3. QED
      BY <1>8, <3>1, <3>2, FirstFailureCases
  <2>2. ASSUME \A i \in K : Succeeded(m[i]) PROVE Succeeded(FirstFailure(turns))
    <3>1. \A j \in DOMAIN turns : Holds(turns[j])
      BY <1>6, <1>8, <1>9, <2>2
    <3>2. FirstFailure(turns) = Ok(TRUE)
      BY <1>8, <3>1, AllTurnsPass
    <3>3. QED
      BY <3>2 DEF Succeeded, Ok
  <2>3. QED
    BY <2>1, <2>2
<1>11. ut.coeffs # <<>> /\ Eval(ut.coeffs, Zero) = ut.coeffs[1]
  <2>1. PICK n1 \in Nat : n1 = Len(ut.coeffs) /\ n1 >= 1 /\ ut.coeffs \in Seq(Fr)
    BY DEF UpdateOK, Fits
  <2>2. ut.coeffs \in [1..n1 -> Fr] /\ n1 \in Nat \ {0} /\ ut.coeffs # <<>>
    BY <2>1
  <2>3. QED
    BY <2>2, EvalAtZero
<1>12. VerifyRefresh(ut, ks, n)
         = IF ~ Succeeded(FirstFailure(turns)) THEN FirstFailure(turns)
           ELSE IF ut.coeffs = <<>> THEN Panic("coeffs")
           ELSE IF Eval(ut.coeffs, Zero) # Zero THEN Panic("root")
           ELSE Ok(TRUE)
  BY <1>1, <1>3, <1>7 DEF VerifyRefresh, VerifyRecovery
<1>13. Succeeded(VerifyRefresh(ut, ks, n))
         <=> Succeeded(FirstFailure(turns)) /\ ut.coeffs[1] = Zero
  BY <1>11, <1>12 DEF Succeeded, Panic, Ok
<1>14. QED
  BY <1>1, <1>4, <1>10, <1>13

\* The commitments an accepted transcript is checked against are the values of its
\* polynomial.
LEMMA UpdateFft ==
    ASSUME NEW p \in Seq(Fr), Len(p) <= T, NEW i \in Slots
    PROVE  i + 1 \in DOMAIN Fft(p, N) /\ Fft(p, N)[i + 1] = Eval(p, Point(i))
<1>1. /\ N \in 0..MaxDomain /\ DomainSize(N) \in Nat /\ N <= DomainSize(N)
      /\ i \in 0..(DomainSize(N) - 1) /\ Point(i) = DomainElement(N, i)
  BY SlotsGiven
<1>2. Len(p) <= DomainSize(N)
  BY <1>1, CohortGiven
<1>3. QED
  BY <1>1, <1>2, FftValues

\* An accepted update transcript has a root at zero, and what it adds to a slot is the
\* value of its polynomial under the slot's key.
LEMMA AcceptedUpdate ==
    ASSUME NEW ut, UpdateOK(ut), NEW ks, KeysOK(ks), Succeeded(VerifyRefresh(ut, ks, N))
    PROVE  /\ ut.coeffs[1] = Zero
           /\ \A i \in DOMAIN ut.updates :
                ut.updates[i].update = Mul(ks[i], Eval(ut.coeffs, Point(i)))
<1>1. PICK cs : cs = Fft(ut.coeffs, N)
  OBVIOUS
<1>2. /\ \A i \in DOMAIN ut.updates : Succeeded(VerifyUpdateAt(ut, ks, cs, i))
      /\ ut.coeffs[1] = Zero
  BY <1>1, RecoveryGiven
<1>3. ASSUME NEW i \in DOMAIN ut.updates
      PROVE  ut.updates[i].update = Mul(ks[i], Eval(ut.coeffs, Point(i)))
  <2>1. PICK e : e = ut.updates[i]
    OBVIOUS
  <2>2. i \in Slots /\ e.update \in Fr /\ e.commitment \in Fr /\ ks[i] \in Fr
    BY <2>1 DEF UpdateOK, Entry, KeysOK
  <2>3. Mul(One, e.update) = Mul(e.commitment, ks[i]) /\ cs[i + 1] = e.commitment
    BY <1>2, <2>1, TurnGiven
  <2>4. e.commitment = Eval(ut.coeffs, Point(i))
    <3>1. CASE Len(ut.coeffs) <= T
      BY <1>1, <2>2, <2>3, <3>1, UpdateFft DEF UpdateOK, Fits
    <3>2. CASE \A j \in DOMAIN ut.updates : ut.updates[j].commitment = Eval(ut.coeffs, Point(j))
      BY <2>1, <3>2
    <3>3. QED
      BY <3>1, <3>2 DEF UpdateOK
  <2>5. Mul(One, e.update) = e.update /\ Mul(e.commitment, ks[i]) = Mul(ks[i], e.commitment)
    BY <2>2, FrClosed, FrMultiplicative
  <2>6. QED
    BY <2>1, <2>3, <2>4, <2>5
<1>4. QED
  BY <1>2, <1>3

\* A correct update transcript for the keys ks passes verify_refresh and every check of
\* apply_share_updates.
LEMMA SoundAccepted ==
    ASSUME NEW ut, UpdateOK(ut), NEW ks, KeysOK(ks), SoundUpdate(ut, ks)
    PROVE  /\ Succeeded(VerifyRefresh(ut, ks, N))
           /\ \A i \in Slots : /\ i \in DOMAIN ut.updates
                               /\ Succeeded(VerifyUpdate(ut.updates[i], ks[i]))
<1>1. PICK cs : cs = Fft(ut.coeffs, N)
  OBVIOUS
<1>2. /\ ut.coeffs \in [1..T -> Fr] /\ ut.coeffs[1] = Zero
      /\ DOMAIN ut.updates = Slots
  BY DEF SoundUpdate
<1>3. ut.coeffs \in Seq(Fr) /\ Len(ut.coeffs) <= T
  BY SMTT(60), <1>2, ResizeSame, CohortGiven
<1>4. ASSUME NEW i \in Slots
      PROVE  /\ i \in DOMAIN ks /\ i + 1 \in DOMAIN cs
             /\ Mul(One, ut.updates[i].update) = Mul(ut.updates[i].commitment, ks[i])
             /\ cs[i + 1] = ut.updates[i].commitment
  <2>1. PICK v : v = Eval(ut.coeffs, Point(i))
    OBVIOUS
  <2>2. v \in Fr /\ ks[i] \in Fr /\ i \in DOMAIN ks
    BY <1>3, <2>1, EvalType, SlotsGiven DEF KeysOK
  <2>3. ut.updates[i] = [update |-> Mul(ks[i], v), commitment |-> v]
    BY <2>1 DEF SoundUpdate
  <2>4. i + 1 \in DOMAIN cs /\ cs[i + 1] = v
    BY <1>1, <1>3, <2>1, UpdateFft
  <2>5. Mul(One, Mul(ks[i], v)) = Mul(v, ks[i])
    BY <2>2, FrClosed, FrMultiplicative
  <2>6. QED
    BY <2>2, <2>3, <2>4, <2>5
<1>5. \A i \in DOMAIN ut.updates : Succeeded(VerifyUpdateAt(ut, ks, cs, i))
  BY <1>2, <1>4, TurnGiven
<1>6. Succeeded(VerifyRefresh(ut, ks, N))
  BY <1>1, <1>2, <1>5, RecoveryGiven
<1>7. \A i \in Slots : Succeeded(VerifyUpdate(ut.updates[i], ks[i]))
  BY <1>4 DEF VerifyUpdate, Pairing, Succeeded, Ok
<1>8. QED
  BY <1>2, <1>6, <1>7

\* A holder's copy of the aggregate: the commitments are the ceremony's.
CopyForm(at) ==
    /\ at \in AggregatedTranscript
    /\ at.aggregate.coeffs = Phi /\ at.aggregate.shares \in [1..N -> Fr]

\* Update transcripts by producer.
BatchOK(batch, uts) ==
    /\ batch \in SUBSET Nat /\ IsFiniteSet(batch) /\ DOMAIN uts = batch
    /\ \A p \in batch : UpdateOK(uts[p])
CoeffsOf(uts) == [p \in DOMAIN uts |-> uts[p].coeffs]

\* The new shares refresh collects.
Applied(at, uts, ks, i) == ApplyShareUpdates(at.aggregate.shares[i + 1], ks[i], uts, i)

\* refresh passes when every transcript and every application does, and collects the
\* new shares by slot.
LEMMA RefreshGiven ==
    ASSUME NEW at, CopyForm(at), NEW uts, NEW ks, DOMAIN ks = Slots
    PROVE  /\ Succeeded(ApiRefresh(at, uts, ks)) <=>
                /\ \A p \in DOMAIN uts : Succeeded(VerifyRefresh(uts[p], ks, N))
                /\ \A i \in Slots : Succeeded(Applied(at, uts, ks, i))
           /\ Succeeded(ApiRefresh(at, uts, ks)) =>
                ApiRefresh(at, uts, ks).val =
                  [aggregate  |-> [at.aggregate EXCEPT !.shares =
                                     [k \in 1..N |-> Applied(at, uts, ks, k - 1).val]],
                   public_key |-> Phi[1]]
<1>1. PICK agg : agg = at.aggregate
  OBVIOUS
<1>2. /\ agg \in Transcript /\ agg.coeffs = Phi /\ agg.shares \in [1..N -> Fr] /\ N \in Nat
      /\ Slots = 0..(N - 1)
  BY <1>1, CohortGiven, SlotsGiven DEF CopyForm, AggregatedTranscript
<1>3. Len(agg.shares) = N /\ DOMAIN agg.shares = 1..N
  BY <1>2
<1>4. \A i \in Slots : i + 1 \in DOMAIN agg.shares
  BY <1>2, <1>3
<1>5. PICK up : up = [i \in DOMAIN ks |->
                        IF i + 1 \in DOMAIN agg.shares
                        THEN ApplyShareUpdates(agg.shares[i + 1], ks[i], uts, i)
                        ELSE Panic("get_share_for_index_and_pubkey")]
  OBVIOUS
<1>6. \A i \in Slots : up[i] = Applied(at, uts, ks, i)
  BY <1>1, <1>4, <1>5 DEF Applied
<1>7. PICK m, sh : m = [i \in DOMAIN ks |-> up[i].val] /\ sh = Collect(m)
  OBVIOUS
<1>8. DOMAIN m = Slots
  BY <1>7
<1>9. sh = [k \in 1..N |-> m[k - 1]]
  BY ZenonT(90), <1>7, <1>8, CollectSlots
<1>10. \A k \in 1..N : m[k - 1] = Applied(at, uts, ks, k - 1).val
  <2>1. TAKE k \in 1..N
  <2>2. PICK i \in Slots : i = k - 1
    BY <1>2
  <2>3. QED
    BY <1>6, <1>7, <2>2
<1>11. sh = [k \in 1..N |-> Applied(at, uts, ks, k - 1).val]
  BY <1>9, <1>10
<1>12. PICK ra : ra = RefreshAggregate(agg, uts, ks)
  OBVIOUS
<1>13. ra = IF \E p \in DOMAIN uts : ~ Succeeded(VerifyRefresh(uts[p], ks, N))
            THEN Panic("verify_refresh")
            ELSE IF \E i \in DOMAIN ks : ~ Succeeded(up[i])
            THEN Panic("apply_share_updates")
            ELSE Ok([agg EXCEPT !.shares = sh])
  BY <1>3, <1>5, <1>7, <1>12 DEF RefreshAggregate
<1>14. /\ Succeeded(ra) <=>
            /\ \A p \in DOMAIN uts : Succeeded(VerifyRefresh(uts[p], ks, N))
            /\ \A i \in Slots : Succeeded(up[i])
       /\ Succeeded(ra) => ra = Ok([agg EXCEPT !.shares = sh])
  BY <1>13 DEF Succeeded, Ok, Panic
<1>15. ApiRefresh(at, uts, ks) = Rewrap(ra)
  BY <1>1, <1>12 DEF ApiRefresh
<1>16. ~ Succeeded(ra) => ~ Succeeded(Rewrap(ra))
  BY DEF Rewrap, Succeeded, Panic
<1>17. ASSUME Succeeded(ra)
       PROVE  Rewrap(ra) = Ok([aggregate |-> [agg EXCEPT !.shares = sh], public_key |-> Phi[1]])
  <2>1. PICK new : new = [agg EXCEPT !.shares = sh]
    OBVIOUS
  <2>2. new.coeffs = Phi
    BY <1>2, <2>1 DEF Transcript
  <2>3. ra.val = new
    BY <1>14, <1>17, <2>1 DEF Ok
  <2>4. FromAggregate(new) = Ok([aggregate |-> new, public_key |-> Phi[1]])
    BY <2>2, SlotsGiven DEF FromAggregate
  <2>5. Unwrap(FromAggregate(new)) = FromAggregate(new)
    BY <2>4 DEF Unwrap, Succeeded, Ok
  <2>6. QED
    BY <1>17, <2>1, <2>3, <2>4, <2>5 DEF Rewrap
<1>18. Succeeded(Rewrap(ra)) <=> Succeeded(ra)
  BY <1>16, <1>17 DEF Succeeded, Ok
<1>19. \A i \in Slots : Succeeded(up[i]) <=> Succeeded(Applied(at, uts, ks, i))
  BY <1>6
<1>20. Succeeded(ApiRefresh(at, uts, ks)) <=>
         /\ \A p \in DOMAIN uts : Succeeded(VerifyRefresh(uts[p], ks, N))
         /\ \A i \in Slots : Succeeded(Applied(at, uts, ks, i))
  BY <1>14, <1>15, <1>18, <1>19
<1>21. ASSUME Succeeded(ApiRefresh(at, uts, ks))
       PROVE  ApiRefresh(at, uts, ks).val =
                 [aggregate  |-> [at.aggregate EXCEPT !.shares =
                                    [k \in 1..N |-> Applied(at, uts, ks, k - 1).val]],
                  public_key |-> Phi[1]]
  <2>1. ApiRefresh(at, uts, ks) = Ok([aggregate |-> [agg EXCEPT !.shares = sh], public_key |-> Phi[1]])
    BY <1>15, <1>17, <1>18, <1>21
  <2>2. ApiRefresh(at, uts, ks).val = [aggregate |-> [agg EXCEPT !.shares = sh], public_key |-> Phi[1]]
    BY <2>1 DEF Ok
  <2>3. QED
    BY <1>1, <1>11, <2>2
<1>22. QED
  BY <1>20, <1>21

\* Installing shares keeps the form of a copy.
LEMMA CopyKeepsForm ==
    ASSUME NEW at, CopyForm(at), NEW sh \in [1..N -> Fr], NEW new,
           new = [aggregate |-> [at.aggregate EXCEPT !.shares = sh], public_key |-> Phi[1]]
    PROVE  CopyForm(new) /\ new.aggregate.shares = sh
<1>1. PICK agg : agg = at.aggregate
  OBVIOUS
<1>2. agg \in Transcript /\ agg.coeffs = Phi /\ Phi[1] \in Fr /\ N \in Nat
  BY <1>1, CohortGiven, SlotsGiven DEF CopyForm, AggregatedTranscript
<1>3. sh \in Seq(Fr)
  BY <1>2, ResizeSame
<1>4. PICK ag : ag = [agg EXCEPT !.shares = sh]
  OBVIOUS
<1>5. ag \in Transcript /\ ag.coeffs = Phi /\ ag.shares = sh
  BY <1>2, <1>3, <1>4 DEF Transcript
<1>6. new = [aggregate |-> ag, public_key |-> Phi[1]]
  BY <1>1, <1>4
<1>7. new \in AggregatedTranscript /\ new.aggregate = ag
  BY <1>2, <1>5, <1>6 DEF AggregatedTranscript
<1>8. QED
  BY <1>5, <1>7 DEF CopyForm

\* What a slot of a copy holds after a refresh that passed: the old share plus the sum
\* of the batch's polynomials at the slot's point, under the slot's key.
LEMMA RefreshedCopy ==
    ASSUME NEW at, CopyForm(at), NEW batch, NEW uts, BatchOK(batch, uts), NEW ks, KeysOK(ks),
           Succeeded(ApiRefresh(at, uts, ks)), NEW new, new = ApiRefresh(at, uts, ks).val
    PROVE  /\ CopyForm(new)
           /\ \A p \in batch : uts[p].coeffs[1] = Zero
           /\ \A i \in Slots :
                new.aggregate.shares[i + 1]
                  = Add(at.aggregate.shares[i + 1],
                        Mul(ks[i], Eval(BatchTotal(batch, CoeffsOf(uts)), Point(i))))
<1>1. DOMAIN ks = Slots /\ N \in Nat /\ Slots = 0..(N - 1)
  BY CohortGiven, SlotsGiven DEF KeysOK
<1>2. /\ batch \in SUBSET Nat /\ IsFiniteSet(batch) /\ DOMAIN uts = batch
      /\ \A p \in batch : UpdateOK(uts[p])
  BY DEF BatchOK
<1>3. /\ \A p \in batch : Succeeded(VerifyRefresh(uts[p], ks, N))
      /\ \A i \in Slots : Succeeded(Applied(at, uts, ks, i))
      /\ new = [aggregate  |-> [at.aggregate EXCEPT !.shares =
                                  [k \in 1..N |-> Applied(at, uts, ks, k - 1).val]],
                public_key |-> Phi[1]]
  BY <1>1, <1>2, RefreshGiven
<1>4. \A p \in batch :
        /\ uts[p].coeffs[1] = Zero
        /\ \A i \in DOMAIN uts[p].updates :
             uts[p].updates[i].update = Mul(ks[i], Eval(uts[p].coeffs, Point(i)))
  BY <1>2, <1>3, AcceptedUpdate
<1>5. PICK cs : cs = CoeffsOf(uts)
  OBVIOUS
<1>6. \A p \in batch : cs[p] = uts[p].coeffs /\ Fits(cs[p])
  BY <1>2, <1>5 DEF CoeffsOf, UpdateOK
<1>7. PICK total : total = BatchTotal(batch, cs)
  OBVIOUS
<1>8. /\ total \in Poly
      /\ \A x, c \in Fr : FSum(ValuesOf([p \in batch |-> Mul(c, Eval(cs[p], x))])) = Mul(c, Eval(total, x))
  BY <1>2, <1>6, <1>7, BatchTotalGiven
<1>9. ASSUME NEW i \in Slots
      PROVE  /\ Applied(at, uts, ks, i).val
                  = Add(at.aggregate.shares[i + 1], Mul(ks[i], Eval(total, Point(i))))
             /\ Applied(at, uts, ks, i).val \in Fr
  <2>1. PICK y : y = at.aggregate.shares[i + 1]
    OBVIOUS
  <2>2. PICK r : r = ApplyShareUpdates(y, ks[i], uts, i)
    OBVIOUS
  <2>3. r = Applied(at, uts, ks, i) /\ Succeeded(r)
    BY <1>3, <2>1, <2>2 DEF Applied
  <2>4. PICK f : f = [p \in batch |-> uts[p].updates[i].update]
    OBVIOUS
  <2>5. /\ \A p \in batch : i \in DOMAIN uts[p].updates
        /\ r = Ok(Add(y, FSum(ValuesOf(f))))
    BY <1>2, <2>2, <2>3, <2>4 DEF ApplyShareUpdates, Succeeded, Panic
  <2>6. f = [p \in batch |-> Mul(ks[i], Eval(cs[p], Point(i)))]
    BY <1>4, <1>6, <2>4, <2>5
  <2>7. ks[i] \in Fr /\ Point(i) \in Fr
    BY SlotsGiven DEF KeysOK
  <2>8. FSum(ValuesOf(f)) = Mul(ks[i], Eval(total, Point(i)))
    BY <1>8, <2>6, <2>7
  <2>9. y \in Fr
    <3>1. PICK k \in 1..N : k = i + 1
      BY <1>1
    <3>2. QED
      BY <2>1, <3>1 DEF CopyForm
  <2>10. Eval(total, Point(i)) \in Fr
    BY <1>8, <2>7, PolyFits, EvalType DEF Fits
  <2>11. r.val = Add(y, Mul(ks[i], Eval(total, Point(i))))
    BY <2>5, <2>8 DEF Ok
  <2>12. QED
    BY <2>1, <2>3, <2>7, <2>9, <2>10, <2>11, FrClosed
<1>10. PICK sh : sh = [k \in 1..N |-> Applied(at, uts, ks, k - 1).val]
  OBVIOUS
<1>11. sh \in [1..N -> Fr]
  <2>1. \A k \in 1..N : Applied(at, uts, ks, k - 1).val \in Fr
    <3>1. TAKE k \in 1..N
    <3>2. PICK i \in Slots : i = k - 1
      BY <1>1
    <3>3. QED
      BY <1>9, <3>2
  <2>2. QED
    BY <1>10, <2>1
<1>12. CopyForm(new) /\ new.aggregate.shares = sh
  <2>1. new = [aggregate |-> [at.aggregate EXCEPT !.shares = sh], public_key |-> Phi[1]]
    BY <1>3, <1>10
  <2>2. QED
    BY <1>11, <2>1, CopyKeepsForm
<1>13. ASSUME NEW i \in Slots
       PROVE  new.aggregate.shares[i + 1]
                = Add(at.aggregate.shares[i + 1], Mul(ks[i], Eval(total, Point(i))))
  <2>1. PICK k \in 1..N : k = i + 1 /\ k - 1 = i
    BY <1>1
  <2>2. sh[k] = Applied(at, uts, ks, i).val
    BY <1>10, <2>1
  <2>3. QED
    BY <1>9, <1>12, <2>1, <2>2
<1>14. QED
  BY <1>4, <1>5, <1>7, <1>12, <1>13

\* Correct updates for the present keys are applied without a panic.
LEMMA SoundBatchAccepted ==
    ASSUME NEW at, CopyForm(at), NEW batch, NEW uts, BatchOK(batch, uts), NEW ks, KeysOK(ks),
           \A p \in batch : SoundUpdate(uts[p], ks)
    PROVE  Succeeded(ApiRefresh(at, uts, ks))
<1>1. /\ DOMAIN uts = batch /\ \A p \in batch : UpdateOK(uts[p])
      /\ DOMAIN ks = Slots
  BY DEF BatchOK, KeysOK
<1>2. \A p \in batch :
         /\ Succeeded(VerifyRefresh(uts[p], ks, N))
         /\ \A i \in Slots : /\ i \in DOMAIN uts[p].updates
                             /\ Succeeded(VerifyUpdate(uts[p].updates[i], ks[i]))
  BY <1>1, SoundAccepted
<1>3. \A i \in Slots : Succeeded(Applied(at, uts, ks, i))
  <2>1. TAKE i \in Slots
  <2>2. PICK y : y = at.aggregate.shares[i + 1]
    OBVIOUS
  <2>3. \E v : ApplyShareUpdates(y, ks[i], uts, i) = Ok(v)
    BY <1>1, <1>2 DEF ApplyShareUpdates
  <2>4. QED
    BY <2>2, <2>3 DEF Applied, Succeeded, Ok
<1>4. QED
  BY <1>1, <1>2, <1>3, RefreshGiven

\* A baton as it may be posted; a sound one was scaled by nothing.
BatonOK(h) ==
    /\ h.share_index \in Departing
    /\ h.double_blind_share \in Fr /\ h.commitment_to_share \in Fr
    /\ h.commitment_to_g1 \in Fr \ {Zero} /\ h.commitment_to_g2 = h.commitment_to_g1
    /\ h.incoming_pubkey \in Fr \ {Zero} /\ h.outgoing_pubkey \in Fr
SoundBaton(h) ==
    \E y \in Fr : /\ h.double_blind_share = Mul(y, h.incoming_pubkey)
                  /\ h.commitment_to_share = Mul(h.outgoing_pubkey, Mul(h.incoming_pubkey, h.commitment_to_g1))

\* The parts of a baton, and of one two of whose parts were replaced.
BatonOf(slot, a, b, t, dj, out) ==
    [share_index |-> slot, double_blind_share |-> a, commitment_to_share |-> b,
     commitment_to_g1 |-> t, commitment_to_g2 |-> t,
     incoming_pubkey |-> dj, outgoing_pubkey |-> out]
BatonWith(v, ad, bd) == [v EXCEPT !.double_blind_share = ad, !.commitment_to_share = bd]
Scaled(v, factor) == [v EXCEPT !.double_blind_share = Mul(@, factor),
                                !.commitment_to_share = Mul(@, factor)]
\* A baton with two parts replaced, part by part.
LEMMA BatonScaled ==
    ASSUME NEW slot, NEW a, NEW b, NEW t, NEW dj, NEW out, NEW ad, NEW bd,
           NEW h, h = BatonWith(BatonOf(slot, a, b, t, dj, out), ad, bd)
    PROVE  /\ h.share_index = slot /\ h.double_blind_share = ad /\ h.commitment_to_share = bd
           /\ h.commitment_to_g1 = t /\ h.commitment_to_g2 = t
           /\ h.incoming_pubkey = dj /\ h.outgoing_pubkey = out
<1>1. h.share_index = slot
  BY DEF BatonOf, BatonWith
<1>2. h.double_blind_share = ad
  BY DEF BatonOf, BatonWith
<1>3. h.commitment_to_share = bd
  BY DEF BatonOf, BatonWith
<1>4. h.commitment_to_g1 = t /\ h.commitment_to_g2 = t
  BY DEF BatonOf, BatonWith
<1>5. h.incoming_pubkey = dj /\ h.outgoing_pubkey = out
  BY DEF BatonOf, BatonWith
<1>6. QED
  BY <1>1, <1>2, <1>3, <1>4, <1>5

\* generate_handover_transcript makes such a baton; scaling keeps its shape.
LEMMA BatonGiven ==
    ASSUME KeysOK(keys), NEW at, CopyForm(at), NEW slot \in Departing, NEW dj \in Fr \ {Zero},
           NEW t \in Fr \ {Zero}, NEW factor \in Fr,
           NEW g, g = GenerateHandoverTranscript(ContextNow, at, slot, dj, t),
           NEW h, h = Scaled(g.val, factor)
    PROVE  BatonOK(h) /\ (factor = One => SoundBaton(h))
<1>1. slot \in Slots /\ N \in Nat /\ Slots = 0..(N - 1)
  BY MobilityAssumption, CohortGiven, SlotsGiven
<1>2. PICK d : d = ContextNow
  OBVIOUS
<1>3. /\ ExactContext(d) /\ d.domain = N /\ d.validators[slot].ek = keys[slot]
  BY <1>1, <1>2, ContextNowGiven
<1>4. slot \in DOMAIN d.validators
  BY <1>1, <1>3 DEF ExactContext
<1>5. PICK y : y = at.aggregate.shares[slot + 1]
  OBVIOUS
<1>6. y \in Fr /\ slot + 1 \in DOMAIN at.aggregate.shares
  <2>1. PICK k \in 1..N : k = slot + 1
    BY <1>1
  <2>2. QED
    BY <1>5, <2>1 DEF CopyForm
<1>7. GetShare(at, slot) = Ok(y)
  BY <1>5, <1>6 DEF GetShare
<1>8. PICK out : out = keys[slot]
  OBVIOUS
<1>9. out \in Fr
  BY <1>1, <1>8 DEF KeysOK
<1>10. g = Ok(HandoverTranscript(slot, y, out, dj, t))
  BY <1>2, <1>3, <1>4, <1>7, <1>8 DEF GenerateHandoverTranscript, Succeeded, Ok
<1>11. PICK a, b : a = Mul(y, dj) /\ b = Mul(out, Mul(dj, t))
  OBVIOUS
<1>12. a \in Fr /\ b \in Fr
  BY <1>6, <1>9, <1>11, FrClosed
<1>13. g.val = [share_index |-> slot, double_blind_share |-> a, commitment_to_share |-> b,
                commitment_to_g1 |-> t, commitment_to_g2 |-> t,
                incoming_pubkey |-> dj, outgoing_pubkey |-> out]
  BY <1>10, <1>11 DEF Ok, HandoverTranscript
<1>14. PICK v, ad, bd : v = g.val /\ ad = Mul(a, factor) /\ bd = Mul(b, factor)
  OBVIOUS
<1>15. ad \in Fr /\ bd \in Fr
  BY <1>12, <1>14, FrClosed
<1>16. /\ v.double_blind_share = a /\ v.commitment_to_share = b
       /\ h = Scaled(v, factor)
  BY <1>13, <1>14
<1>17. h = BatonWith(v, ad, bd)
  BY <1>14, <1>16 DEF BatonWith, Scaled
<1>18. /\ h.share_index = slot /\ h.double_blind_share = ad /\ h.commitment_to_share = bd
       /\ h.commitment_to_g1 = t /\ h.commitment_to_g2 = t
       /\ h.incoming_pubkey = dj /\ h.outgoing_pubkey = out
  <2>1. v = BatonOf(slot, a, b, t, dj, out)
    BY <1>13, <1>14 DEF BatonOf
  <2>2. h = BatonWith(BatonOf(slot, a, b, t, dj, out), ad, bd)
    BY <1>17, <2>1
  <2>3. QED
    BY <2>2, BatonScaled
<1>19. BatonOK(h)
  BY <1>9, <1>15, <1>18 DEF BatonOK
<1>20. ASSUME factor = One PROVE SoundBaton(h)
  <2>1. ad = a /\ bd = b
    BY <1>12, <1>14, <1>20, FrMultiplicative
  <2>2. /\ h.double_blind_share = Mul(y, h.incoming_pubkey)
        /\ h.commitment_to_share = Mul(h.outgoing_pubkey, Mul(h.incoming_pubkey, h.commitment_to_g1))
    BY <1>11, <1>18, <2>1
  <2>3. QED
    BY <1>6, <2>2 DEF SoundBaton
<1>21. QED
  BY <1>19, <1>20

\* The equation validate checks, on a sound baton: the share it was made from is the
\* committed one under the outgoing key.
LEMMA BatonEquation ==
    ASSUME NEW y \in Fr, NEW dj \in Fr, NEW t \in Fr, NEW out \in Fr, NEW c \in Fr,
           dj # Zero, t # Zero,
           Zero = Add(Mul(Neg(t), Mul(y, dj)), Mul(c, Mul(out, Mul(dj, t))))
    PROVE  y = Mul(c, out)
<1>1. PICK k : k = Mul(dj, t)
  OBVIOUS
<1>2. k \in Fr /\ k # Zero
  BY <1>1, NoZeroDivisors, FrClosed
<1>3. Mul(t, Mul(y, dj)) = Mul(k, y)
  BY <1>1, FrClosed, FrMultiplicative
<1>4. Mul(c, Mul(out, k)) = Mul(k, Mul(c, out))
  BY <1>2, FrClosed, FrMultiplicative
<1>5. PICK u, v : u = Mul(k, y) /\ v = Mul(k, Mul(c, out))
  OBVIOUS
<1>6. u \in Fr /\ v \in Fr /\ Neg(u) \in Fr /\ Mul(c, out) \in Fr
  BY <1>2, <1>5, FrClosed
<1>7. Mul(Neg(t), Mul(y, dj)) = Neg(u)
  BY <1>3, <1>5, MulNeg, FrClosed
<1>8. Zero = Add(Neg(u), v)
  BY <1>1, <1>4, <1>5, <1>7
<1>9. Add(Neg(u), u) = Zero
  BY <1>6, FrAdditive
<1>10. u = v
  BY <1>6, <1>8, <1>9, AddCancel
<1>11. QED
  BY <1>2, <1>5, <1>6, <1>10, MulCancel

\* What finalize_handover leaves in the copy when it passes.
LEMMA FinalizeGiven ==
    ASSUME NEW at, CopyForm(at), NEW h, BatonOK(h), NEW dk \in Fr \ {Zero},
           Succeeded(ApiFinalizeHandover(at, h, dk)),
           NEW new, new = ApiFinalizeHandover(at, h, dk).val,
           NEW i, i = h.share_index
    PROVE  /\ CopyForm(new) /\ h.outgoing_pubkey = dk
           /\ Succeeded(ValidateHandover(h, Eval(Phi, Point(i))))
           /\ new.aggregate.shares[i + 1] = Mul(h.double_blind_share, Inv(dk))
<1>1. PICK agg : agg = at.aggregate
  OBVIOUS
<1>2. /\ agg \in Transcript /\ agg.coeffs = Phi /\ agg.shares \in [1..N -> Fr] /\ N \in Nat
      /\ Slots = 0..(N - 1) /\ i \in Slots
  BY <1>1, CohortGiven, SlotsGiven, MobilityAssumption DEF CopyForm, AggregatedTranscript, BatonOK
<1>3. Len(agg.shares) = N /\ DOMAIN agg.shares = 1..N
  BY <1>2
<1>4. PICK slot \in 1..N : slot = i + 1
  BY <1>2
<1>5. PICK cs : cs = Fft(agg.coeffs, Len(agg.shares))
  OBVIOUS
<1>6. cs[slot] = Eval(Phi, Point(i))
  BY <1>2, <1>3, <1>4, <1>5, UpdateFft, SlotsGiven
<1>7. PICK share : share = FinalizeShare(h, dk, cs[slot])
  OBVIOUS
<1>8. PICK sh : sh = [agg.shares EXCEPT ![slot] = share.val]
  OBVIOUS
<1>9. PICK ver : ver = VerifyValidatorShare(cs, sh, i, h.incoming_pubkey)
  OBVIOUS
<1>10. PICK fa : fa = FinalizeHandover(agg, h, dk)
  OBVIOUS
<1>11. fa = IF slot \notin DOMAIN agg.shares THEN Err(<<"InvalidShareIndex", h.share_index>>)
            ELSE IF h.outgoing_pubkey # dk THEN Err(<<"ValidatorPublicKeyMismatch">>)
            ELSE IF ~ Succeeded(share) THEN Panic("finalize")
            ELSE IF ~ Succeeded(ver) THEN ver
            ELSE Ok([agg EXCEPT !.shares = sh])
  BY <1>4, <1>5, <1>7, <1>8, <1>9, <1>10 DEF FinalizeHandover
<1>12. Succeeded(fa) => /\ h.outgoing_pubkey = dk /\ Succeeded(share)
                        /\ fa = Ok([agg EXCEPT !.shares = sh])
  BY <1>11 DEF Succeeded, Err, Panic
<1>13. ApiFinalizeHandover(at, h, dk) = Rewrap(fa)
  BY <1>1, <1>10 DEF ApiFinalizeHandover
<1>14. Succeeded(fa)
  BY <1>13 DEF Rewrap, Succeeded, Panic
<1>15. /\ Succeeded(ValidateHandover(h, cs[slot]))
       /\ share = Ok(Mul(h.double_blind_share, Inv(dk)))
  BY <1>7, <1>12, <1>14 DEF FinalizeShare, Succeeded, Panic
<1>16. share.val = Mul(h.double_blind_share, Inv(dk)) /\ share.val \in Fr
  <2>1. Mul(h.double_blind_share, Inv(dk)) \in Fr
    BY FrClosed DEF BatonOK
  <2>2. QED
    BY <1>15, <2>1 DEF Ok
<1>17. sh \in [1..N -> Fr] /\ sh[slot] = share.val
  BY <1>2, <1>8, <1>16
<1>18. PICK ag : ag = [agg EXCEPT !.shares = sh]
  OBVIOUS
<1>19. fa.val = ag /\ ag.coeffs = Phi
  BY <1>2, <1>12, <1>14, <1>18 DEF Ok, Transcript
<1>20. FromAggregate(ag) = Ok([aggregate |-> ag, public_key |-> Phi[1]])
  BY <1>19, SlotsGiven DEF FromAggregate
<1>21. Rewrap(fa) = Ok([aggregate |-> ag, public_key |-> Phi[1]])
  BY <1>14, <1>19, <1>20 DEF Rewrap, Unwrap, Succeeded, Ok
<1>22. new = [aggregate |-> ag, public_key |-> Phi[1]]
  BY <1>13, <1>21 DEF Ok
<1>23. CopyForm(new) /\ new.aggregate.shares = sh
  <2>1. new = [aggregate |-> [at.aggregate EXCEPT !.shares = sh], public_key |-> Phi[1]]
    BY <1>1, <1>18, <1>22
  <2>2. QED
    BY <1>17, <2>1, CopyKeepsForm
<1>24. QED
  BY <1>4, <1>6, <1>12, <1>14, <1>15, <1>16, <1>17, <1>23

\* A sound baton that passes installs the committed share under the incoming key.
LEMMA SoundFinalize ==
    ASSUME NEW at, CopyForm(at), NEW h, BatonOK(h), SoundBaton(h), NEW dk \in Fr \ {Zero},
           Succeeded(ApiFinalizeHandover(at, h, dk)),
           NEW new, new = ApiFinalizeHandover(at, h, dk).val,
           NEW i, i = h.share_index
    PROVE  new.aggregate.shares[i + 1] = Mul(h.incoming_pubkey, Eval(Phi, Point(i)))
<1>1. PICK c : c = Eval(Phi, Point(i))
  OBVIOUS
<1>2. c \in Fr
  BY <1>1, EvalType, SlotsGiven, MobilityAssumption DEF BatonOK
<1>3. /\ h.outgoing_pubkey = dk /\ Succeeded(ValidateHandover(h, c))
      /\ new.aggregate.shares[i + 1] = Mul(h.double_blind_share, Inv(dk))
  BY <1>1, FinalizeGiven
<1>4. PICK y \in Fr : /\ h.double_blind_share = Mul(y, h.incoming_pubkey)
                      /\ h.commitment_to_share
                           = Mul(h.outgoing_pubkey, Mul(h.incoming_pubkey, h.commitment_to_g1))
  BY DEF SoundBaton
<1>5. PICK dj, t : dj = h.incoming_pubkey /\ t = h.commitment_to_g1
  OBVIOUS
<1>6. dj \in Fr /\ dj # Zero /\ t \in Fr /\ t # Zero
  BY <1>5 DEF BatonOK
<1>7. Zero = Add(Mul(Neg(t), Mul(y, dj)), Mul(c, Mul(dk, Mul(dj, t))))
  BY <1>3, <1>4, <1>5 DEF ValidateHandover, Pairing, Succeeded, Err
<1>8. y = Mul(c, dk)
  BY <1>2, <1>6, <1>7, BatonEquation
<1>9. Mul(Mul(Mul(c, dk), dj), Inv(dk)) = Mul(dj, c)
  <2>1. Inv(dk) \in Fr /\ Mul(c, dk) \in Fr
    BY <1>2, FrClosed
  <2>2. Mul(Mul(Mul(c, dk), dj), Inv(dk)) = Mul(dj, Mul(Mul(c, dk), Inv(dk)))
    BY <1>6, <2>1, MulRotate
  <2>3. Mul(Mul(c, dk), Inv(dk)) = c
    BY <1>2, BlindUnblind
  <2>4. QED
    BY <2>2, <2>3
<1>10. QED
  BY <1>1, <1>3, <1>4, <1>5, <1>8, <1>9
-----------------------------------------------------------------------------
\* The inductive invariant, part by part: the copies, the updates in the shares, the
\* posted messages, and the blinded share of every slot that took no wrong baton.
CopiesOK(hs) == hs \in [Slots -> AggregatedTranscript] /\ \A i \in Slots : CopyForm(hs[i])
DeltasOK(ds) == ds \in [Slots -> Poly] /\ \A i \in Slots : ds[i][1] = Zero
ShareOf(p, i) == Eval(Plus(Phi, p), Point(i))
SharesOK(hs, ks, ds, sp) ==
    \A i \in Slots \ sp : hs[i].aggregate.shares[i + 1] = Mul(ks[i], ShareOf(ds[i], i))
PostedOK(u) ==
    UpdateOK(u.ut) /\ (u.sound => KeysOK(u.keys) /\ SoundUpdate(u.ut, u.keys))
UpdatesOK(us) == DOMAIN us \subseteq Producers /\ \A p \in DOMAIN us : PostedOK(us[p])
BatonsOK(bs) == \A b \in bs : BatonOK(b.h) /\ (b.sound => SoundBaton(b.h))
OpensNow(hs, ks) == {S \in Groups : OpensSimple(S, hs, ks)}

MInv ==
    /\ KeysOK(keys) /\ CopiesOK(held) /\ DeltasOK(delta)
    /\ SharesOK(held, keys, delta, spoilt)
    /\ UpdatesOK(updates) /\ BatonsOK(batons)
    /\ spoilt \subseteq Departing /\ rounds \in [Slots -> 0..MaxRounds]
    /\ opens = OpensNow(held, keys)

\* No updates leave the joint polynomial's value.
LEMMA StillGiven ==
    /\ Still \in Poly /\ Still[1] = Zero /\ Still[T + 1] = Zero
    /\ \A x \in Fr : Eval(Still, x) = Zero
    /\ \A i \in Slots : ShareOf(Still, i) = Eval(Phi, Point(i)) /\ Eval(Phi, Point(i)) \in Fr
<1>1. T \in Nat /\ 1 \in 1..(T + 1) /\ T + 1 \in 1..(T + 1)
  BY CohortGiven
<1>2. Still \in Poly /\ \A k \in 1..(T + 1) : Still[k] = Zero
  BY SlotsGiven DEF Still, T
<1>3. \A x \in Fr : Eval(Still, x) = Zero
  <2>1. PICK n \in Nat : n = T + 1
    BY <1>1
  <2>2. Still \in [1..n -> Fr] /\ \A k \in 1..n : Still[k] = Zero
    BY <1>2, <2>1 DEF Poly
  <2>3. QED
    BY <2>2, EvalZeros
<1>4. ASSUME NEW i \in Slots
      PROVE  ShareOf(Still, i) = Eval(Phi, Point(i)) /\ Eval(Phi, Point(i)) \in Fr
  <2>1. Point(i) \in Fr /\ Fits(Phi) /\ Fits(Still)
    BY <1>2, SlotsGiven, PhiFits, PolyFits
  <2>2. Eval(Phi, Point(i)) \in Fr
    BY <2>1, SlotsGiven, EvalType
  <2>3. ShareOf(Still, i) = Add(Eval(Phi, Point(i)), Eval(Still, Point(i)))
    BY <2>1, PlusGiven DEF ShareOf
  <2>4. QED
    BY <1>3, <2>1, <2>2, <2>3, FrAdditive
<1>5. QED
  BY <1>1, <1>2, <1>3, <1>4

\* Adding the batch's sum to the updates in a share.
LEMMA DeltaPlus ==
    ASSUME NEW p \in Poly, p[1] = Zero, NEW total \in Poly, total[1] = Zero
    PROVE  /\ Plus(p, total) \in Poly /\ Plus(p, total)[1] = Zero
           /\ \A i \in Slots, k \in Fr :
                Add(Mul(k, ShareOf(p, i)), Mul(k, Eval(total, Point(i))))
                  = Mul(k, ShareOf(Plus(p, total), i))
<1>1. PICK q : q = Plus(p, total)
  OBVIOUS
<1>2. Fits(p) /\ Fits(total) /\ Fits(Phi) /\ Len(p) = T + 1 /\ Len(total) = T + 1
  BY PolyFits, PhiFits
<1>3. /\ q \in Poly /\ Fits(q)
      /\ \A x \in Fr : Eval(q, x) = Add(Eval(p, x), Eval(total, x))
  BY <1>1, <1>2, PlusGiven
<1>4. q[1] = Zero
  <2>1. T \in Nat /\ 1 \in 1..(T + 1) /\ 1 <= T + 1
    BY CohortGiven
  <2>2. q[1] = Add(p[1], total[1])
    BY <1>1, <1>2, <2>1, PlusGiven
  <2>3. QED
    BY <2>2, FrAdditive, FrClosed
<1>5. ASSUME NEW i \in Slots, NEW k \in Fr
      PROVE  Add(Mul(k, ShareOf(p, i)), Mul(k, Eval(total, Point(i)))) = Mul(k, ShareOf(q, i))
  <2>1. PICK x : x = Point(i)
    OBVIOUS
  <2>2. x \in Fr
    BY <2>1, SlotsGiven
  <2>3. PICK a, b, c : a = Eval(Phi, x) /\ b = Eval(p, x) /\ c = Eval(total, x)
    OBVIOUS
  <2>4. a \in Fr /\ b \in Fr /\ c \in Fr
    BY <1>2, <2>2, <2>3, EvalType DEF Fits
  <2>5. ShareOf(p, i) = Add(a, b)
    BY <1>2, <2>1, <2>2, <2>3, PlusGiven DEF ShareOf
  <2>6. ShareOf(q, i) = Add(a, Add(b, c))
    <3>1. ShareOf(q, i) = Add(a, Eval(q, x))
      BY <1>2, <1>3, <2>1, <2>2, <2>3, PlusGiven DEF ShareOf
    <3>2. QED
      BY <1>3, <2>2, <2>3, <3>1
  <2>7. Add(a, b) \in Fr /\ Add(Add(a, b), c) = Add(a, Add(b, c))
    BY <2>4, FrAdditive, FrClosed
  <2>8. Mul(k, Add(Add(a, b), c)) = Add(Mul(k, Add(a, b)), Mul(k, c))
    BY <2>4, <2>7, FrMultiplicative
  <2>9. QED
    BY <2>1, <2>3, <2>5, <2>6, <2>7, <2>8
<1>6. QED
  BY <1>1, <1>3, <1>4, <1>5

\* The update transcripts of a batch, and the sum the model books for them.
UtsOf(batch, us) == [p \in batch |-> us[p].ut]
TotalOf(batch, us) ==
    [k \in DOMAIN Still |->
       FSum(ValuesOf([p \in batch |-> Resize(us[p].ut.coeffs, Len(Still))[k]]))]

\* A refresh that passed, as the model books it.
LEMMA RefreshBooked ==
    ASSUME NEW at, CopyForm(at), NEW ks, KeysOK(ks), NEW us, UpdatesOK(us),
           NEW batch \in SUBSET DOMAIN us, NEW uts, uts = UtsOf(batch, us),
           Succeeded(ApiRefresh(at, uts, ks)), NEW new, new = ApiRefresh(at, uts, ks).val,
           NEW total, total = TotalOf(batch, us)
    PROVE  /\ CopyForm(new) /\ total \in Poly /\ total[1] = Zero
           /\ \A i \in Slots : new.aggregate.shares[i + 1]
                                 = Add(at.aggregate.shares[i + 1], Mul(ks[i], Eval(total, Point(i))))
<1>1. DOMAIN us \subseteq Slots /\ Slots \subseteq Nat /\ IsFiniteSet(Slots)
  BY SlotsGiven, MobilityAssumption DEF UpdatesOK
<1>2. batch \in SUBSET Nat /\ IsFiniteSet(batch)
  BY <1>1, FS_Subset
<1>3. DOMAIN uts = batch /\ \A p \in batch : uts[p] = us[p].ut
  BY DEF UtsOf
<1>4. \A p \in batch : UpdateOK(uts[p])
  BY <1>3 DEF UpdatesOK, PostedOK
<1>5. BatchOK(batch, uts)
  BY <1>2, <1>3, <1>4 DEF BatchOK
<1>6. PICK cs : cs = CoeffsOf(uts)
  OBVIOUS
<1>7. \A p \in batch : cs[p] = us[p].ut.coeffs
  BY <1>3, <1>6 DEF CoeffsOf
<1>8. total = BatchTotal(batch, cs)
  <2>1. DOMAIN Still = 1..(T + 1) /\ Len(Still) = T + 1
    BY SlotsGiven
  <2>2. \A k \in 1..(T + 1) : [p \in batch |-> Resize(us[p].ut.coeffs, T + 1)[k]]
                                = [p \in batch |-> Resize(cs[p], T + 1)[k]]
    BY <1>7
  <2>3. total = [k \in 1..(T + 1) |->
                   FSum(ValuesOf([p \in batch |-> Resize(us[p].ut.coeffs, T + 1)[k]]))]
    BY <2>1 DEF TotalOf
  <2>4. QED
    BY <2>2, <2>3 DEF BatchTotal
<1>9. /\ CopyForm(new) /\ \A p \in batch : uts[p].coeffs[1] = Zero
      /\ \A i \in Slots : new.aggregate.shares[i + 1]
           = Add(at.aggregate.shares[i + 1], Mul(ks[i], Eval(BatchTotal(batch, cs), Point(i))))
  BY <1>5, <1>6, RefreshedCopy
<1>10. /\ \A p \in batch : Fits(cs[p]) /\ Len(cs[p]) >= 1 /\ cs[p][1] = Zero
  BY <1>3, <1>4, <1>7, <1>9 DEF UpdateOK
<1>11. BatchTotal(batch, cs) \in Poly /\ BatchTotal(batch, cs)[1] = Zero
  BY <1>2, <1>10, BatchTotalGiven
<1>12. QED
  BY <1>8, <1>9, <1>11

\* One slot's entry replaced, and the slots that took a wrong baton after a handover.
Put(f, i, v) == [f EXCEPT ![i] = v]
SpoiltAfter(sp, i, sound) == IF sound THEN sp \ {i} ELSE sp \cup {i}

\* A refresh keeps the copies, the updates in the shares and the shares in order.
LEMMA RefreshKeeps ==
    ASSUME NEW hs, CopiesOK(hs), NEW ks, KeysOK(ks), NEW ds, DeltasOK(ds),
           NEW sp, SharesOK(hs, ks, ds, sp), NEW us, UpdatesOK(us),
           NEW i \in Slots, NEW batch \in SUBSET DOMAIN us,
           NEW uts, uts = UtsOf(batch, us),
           Succeeded(ApiRefresh(hs[i], uts, ks)), NEW new, new = ApiRefresh(hs[i], uts, ks).val,
           NEW total, total = TotalOf(batch, us),
           NEW hn, hn = Put(hs, i, new),
           NEW dn, dn = Put(ds, i, Plus(ds[i], total))
    PROVE  CopiesOK(hn) /\ DeltasOK(dn) /\ SharesOK(hn, ks, dn, sp)
<1>1. CopyForm(hs[i])
  BY DEF CopiesOK
<1>2. /\ CopyForm(new) /\ total \in Poly /\ total[1] = Zero
      /\ \A j \in Slots : new.aggregate.shares[j + 1]
                            = Add(hs[i].aggregate.shares[j + 1], Mul(ks[j], Eval(total, Point(j))))
  BY <1>1, RefreshBooked
<1>3. PICK q : q = Plus(ds[i], total)
  OBVIOUS
<1>4. ds[i] \in Poly /\ ds[i][1] = Zero
  BY DEF DeltasOK
<1>5. /\ q \in Poly /\ q[1] = Zero
      /\ \A j \in Slots, k \in Fr : Add(Mul(k, ShareOf(ds[i], j)), Mul(k, Eval(total, Point(j))))
                                      = Mul(k, ShareOf(q, j))
  BY <1>2, <1>3, <1>4, DeltaPlus
<1>6. CopiesOK(hn)
  <2>1. new \in AggregatedTranscript
    BY <1>2 DEF CopyForm
  <2>2. QED
    BY <1>2, <2>1 DEF CopiesOK, Put
<1>7. DeltasOK(dn)
  BY <1>3, <1>5 DEF DeltasOK, Put
<1>8. ASSUME NEW j \in Slots \ sp
      PROVE  hn[j].aggregate.shares[j + 1] = Mul(ks[j], ShareOf(dn[j], j))
  <2>1. hs[j].aggregate.shares[j + 1] = Mul(ks[j], ShareOf(ds[j], j)) /\ ks[j] \in Fr
    BY DEF SharesOK, KeysOK
  <2>2. CASE j = i
    <3>1. hn[j] = new /\ dn[j] = q
      BY <1>3, <2>2 DEF CopiesOK, DeltasOK, Put
    <3>2. new.aggregate.shares[j + 1]
            = Add(hs[i].aggregate.shares[j + 1], Mul(ks[j], Eval(total, Point(j))))
      BY <1>2
    <3>3. new.aggregate.shares[j + 1]
            = Add(Mul(ks[j], ShareOf(ds[i], j)), Mul(ks[j], Eval(total, Point(j))))
      BY <2>1, <2>2, <3>2
    <3>4. QED
      BY <1>5, <2>1, <3>1, <3>3
  <2>3. CASE j # i
    <3>1. hn[j] = hs[j] /\ dn[j] = ds[j]
      BY <2>3 DEF CopiesOK, DeltasOK, Put
    <3>2. QED
      BY <2>1, <3>1
  <2>4. QED
    BY <2>2, <2>3
<1>9. QED
  BY <1>6, <1>7, <1>8 DEF SharesOK

\* So does a handover; an unsound baton that passes marks its slot.
LEMMA FinalizeKeeps ==
    ASSUME NEW hs, CopiesOK(hs), NEW ks, KeysOK(ks), NEW ds, DeltasOK(ds),
           NEW sp, SharesOK(hs, ks, ds, sp), NEW h, BatonOK(h), NEW sound \in BOOLEAN, sound => SoundBaton(h),
           NEW i, i = h.share_index, Succeeded(ApiFinalizeHandover(hs[i], h, ks[i])),
           NEW new, new = ApiFinalizeHandover(hs[i], h, ks[i]).val,
           NEW dj, dj = h.incoming_pubkey,
           NEW hn, hn = Put(hs, i, new), NEW kn, kn = Put(ks, i, dj),
           NEW dn, dn = Put(ds, i, Still),
           NEW sn, sn = SpoiltAfter(sp, i, sound)
    PROVE  /\ i \in Departing /\ i \in Slots
           /\ KeysOK(kn) /\ CopiesOK(hn) /\ DeltasOK(dn) /\ SharesOK(hn, kn, dn, sn)
<1>1. i \in Departing /\ i \in Slots /\ dj \in Fr \ {Zero}
  BY MobilityAssumption DEF BatonOK
<1>2. CopyForm(hs[i]) /\ ks[i] \in Fr \ {Zero}
  BY <1>1 DEF CopiesOK, KeysOK
<1>3. CopyForm(new)
  BY <1>2, FinalizeGiven
<1>4. sound => new.aggregate.shares[i + 1] = Mul(dj, Eval(Phi, Point(i)))
  <2>1. SUFFICES ASSUME sound PROVE new.aggregate.shares[i + 1] = Mul(dj, Eval(Phi, Point(i)))
    OBVIOUS
  <2>2. SoundBaton(h)
    BY <2>1
  <2>3. QED
    BY <1>2, <2>2, SoundFinalize
<1>5. KeysOK(kn)
  BY <1>1 DEF KeysOK, Put
<1>6. CopiesOK(hn)
  <2>1. new \in AggregatedTranscript
    BY <1>3 DEF CopyForm
  <2>2. QED
    BY <1>1, <1>3, <2>1 DEF CopiesOK, Put
<1>7. DeltasOK(dn)
  BY <1>1, StillGiven DEF DeltasOK, Put
<1>8. ASSUME NEW j \in Slots \ sn
      PROVE  hn[j].aggregate.shares[j + 1] = Mul(kn[j], ShareOf(dn[j], j))
  <2>1. CASE j = i
    <3>1. sound
      BY <2>1 DEF SpoiltAfter
    <3>2. hn[j] = new /\ dn[j] = Still /\ kn[j] = dj
      BY <2>1 DEF CopiesOK, DeltasOK, KeysOK, Put
    <3>3. ShareOf(Still, j) = Eval(Phi, Point(j))
      BY StillGiven
    <3>4. QED
      BY <1>4, <2>1, <3>1, <3>2, <3>3
  <2>2. CASE j # i
    <3>1. hn[j] = hs[j] /\ dn[j] = ds[j] /\ kn[j] = ks[j] /\ j \notin sp
      BY <2>2 DEF CopiesOK, DeltasOK, KeysOK, Put, SpoiltAfter
    <3>2. hs[j].aggregate.shares[j + 1] = Mul(ks[j], ShareOf(ds[j], j))
      BY <3>1 DEF SharesOK
    <3>3. QED
      BY <3>1, <3>2
  <2>3. QED
    BY <2>1, <2>2
<1>9. QED
  BY <1>1, <1>5, <1>6, <1>7, <1>8 DEF SharesOK
-----------------------------------------------------------------------------
\* The established ceremony satisfies the invariant.
LEMMA InitMInv == Init => MInv
<1>1. SUFFICES ASSUME Init PROVE MInv
  OBVIOUS
<1>2. KeysOK(keys)
  <2>1. PICK vs : vs = Cohort.validators
    OBVIOUS
  <2>2. /\ DOMAIN vs = 1..N /\ \A k \in 1..N : vs[k].ek \in Fr \ {Zero}
        /\ \A i \in Slots : \E k \in 1..N : vs[k].share_index = i
    BY <2>1, CohortGiven, SlotsGiven DEF WellIndexed
  <2>3. keys = [i \in Slots |-> vs[CHOOSE k \in DOMAIN vs : vs[k].share_index = i].ek]
    BY <1>1, <2>1 DEF Init
  <2>4. \A i \in Slots : (CHOOSE k \in DOMAIN vs : vs[k].share_index = i) \in 1..N
    BY <2>2
  <2>5. QED
    BY <2>2, <2>3, <2>4 DEF KeysOK
<1>3. PICK d, ks : d = ContextNow /\ ks = keys
  OBVIOUS
<1>4. /\ ExactContext(d) /\ d.domain = N /\ \A i \in Slots : d.validators[i].ek = ks[i]
  BY <1>2, <1>3, ContextNowGiven
<1>5. PICK t : t = PvssNew(Phi, d).val
  OBVIOUS
<1>6. /\ PvssNew(Phi, d) = Ok([coeffs |-> Phi,
                               shares |-> [k \in 1..N |->
                                             Mul(Eval(Phi, DomainElement(N, k - 1)),
                                                 d.validators[k - 1].ek)],
                               sigma  |-> Phi[1]])
      /\ t \in Transcript
  BY <1>4, <1>5, SlotsGiven, PvssNewExact
<1>7. /\ t.coeffs = Phi
      /\ t.shares = [k \in 1..N |-> Mul(Eval(Phi, DomainElement(N, k - 1)),
                                        d.validators[k - 1].ek)]
  <2>1. PICK sh : sh = [k \in 1..N |-> Mul(Eval(Phi, DomainElement(N, k - 1)),
                                          d.validators[k - 1].ek)]
    OBVIOUS
  <2>2. t = [coeffs |-> Phi, shares |-> sh, sigma |-> Phi[1]]
    BY <1>5, <1>6, <2>1 DEF Ok
  <2>3. t.coeffs = Phi /\ t.shares = sh
    BY <2>2
  <2>4. QED
    BY <2>1, <2>3
<1>8. FromTranscripts(<<t>>) = Ok([aggregate |-> t, public_key |-> Phi[1]])
  BY <1>6, <1>7, SlotsGiven, SingleAggregate
<1>9. PICK at : at = [aggregate |-> t, public_key |-> Phi[1]]
  OBVIOUS
<1>10. held = [i \in Slots |-> at]
  <2>1. FromTranscripts(<<t>>).val = at
    BY <1>8, <1>9 DEF Ok
  <2>2. QED
    BY <1>1, <1>3, <1>5, <2>1 DEF Init
<1>11. \A i \in Slots : t.shares[i + 1] = Mul(ks[i], Eval(Phi, Point(i)))
  <2>1. TAKE i \in Slots
  <2>2. PICK k \in 1..N : k = i + 1 /\ k - 1 = i
    BY CohortGiven, SlotsGiven
  <2>3. t.shares[k] = Mul(Eval(Phi, Point(i)), ks[i])
    BY <1>4, <1>7, <2>2, SlotsGiven
  <2>4. Eval(Phi, Point(i)) \in Fr /\ ks[i] \in Fr
    BY <1>2, <1>3, StillGiven DEF KeysOK
  <2>5. QED
    BY <2>2, <2>3, <2>4, FrMultiplicative
<1>12. CopyForm(at)
  <2>1. at \in AggregatedTranscript
    BY <1>6, <1>9, SlotsGiven DEF AggregatedTranscript
  <2>2. \A k \in 1..N : t.shares[k] \in Fr
    <3>1. TAKE k \in 1..N
    <3>2. PICK i \in Slots : k = i + 1
      <4>1. k - 1 \in Slots /\ k = (k - 1) + 1
        BY CohortGiven, SlotsGiven
      <4>2. QED
        BY <4>1
    <3>3. t.shares[k] = Mul(ks[i], Eval(Phi, Point(i)))
      BY <1>11, <3>2
    <3>4. QED
      BY <1>2, <1>3, <3>3, StillGiven, FrClosed DEF KeysOK
  <2>3. t.shares \in [1..N -> Fr]
    BY <1>7, <2>2
  <2>4. QED
    BY <1>7, <1>9, <2>1, <2>3 DEF CopyForm
<1>13. CopiesOK(held)
  BY <1>10, <1>12 DEF CopiesOK, CopyForm
<1>14. delta = [i \in Slots |-> Still] /\ DeltasOK(delta)
  BY <1>1, StillGiven DEF Init, DeltasOK
<1>15. SharesOK(held, keys, delta, spoilt)
  BY <1>3, <1>9, <1>10, <1>11, <1>14, StillGiven DEF SharesOK
<1>16. UpdatesOK(updates) /\ BatonsOK(batons) /\ spoilt \subseteq Departing
  BY <1>1 DEF Init, UpdatesOK, BatonsOK
<1>17. rounds \in [Slots -> 0..MaxRounds]
  BY <1>1, MobilityAssumption DEF Init
<1>18. opens = OpensNow(held, keys)
  BY <1>1 DEF Init, OpensNow
<1>19. QED
  BY <1>2, <1>13, <1>14, <1>15, <1>16, <1>17, <1>18 DEF MInv

\* Posting an update transcript of the right shape.
LEMMA PostStep ==
    ASSUME MInv, NEW p \in Producers, NEW ut, NEW sound, Post(p, ut, sound),
           UpdateOK(ut), sound => SoundUpdate(ut, keys)
    PROVE  MInv'
<1>1. PICK us, ks, un : us = updates /\ ks = keys /\ un = updates'
  OBVIOUS
<1>2. un = [q \in DOMAIN us \cup {p} |->
              IF q = p THEN [ut |-> ut, keys |-> ks, sound |-> sound] ELSE us[q]]
  BY <1>1 DEF Post
<1>3. UpdatesOK(us) /\ KeysOK(ks) /\ (sound => SoundUpdate(ut, ks))
  BY <1>1 DEF MInv
<1>4. PICK u : u = [ut |-> ut, keys |-> ks, sound |-> sound]
  OBVIOUS
<1>5. u.ut = ut /\ u.keys = ks /\ u.sound = sound
  BY <1>4
<1>6. PostedOK(u)
  BY <1>3, <1>5 DEF PostedOK
<1>7. /\ DOMAIN un = DOMAIN us \cup {p}
      /\ \A q \in DOMAIN un : un[q] = IF q = p THEN u ELSE us[q]
  BY <1>2, <1>4
<1>8. UpdatesOK(un)
  BY <1>3, <1>6, <1>7 DEF UpdatesOK
<1>9. UpdatesOK(updates')
  BY <1>1, <1>8
<1>10. /\ keys' = keys /\ held' = held /\ batons' = batons /\ delta' = delta
       /\ rounds' = rounds /\ spoilt' = spoilt /\ opens' = opens
  BY DEF Post, history
<1>11. QED
  BY <1>9, <1>10 DEF MInv

\* A refresh.
LEMMA RefreshStep ==
    ASSUME MInv, NEW i \in Slots, NEW batch \in SUBSET DOMAIN updates, RefreshShare(i, batch)
    PROVE  MInv'
<1>1. PICK hs, ks, ds, us, sp :
        hs = held /\ ks = keys /\ ds = delta /\ us = updates /\ sp = spoilt
  OBVIOUS
<1>2. CopiesOK(hs) /\ KeysOK(ks) /\ DeltasOK(ds) /\ SharesOK(hs, ks, ds, sp) /\ UpdatesOK(us)
  BY <1>1 DEF MInv
<1>3. PICK uts, total : uts = UtsOf(batch, us) /\ total = TotalOf(batch, us)
  OBVIOUS
<1>4. PICK new : new = ApiRefresh(hs[i], uts, ks).val
  OBVIOUS
<1>5. PICK hn, dn : hn = Put(hs, i, new) /\ dn = Put(ds, i, Plus(ds[i], total))
  OBVIOUS
<1>6. Refreshed(i, batch) = ApiRefresh(hs[i], uts, ks)
  BY <1>1, <1>3 DEF Refreshed, UtsOf
<1>7. Succeeded(ApiRefresh(hs[i], uts, ks)) /\ held' = hn
  BY <1>1, <1>4, <1>5, <1>6 DEF RefreshShare, Put
<1>8. delta' = dn
  BY <1>1, <1>3, <1>5 DEF RefreshShare, TotalOf, Put
<1>9. CopiesOK(hn) /\ DeltasOK(dn) /\ SharesOK(hn, ks, dn, sp)
  BY <1>1, <1>2, <1>3, <1>4, <1>5, <1>7, RefreshKeeps
<1>10. /\ keys' = keys /\ updates' = updates /\ batons' = batons /\ spoilt' = spoilt
       /\ rounds[i] < MaxRounds /\ rounds' = [rounds EXCEPT ![i] = @ + 1]
       /\ opens' = {S \in Groups : OpensSimple(S, held', keys')}
  BY DEF RefreshShare, Observe
<1>11. rounds' \in [Slots -> 0..MaxRounds]
  <2>1. rounds \in [Slots -> 0..MaxRounds] /\ MaxRounds \in Nat
    BY MobilityAssumption DEF MInv
  <2>2. rounds[i] + 1 \in 0..MaxRounds
    BY <1>10, <2>1
  <2>3. QED
    BY <1>10, <2>1, <2>2
<1>12. opens' = OpensNow(held', keys')
  BY <1>10 DEF OpensNow
<1>13. /\ CopiesOK(held') /\ DeltasOK(delta') /\ SharesOK(held', keys', delta', spoilt')
  BY <1>1, <1>7, <1>8, <1>9, <1>10
<1>14. KeysOK(keys') /\ UpdatesOK(updates') /\ BatonsOK(batons') /\ spoilt' \subseteq Departing
  BY <1>10 DEF MInv
<1>15. QED
  BY <1>11, <1>12, <1>13, <1>14 DEF MInv

\* Posting a baton.
LEMMA BatonStep ==
    ASSUME MInv, NEW slot \in Departing, NEW dj \in Incoming, NEW t \in Blinding,
           NEW from \in Slots, NEW factor \in Fr, PostBaton(slot, dj, t, from, factor)
    PROVE  MInv'
<1>1. PICK at, g : at = held[from] /\ g = GenerateHandoverTranscript(ContextNow, at, slot, dj, t)
  OBVIOUS
<1>2. CopyForm(at) /\ KeysOK(keys)
  BY <1>1 DEF MInv, CopiesOK
<1>3. dj \in Fr \ {Zero} /\ t \in Fr \ {Zero}
  BY MobilityAssumption
<1>4. PICK h : h = Scaled(g.val, factor)
  OBVIOUS
<1>5. BatonOK(h) /\ (factor = One => SoundBaton(h))
  BY <1>1, <1>2, <1>3, <1>4, BatonGiven
<1>6. PICK b : b = [h |-> h, sound |-> factor = One]
  OBVIOUS
<1>7. b.h = h /\ (b.sound <=> factor = One)
  BY <1>6
<1>8. batons' = batons \cup {b}
  BY <1>1, <1>4, <1>6 DEF PostBaton, Scaled
<1>9. BatonsOK(batons')
  BY <1>5, <1>7, <1>8 DEF MInv, BatonsOK
<1>10. /\ keys' = keys /\ held' = held /\ updates' = updates /\ delta' = delta
       /\ rounds' = rounds /\ spoilt' = spoilt /\ opens' = opens
  BY DEF PostBaton, history
<1>11. QED
  BY <1>9, <1>10 DEF MInv

\* A handover.
LEMMA FinalizeStep ==
    ASSUME MInv, NEW b \in batons, Finalize(b)
    PROVE  MInv'
<1>1. PICK hs, ks, ds, sp : hs = held /\ ks = keys /\ ds = delta /\ sp = spoilt
  OBVIOUS
<1>2. CopiesOK(hs) /\ KeysOK(ks) /\ DeltasOK(ds) /\ SharesOK(hs, ks, ds, sp)
  BY <1>1 DEF MInv
<1>0. PICK sound \in BOOLEAN : sound <=> b.sound
  OBVIOUS
<1>3. PICK h, i, dj : h = b.h /\ i = h.share_index /\ dj = h.incoming_pubkey
  OBVIOUS
<1>4. BatonOK(h) /\ (sound => SoundBaton(h))
  BY <1>0, <1>3 DEF MInv, BatonsOK
<1>5. PICK new : new = ApiFinalizeHandover(hs[i], h, ks[i]).val
  OBVIOUS
<1>6. PICK hn, kn, dn, sn :
        /\ hn = Put(hs, i, new) /\ kn = Put(ks, i, dj)
        /\ dn = Put(ds, i, Still) /\ sn = SpoiltAfter(sp, i, sound)
  OBVIOUS
<1>7. Finalized(b) = ApiFinalizeHandover(hs[i], h, ks[i])
  BY <1>1, <1>3 DEF Finalized
<1>8. /\ Succeeded(ApiFinalizeHandover(hs[i], h, ks[i]))
      /\ held' = hn /\ keys' = kn /\ delta' = dn /\ spoilt' = sn
  BY <1>0, <1>1, <1>3, <1>5, <1>6, <1>7 DEF Finalize, Put, SpoiltAfter
<1>9. /\ i \in Departing /\ i \in Slots
      /\ KeysOK(kn) /\ CopiesOK(hn) /\ DeltasOK(dn) /\ SharesOK(hn, kn, dn, sn)
  BY <1>2, <1>3, <1>4, <1>5, <1>6, <1>8, FinalizeKeeps
<1>10. /\ updates' = updates /\ batons' = batons /\ rounds' = rounds
       /\ opens' = OpensNow(held', keys')
  BY DEF Finalize, Observe, OpensNow
<1>11. spoilt' \subseteq Departing
  BY <1>1, <1>6, <1>8, <1>9 DEF MInv, SpoiltAfter
<1>12. /\ KeysOK(keys') /\ CopiesOK(held') /\ DeltasOK(delta')
       /\ SharesOK(held', keys', delta', spoilt')
  BY <1>8, <1>9
<1>13. QED
  BY <1>10, <1>11, <1>12 DEF MInv
-----------------------------------------------------------------------------
\* Every step keeps the invariant.
LEMMA NextMInv ==
    ASSUME MInv, [Next]_vars
    PROVE  MInv'
<1>1. ASSUME NEW p \in Producers, NEW tail \in Tails, GenerateUpdate(p, tail)
      PROVE  MInv'
  <2>1. PICK ut : ut = GenerateRefreshTranscript(ContextNow, tail)
    OBVIOUS
  <2>2. UpdateOK(ut) /\ SoundUpdate(ut, keys)
    BY <2>1, GeneratedGiven DEF MInv
  <2>3. Post(p, ut, TRUE)
    BY <1>1, <2>1 DEF GenerateUpdate
  <2>4. QED
    BY <2>2, <2>3, PostStep
<1>2. ASSUME NEW p \in Faulty, NEW tail \in Tails, NEW how \in UpdateFaults,
             NEW victim \in Slots \ {p}, GenerateWrongUpdate(p, tail, how, victim)
      PROVE  MInv'
  <2>1. PICK poly, ut : /\ poly = PolynomialWithRoot(tail, Zero)
                        /\ ut = GenerateRefreshTranscript(ContextNow, tail)
    OBVIOUS
  <2>2. PICK w : w = SpoilUpdate(how, ContextNow, poly, ut, victim)
    OBVIOUS
  <2>3. UpdateOK(w)
    BY <2>1, <2>2, SpoiltGiven DEF MInv
  <2>4. Post(p, w, FALSE) /\ p \in Producers
    BY <1>2, <2>1, <2>2, MobilityAssumption DEF GenerateWrongUpdate
  <2>5. QED
    BY <2>3, <2>4, PostStep
<1>3. ASSUME NEW i \in Slots, NEW batch \in (SUBSET DOMAIN updates) \ {{}}, RefreshShare(i, batch)
      PROVE  MInv'
  BY <1>3, RefreshStep
<1>4. ASSUME NEW slot \in Departing, NEW dj \in Incoming, NEW t \in Blinding, NEW from \in Slots,
             PostBaton(slot, dj, t, from, One) \/ PostBaton(slot, dj, t, from, Add(One, One))
      PROVE  MInv'
  <2>1. One \in Fr /\ Add(One, One) \in Fr
    BY FrClosed
  <2>2. QED
    BY <1>4, <2>1, BatonStep
<1>5. ASSUME NEW b \in batons, Finalize(b)
      PROVE  MInv'
  BY <1>5, FinalizeStep
<1>6. CASE UNCHANGED vars
  <2>1. /\ keys' = keys /\ held' = held /\ updates' = updates /\ batons' = batons
        /\ delta' = delta /\ rounds' = rounds /\ spoilt' = spoilt /\ opens' = opens
    BY <1>6 DEF vars, history
  <2>2. QED
    BY <2>1 DEF MInv
<1>7. CASE CallPanics
  BY <1>6, <1>7 DEF CallPanics
<1>8. QED
  BY <1>1, <1>2, <1>3, <1>4, <1>5, <1>6, <1>7 DEF Next

\* The invariant of every behaviour.
LEMMA AlwaysMInv == Spec => []MInv
<1>1. MInv /\ [Next]_vars => MInv'
  BY NextMInv
<1>2. QED
  BY <1>1, InitMInv, PTL DEF Spec
-----------------------------------------------------------------------------
\* refresh and finalize_handover keep every copy well typed: see TypeOK.
THEOREM MobilityTypeCorrect == Spec => []TypeOK
<1>1. ASSUME MInv PROVE TypeOK
  <2>1. keys \in [Slots -> Fr \ {Zero}] /\ held \in [Slots -> AggregatedTranscript]
    BY <1>1 DEF MInv, KeysOK, CopiesOK
  <2>2. \A i \in Slots : Len(held[i].aggregate.shares) = Cohort.shares_num
    <3>1. TAKE i \in Slots
    <3>2. PICK s : s = held[i].aggregate.shares
      OBVIOUS
    <3>3. s \in [1..N -> Fr] /\ N \in Nat
      BY <1>1, <3>2, CohortGiven DEF MInv, CopiesOK, CopyForm
    <3>4. Len(s) = N
      BY <3>3
    <3>5. QED
      BY <3>2, <3>4 DEF N
  <2>3. delta \in [Slots -> [DOMAIN Still -> Fr]]
    BY <1>1, SlotsGiven DEF MInv, DeltasOK, Poly
  <2>4. DOMAIN updates \subseteq Slots
    BY <1>1, MobilityAssumption DEF MInv, UpdatesOK
  <2>5. opens \subseteq Groups
    BY <1>1 DEF MInv, OpensNow
  <2>6. QED
    BY <1>1, <2>1, <2>2, <2>3, <2>4, <2>5 DEF MInv, TypeOK
<1>2. QED
  BY <1>1, AlwaysMInv, PTL

\* Every holder can open its own slot.
LEMMA CopiesGiven ==
    ASSUME NEW hs, CopiesOK(hs), NEW ks, KeysOK(ks), NEW S \in SUBSET Slots
    PROVE  CopyOK(S, hs, ks)
<1>1. SUFFICES ASSUME NEW i \in S
               PROVE  /\ i + 1 \in DOMAIN hs[i].aggregate.shares
                      /\ hs[i].aggregate.shares[i + 1] \in Fr
                      /\ ks[i] \in Fr /\ ks[i] # Zero
  BY DEF CopyOK
<1>2. PICK k \in 1..N : k = i + 1
  BY CohortGiven, SlotsGiven
<1>3. hs[i].aggregate.shares \in [1..N -> Fr]
  BY DEF CopiesOK, CopyForm
<1>4. ks[i] \in Fr /\ ks[i] # Zero
  BY DEF KeysOK
<1>5. QED
  BY <1>2, <1>3, <1>4

\* The value of a share.
LEMMA ShareOfGiven ==
    ASSUME NEW p \in Poly, NEW i \in Slots
    PROVE  /\ ShareOf(p, i) = Add(Eval(Phi, Point(i)), Eval(p, Point(i)))
           /\ ShareOf(p, i) \in Fr /\ Eval(Phi, Point(i)) \in Fr /\ Eval(p, Point(i)) \in Fr
<1>1. Fits(Phi) /\ Fits(p) /\ Point(i) \in Fr
  BY PhiFits, PolyFits, SlotsGiven
<1>2. Eval(Phi, Point(i)) \in Fr /\ Eval(p, Point(i)) \in Fr
  BY <1>1, EvalType DEF Fits
<1>3. ShareOf(p, i) = Add(Eval(Phi, Point(i)), Eval(p, Point(i)))
  BY <1>1, PlusGiven DEF ShareOf
<1>4. QED
  BY <1>2, <1>3, FrClosed

\* The private share of a slot that took no wrong baton.
LEMMA SlotPrivate ==
    ASSUME NEW hs, CopiesOK(hs), NEW ks, KeysOK(ks), NEW ds, DeltasOK(ds),
           NEW sp, SharesOK(hs, ks, ds, sp), NEW i \in Slots \ sp
    PROVE  PrivateShare(hs[i], i, ks[i]) = ShareOf(ds[i], i)
<1>1. PICK S \in SUBSET Slots : S = {i}
  OBVIOUS
<1>2. CopyOK(S, hs, ks) /\ i \in S
  BY <1>1, CopiesGiven
<1>3. PICK y : y = hs[i].aggregate.shares[i + 1]
  OBVIOUS
<1>4. Privates(S, hs, ks)[i] = Mul(y, Inv(ks[i]))
  BY <1>2, <1>3, PrivatesGiven
<1>5. Privates(S, hs, ks)[i] = PrivateShare(hs[i], i, ks[i])
  BY <1>2 DEF Privates
<1>6. PICK z : z = ShareOf(ds[i], i)
  OBVIOUS
<1>7. z \in Fr /\ ks[i] \in Fr /\ ks[i] # Zero
  <2>1. ds[i] \in Poly
    BY DEF DeltasOK
  <2>2. z \in Fr
    BY <1>6, <2>1, ShareOfGiven
  <2>3. QED
    BY <2>2 DEF KeysOK
<1>8. y = Mul(ks[i], z)
  BY <1>3, <1>6 DEF SharesOK
<1>9. y = Mul(z, ks[i])
  BY <1>7, <1>8, FrMultiplicative
<1>10. Mul(y, Inv(ks[i])) = z
  BY <1>7, <1>9, BlindUnblind
<1>11. QED
  BY <1>4, <1>5, <1>6, <1>10

\* A holder's share is the joint polynomial plus the updates it took, at its point: see
\* OwnShareFollowsUpdates.
THEOREM OwnShareCorrect == Spec => []OwnShareFollowsUpdates
<1>1. ASSUME MInv PROVE OwnShareFollowsUpdates
  <2>1. PICK hs, ks, ds, sp : hs = held /\ ks = keys /\ ds = delta /\ sp = spoilt
    OBVIOUS
  <2>2. CopiesOK(hs) /\ KeysOK(ks) /\ DeltasOK(ds) /\ SharesOK(hs, ks, ds, sp)
    BY <1>1, <2>1 DEF MInv
  <2>3. \A i \in Slots \ sp : PrivateShare(hs[i], i, ks[i]) = ShareOf(ds[i], i)
    BY <2>2, SlotPrivate
  <2>4. QED
    BY <2>1, <2>3 DEF OwnShareFollowsUpdates, ShareOf
<1>2. QED
  BY <1>1, AlwaysMInv, PTL

\* Correct updates for the present keys never make refresh panic: see
\* SoundUpdatesNeverPanic.
THEOREM SoundUpdatesApply == Spec => []SoundUpdatesNeverPanic
<1>1. ASSUME MInv PROVE SoundUpdatesNeverPanic
  <2>1. SUFFICES ASSUME NEW i \in Slots,
                        NEW batch \in SUBSET {p \in DOMAIN updates :
                                                updates[p].sound /\ updates[p].keys = keys}
                 PROVE  Succeeded(Refreshed(i, batch))
    BY DEF SoundUpdatesNeverPanic
  <2>2. PICK at, ks, us : at = held[i] /\ ks = keys /\ us = updates
    OBVIOUS
  <2>3. CopyForm(at) /\ KeysOK(ks) /\ UpdatesOK(us)
    BY <1>1, <2>2 DEF MInv, CopiesOK
  <2>4. PICK uts : uts = UtsOf(batch, us)
    OBVIOUS
  <2>5. DOMAIN uts = batch /\ \A p \in batch : uts[p] = us[p].ut
    BY <2>4 DEF UtsOf
  <2>6. \A p \in batch : p \in DOMAIN us /\ us[p].sound /\ us[p].keys = ks
    BY <2>2
  <2>7. \A p \in batch : UpdateOK(uts[p]) /\ SoundUpdate(uts[p], ks)
    BY <2>3, <2>5, <2>6 DEF UpdatesOK, PostedOK
  <2>8. batch \in SUBSET Nat /\ IsFiniteSet(batch)
    <3>1. batch \subseteq Slots
      BY <2>3, <2>6, MobilityAssumption DEF UpdatesOK
    <3>2. QED
      BY <3>1, SlotsGiven, FS_Subset
  <2>9. BatchOK(batch, uts)
    BY <2>5, <2>7, <2>8 DEF BatchOK
  <2>10. Succeeded(ApiRefresh(at, uts, ks))
    BY <2>3, <2>7, <2>9, SoundBatchAccepted
  <2>11. QED
    BY <2>2, <2>4, <2>10 DEF Refreshed, UtsOf
<1>2. QED
  BY <1>1, AlwaysMInv, PTL

\* The simple and the precomputed variant open the same groups' ciphertexts: see
\* VariantsAgree.
THEOREM BothVariantsOpen == Spec => []VariantsAgree
<1>1. ASSUME MInv PROVE VariantsAgree
  <2>1. SUFFICES ASSUME NEW S \in Groups PROVE OpensPrecomputed(S, held, keys) <=> S \in opens
    BY DEF VariantsAgree
  <2>2. PICK hs, ks : hs = held /\ ks = keys
    OBVIOUS
  <2>3. CopiesOK(hs) /\ KeysOK(ks) /\ S \in SUBSET Slots
    BY <1>1, <2>2 DEF MInv, Groups
  <2>4. CopyOK(S, hs, ks)
    BY <2>3, CopiesGiven
  <2>5. OpensPrecomputed(S, hs, ks) <=> OpensSimple(S, hs, ks)
    BY <2>4, SimpleOpens, PrecomputedOpens
  <2>6. S \in opens <=> OpensSimple(S, hs, ks)
    BY <1>1, <2>2 DEF MInv, OpensNow
  <2>7. QED
    BY <2>2, <2>5, <2>6
<1>2. QED
  BY <1>1, AlwaysMInv, PTL

\* What a group's opening depends on: the private shares of its own slots.
LEMMA OpensFromShares ==
    ASSUME NEW hs, CopiesOK(hs), NEW ks, KeysOK(ks), NEW S \in Groups
    PROVE  /\ S \in SUBSET Slots /\ Privates(S, hs, ks) \in [S -> Fr]
           /\ \A i \in S : Privates(S, hs, ks)[i] = PrivateShare(hs[i], i, ks[i])
           /\ S \in OpensNow(hs, ks) <=> GroupSecret(S, Privates(S, hs, ks)) = Phi[1]
<1>1. S \in SUBSET Slots
  BY DEF Groups
<1>2. CopyOK(S, hs, ks)
  BY <1>1, CopiesGiven
<1>3. Privates(S, hs, ks) \in [S -> Fr]
  BY <1>2, PrivatesGiven
<1>4. \A i \in S : Privates(S, hs, ks)[i] = PrivateShare(hs[i], i, ks[i])
  BY DEF Privates
<1>5. S \in OpensNow(hs, ks) <=> GroupSecret(S, Privates(S, hs, ks)) = Phi[1]
  BY <1>2, SimpleOpens DEF OpensNow
<1>6. QED
  BY <1>1, <1>3, <1>4, <1>5

\* The share of slot i is one of a generation.
CleanIn(ds, sp, i) == i \notin sp /\ ds[i][T + 1] = Zero

\* The polynomial of a generation: of degree below the threshold, and with the joint
\* secret at zero.
LEMMA GenerationPoly ==
    ASSUME NEW p \in Poly, p[1] = Zero, p[T + 1] = Zero
    PROVE  /\ Plus(Phi, p) \in Poly
           /\ Plus(Phi, p)[T + 1] = Zero /\ Plus(Phi, p)[1] = Phi[1]
<1>1. T \in Nat /\ T >= 1 /\ Len(Phi) = T /\ Phi[1] \in Fr
  BY CohortGiven, SlotsGiven
<1>2. Fits(Phi) /\ Fits(p) /\ Len(p) = T + 1
  BY PhiFits, PolyFits
<1>3. PICK q : q = Plus(Phi, p)
  OBVIOUS
<1>4. /\ q \in Poly
      /\ \A k \in 1..(T + 1) : q[k] = Add(IF k <= Len(Phi) THEN Phi[k] ELSE Zero,
                                          IF k <= Len(p) THEN p[k] ELSE Zero)
  BY <1>2, <1>3, PlusGiven
<1>5. PICK m : m = T + 1
  OBVIOUS
<1>6. m \in 1..(T + 1) /\ 1 \in 1..(T + 1) /\ ~ (m <= T) /\ m <= T + 1 /\ 1 <= T /\ 1 <= T + 1
  BY <1>1, <1>5
<1>7. q[m] = Add(Zero, p[m])
  BY <1>1, <1>2, <1>4, <1>6
<1>8. q[1] = Add(Phi[1], p[1])
  BY <1>1, <1>2, <1>4, <1>6
<1>9. Add(Zero, Zero) = Zero /\ Add(Phi[1], Zero) = Phi[1]
  BY <1>1, FrAdditive, FrClosed
<1>10. QED
  BY <1>3, <1>4, <1>5, <1>7, <1>8, <1>9

\* A group of one generation opens.
LEMMA OneGenerationOpens ==
    ASSUME NEW hs, CopiesOK(hs), NEW ks, KeysOK(ks), NEW ds, DeltasOK(ds),
           NEW sp, SharesOK(hs, ks, ds, sp), NEW S \in Groups, NEW p \in Poly,
           \A i \in S : CleanIn(ds, sp, i) /\ ds[i] = p
    PROVE  S \in OpensNow(hs, ks)
<1>1. PICK z : z = Privates(S, hs, ks)
  OBVIOUS
<1>2. /\ S \in SUBSET Slots /\ \A i \in S : z[i] = PrivateShare(hs[i], i, ks[i])
      /\ S \in OpensNow(hs, ks) <=> GroupSecret(S, z) = Phi[1]
  BY <1>1, OpensFromShares
<1>3. \A i \in S : z[i] = ShareOf(p, i)
  <2>1. TAKE i \in S
  <2>2. i \in Slots \ sp /\ ds[i] = p
    BY <1>2 DEF CleanIn
  <2>3. PrivateShare(hs[i], i, ks[i]) = ShareOf(ds[i], i)
    BY <2>2, SlotPrivate
  <2>4. QED
    BY <1>2, <2>2, <2>3
<1>4. PICK i : i \in S
  <2>1. IsFiniteSet(S) /\ Cardinality(S) = T /\ T >= 1
    BY GroupGiven, CohortGiven
  <2>2. S # {}
    BY <2>1, FS_EmptySet
  <2>3. QED
    BY <2>2
<1>5. p[1] = Zero /\ p[T + 1] = Zero
  BY <1>2, <1>4 DEF CleanIn, DeltasOK
<1>6. PICK q : q = Plus(Phi, p)
  OBVIOUS
<1>7. q \in Poly /\ q[T + 1] = Zero /\ q[1] = Phi[1]
  BY <1>5, <1>6, GenerationPoly
<1>8. \A j \in S : z[j] = Eval(q, Point(j))
  BY <1>3, <1>6 DEF ShareOf
<1>9. GroupSecret(S, z) = q[1]
  BY <1>7, <1>8, OneGenerationCombines
<1>10. QED
  BY <1>2, <1>7, <1>9

\* One share of another generation keeps a group shut.
LEMMA OneStranger ==
    ASSUME NEW hs, CopiesOK(hs), NEW ks, KeysOK(ks), NEW ds, DeltasOK(ds),
           NEW sp, SharesOK(hs, ks, ds, sp), NEW S \in OpensNow(hs, ks),
           NEW i \in S, NEW j \in S \ {i}, \A k \in S : CleanIn(ds, sp, k),
           \A k \in S \ {i} : ds[k] = ds[j]
    PROVE  Eval(ds[i], Point(i)) = Eval(ds[j], Point(i))
<1>1. PICK z, p : z = Privates(S, hs, ks) /\ p = ds[j]
  OBVIOUS
<1>2. S \in Groups
  BY DEF OpensNow
<1>3. /\ S \in SUBSET Slots /\ z \in [S -> Fr] /\ GroupSecret(S, z) = Phi[1]
      /\ \A k \in S : z[k] = PrivateShare(hs[k], k, ks[k])
  BY <1>1, <1>2, OpensFromShares
<1>4. p \in Poly /\ p[1] = Zero /\ p[T + 1] = Zero /\ ds[i] \in Poly /\ i \in Slots
  BY <1>1, <1>3 DEF CleanIn, DeltasOK
<1>5. \A k \in S : z[k] = ShareOf(ds[k], k)
  <2>1. TAKE k \in S
  <2>2. k \in Slots \ sp
    BY <1>3 DEF CleanIn
  <2>3. PrivateShare(hs[k], k, ks[k]) = ShareOf(ds[k], k)
    BY <2>2, SlotPrivate
  <2>4. QED
    BY <1>3, <2>3
<1>6. PICK q : q = Plus(Phi, p)
  OBVIOUS
<1>7. q \in Poly /\ q[T + 1] = Zero /\ q[1] = Phi[1]
  BY <1>4, <1>6, GenerationPoly
<1>8. PICK w : w = [k \in S |-> ShareOf(p, k)]
  OBVIOUS
<1>9. w \in [S -> Fr] /\ \A k \in S : w[k] = ShareOf(p, k)
  BY <1>3, <1>4, <1>8, ShareOfGiven
<1>10. \A k \in S : w[k] = Eval(q, Point(k))
  BY <1>6, <1>9 DEF ShareOf
<1>11. GroupSecret(S, w) = Phi[1]
  BY <1>2, <1>7, <1>10, OneGenerationCombines
<1>12. \A k \in S \ {i} : z[k] = w[k]
  BY <1>1, <1>5, <1>9
<1>13. z[i] = w[i]
  BY <1>2, <1>3, <1>9, <1>11, <1>12, OneShareMatters
<1>14. PICK a, b, c : a = Eval(Phi, Point(i)) /\ b = Eval(ds[i], Point(i)) /\ c = Eval(p, Point(i))
  OBVIOUS
<1>15. /\ a \in Fr /\ b \in Fr /\ c \in Fr
       /\ ShareOf(ds[i], i) = Add(a, b) /\ ShareOf(p, i) = Add(a, c)
  BY <1>4, <1>14, ShareOfGiven
<1>16. Add(a, b) = Add(a, c)
  BY <1>5, <1>9, <1>13, <1>15
<1>17. b = c
  BY <1>15, <1>16, AddCancel
<1>18. QED
  BY <1>1, <1>14, <1>17

\* `threshold` shares of which one is of another generation do not decrypt: see
\* MixedGenerationsNeverDecrypt.
THEOREM MixedGenerationsShut == Spec => []MixedGenerationsNeverDecrypt
<1>1. ASSUME MInv PROVE MixedGenerationsNeverDecrypt
  <2>1. SUFFICES ASSUME NEW S \in opens, NEW i \in S, \A j \in S : Clean(j),
                        \A j, k \in S \ {i} : delta[j] = delta[k],
                        NEW j \in S, Eval(delta[i], Point(i)) # Eval(delta[j], Point(i))
                 PROVE  FALSE
    BY DEF MixedGenerationsNeverDecrypt
  <2>2. PICK hs, ks, ds, sp : hs = held /\ ks = keys /\ ds = delta /\ sp = spoilt
    OBVIOUS
  <2>3. CopiesOK(hs) /\ KeysOK(ks) /\ DeltasOK(ds) /\ SharesOK(hs, ks, ds, sp)
    BY <1>1, <2>2 DEF MInv
  <2>4. S \in OpensNow(hs, ks)
    BY <1>1, <2>2 DEF MInv
  <2>5. j \in S \ {i}
    BY <2>1
  <2>6. \A k \in S : CleanIn(ds, sp, k)
    BY <2>1, <2>2 DEF Clean, CleanIn, T
  <2>7. \A k \in S \ {i} : ds[k] = ds[j]
    BY <2>1, <2>2, <2>5
  <2>8. Eval(ds[i], Point(i)) = Eval(ds[j], Point(i))
    BY <2>3, <2>4, <2>5, <2>6, <2>7, OneStranger
  <2>9. QED
    BY <2>1, <2>2, <2>8
<1>2. QED
  BY <1>1, AlwaysMInv, PTL

\* What a step may do to the cohort: nothing, a refresh of one slot, or a handover of one.
LEMMA StepCases ==
    ASSUME MInv, [Next]_vars
    PROVE  \/ keys' = keys /\ held' = held /\ delta' = delta /\ spoilt' = spoilt /\ opens' = opens
           \/ \E i \in Slots : \E new, p :
                /\ keys' = keys /\ held' = Put(held, i, new) /\ delta' = Put(delta, i, p)
                /\ spoilt' = spoilt
           \/ \E i \in Slots : \E new, dj : \E sound \in BOOLEAN :
                /\ keys' = Put(keys, i, dj) /\ held' = Put(held, i, new)
                /\ delta' = Put(delta, i, Still) /\ spoilt' = SpoiltAfter(spoilt, i, sound)
<1> DEFINE Same == keys' = keys /\ held' = held /\ delta' = delta /\ spoilt' = spoilt /\ opens' = opens
           Fresh == \E i \in Slots : \E new, p :
                /\ keys' = keys /\ held' = Put(held, i, new) /\ delta' = Put(delta, i, p)
                /\ spoilt' = spoilt
           Handed == \E i \in Slots : \E new, dj : \E sound \in BOOLEAN :
                /\ keys' = Put(keys, i, dj) /\ held' = Put(held, i, new)
                /\ delta' = Put(delta, i, Still) /\ spoilt' = SpoiltAfter(spoilt, i, sound)
<1>1. ASSUME NEW p, NEW ut, NEW sound, Post(p, ut, sound) PROVE Same
  BY <1>1 DEF Post, history
<1>2. ASSUME NEW i \in Slots, NEW batch, RefreshShare(i, batch) PROVE Fresh
  <2>1. PICK r, total : /\ keys' = keys /\ spoilt' = spoilt
                        /\ held' = [held EXCEPT ![i] = r.val]
                        /\ delta' = [delta EXCEPT ![i] = Plus(@, total)]
    BY <1>2 DEF RefreshShare
  <2>2. PICK new, q : new = r.val /\ q = Plus(delta[i], total)
    OBVIOUS
  <2>3. held' = Put(held, i, new) /\ delta' = Put(delta, i, q)
    BY <2>1, <2>2 DEF Put
  <2>4. QED
    BY <2>1, <2>3
<1>3. ASSUME NEW slot, NEW dj, NEW t, NEW from, NEW factor, PostBaton(slot, dj, t, from, factor)
      PROVE  Same
  BY <1>3 DEF PostBaton, history
<1>4. ASSUME NEW b \in batons, Finalize(b) PROVE Handed
  <2>1. PICK i, new, dj : i = b.h.share_index /\ new = Finalized(b).val /\ dj = b.h.incoming_pubkey
    OBVIOUS
  <2>2. PICK sound \in BOOLEAN : sound <=> b.sound
    OBVIOUS
  <2>3. i \in Slots
    BY <2>1, MobilityAssumption DEF MInv, BatonsOK, BatonOK
  <2>4. /\ keys' = Put(keys, i, dj) /\ held' = Put(held, i, new)
        /\ delta' = Put(delta, i, Still) /\ spoilt' = SpoiltAfter(spoilt, i, sound)
    BY <1>4, <2>1, <2>2 DEF Finalize, Put, SpoiltAfter
  <2>5. QED
    BY <2>3, <2>4
<1>5. ASSUME UNCHANGED vars PROVE Same
  BY <1>5 DEF vars, history
<1>6. ASSUME CallPanics PROVE Same
  BY <1>5, <1>6 DEF CallPanics
<1> HIDE DEF Same, Fresh, Handed
<1>7. Same \/ Fresh \/ Handed
  <2>1. ASSUME NEW p, NEW tail, GenerateUpdate(p, tail) PROVE Same
    BY <1>1, <2>1 DEF GenerateUpdate
  <2>2. ASSUME NEW p, NEW tail, NEW how, NEW victim, GenerateWrongUpdate(p, tail, how, victim)
        PROVE  Same
    BY <1>1, <2>2 DEF GenerateWrongUpdate
  <2>3. CASE \E p \in Producers, tail \in Tails : GenerateUpdate(p, tail)
    BY <2>1, <2>3
  <2>4. CASE \E p \in Faulty, tail \in Tails, how \in UpdateFaults :
               \E victim \in Slots \ {p} : GenerateWrongUpdate(p, tail, how, victim)
    BY <2>2, <2>4
  <2>5. CASE \E i \in Slots : \E batch \in (SUBSET DOMAIN updates) \ {{}} : RefreshShare(i, batch)
    BY <1>2, <2>5
  <2>6. CASE \E slot \in Departing, dj \in Incoming, t \in Blinding, from \in Slots :
               \/ PostBaton(slot, dj, t, from, One)
               \/ "scaled" \in BatonFaults /\ PostBaton(slot, dj, t, from, Add(One, One))
    BY <1>3, <2>6
  <2>7. CASE \E b \in batons : Finalize(b)
    BY <1>4, <2>7
  <2>8. CASE Next
    BY <2>3, <2>4, <2>5, <2>6, <2>7, <2>8, <1>6 DEF Next
  <2>9. QED
    BY <1>5, <2>8
<1>8. QED
  BY <1>7 DEF Same, Fresh, Handed

\* The check of the committed share, on a slot that holds it.
LEMMA CommittedShareVerifies ==
    ASSUME NEW sh \in [1..N -> Fr], NEW i \in Slots, NEW k \in Fr,
           sh[i + 1] = Mul(k, Eval(Phi, Point(i)))
    PROVE  Holds(VerifyValidatorShare(Fft(Phi, Cohort.shares_num), sh, i, k))
<1>1. PICK cs : cs = Fft(Phi, Cohort.shares_num)
  OBVIOUS
<1>2. PICK m \in 1..N : m = i + 1
  BY CohortGiven, SlotsGiven
<1>3. m \in DOMAIN cs /\ cs[m] = Eval(Phi, Point(i))
  <2>1. cs = Fft(Phi, N)
    BY <1>1 DEF N
  <2>2. QED
    BY <1>2, <2>1, UpdateFft, SlotsGiven, CohortGiven
<1>4. m \in DOMAIN sh \cap DOMAIN cs
  BY <1>3
<1>5. Mul(One, sh[m]) = Mul(cs[m], k)
  BY <1>2, <1>3, StillGiven, FrMultiplicative, FrClosed
<1>6. VerifyValidatorShare(cs, sh, i, k) = Ok(Pairing(One, sh[m]) = Pairing(cs[m], k))
  BY <1>2, <1>4 DEF VerifyValidatorShare
<1>7. Pairing(One, sh[m]) = Pairing(cs[m], k)
  BY <1>5 DEF Pairing
<1>8. PICK e \in BOOLEAN : e <=> Pairing(One, sh[m]) = Pairing(cs[m], k)
  OBVIOUS
<1>9. VerifyValidatorShare(cs, sh, i, k) = Ok(e)
  BY <1>6, <1>7, <1>8
<1>10. Succeeded(Ok(e)) /\ Ok(e).val = e
  BY OutcomeForms
<1>11. QED
  BY <1>1, <1>7, <1>8, <1>9, <1>10 DEF Holds

\* finalize_handover installs the committed share under the incoming key: see
\* HandoverInstallsCommittedShare.
THEOREM HandoverInstalls == Spec => HandoverInstallsCommittedShare
<1> DEFINE Installs ==
             \A i \in Slots : keys'[i] # keys[i] /\ i \notin spoilt' =>
               Holds(VerifyValidatorShare(Fft(Phi, Cohort.shares_num),
                                          held'[i].aggregate.shares, i, keys'[i]))
<1>1. ASSUME MInv, [Next]_vars PROVE Installs
  <2>1. SUFFICES ASSUME NEW i \in Slots, keys'[i] # keys[i], i \notin spoilt'
                 PROVE  Holds(VerifyValidatorShare(Fft(Phi, Cohort.shares_num),
                                                   held'[i].aggregate.shares, i, keys'[i]))
    OBVIOUS
  <2>2. MInv'
    BY <1>1, NextMInv
  <2>3. PICK hn, kn, dn, sn : hn = held' /\ kn = keys' /\ dn = delta' /\ sn = spoilt'
    OBVIOUS
  <2>4. CopiesOK(hn) /\ KeysOK(kn) /\ DeltasOK(dn) /\ SharesOK(hn, kn, dn, sn)
    BY <2>2, <2>3 DEF MInv
  <2>5. PICK j \in Slots : \E new, dj : /\ keys' = Put(keys, j, dj) /\ held' = Put(held, j, new)
                                        /\ delta' = Put(delta, j, Still)
    BY <1>1, <2>1, StepCases
  <2>6. j = i
    BY <2>1, <2>5 DEF Put
  <2>7. dn[i] = Still
    BY <1>1, <2>3, <2>5, <2>6 DEF Put, MInv, DeltasOK
  <2>8. hn[i].aggregate.shares[i + 1] = Mul(kn[i], ShareOf(Still, i))
    BY <2>1, <2>3, <2>4, <2>7 DEF SharesOK
  <2>9. ShareOf(Still, i) = Eval(Phi, Point(i))
    BY StillGiven
  <2>10. hn[i].aggregate.shares \in [1..N -> Fr] /\ kn[i] \in Fr
    BY <2>4 DEF CopiesOK, CopyForm, KeysOK
  <2>11. Holds(VerifyValidatorShare(Fft(Phi, Cohort.shares_num), hn[i].aggregate.shares, i, kn[i]))
    BY <2>8, <2>9, <2>10, CommittedShareVerifies
  <2>12. QED
    BY <2>3, <2>11
<1>2. MInv /\ [Next]_vars => [Installs]_vars
  BY <1>1
<1>3. QED
  BY <1>2, AlwaysMInv, PTL DEF Spec, HandoverInstallsCommittedShare

\* The parts of the invariant that the groups' openings rest on.
CohortOK(hs, ks, ds, sp) ==
    CopiesOK(hs) /\ KeysOK(ks) /\ DeltasOK(ds) /\ SharesOK(hs, ks, ds, sp)

\* The generations of the slots, and the groups of one generation.
GenOf(ds, sp) == [i \in Slots |-> IF CleanIn(ds, sp, i) THEN ds[i] ELSE <<>>]
OneGeneration(gen) == {S \in Groups : \A i, j \in S : gen[i] = gen[j] /\ gen[i] # <<>>}

\* A group has a member.
LEMMA GroupMember ==
    ASSUME NEW S \in Groups
    PROVE  \E i \in S : i \in Slots
<1>1. IsFiniteSet(S) /\ Cardinality(S) = T /\ T >= 1 /\ S \subseteq Slots
  BY GroupGiven, CohortGiven
<1>2. S # {}
  BY <1>1, FS_EmptySet
<1>3. QED
  BY <1>1, <1>2

\* Groups of one generation open.
LEMMA AgreeingOpens ==
    ASSUME NEW hs, NEW ks, NEW ds, NEW sp, CohortOK(hs, ks, ds, sp)
    PROVE  OneGeneration(GenOf(ds, sp)) \subseteq OpensNow(hs, ks)
<1>1. PICK gen : gen = GenOf(ds, sp)
  OBVIOUS
<1>2. SUFFICES ASSUME NEW S \in OneGeneration(gen) PROVE S \in OpensNow(hs, ks)
  BY <1>1
<1>3. S \in Groups /\ \A i, j \in S : gen[i] = gen[j] /\ gen[i] # <<>>
  BY DEF OneGeneration
<1>4. S \subseteq Slots
  BY <1>3, GroupGiven
<1>5. \A i \in S : CleanIn(ds, sp, i) /\ gen[i] = ds[i]
  BY <1>1, <1>3, <1>4 DEF GenOf
<1>6. PICK i \in S : i \in Slots
  BY <1>3, GroupMember
<1>7. PICK p : p = ds[i]
  OBVIOUS
<1>8. p \in Poly
  BY <1>6, <1>7 DEF CohortOK, DeltasOK
<1>9. \A k \in S : CleanIn(ds, sp, k) /\ ds[k] = p
  BY <1>3, <1>5, <1>6, <1>7
<1>10. QED
  BY <1>3, <1>8, <1>9, OneGenerationOpens DEF CohortOK

\* A step of one slot.
OnlySlot(i, hs, ks, ds, sp, hn, kn, dn, sn) ==
    \A j \in Slots \ {i} : /\ hn[j] = hs[j] /\ kn[j] = ks[j] /\ dn[j] = ds[j]
                           /\ j \in sn <=> j \in sp

\* It changes nothing for the groups the slot is not in, and the generations only there.
LEMMA MoveGiven ==
    ASSUME NEW hs, NEW ks, NEW ds, NEW sp, CohortOK(hs, ks, ds, sp),
           NEW hn, NEW kn, NEW dn, NEW sn, CohortOK(hn, kn, dn, sn),
           NEW i \in Slots, OnlySlot(i, hs, ks, ds, sp, hn, kn, dn, sn)
    PROVE  /\ GenOf(dn, sn) = Put(GenOf(ds, sp), i, GenOf(dn, sn)[i])
           /\ \A S \in Groups : i \notin S => (S \in OpensNow(hn, kn) <=> S \in OpensNow(hs, ks))
<1>1. GenOf(dn, sn) = Put(GenOf(ds, sp), i, GenOf(dn, sn)[i])
  <2>1. PICK go, gn : go = GenOf(ds, sp) /\ gn = GenOf(dn, sn)
    OBVIOUS
  <2>2. ASSUME NEW j \in Slots, j # i PROVE gn[j] = go[j]
    <3>1. dn[j] = ds[j] /\ (j \in sn <=> j \in sp)
      BY <2>2 DEF OnlySlot
    <3>2. CleanIn(dn, sn, j) <=> CleanIn(ds, sp, j)
      BY <3>1 DEF CleanIn
    <3>3. /\ gn[j] = IF CleanIn(dn, sn, j) THEN dn[j] ELSE <<>>
          /\ go[j] = IF CleanIn(ds, sp, j) THEN ds[j] ELSE <<>>
      BY <2>1 DEF GenOf
    <3>4. QED
      BY <3>1, <3>2, <3>3
  <2>3. /\ gn = [j \in Slots |-> gn[j]] /\ DOMAIN go = Slots
    BY <2>1 DEF GenOf
  <2>4. gn = [go EXCEPT ![i] = gn[i]]
    BY <2>2, <2>3
  <2>5. QED
    BY <2>1, <2>4 DEF Put
<1>2. ASSUME NEW S \in Groups, i \notin S
      PROVE  S \in OpensNow(hn, kn) <=> S \in OpensNow(hs, ks)
  <2>1. PICK z, w : z = Privates(S, hs, ks) /\ w = Privates(S, hn, kn)
    OBVIOUS
  <2>2. S \in SUBSET Slots /\ (S \in OpensNow(hs, ks) <=> GroupSecret(S, z) = Phi[1])
    BY <2>1, OpensFromShares DEF CohortOK
  <2>3. S \in OpensNow(hn, kn) <=> GroupSecret(S, w) = Phi[1]
    BY <2>1, OpensFromShares DEF CohortOK
  <2>4. \A j \in S : hn[j] = hs[j] /\ kn[j] = ks[j]
    BY <1>2, <2>2 DEF OnlySlot
  <2>5. z = w
    BY <2>1, <2>4 DEF Privates
  <2>6. QED
    BY <2>2, <2>3, <2>5
<1>3. QED
  BY <1>1, <1>2

\* The mapping to the abstract specification.
LEMMA GenerationGiven ==
    /\ Generation = GenOf(delta, spoilt)
    /\ Custody!Groups = Groups
    /\ \A gen : Custody!Agreeing(gen) = OneGeneration(gen)
<1>1. Generation = GenOf(delta, spoilt)
  BY DEF Generation, GenOf, Clean, CleanIn, T
<1>2. Custody!Groups = Groups
  <2>1. \A S : Custody!Cardinality(S) = Cardinality(S)
    BY DEF Custody!Cardinality, Cardinality
  <2>2. QED
    BY <2>1 DEF Custody!Groups, Groups
<1>3. \A gen : Custody!Agreeing(gen) = OneGeneration(gen)
  BY <1>2 DEF Custody!Agreeing, OneGeneration
<1>4. QED
  BY <1>1, <1>2, <1>3

\* The cohort starts with every group able to open.
LEMMA CustodyInit == Init => Custody!Init
<1>1. SUFFICES ASSUME Init PROVE Custody!Init
  OBVIOUS
<1>2. MInv
  BY <1>1, InitMInv
<1>3. PICK hs, ks, ds, sp : hs = held /\ ks = keys /\ ds = delta /\ sp = spoilt
  OBVIOUS
<1>4. CohortOK(hs, ks, ds, sp) /\ opens = OpensNow(hs, ks)
  BY <1>2, <1>3 DEF MInv, CohortOK
<1>5. ds = [i \in Slots |-> Still] /\ sp = {}
  BY <1>1, <1>3 DEF Init
<1>6. \A i \in Slots : CleanIn(ds, sp, i)
  BY <1>5, StillGiven DEF CleanIn
<1>7. GenOf(ds, sp) = [i \in Slots |-> Still]
  BY <1>5, <1>6 DEF GenOf
<1>8. Still # <<>>
  BY SlotsGiven, CohortGiven
<1>9. Groups \subseteq OpensNow(hs, ks)
  <2>1. Groups \subseteq OneGeneration(GenOf(ds, sp))
    <3>1. SUFFICES ASSUME NEW S \in Groups PROVE S \in OneGeneration(GenOf(ds, sp))
      OBVIOUS
    <3>2. S \subseteq Slots
      BY GroupGiven
    <3>3. QED
      BY <1>7, <1>8, <3>2 DEF OneGeneration
  <2>2. QED
    BY <1>4, <2>1, AgreeingOpens
<1>10. opens = Groups
  BY <1>4, <1>9 DEF OpensNow
<1>11. Generation = [i \in Slots |-> Still]
  BY <1>3, <1>7, GenerationGiven
<1>12. QED
  BY <1>10, <1>11, GenerationGiven DEF Custody!Init

\* A step of one slot is a move of the abstract specification.
LEMMA CustodyMoves ==
    ASSUME MInv, MInv', NEW i \in Slots,
           OnlySlot(i, held, keys, delta, spoilt, held', keys', delta', spoilt')
    PROVE  Custody!Moves(i, Generation'[i])
<1>1. PICK hs, ks, ds, sp : hs = held /\ ks = keys /\ ds = delta /\ sp = spoilt
  OBVIOUS
<1>2. PICK hn, kn, dn, sn : hn = held' /\ kn = keys' /\ dn = delta' /\ sn = spoilt'
  OBVIOUS
<1>3. CohortOK(hs, ks, ds, sp) /\ opens = OpensNow(hs, ks)
  BY <1>1 DEF MInv, CohortOK
<1>4. CohortOK(hn, kn, dn, sn) /\ opens' = OpensNow(hn, kn)
  BY <1>2 DEF MInv, CohortOK
<1>5. OnlySlot(i, hs, ks, ds, sp, hn, kn, dn, sn)
  BY <1>1, <1>2
<1>6. PICK go, gn : go = GenOf(ds, sp) /\ gn = GenOf(dn, sn)
  OBVIOUS
<1>7. Generation = go
  BY <1>1, <1>6, GenerationGiven
<1>8. Generation' = gn
  <2>1. Generation' = [j \in Slots |-> IF CleanIn(dn, sn, j) THEN dn[j] ELSE <<>>]
    BY <1>2 DEF Generation, Clean, CleanIn, T
  <2>2. QED
    BY <1>6, <2>1 DEF GenOf
<1>9. /\ gn = Put(go, i, gn[i])
      /\ \A S \in Groups : i \notin S => (S \in OpensNow(hn, kn) <=> S \in OpensNow(hs, ks))
  BY <1>3, <1>4, <1>5, <1>6, MoveGiven
<1>10. OneGeneration(gn) \subseteq OpensNow(hn, kn)
  BY <1>4, <1>6, AgreeingOpens
<1>11. Generation' = [Generation EXCEPT ![i] = Generation'[i]]
  BY <1>7, <1>8, <1>9 DEF Put
<1>12. Custody!Agreeing(Generation') \subseteq opens'
  BY <1>4, <1>8, <1>10, GenerationGiven
<1>13. opens' \subseteq Custody!Groups
  BY <1>4, GenerationGiven DEF OpensNow
<1>14. \A S \in Custody!Groups : i \notin S => (S \in opens' <=> S \in opens)
  BY <1>3, <1>4, <1>9, GenerationGiven
<1>15. QED
  BY <1>11, <1>12, <1>13, <1>14 DEF Custody!Moves

\* Every step of the cohort is one of the abstract specification, or changes nothing of it.
LEMMA CustodyNext ==
    ASSUME MInv, [Next]_vars
    PROVE  [Custody!Next]_(Custody!vars)
<1>1. MInv'
  BY NextMInv
<1>2. /\ held \in [Slots -> AggregatedTranscript] /\ delta \in [Slots -> Poly]
      /\ keys \in [Slots -> Fr \ {Zero}]
  BY DEF MInv, KeysOK, CopiesOK, DeltasOK
<1>3. CASE keys' = keys /\ held' = held /\ delta' = delta /\ spoilt' = spoilt /\ opens' = opens
  <2>1. Generation' = Generation
    BY <1>3 DEF Generation, Clean
  <2>2. QED
    BY <1>3, <2>1 DEF Custody!vars
<1>4. CASE \E i \in Slots : \E new, p :
             /\ keys' = keys /\ held' = Put(held, i, new) /\ delta' = Put(delta, i, p)
             /\ spoilt' = spoilt
  <2>1. PICK i \in Slots : \E new, p :
          /\ keys' = keys /\ held' = Put(held, i, new) /\ delta' = Put(delta, i, p)
          /\ spoilt' = spoilt
    BY <1>4
  <2>2. OnlySlot(i, held, keys, delta, spoilt, held', keys', delta', spoilt')
    BY <1>2, <2>1 DEF OnlySlot, Put
  <2>3. Custody!Moves(i, Generation'[i])
    BY <1>1, <2>2, CustodyMoves
  <2>4. Custody!Refresh(i)
    BY <2>1, <2>3 DEF Custody!Refresh
  <2>5. QED
    BY <2>4 DEF Custody!Next
<1>5. CASE \E i \in Slots : \E new, dj : \E sound \in BOOLEAN :
             /\ keys' = Put(keys, i, dj) /\ held' = Put(held, i, new)
             /\ delta' = Put(delta, i, Still) /\ spoilt' = SpoiltAfter(spoilt, i, sound)
  <2>1. PICK i \in Slots, sound \in BOOLEAN : \E new, dj :
          /\ keys' = Put(keys, i, dj) /\ held' = Put(held, i, new)
          /\ delta' = Put(delta, i, Still) /\ spoilt' = SpoiltAfter(spoilt, i, sound)
    BY <1>5
  <2>2. OnlySlot(i, held, keys, delta, spoilt, held', keys', delta', spoilt')
    BY <1>2, <2>1 DEF OnlySlot, Put, SpoiltAfter
  <2>3. Custody!Moves(i, Generation'[i])
    BY <1>1, <2>2, CustodyMoves
  <2>4. delta'[i] = Still
    BY <1>2, <2>1 DEF Put
  <2>5. Generation'[i] \in {Still, <<>>}
    BY <2>4 DEF Generation, Clean
  <2>6. keys' = [keys EXCEPT ![i] = keys'[i]]
    BY <1>2, <2>1 DEF Put
  <2>7. Custody!Handover(i)
    BY <2>3, <2>5, <2>6 DEF Custody!Handover
  <2>8. QED
    BY <2>7 DEF Custody!Next
<1>6. QED
  BY <1>3, <1>4, <1>5, StepCases

\* The cohort keeps the key: refresh and handover implement KeyCustody.  See
\* CohortKeepsTheKey.
THEOREM CohortImplementsCustody == Spec => CohortKeepsTheKey
<1>1. MInv /\ [Next]_vars => [Custody!Next]_(Custody!vars)
  BY CustodyNext
<1>2. QED
  BY <1>1, CustodyInit, AlwaysMInv, PTL DEF Spec, CohortKeepsTheKey, Custody!Spec
=============================================================================
