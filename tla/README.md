# A TLA+ development of opacity-ferveo

ferveo is a Rust library for threshold encryption: a set of validators runs a
distributed key generation (DKG) out of publicly verifiable secret sharing
(PVSS), anyone encrypts to the resulting public key, and any
`security_threshold` of the validators decrypt together. The library has no
network, no threads and no storage of its own. What is hard about it is what its
callers do around it: contexts made from lists in different orders, transcripts
that arrive late, twice, reordered or forged, aggregates that travel in
serialized form and are verified against another message set than they were made
from, ciphertexts whose parts are recombined, shares made with the wrong key or
combined in an arbitrary order, shares refreshed and handed over with messages
that are stale when they are used. The modules here model the operations of the
library as functions on abstract data and put them in the hands of such callers.

## 1. The system

| Component | State it keeps | Operations | Hard behaviour |
|---|---|---|---|
| DKG context (`ferveo/src/dkg.rs`, `validator.rs`, `Dkg` of `api.rs`) | parameters, validators by share index, evaluation domain, own identity | `Dkg::new`, `generate_transcript`, `aggregate_transcripts`, `get_domain_point`; with a feature flag `generate_refresh_transcript`, `generate_handover_transcript` | order and range of share indices; duplicates; which error names whom |
| PVSS transcripts (`ferveo/src/pvss.rs`) | Feldman commitments, blinded shares, proof of knowledge | `new`, `verify_optimistic`, `verify_full`, `verify_aggregation`, `aggregate`; with the flag `refresh`, `finalize_handover` | transcripts of another degree or shape; leading terms that cancel; a dealer set padded with empty contributions |
| `AggregatedTranscript` (`api.rs`, `pvss.rs`) | the aggregate and its public key as two fields | `new`, `verify`, serialization | the two fields disagree after deserialization; verified against any message set |
| Threshold encryption (`ferveo-tdec/src/ciphertext.rs`) | none | `encrypt`, `header`, `check`, `decrypt_with_shared_secret`, `decrypt_symmetric` | identity elements, recombined ciphertexts, another aad |
| Decryption shares (`ferveo-tdec/src/decryption.rs`, `key_share.rs`, `combine.rs`, `api.rs`) | none | create, verify and combine, in the simple and the precomputed variant | wrong keypair, wrong domain point, order of shares, selections |
| Decryption contexts (`ferveo-tdec/src/context.rs`, `lib.rs`) | private shares a dealer hands out, public contexts | `setup_simple`, create shares, check a batch, combine by public contexts | indexing by participant in a selection |
| Share refresh and handover (`ferveo/src/refresh.rs`, `pvss.rs`) | updates by share index, handover transcripts | `create_refresh_updates`, `apply_share_updates`, handover generate, validate, finalize | shares of different generations in one decryption; handover of a refreshed share |
| Subproduct domain (`subproductdomain/src/lib.rs`) | a tree of subproduct polynomials | fast multi-point evaluation, inverse Lagrange coefficients, `fast_multiexp`, `toeplitz_mul` | sizes that are not powers of two; vectors that end in zeros, on which ark-poly panics; values that vanish |
| Keypairs, serialization, hash to curve, secret box | none | conversions | none in protocol terms |
| Branch-flow guard (`.github/scripts/branch_flow_guard.py`) | none | classifies pull requests | a policy table beside the library |

The components interact by calls: a context deals a transcript; transcripts from
several contexts are aggregated in another; the aggregate and a context make
decryption shares; shares from several participants are combined. Everything
that crosses from one participant to another is a value the receiver did not
make and must check.

What makes each part correct:

* contexts: whatever list they were made from, they are exact (indices 0..n-1,
  each under its key) or refused, and no later operation on them panics;
* PVSS: what an honest dealer deals verifies everywhere; what `verify` accepts
  has exactly the promised threshold, reconstructs the secret of its public key
  and counts every given dealer; aggregation does not depend on order;
* errors: a dealer is blamed only for a transcript it did not generate;
* encryption: nothing decrypts, and no share is made, for what `encrypt` did not
  make; verified shares are the right ones; exactly the threshold decrypts;
* refresh and handover: the cohort keeps its key, a holder's share is exactly the
  joint polynomial plus the updates it took, shares of two generations do not
  combine, and what a faulty peer sends can spoil the slot that takes it and no
  other;
* subproduct domain: what a fast algorithm returns is what its definition says, and it
  is known on which arguments it panics instead.

## 2. Modules

| Module | Models | Kind |
|---|---|---|
| `Arkworks` | the field, the groups, FFT domains and polynomial evaluation the crates take from arkworks | external algebra, with its laws as assumptions |
| `Tdec` | `ferveo-tdec`: ciphertexts, checksums, shares, Lagrange coefficients, combination | operators |
| `Pvss` | `pvss.rs`, `validator.rs`, `AggregatedTranscript::verify` | operators |
| `DkgContext` | `dkg.rs` | operators |
| `Dkg` | a ceremony: callers, dealers honest and faulty, clients | state machine |
| `DecryptionShares` | the decryption half of `api.rs` | operators |
| `TdecContexts` | `context.rs` and the factories of `ferveo-tdec/src/lib.rs`, the batch check | operators |
| `Decryption` | encryption and threshold decryption, over an established aggregate or over contexts | state machine |
| `Refresh` | `refresh.rs` and what `dkg.rs`, `pvss.rs` and `api.rs` build on it | operators |
| `KeyCustody` | what refresh and handover promise a cohort | abstract specification |
| `ShareMobility` | the life of a cohort: refreshes and handovers by holders with their own copies; implements `KeyCustody` | state machine |
| `Subproduct` | `subproductdomain/src/lib.rs` | operators (recursive functions) |
| `SubproductCalls` | its calls, against their definitions | state machine |
| `SmallField`, `MCDkg`, `MCDecryption`, `MCShareMobility`, `MCSubproduct` | two small fields and the instances | for TLC |
| `AlgebraProofs`, `PolynomialProofs`, `PvssProofs`, `ContextProofs` | what the operators compute | lemmas |
| `DkgProofs`, `DecryptionProofs`, `MobilityProofs`, `SubproductProofs` | theorems about the state machines | proofs |

### How the state corresponds to the code

Every group element of G1, G2 and GT is its discrete logarithm to the generator of
its group, an element of the scalar field `Fr`. Addition of points is `Add`,
scalar multiplication `Mul`, the identity `Zero`, and the pairing `e(aG, bH)` is
`Mul(a, b)`. Every equation the code checks and every value it computes stays what
it is. What the representation cannot say is what an observer can compute, so the
project is about correctness and not about secrecy. A validator's `ek` is the
logarithm of its encryption key, which is its decryption key.

A call returns `Ok(v)`, `Err(e)` or `Panic(e)`, where a panic stands for a Rust
panic or an aborted allocation. Loops that leave at the first failing turn are
`FirstFailure` over the turns' outcomes. `Err` carries the error's name and the
argument a property needs; wording is left out. The order of checks and early
returns is that of the code.

`Dkg` has one action per API call. `NewDkg`, `GenerateTranscript`,
`CallAggregateTranscripts`, `CallAggregatedTranscriptNew`, `CallVerify` and
`CallVerifyAggregation` are calls; `PostForged` and `PostCopy` are faulty dealers,
`Receive` and `ReceiveAggregate` the channel. `inbox` is the list of messages a
client has collected, in its order and with repetitions; `agg` the aggregate it
holds, whoever made it; `last` the last call on the two and its outcome, so that a
property can say what held when a call returned. `panics` collects the calls that
have panicked. `Decryption` likewise: `DoEncrypt`, the `Create...` and the
`Decrypt...` actions are calls; `Damage` is the way a ciphertext travels,
`SpoilSimple` and `SpoilByContext` are faulty validators, and the key passed to
`CreateSimple` need not be the validator's own because the code never compares the
two. A ceremony decrypts in one of three ways (`variant`): simple or precomputed
shares of an aggregate, or shares of the contexts that `setup_simple` hands out.

`ShareMobility` has one copy of the aggregate per slot (`held`), because nothing in
the code keeps the holders' copies in step. `GenerateUpdate`, `RefreshShare`,
`PostBaton` and `Finalize` are the four calls of the API; a holder refreshes with any
batch of the updates posted so far, more than once if it likes, and finalizes any
baton posted for its slot, from whichever copy and however long ago it was made.
`GenerateWrongUpdate` is a producer that posts a damaged update, one with a share
missing, one that does not vanish at zero, or one of too high a degree; a faulty
incoming node scales two parts of its baton. Most failures of this code are unwraps:
`CallPanics` is a call that panicked and left its caller's aggregate as it was.
`delta`, `rounds`, `spoilt` and `opens` are history: the sum of the update
polynomials in a slot's share, and which groups of `security_threshold` holders
decrypt a sample ciphertext together, computed with the code's own operators. They
are what the refinement of `KeyCustody` is about: the generation of a slot is its
`delta`.

`Subproduct` represents a polynomial by its coefficients as ark-poly does, without
leading zeros except in a vector that was resized. ark-poly's `degree()` asserts that a
polynomial other than zero has no leading zeros, and its sums and differences call it on
their operands when neither is zero; its products do not. So the addition that starts a
turn of `inverse_mod_xl` panics when the resize of the turn before has left a zero at the
end (`InverseModXl`), as do the assertion of `evaluate` and the subtraction of
`fast_divide_monic` on a dividend with leading zeros. A `SubproductTree` is identified
with the slice of points it is made of, since its children are always the trees of
the two halves: `TreeM[u]` is its polynomial `m`, and `evaluate` and `linear_combine`
are functions of the slice as well. `SubproductCalls` makes any call
on any domain of `Points` with any arguments up to the bounds; a call and its result
are one state, and a property compares the two.

Hashes are injective constructors, and an AEAD payload opens only under the key,
nonce and aad it was sealed with. Random draws of probability `1/|Fr|` (a zero
secret, a zero leading coefficient, a zero ephemeral) are left out of the honest
dealers' and clients' draws and only of theirs; in a field of five elements they
would not be rare.

## 3. Runs

All instances but `dec_shares` and `subproduct` use the field of five elements: its multiplicative group is a
domain of size four, so that three validators live in a domain that is larger
than they are, as in production, where domains are powers of two. The ritual is
2 of 3 with the validators listed in another order than their indices. Three
validators are the least for which "some but not all", "an order that is not the
list's" and "a majority without the faulty one" all exist; two messages in an
inbox are the least for a duplicate, a copy or a cancellation.

| Run | Question |
|---|---|
| `dkg_setup` | eleven rituals, most of them wrong (zero threshold, threshold above shares, repeated or out-of-range index, identity key, no validators, four validators): are contexts exact or refused, does nothing panic, does what one context deals verify in every other? |
| `dkg_agreement` | honest dealers, two clients that miss, repeat and reorder: does `verify` accept the aggregate of any set of valid transcripts, is the aggregate the same for both, is nobody counted twice? |
| `dkg_forged` | polynomials too short, padded with zeros, too long, or with leading terms that cancel: does what `verify` accepts have exactly the threshold? |
| `dkg_distorted` | transcripts without commitments, with a wrong proof, a wrong or a missing share, all zero, copied, or from strangers: no panic, no padded dealer set, no honest dealer blamed, and does `verify_aggregation` vouch for every slot? |
| `dkg_tampered` | aggregates whose public key, shares or commitments changed on the way, verified against other message sets: does `verify` still imply reconstruction and contribution? |
| `dec_shares` | shares with wrong keys and spoiled values, all selections, the contexts of ferveo-tdec: do verified shares, any two in any order, decrypt; does one never; is a share that verifies the right one, and does an honest one verify; do exactly the selected validators decrypt, and fewer of them or fewer than the threshold in no variant; does the batch check vouch for what it was given, beside as many contexts, one fewer or one more; for which selections does `create_share_precomputed` work? |
| `dec_wire` | ciphertexts recombined from two, garbled, with identity elements, under another aad: is nothing decrypted and no share made that `encrypt` did not make, and do shares decrypt what `decrypt_symmetric` would with the key nobody holds? |
| `mobility` | three holders, two updates of which one may be wrong in five ways, a baton that may be scaled, two refreshes each: does the cohort implement `KeyCustody`, do shares follow the updates, do generations never mix, does a sound update never panic, does a handover install the committed share, do both variants agree? |
| `subproduct` | domains of one to five points (even, uneven, with zero, a subgroup, a point twice), polynomials of up to five coefficients, lengths up to eight: does every algorithm return what its definition says, and panic where the properties say it does? |

Bounds: `MaxPosted`, `MaxForged` and `MaxInbox` bound the published, forged and
collected messages, `MaxSent`, `MaxWire`, `MaxShares` and `MaxBasket` the
ciphertexts, shares and combined shares, `MaxUpdates`, `MaxBatons` and `MaxRounds`
the messages and refreshes of a cohort, `MaxLen`, `MaxDivisor`, `MaxLength` and
`MaxToeplitz` the arguments of the subproduct calls. Two updates and two refreshes
are the least for a batch, an order and a slot that took an update twice; one
baton and one departing slot are enough for every order of a handover with them.
`dec_shares` and `subproduct` use the field of seventeen elements. In the first, with
one polynomial and its points, no set of shares that is too small hits the secret by
chance, so that `TooFewSharesNeverDecrypt` needs no exception; in the second there are
domains of eight and no derivative of these polynomials loses its leading term.
Three terms of an inverse are the least for the Newton iteration to stall
(`1 + x^2` modulo `x^3`), and five points for an evaluation: with up to four every
division down the tree asks for at most two terms. `Points` has five points whose first
two sum to zero and five that do not. A
cohort may stop once its messages are used up, so `mobility` does not check
deadlock; the other systems cannot come to a halt and are checked for it.

### What the cohort's properties say

`CohortKeepsTheKey` is `KeyCustody!Spec` under the mapping above: every step of
`ShareMobility` moves at most one slot to another generation or custodian, groups
without that slot decrypt exactly as before, and at every time a group whose slots
are of one generation decrypts. `MixedGenerationsNeverDecrypt` is the other
direction. It has a precondition worth knowing: one slot's update polynomial must
differ from the others' at its own point; two polynomials that meet there give the
same share. `OwnShareFollowsUpdates` is about the holder's own slot of its own copy.
The other slots of a copy follow only that copy's refreshes.
`HandoverInstallsCommittedShare` is an action property: a baton that was made
correctly and is accepted installs a share that verifies against the commitments of
the ceremony. Wrong batons are excluded because the code drops the Boolean of
`verify_validator_share` (`pvss.rs:605`, a gap the module's documentation lists);
`CohortKeepsTheKey` confines the damage to the slot that took it. The property and the
finding below are two sides of one fact: the commitments are never updated, so the
share a handover installs is always the one of the original generation.

### Where the comments and the code differ

Each of these is a run that TLC must find violated.

| Run | The repository says | The code |
|---|---|---|
| `doc_verify_full` | `verify`: "This check also includes `verify_full`" | checks only the slots of the messages' senders; an aggregate can pass with a bad slot for a validator that sent nothing |
| `doc_handover` | the handover test of `lib.rs`: "the private shares are not changing" | a baton made before a refresh is accepted after it, and the slot goes back to its share of before the refresh |
| `doc_precomputed_verify` | `DecryptionSharePrecomputed::verify`: "Verify that the decryption share is valid" | the Lagrange coefficient is missing from the equation, so correct shares fail |

Smaller ones were confirmed while modelling and have no run of their own:
`UnknownDealer` says "Dealer must be the part of the DKG validator set" while
`verify_transcripts` looks the share index up and compares neither address nor key;
`SubproductTree::evaluate` says at a leaf that "f must be a constant polynomial" and
reads its first coefficient, which the zero polynomial does not have, while its
documentation promises `t_i = f(u_i)` for every `f` of a degree below the number of
points; it, `interpolate` ("such that f(u_i) = v_i") and
`inverse_lagrange_coefficients` also panic over some distinct points, such as
`(1, -1, 2, 3, 4)`, where five coefficients are divided by `x^2 - 1` and the Newton
iteration stalls (over five points exactly when the first two sum to zero, for a
dividend of five coefficients), as does `inverse_mod_xl` on `1 + x^2` modulo `x^3`
although that has an inverse; `EvaluationExact`, `InterpolationExact`, `LagrangeExact`,
`DivisionExact` and `InverseExact` state which calls return. `SubproductTree::new` does
not return for no points;
`do_verify_aggregation` speaks of "a valid aggregation" and compares only the
constant terms (the `reblind` case of `dkg_tampered`, which is why
`VerifiedAggregateReconstructs` is about the aggregate's own shares);
`shares_num` "is the total number of shares to be generated" while one share per
validator is generated and the two numbers are never compared; the comment of
`test_aggregate_wont_verify_if_under_threshold` says the opposite of its
assertion; and "the precomputed variant requires n of n shares" while the
selected validators suffice (`SelectionDecrypts`).

## 4. Fairness and liveness

None is assumed and no liveness is claimed. The library schedules nothing: every
call runs to completion and whether another call follows is the caller's choice.
What would be liveness in a protocol is here a statement about the outcome of a
call: valid transcripts are accepted, enough shares decrypt.

## 5. Proofs

TLC checks one field and three validators. The theorems hold for every field
(the laws in `FrClosed`, `FrAdditive`, `FrMultiplicative`), every family of
evaluation domains (`DomainAssumption`: large enough, distinct elements, none of
them zero), every set of rituals, clients, polynomials and bounds, and so for any
number of validators. Those about the subproduct domain hold for every sequence of
points, of any length, and for polynomials of any length.

| Theorem | States | Module |
|---|---|---|
| `TypeCorrect` | `Spec => []TypeOK` | `DkgProofs` |
| `ContextsExact` | `Spec => []ContextIndicesExact` | `DkgProofs` |
| `NeverPanics` | `Spec => []NoPanic` | `DkgProofs` |
| `DealersContribute` | `Spec => []EveryDealerContributes` | `DkgProofs` |
| `NoHonestDealerBlamed` | `Spec => []BlameIsSound` | `DkgProofs` |
| `VerifiedReconstructs` | `Spec => []VerifiedAggregateReconstructs` | `DkgProofs` |
| `ThresholdKept` | `Spec => []ThresholdNotLowered` | `DkgProofs` |
| `AggregationServesAll` | `Spec => []AggregationServesAllValidators` | `DkgProofs` |
| `HonestVerifies` | `Spec => []HonestTranscriptVerifies` | `DkgProofs` |
| `OrderIndependent` | `Spec => []AggregationOrderIndependent` | `DkgProofs` |
| `DealersCountedOnce` | `Spec => []EveryDealerCountedOnce` | `DkgProofs` |
| `ValidAccepted` | `Spec => []ValidTranscriptsAccepted` | `DkgProofs` |
| `DecryptionTypeCorrect` | `Spec => []TypeOK` | `DecryptionProofs` |
| `OnlyEncryptedDecrypts` | `Spec => []DecryptsOnlyWhatWasEncrypted` | `DecryptionProofs` |
| `OnlyEncryptedAnswered` | `Spec => []SharesOnlyForEncrypted` | `DecryptionProofs` |
| `MatchesPrivateKey` | `Spec => []ThresholdMatchesPrivateKey` | `DecryptionProofs` |
| `VerifiedCorrect` | `Spec => []VerifiedShareIsCorrect` | `DecryptionProofs` |
| `OwnVerifies` | `Spec => []OwnShareVerifies` | `DecryptionProofs` |
| `EnoughSharesDecrypt` | `Spec => []EnoughVerifiedSharesDecrypt` | `DecryptionProofs` |
| `SelectedDecrypt` | `Spec => []SelectionDecrypts` | `DecryptionProofs` |
| `PrefixDecrypts` | `Spec => []PrefixSelectionDecrypts` | `DecryptionProofs` |
| `BatchVouches` | `Spec => []BatchCheckVouches` | `DecryptionProofs` |
| `OneShareShort` | `security_threshold - 1` shares never decrypt | `DecryptionProofs` |
| `MobilityTypeCorrect` | `Spec => []TypeOK` | `MobilityProofs` |
| `OwnShareCorrect` | `Spec => []OwnShareFollowsUpdates` | `MobilityProofs` |
| `SoundUpdatesApply` | `Spec => []SoundUpdatesNeverPanic` | `MobilityProofs` |
| `BothVariantsOpen` | `Spec => []VariantsAgree` | `MobilityProofs` |
| `MixedGenerationsShut` | `Spec => []MixedGenerationsNeverDecrypt` | `MobilityProofs` |
| `HandoverInstalls` | `Spec => HandoverInstallsCommittedShare` | `MobilityProofs` |
| `CohortImplementsCustody` | `Spec => CohortKeepsTheKey` (refinement of `KeyCustody`) | `MobilityProofs` |
| `DivisionIsDivision` | `Spec => []DivisionExact` | `SubproductProofs` |
| `InverseIsInverse` | `Spec => []InverseExact` | `SubproductProofs` |
| `EvaluationIsEvaluation` | `Spec => []EvaluationExact` | `SubproductProofs` |
| `LagrangeIsSpread` | `Spec => []LagrangeExact` | `SubproductProofs` |
| `CombinationIsCombination` | `Spec => []CombinationExact` | `SubproductProofs` |
| `InterpolationIsInterpolation` | `Spec => []InterpolationExact` | `SubproductProofs` |

### Assumptions

About the callers of a ceremony, `RitualAssumption` of `Dkg`: counts are at most
`MaxDomain`. They are `u32` in the code and the scalar field of BLS12-381 has
domains up to 2^32, so the domain construction cannot fail; over a curve with
smaller domains `Dkg::new` could panic. `Decryption` starts from a ceremony that has
ended: `RitualAssumption` there says that `Dkg::new` accepts the ritual for every
validator, and `DrawsAssumption` that the joint secret and the draws of clients are
not zero. `ShareMobility` starts there too: by `CohortAssumption` its ceremony is one
that `Dkg::new` accepts, with as many validators as shares, and its joint polynomial
has `security_threshold` coefficients and a secret that is not zero; by
`MobilityAssumption` update polynomials have the length `generate_refresh_transcript` draws,
and keys and blinding scalars are not zero. Nothing is assumed of what faulty
producers and incoming nodes post beyond the five ways to spoil an update and the
scaling of a baton, nor of when or how often anything is applied.

`SubproductCalls` assumes that a domain has at least one point, all of them field
elements (`PointsAssumption`; on no points `SubproductTree::new` does not return), that
arguments are made of field elements (`ValuesAssumption`) and that its bounds are
natural numbers (`BoundsAssumption`). Points may repeat.

Two properties of `Dkg` carry a hypothesis that the proofs showed they need.
`HonestTranscriptVerifies` is about thresholds within the domain: `do_verify_full`
evaluates the commitments by an FFT that drops coefficients above the domain's
size, and `Dkg::new` compares the threshold with `shares_num`, which nothing ties to
the number of validators. `ValidTranscriptsAccepted` is for rituals with as many
validators as `shares_num`, for the same reason. The rituals of the runs include ones
on either side of both.

### The lemmas underneath

`AlgebraProofs`: sums, products and evaluations are folds. That they exist, stay in
the field and obey the laws of sums (`FSumAdd`, `FSumScale`, `FSumWithout`,
`FSumPermuted`) and of polynomials (`EvalAdd`, `EvalPad`, `Division`, `EvalSum`) is
proved by induction on the length, stated about the set of lengths for which the
fact holds (`SetInduction`), since the library's induction theorems take an operator
as a parameter. Its second part is
about the Lagrange coefficients of `lagrange_basis_at` at zero. With `n` distinct points and a polynomial `p` of `n + 1` coefficients,
`p(0)` is the combination of the values at the points plus the leading coefficient
times the product of the negated points (`InterpolationRemainder`, by division by
`x - a` for the last point `a`, and `CoefficientsSumToOne`). So `n` coefficients or
fewer give equality (`Interpolation`), and a leading coefficient and points that are
not zero give inequality (`OnePointShort`): one identity is behind both halves of
the threshold.

`PolynomialProofs`: the arithmetic of `Subproduct`. A polynomial is a power series that
ends (`Ser`), `PolyMul` is convolution (`PolyMulSer`), which is commutative and
associative (`ConvComm`, `ConvAssoc`), and the value of a product is the product of the
values (`EvalMul`). If `g` is right in `k` coefficients as an inverse of `f`, then
`2g - f g^2` is right in `2k` (`NewtonSeries`), so that the loop of `inverse_mod_xl` ends
with at least `l` of them if it ends (`InverseSteps`, `InverseFacts`); the quotient of
`fast_divide_monic` is the dividend times the inverse of the divisor, both reversed, and
what it leaves has no coefficient at or above the divisor's degree (`QuotientFacts`,
`DivisionFacts`).

`PvssProofs`: loops that leave at the first failure (`FirstFailureCases`), the
order of a `BTreeMap`'s values with dense keys (`ValuesOfDense`), dealing in an exact
context (`PvssNewExact`), the outcomes of aggregation and of each verification, and
what acceptance implies (`VerifyOutcome`, `DoVerifyFullSound`, `DegreePinning`).

`ContextProofs`: `Dkg::new` returns exact contexts, by the pigeonhole argument that
a comment in `PubliclyVerifiableDkg::new` makes (`DistinctIndicesFillRange`); the
position of a key among sorted keys (`RankFacts`, `ValuesRanked`), which is how the
precomputed variant finds its coefficient; aggregating one transcript changes nothing
(`SingleAggregate`).

### The ceremony

`IInv` is the conjunction of the type invariant, exact contexts, no panic, what
`verify` established, and `AcceptedHeld`: a client whose last call was an accepting
`verify` holds an aggregate. The parts need one another: dealing in a context does
not panic because the context is exact, the transcript's type follows from the same
fact, `zip_eq` and `verify` are safe because inboxes hold well-formed transcripts,
and without `AcceptedHeld` a step that gives another client an aggregate could not be
told from one that changes this client's. The step theorem `NextIInv` has one lemma
per action. `NoHonestDealerBlamed` adds two facts to it: every transcript
`generate_transcript` made passes `verify_optimistic`, and whoever is blamed sent
one that does not; the second is stable because the first keeps such a transcript
from ever becoming an honest one.

`CInv` adds what the reconstruction theorems need: the contexts of a ritual agree
with one another, only a validated ritual leads to messages, and a client's last
accepting call speaks of what the client still holds. From it, acceptance gives the
pairing equation of every slot it looked at, hence shares of one polynomial at
distinct points, and interpolation does the rest. For `ThresholdKept` the degree check
gives a leading coefficient that is not zero. `OrderIndependent` maps one client's
inbox to the other's by a permutation and rests on `FSumPermuted`. So does
`DealersCountedOnce`: an accepted inbox holds no sender twice (`DealersDiffer`), hence it
lists the set of its messages, and any other listing is a permutation of it, which leaves
the public key, every commitment and every share what they are. `ValidAccepted`
and `HonestVerifies` go the other way, from valid transcripts to acceptance.

### Decryption

`DInv` says what the ceremony left behind (`Established`: contexts agree, slot `k` of
the aggregate is the joint polynomial at its point under its key), that every
ciphertext in circulation is put together from parts of ciphertexts that `encrypt`
made, damaged or not (`CiphertextFacts`), what each share in circulation is made of,
by variant (`ShareFacts`), and which secret the last decryption was given
(`OutFacts`). The security of the header check is one lemma: a header that passes is
part for part the header of one `encrypt` call (`CheckedWasSent`), whose ciphertext
opens under one secret only (`SentOpens`). The two equations of
`ValidatorShareChecksum::verify` leave one decryption share (`ChecksumPins`), for the
verified shares of an aggregate as for the batch check. The rest is the sum: shares
weighted with the coefficients of their points (`SecretOfShares`), or carrying them
in any order (`SecretOfWeighted`), give the secret if there are as many as
coefficients, and do not if there is one less.

The batch check and the combination both stop at the shorter of two lists, and
`BatchVouches` says what that means. Every context that has a share has the right one
(`BatchCombined`), so the client adds up the weighted shares of the contexts as far as
there are shares: all of them, which is the secret; or all but the last, which is the
secret less one term, and that term is not zero unless the missing share is
(`SecretNeedsAll`).

### Refresh and handover

`OwnShareFollowsUpdates` is not inductive: a handover replaces a share by one computed
from the baton, and a refresh adds whatever the posted transcripts contain. `MInv` adds
what is known of both. Every copy has the ceremony's commitments (`CopyForm`);
every posted update commits to a polynomial that fits, and if it is longer than the
threshold its entries agree with that polynomial (`UpdateOK`); an update made correctly is
the blinded values of a polynomial with a root at zero, for the keys at the time
(`SoundUpdate`); a baton made correctly is some share blinded twice, with the matching
commitment (`SoundBaton`). The blinded share of every slot outside `spoilt` is then
the value of `Phi` plus `delta` at its point under the present key (`SharesOK`), and
`delta` has no free term.

Two lemmas carry the argument. `AcceptedUpdate`: whatever was posted, a transcript that
`verify_refresh` lets pass has a root at zero, and each of its updates is the value
of its polynomial under the slot's present key. So applying a batch adds the batch's
sum at every point (`RefreshedCopy`, by exchanging the sums over producers and over
coefficients in `BatchTotalGiven`). `BatonEquation`: on a correctly made baton the
pairing equation of `validate` leaves one share, the committed one, whichever copy
the baton was made from: a baton made from a refreshed share is refused unless the
updates vanish at the slot's point, and a stale one puts the ceremony's share back
(`SoundFinalize`).

What a group opens depends on its private shares alone, and in the same way in both
variants (`SimpleOpens`, `PrecomputedOpens`). Shares of one polynomial of degree
below the threshold combine to its free term, which is the joint secret
(`OneGenerationOpens`), and since no Lagrange weight is zero, exchanging one share for
another value changes the result (`OneStranger`). A step touches the key, copy and
`delta` of one slot (`StepCases`), so the groups without that slot keep what they had
(`MoveGiven`): with `OneGenerationOpens` this is the step simulation of `KeyCustody`
(`CustodyInit`, `CustodyNext`).

`MInv` was checked by TLC on the instance of the run `mobility` as well.

### The subproduct domain

The invariant is short (`CallInv`: the domain is a slice of points, and `out` is idle or
one of the calls with what it returned); the work is in what the recursive functions
compute. A recursion over the halves of a slice has exactly one solution
(`TreeRecursion`), so that `TreeM`, `TreeEvaluate` and `LinearCombine` satisfy their
equations, and a fact that passes from the two halves to the whole holds of every slice
(`SliceInduction`), however uneven the tree.

* `TreeMFacts`: the polynomial of a slice is monic, as long as the slice plus one, and its
  value at `x` is the product of the `x - u_i`.
* `InverseStalls`: which calls of `inverse_mod_xl` panic. A turn starts from a vector as long
  as its precision `2^k` unless `f` is a constant: the product `f g^2` is longer than
  `2g`, so the difference has at least `2^(k+1)` coefficients before it is cut
  (`MulLength`, `NewtonLength`). Its last coefficient is that of the true inverse, since
  an inverse modulo `x^n` is unique (`InverseUnique`), and the definition of the inverse
  one coefficient after the other, which the properties use, is one (`ReciprocalFacts`).
  So the loop panics exactly when a coefficient `2, 4, 8, ...` of `1 / f` short of the last
  turn is zero (`StallSteps`), and with it the division (`DivisionStalls`). A longer
  inverse stalls where a shorter one does (`StallsMonotone`), so that a tree in which no
  division of as many coefficients as points stalls (`Stalling`) has none that does.
* `EvaluationFacts`: `f` and its remainder modulo the polynomial of a half agree at the
  points of that half (`RemainderFacts`, `TreeZeros`), and the remainder's degree is below
  its number of points, so the assertion in the code can fail only at the root. A leaf
  panics on a zero remainder, and then the value at its point is zero. `Stalling` is
  about dividends as long as the slice; a shorter one may do without the terms at which
  the iteration stalls, so that `EvaluationExact` is one implication each way and not an
  equivalence.
* `CombineFacts`: combining two halves crosswise gives the sum of the
  `c_i m / (x - u_i)` of the whole (`CombinationJoin`).
* `DerivativeFacts`: with all `c_i` one this sum is the derivative of `m`, by the product
  rule (`DerivativeProduct`, from `F::from(k) * c` as a repeated sum, so that it holds in
  every characteristic). At `u_i` all terms but one are zero (`CombinationAt`), which
  leaves the product of the differences (`DerivativeAt`, `LagrangeFacts`): it is not zero
  when the points differ, and so no leaf panics; it is zero when two are equal, and then
  a leaf panics. The derivative has no leading zero if the characteristic does not divide
  the number of points; for the fields of the crate it never does.
* `InterpolationFacts` puts the last three together.

### Only model-checked

* `TooFewSharesNeverDecrypt` beyond `security_threshold - 1` shares in the simple variant
  and in the precomputed one for their own selection: with fewer shares still, or with a
  part of a selection, a combination can hit the secret by chance in a finite field, so
  that it holds of the polynomials a run is given and not of all. `OneShareShort` is the
  part that holds always.
* `ToeplitzExact`: that the inverse FFT undoes the product of two FFTs rests on sums of
  powers of a root of unity, of the domains that arkworks provides. `DomainAssumption`
  says that domain elements are distinct and not zero, which is all the rest of the
  project needs, and not that they are the powers of one element.
* Liveness under fairness and `ENABLED` are out of the prover's reach and not needed
  here.

## 6. Not modelled

* the branch-flow guard, a table of allowed branch pairs beside the library;
* ark-poly's limit on the size of a product: multiplying polynomials for which the field
  has no large enough FFT domain panics. The scalar field has domains up to 2^32, beyond
  what these vectors reach;
* the network of holders: who may post an update, agreement on which updates a round
  consists of and on the cohort's keys. The code leaves all three to its callers;
* byte layout, parsing and hashing to the curve: golden vectors and standards are
  their tests. That a deserialized value need not be one a constructor made is
  modelled (`ReceiveAggregate`, `PostForged`);
* zeroization, benchmarks and examples, which change no result.

## 7. Plan

A composition of `Dkg`, `Decryption` and `ShareMobility` from setup to plaintext; for
now they meet in the property that an aggregate `verify` accepts reconstructs, and in
the aggregate the other two start from.
