---------------------------------- MODULE Dkg ----------------------------------
(***************************************************************************)
(* ferveo/src/dkg.rs and the DKG half of ferveo/src/api.rs: a ceremony.    *)
(*                                                                         *)
(* The crate is a library and has no network of its own.  Its callers make *)
(* a context each, dealers publish transcripts, every client receives what *)
(* was published in its own order, some of it twice and some of it never,  *)
(* aggregates what it has, passes aggregates on in serialized form and     *)
(* verifies them.  Dealers need not be honest: transcripts and aggregates  *)
(* are "peer-supplied".  Every call is one action; the calls are the only  *)
(* places where state changes.                                             *)
(***************************************************************************)
EXTENDS DkgContext

CONSTANTS
    Addresses,   \* EthereumAddress
    Rituals,     \* what a ceremony may be called with
    Strangers,   \* validators that belong to no ritual
    Clients,     \* addresses whose owners aggregate and verify
    Polys,       \* the polynomials dealers may draw, as coefficient sequences
    Distortions, \* how a faulty dealer may change a transcript before posting it
    Tamperings,  \* how a serialized aggregate may differ from the one sent
    MaxPosted,   \* bound on published transcripts
    MaxForged,   \* bound on those published by faulty dealers
    MaxInbox     \* bound on the messages a client collects

Validator == [address : Addresses, ek : Fr, share_index : Nat]

\* DkgParams and the validator list; tau is not used by any computation.
RitualAssumption(r) ==
    /\ r.validators \in Seq(Validator)
    /\ r.threshold \in Nat /\ r.shares_num \in Nat
    \* u32 counts never exceed 2^32, the largest domain of the BLS12-381 field.
    /\ Len(r.validators) <= MaxDomain /\ r.shares_num <= MaxDomain

ASSUME RitualsAssumption == \A r \in Rituals : RitualAssumption(r)
ASSUME PolysAssumption == \A phi \in Polys : phi \in Seq(Fr) /\ phi # <<>>
ASSUME FaultsAssumption ==
    /\ Distortions \subseteq {"none", "no_coeffs", "wrong_sigma", "wrong_share",
                              "short_shares", "zero"}
    /\ Tamperings \subseteq {"none", "public_key", "shares", "reblind"}
ASSUME StrangersAssumption == Strangers \subseteq Validator
ASSUME ClientsAssumption == Clients \subseteq Addresses
ASSUME BoundsAssumption == MaxPosted \in Nat /\ MaxForged \in Nat /\ MaxInbox \in Nat
-----------------------------------------------------------------------------
BumpLast(s) == [i \in DOMAIN s |-> IF i = Len(s) THEN Add(s[i], One) ELSE s[i]]

\* What a faulty dealer may do to a transcript.
Distort(t, how) ==
    CASE how = "none"         -> t
      [] how = "no_coeffs"    -> [t EXCEPT !.coeffs = <<>>]
      [] how = "wrong_sigma"  -> [t EXCEPT !.sigma = Add(t.sigma, One)]
      [] how = "wrong_share"  -> [t EXCEPT !.shares = BumpLast(t.shares)]
      [] how = "short_shares" -> [t EXCEPT !.shares = SubSeq(t.shares, 1, Len(t.shares) - 1)]
      [] how = "zero"         -> [coeffs |-> [i \in DOMAIN t.coeffs |-> Zero],
                                  shares |-> [i \in DOMAIN t.shares |-> Zero],
                                  sigma  |-> Zero]

\* How a serialized aggregate may differ when it reaches another client; z is
\* some transcript whose polynomial vanishes at zero.
Tamper(at, how, z) ==
    CASE how = "none"       -> at
      [] how = "public_key" -> [at EXCEPT !.public_key = Add(at.public_key, One)]
      [] how = "shares"     -> [at EXCEPT !.aggregate = Distort(at.aggregate, "wrong_share")]
      [] how = "reblind"    -> IF SameShape(at.aggregate, z)
                               THEN [at EXCEPT !.aggregate = Aggregate(<<at.aggregate, z>>).val]
                               ELSE at
-----------------------------------------------------------------------------
VARIABLES
    ritual,  \* the parameters every participant was given
    dkg,     \* by address, the contexts made so far
    board,   \* the transcripts published so far, as (sender, transcript)
    honest,  \* those of them that generate_transcript made
    inbox,   \* by client, the messages in the order it collected them
    agg,     \* by client, the aggregate it holds
    last,    \* by client, its last call on inbox and agg and what it returned
    panics   \* the calls that have panicked

vars == <<ritual, dkg, board, honest, inbox, agg, last, panics>>

Idle == [op |-> "none", out |-> Ok(TRUE)]
Returned(op, r) == [op |-> op, out |-> IF Succeeded(r) THEN Ok(TRUE) ELSE r]

Put(f, k, v) == [x \in DOMAIN f \cup {k} |-> IF x = k THEN v ELSE f[x]]
Trap(op, r) == panics' = IF r.kind = "panic" THEN panics \cup {op} ELSE panics

Init ==
    /\ ritual \in Rituals
    /\ dkg = [a \in {} |-> {}]
    /\ board = {} /\ honest = {}
    /\ inbox = [c \in Clients |-> <<>>]
    /\ agg = [c \in {} |-> {}]
    /\ last = [c \in Clients |-> Idle]
    /\ panics = {}

RitualValidators == {ritual.validators[i] : i \in DOMAIN ritual.validators}

\* Dkg::new; on an error the caller has no context.
NewDkg(me) ==
    LET r == DkgNew(ritual.validators, ritual, me)
    IN  /\ me.address \notin DOMAIN dkg
        /\ dkg' = IF Succeeded(r) THEN Put(dkg, me.address, r.val) ELSE dkg
        /\ Trap("Dkg::new", r)
        /\ UNCHANGED <<ritual, board, honest, inbox, agg, last>>

\* SecretPolynomial::new: a random polynomial of degree t - 1 whose constant
\* coefficient is replaced by the secret.  A draw of a zero secret or a zero
\* leading coefficient has probability 1/|Fr| and is left out.
Draws(t) == {phi \in Polys : Len(phi) = t /\ phi[1] # Zero /\ phi[t] # Zero}

\* generate_transcript, and the caller publishes what it returns.
GenerateTranscript(a, phi) ==
    LET r == PvssNew(phi, dkg[a])
        m == [sender |-> dkg[a].me, transcript |-> r.val]
    IN  /\ Cardinality(board) < MaxPosted
        /\ board' = IF Succeeded(r) THEN board \cup {m} ELSE board
        /\ honest' = IF Succeeded(r) THEN honest \cup {m} ELSE honest
        /\ Trap("generate_transcript", r)
        /\ UNCHANGED <<ritual, dkg, inbox, agg, last>>

Post(m) ==
    /\ Cardinality(board) < MaxPosted
    /\ Cardinality(board \ honest) < MaxForged
    /\ board' = board \cup {m}
    /\ UNCHANGED <<ritual, dkg, honest, inbox, agg, last, panics>>

\* A faulty dealer deals any polynomial, of any length, and distorts the result.
PostForged(a, s, phi, how) ==
    LET r == PvssNew(phi, dkg[a])
    IN  /\ Succeeded(r)
        /\ Post([sender |-> s, transcript |-> Distort(r.val, how)])

\* A faulty dealer publishes another dealer's transcript under its own name.
PostCopy(s, m) == Post([sender |-> s, transcript |-> m.transcript])

\* A published message reaches a client.
Receive(c, m) ==
    /\ Len(inbox[c]) < MaxInbox
    /\ inbox' = [inbox EXCEPT ![c] = Append(@, m)]
    /\ last' = [last EXCEPT ![c] = Idle]
    /\ UNCHANGED <<ritual, dkg, board, honest, agg, panics>>

KeepAggregate(c, op, r) ==
    /\ agg' = IF Succeeded(r) THEN Put(agg, c, r.val) ELSE agg
    /\ last' = [last EXCEPT ![c] = Returned(op, r)]
    /\ Trap(op, r)
    /\ UNCHANGED <<ritual, dkg, board, honest, inbox>>

\* Dkg::aggregate_transcripts on what the client has collected.
CallAggregateTranscripts(c) ==
    KeepAggregate(c, "aggregate_transcripts", AggregateTranscripts(dkg[c], inbox[c]))

\* AggregatedTranscript::new, which checks nothing but the shapes.
CallAggregatedTranscriptNew(c) ==
    KeepAggregate(c, "AggregatedTranscript::new", FromTranscripts(Transcripts(inbox[c])))

\* A client deserializes an aggregate that it or another client sent.
ReceiveAggregate(c, from, how, a) ==
    LET t == dkg[a].threshold
        z == PvssNew([i \in 1..t |-> IF i = t /\ i > 1 THEN One ELSE Zero], dkg[a]).val
    IN  /\ agg' = Put(agg, c, Tamper(agg[from], how, z))
        /\ last' = [last EXCEPT ![c] = Idle]
        /\ UNCHANGED <<ritual, dkg, board, honest, inbox, panics>>

Report(c, op, r) ==
    /\ last' = [last EXCEPT ![c] = [op |-> op, out |-> r]]
    /\ Trap(op, r)
    /\ UNCHANGED <<ritual, dkg, board, honest, inbox, agg>>

\* AggregatedTranscript::verify against the messages the client has collected.
CallVerify(c) ==
    Report(c, "verify", Verify(agg[c], ritual.shares_num, ritual.threshold, inbox[c]))

\* PubliclyVerifiableSS::verify_aggregation against the same transcripts.
CallVerifyAggregation(c) ==
    Report(c, "verify_aggregation",
           VerifyAggregation(agg[c].aggregate, dkg[c], Transcripts(inbox[c])))

Next ==
    \/ \E me \in RitualValidators \cup Strangers : NewDkg(me)
    \/ \E a \in DOMAIN dkg : \E phi \in Draws(dkg[a].threshold) : GenerateTranscript(a, phi)
    \/ \E a \in DOMAIN dkg, s \in RitualValidators \cup Strangers,
          phi \in Polys, how \in Distortions : PostForged(a, s, phi, how)
    \/ \E s \in RitualValidators \cup Strangers, m \in board : PostCopy(s, m)
    \/ \E c \in Clients, m \in board : Receive(c, m)
    \/ \E c \in Clients \cap DOMAIN dkg : CallAggregateTranscripts(c)
    \/ \E c \in Clients : CallAggregatedTranscriptNew(c)
    \/ \E c \in Clients, from \in DOMAIN agg, how \in Tamperings, a \in DOMAIN dkg :
          ReceiveAggregate(c, from, how, a)
    \/ \E c \in Clients \cap DOMAIN agg : CallVerify(c)
    \/ \E c \in Clients \cap DOMAIN agg \cap DOMAIN dkg : CallVerifyAggregation(c)

Spec == Init /\ [][Next]_vars
-----------------------------------------------------------------------------
Message == [sender : Validator, transcript : Transcript]
IsContext(d) ==
    /\ d.threshold \in Nat /\ d.shares_num \in Nat /\ d.domain \in Nat
    /\ d.me \in Validator
    /\ DOMAIN d.validators \subseteq Nat
    /\ \A k \in DOMAIN d.validators : d.validators[k] \in Validator
    /\ d.me.share_index \in DOMAIN d.validators
    /\ d.validators[d.me.share_index].ek = d.me.ek
IsCall(l) ==
    /\ l.op \in {"none", "aggregate_transcripts", "AggregatedTranscript::new", "verify",
                 "verify_aggregation"}
    /\ l.out.kind \in {"ok", "err", "panic"}
    /\ Succeeded(l.out) => l.out.val \in BOOLEAN

\* Type invariant: the shapes of the contexts, messages and aggregates that
\* Dkg::new, generate_transcript, aggregate and verify pass around; a context speaks for
\* one of its own validators, under that validator's key.
TypeOK ==
    /\ ritual \in Rituals
    /\ DOMAIN dkg \subseteq Addresses
    /\ \A a \in DOMAIN dkg : IsContext(dkg[a])
    /\ board \subseteq Message /\ honest \subseteq board
    /\ inbox \in [Clients -> Seq(Message)]
    /\ DOMAIN agg \subseteq Clients
    /\ \A c \in DOMAIN agg : agg[c] \in AggregatedTranscript
    /\ DOMAIN last = Clients
    /\ \A c \in Clients : IsCall(last[c])

\* "requiring every index to be in range makes the set exactly {0, ..., n-1}"
\* (dkg.rs, PubliclyVerifiableDkg::new): in every context the share indices are
\* 0..n-1, each leads to the validator that carries it, and no key is the
\* identity; whatever list, in whatever order, the context was made from.
ContextIndicesExact ==
    \A a \in DOMAIN dkg :
        LET vs == dkg[a].validators
        IN  /\ dkg[a].threshold > 0
            /\ dkg[a].domain = Len(ritual.validators)
            /\ DOMAIN vs = 0..(dkg[a].domain - 1)
            /\ \A k \in DOMAIN vs : vs[k].share_index = k /\ vs[k].ek # Zero

\* No call panics or aborts, whatever transcripts and aggregates peers supply:
\* not the domain construction, not `evals[share_index]`, not the threshold
\* subtraction, not `zip_eq`.
NoPanic == panics = {}

\* The client's last call is an AggregatedTranscript::verify that said Ok(true).
Accepted(c) == last[c].op = "verify" /\ Holds(last[c].out)

\* What the validators vs, each unblinding its slot of the client's aggregate,
\* reconstruct together over the domain new(n).
Reconstruct(c, n, vs) ==
    LET lambda   == PrepareCombineSimple([k \in DOMAIN vs |-> DomainElement(n, vs[k].share_index)])
        share(v) == Unblind(agg[c].aggregate.shares[v.share_index + 1], v.ek).val
    IN  FSum([k \in DOMAIN vs |-> Mul(lambda[k], share(vs[k]))])

\* The ways to pick k members of the sequence vs, in their order.
Picks(k, vs) ==
    {[i \in 1..k |-> vs[p[i]]] :
        p \in {q \in [1..k -> DOMAIN vs] : \A i, j \in 1..k : i < j => q[i] < q[j]}}

\* After verify returns Ok(true), any `security_threshold` of the validators it
\* was given reconstruct the secret of the aggregate's public key, however the
\* transcripts were forged and the aggregate was tampered with.
VerifiedAggregateReconstructs ==
    \A c \in Clients : Accepted(c) =>
        \A vs \in Picks(ritual.threshold, Senders(inbox[c])) :
            Reconstruct(c, ritual.shares_num, vs) = agg[c].public_key

\* After verify returns Ok(true), no `security_threshold - 1` of its validators
\* reconstruct it: no dealer lowered the effective threshold with a polynomial of
\* smaller degree, padded or not.
ThresholdNotLowered ==
    \A c \in Clients : Accepted(c) =>
        \A vs \in Picks(ritual.threshold - 1, Senders(inbox[c])) :
            Reconstruct(c, ritual.shares_num, vs) # agg[c].public_key

\* After verify_aggregation, which takes the validators of the context, returns
\* Ok(true), any `security_threshold` of all of them reconstruct the secret of the
\* aggregate's constant term, the ones whose transcripts are missing included.
AggregationServesAllValidators ==
    \A c \in Clients :
        last[c].op = "verify_aggregation" /\ Holds(last[c].out) =>
            \A vs \in Picks(dkg[c].threshold, ValuesOf(dkg[c].validators)) :
                Reconstruct(c, dkg[c].domain, vs) = agg[c].aggregate.coeffs[1]

\* After verify returns Ok(true), the public key is the sum of the contributions
\* of the given dealers, and each dealer proved knowledge of one that is not the
\* identity: the dealer set was not padded.
EveryDealerContributes ==
    \A c \in Clients : Accepted(c) =>
        /\ agg[c].public_key = FSum([i \in DOMAIN inbox[c] |-> inbox[c][i].transcript.coeffs[1]])
        /\ \A i \in DOMAIN inbox[c] :
             LET t == inbox[c][i].transcript IN t.coeffs[1] # Zero /\ t.sigma = t.coeffs[1]

\* The ways to list the elements of a finite set, each once.
Listings(S) ==
    {s \in [1..Cardinality(S) -> S] : \A i, j \in DOMAIN s : s[i] = s[j] => i = j}

\* Whatever arrives twice, when aggregate_transcripts succeeds every dealer has been
\* counted once: the messages come from different addresses, and the public key, every
\* commitment and every blinded share of the aggregate is the sum over the set of
\* messages collected, in whichever order they are listed.
EveryDealerCountedOnce ==
    \A c \in Clients :
        last[c].op = "aggregate_transcripts" /\ Succeeded(last[c].out) =>
            LET got == {inbox[c][i] : i \in DOMAIN inbox[c]}
                sum == agg[c].aggregate
            IN  /\ Cardinality({m.sender.address : m \in got}) = Len(inbox[c])
                /\ \A s \in Listings(got) :
                     /\ agg[c].public_key = FSum([i \in DOMAIN s |-> s[i].transcript.coeffs[1]])
                     /\ \A k \in DOMAIN sum.coeffs :
                          sum.coeffs[k] = FSum([i \in DOMAIN s |-> s[i].transcript.coeffs[k]])
                     /\ \A k \in DOMAIN sum.shares :
                          sum.shares[k] = FSum([i \in DOMAIN s |-> s[i].transcript.shares[k]])

\* Two clients that collected the same messages, each in its own order, and
\* whose aggregate_transcripts succeeded hold the same aggregate.
AggregationOrderIndependent ==
    \A c, d \in Clients :
        LET Done(x) == last[x].op = "aggregate_transcripts" /\ Succeeded(last[x].out)
            Got(x)  == {inbox[x][i] : i \in DOMAIN inbox[x]}
        IN  Done(c) /\ Done(d) /\ Got(c) = Got(d) => agg[c] = agg[d]

\* A transcript generate_transcript made passes verify_full and
\* verify_optimistic in the context of every participant, not just its dealer's.
\* Dkg::new does not compare the threshold with the number of validators: if it
\* exceeds even their domain, the transform of do_verify_full drops commitments.
HonestTranscriptVerifies ==
    ritual.threshold <= DomainSize(Len(ritual.validators)) =>
        \A m \in honest, a \in DOMAIN dkg :
            VerifyOptimistic(m.transcript) /\ Holds(VerifyFull(m.transcript, dkg[a]))

\* The client holds the aggregate of its messages, they come from different
\* validators of the ritual, and each transcript is valid in its own right.
CollectedValid(c) ==
    /\ LET r == FromTranscripts(Transcripts(inbox[c])) IN Succeeded(r) /\ r.val = agg[c]
    /\ \A i \in DOMAIN inbox[c] :
         /\ inbox[c][i].sender \in RitualValidators
         /\ \A j \in DOMAIN inbox[c] : inbox[c][j].sender = inbox[c][i].sender => i = j
         /\ VerifyOptimistic(inbox[c][i].transcript)
         /\ \A a \in DOMAIN dkg : Holds(VerifyFull(inbox[c][i].transcript, dkg[a]))

\* Completeness: verify accepts the aggregate of valid transcripts of different
\* validators, a subset of them included, unless their constant or their leading
\* terms happen to cancel (probability about 1/|Fr| for honest dealers).  The caller
\* passes the number of shares for the number of validators, so they are the same.
ValidTranscriptsAccepted ==
    \A c \in Clients :
        /\ ritual.shares_num = Len(ritual.validators)
        /\ last[c].op = "verify"
        /\ DOMAIN dkg # {}
        /\ CollectedValid(c)
        /\ agg[c].public_key # Zero
        /\ agg[c].aggregate.coeffs[ritual.threshold] # Zero
        => Accepted(c)

\* aggregate_transcripts blames a dealer with InvalidPvssTranscript only if the
\* client has a transcript under that dealer's address that the dealer did not
\* generate.
BlameIsSound ==
    \A c \in Clients, a \in Addresses :
        (/\ last[c].op = "aggregate_transcripts"
         /\ last[c].out.kind = "err"
         /\ last[c].out.val = <<"InvalidPvssTranscript", a>>)
        => \E i \in DOMAIN inbox[c] :
              inbox[c][i].sender.address = a /\ inbox[c][i] \notin honest
-----------------------------------------------------------------------------
(***************************************************************************)
(* What comments of the repository say and the code does not do.           *)
(***************************************************************************)

\* "This check also includes `verify_full`" (api.rs, AggregatedTranscript::verify):
\* an aggregate that verify accepts passes verify_full in the client's context.
\* verify checks only the slots of the messages' senders.
VerifyIncludesVerifyFull ==
    \A c \in Clients \cap DOMAIN dkg :
        Accepted(c) => Holds(VerifyFull(agg[c].aggregate, dkg[c]))
=============================================================================
