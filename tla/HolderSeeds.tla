---------------------------- MODULE HolderSeeds ----------------------------
(***************************************************************************)
(* Who may serve a member's profile key while the member is away           *)
(* (browser/profiles/keys.js, with crypto.js and envelope.js): another     *)
(* member offers a wrapping key, the owner names that device as a holder   *)
(* of one publication and wraps its secret for it, the holder opens this   *)
(* seed and from then on answers readers (validateHolder in access.js).    *)
(*                                                                         *)
(* Every party works across awaits and later serves from what it keeps:    *)
(* only the validity periods, each within another, end a holder's service. *)
(* An authority is a member's admission with the authorization of one of   *)
(* its devices; a renewed device has another, with another key.  What is   *)
(* signed cannot be changed: records stand for their signed bytes, and a   *)
(* secret for the publication it was drawn for.  A clock that goes back is *)
(* refused (monotonicClock), so there is one time.                         *)
(***************************************************************************)
EXTENDS Naturals, FiniteSets, FiniteSetsExt

CONSTANTS
    Authorities,    \* [member, device, from, until]
    maxProfileSeconds, maxKeySeconds,
    MaxSeedTime,
    MaxPublished, MaxOffers, MaxSeeds, MaxPairs     \* bounds

VARIABLES
    seedNow,
    published,      \* publications: [authority, epoch, from, until]
    pairs,          \* member -> the wrapping key pair it keeps
    offers,         \* [authority, wrapping, from, until]
    making,         \* what makeHolderSeed has under way: {} or {[publication, offer, until]}
    seeds,          \* [delegation, sealedFor, secret, offer]
    holding,        \* [authority, publication, delegations]: what a member serves from
    servings        \* what was served last: {} or {[state, at]}

seedVars == <<seedNow, published, pairs, offers, making, seeds, holding, servings>>

SeedTimes == 1 .. MaxSeedTime
Persons == {a.member : a \in Authorities}

(* Assumed wherever the module is instantiated. *)
HolderConstants == \A a \in Authorities : a.from \in Nat /\ a.until \in Nat

Init ==
    /\ seedNow = 1
    /\ published = {} /\ offers = {} /\ making = {} /\ seeds = {}
    /\ pairs = [m \in Persons |-> 1]
    /\ holding = {} /\ servings = {}
-----------------------------------------------------------------------------
Fresh(value, now) == value.from <= now /\ now < value.until

(* verifyAuthority: the admission and the authorization of one device. *)
VerifyAuthority(a, now) == Fresh(a, now)

(* verifyCachedProfile: within the authority it was signed under. *)
VerifiedProfile(p, now) ==
    /\ VerifyAuthority(p.authority, now) /\ Fresh(p, now)
    /\ p.from >= p.authority.from /\ p.until <= p.authority.until
    /\ p.until - p.from <= maxProfileSeconds

SameDevice(a, b) == a.member = b.member /\ a.device = b.device

(* verifyHolderDelegation: of this publication, for this device. *)
VerifiedDelegation(d, p, holder, now) ==
    /\ Fresh(d, now)
    /\ d.publication = p /\ SameDevice(d.holder, holder)
    /\ d.from >= Max({p.from, holder.from})
    /\ d.until <= Min({p.until, holder.until})
    /\ d.until - d.from <= maxKeySeconds

Tick ==
    /\ seedNow < MaxSeedTime
    /\ seedNow' = seedNow + 1
    /\ UNCHANGED <<published, pairs, offers, making, seeds, holding, servings>>

(* encryptProfile: the owner serves from its own publication. *)
Publish(a, until) ==
    /\ Cardinality(published) < MaxPublished
    /\ VerifyAuthority(a, seedNow)
    /\ seedNow < until /\ until - seedNow <= maxProfileSeconds /\ until <= a.until
    /\ LET p == [authority |-> a, epoch |-> Cardinality(published) + 1,
                 from |-> seedNow, until |-> until]
       IN  /\ published' = published \cup {p}
           /\ holding' = holding \cup
                {[authority |-> a, publication |-> p, delegations |-> {}]}
    /\ UNCHANGED <<seedNow, pairs, offers, making, seeds, servings>>

NewPair(m) ==
    /\ pairs[m] < MaxPairs
    /\ pairs' = [pairs EXCEPT ![m] = @ + 1]
    /\ UNCHANGED <<seedNow, published, offers, making, seeds, holding, servings>>

(* createHolderKeyOffer *)
Offer(a, until) ==
    /\ Cardinality(offers) < MaxOffers
    /\ VerifyAuthority(a, seedNow)
    /\ seedNow < until /\ until <= a.until /\ until - seedNow <= maxKeySeconds
    /\ offers' = offers \cup {[authority |-> a, wrapping |-> pairs[a.member],
                               from |-> seedNow, until |-> until]}
    /\ UNCHANGED <<seedNow, published, pairs, making, seeds, holding, servings>>

(* makeHolderSeed, up to the signature of the offer that it awaits. *)
BeyondOffer(o, until) == TRUE
WithinOffer(o, until) == until <= o.until
CheckOffer(p, o, until) ==
    /\ Cardinality(seeds) < MaxSeeds /\ making = {}
    /\ VerifyAuthority(o.authority, seedNow) /\ Fresh(o, seedNow)
    /\ o.until <= o.authority.until /\ o.from >= o.authority.from
    /\ o.until - o.from <= maxKeySeconds
    /\ WithinOffer(o, until)
    /\ making' = {[publication |-> p, offer |-> o, until |-> until]}
    /\ UNCHANGED <<seedNow, published, pairs, offers, seeds, holding, servings>>

(* The rest of it: the offer's own freshness is not looked at again. *)
MakeSeed ==
    /\ \E m \in making :
        LET d == [publication |-> m.publication, holder |-> m.offer.authority,
                  wrapping |-> m.offer.wrapping, from |-> seedNow, until |-> m.until]
        IN  /\ VerifiedDelegation(d, m.publication, m.offer.authority, seedNow)
            /\ seeds' = seeds \cup {[delegation |-> d, sealedFor |-> m.offer.wrapping,
                                     secret |-> m.publication.epoch, offer |-> m.offer]}
    /\ making' = {}
    /\ UNCHANGED <<seedNow, published, pairs, offers, holding, servings>>

GiveUp ==
    /\ making # {} /\ making' = {}
    /\ UNCHANGED <<seedNow, published, pairs, offers, seeds, holding, servings>>

(* unwrapSecret: with the pair the delegation names, which must be kept. *)
Unwraps(s, a) ==
    /\ s.delegation.wrapping = pairs[a.member]
    /\ s.sealedFor = s.delegation.wrapping

(* openHolderSeed: each period is within the next, so what holds when the  *)
(* last check is made held at those before it.                             *)
Opens(s, a, now) ==
    LET d == s.delegation
    IN  /\ VerifiedProfile(d.publication, now)
        /\ VerifyAuthority(a, now)
        /\ VerifiedDelegation(d, d.publication, a, now)
        /\ Unwraps(s, a)

OpenSeed(s, a) ==
    /\ Opens(s, a, seedNow)
    /\ holding' = holding \cup {[authority |-> a, publication |-> s.delegation.publication,
                                 delegations |-> {s.delegation}]}
    /\ UNCHANGED <<seedNow, published, pairs, offers, making, seeds, servings>>

(* live and validateHolder, before every key that is given. *)
MayServe(h, now) ==
    /\ VerifyAuthority(h.authority, now)
    /\ VerifiedProfile(h.publication, now)
    /\ IF h.delegations = {} THEN SameDevice(h.authority, h.publication.authority)
       ELSE \A d \in h.delegations :
                VerifiedDelegation(d, h.publication, h.authority, now)

Serve(h) ==
    /\ MayServe(h, seedNow)
    /\ servings' = {[state |-> h, at |-> seedNow]}
    /\ UNCHANGED <<seedNow, published, pairs, offers, making, seeds, holding>>

Next ==
    \/ Tick
    \/ \E a \in Authorities, until \in SeedTimes : Publish(a, until) \/ Offer(a, until)
    \/ \E m \in Persons : NewPair(m)
    \/ \E p \in published, o \in offers, until \in SeedTimes : CheckOffer(p, o, until)
    \/ MakeSeed
    \/ GiveUp
    \/ \E s \in seeds, a \in Authorities : OpenSeed(s, a)
    \/ \E h \in holding : Serve(h)

Spec == Init /\ [][Next]_seedVars
-----------------------------------------------------------------------------
(* A key is served by the device that published it, or by one that the     *)
(* owner named and whose own offer has not run out by then, although only  *)
(* makeHolderSeed ever sees the offer (keys.js:59-83, access.js:65-73).    *)
ServedByNamed ==
    \A x \in servings : x.state.delegations # {} =>
        \E s \in seeds :
            /\ s.delegation \in x.state.delegations
            /\ s.secret = x.state.publication.epoch
            /\ SameDevice(s.offer.authority, x.state.authority)
            /\ Fresh(s.offer, x.at)

(* A seed that was made opens for the device that offered, until it ends   *)
(* or the device changed its wrapping keys; and what was published is      *)
(* accepted until it ends (keys.js:84-99, envelope.js:51-64).              *)
SeedsOpen ==
    /\ \A p \in published : Fresh(p, seedNow) => VerifiedProfile(p, seedNow)
    /\ \A s \in seeds :
        Fresh(s.delegation, seedNow) /\ pairs[s.offer.authority.member] = s.offer.wrapping
            => Opens(s, s.offer.authority, seedNow)
=============================================================================
