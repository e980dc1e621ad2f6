---------------------------- MODULE Reciprocity -----------------------------
(***************************************************************************)
(* The prototype of private reciprocity (experiments/private-reciprocity): *)
(* the registry that binds each member to one private identity for ever    *)
(* (enrollment.js), the checkpoints that freeze who is qualified for an    *)
(* epoch and the signed links by which a reader that was away catches up   *)
(* (checkpoints.js), and the ledger of anonymous acknowledgements          *)
(* (acknowledgement.js).                                                   *)
(*                                                                         *)
(* Publishers under several policies share the registry, and every call    *)
(* may read any time: only the durable floor orders them.  Challenges are  *)
(* answered late, or twice.  A zero-knowledge proof shows that its prover  *)
(* is one of the checkpoint's identities without the sender's, and carries *)
(* the nullifier its identity has for that sender.  A digest is the place  *)
(* of its checkpoint among all that were signed.                           *)
(***************************************************************************)
EXTENDS Naturals, FiniteSets, FiniteSetsExt, Sequences

CONSTANTS
    Members, Identities, Policies,
    GrantEnds,      \* when an admission may end
    challengeSeconds, epochSeconds, minAnonymity, maxRetainedLinks,
    RegistryTimes,
    MaxChallenges   \* bound of the model

VARIABLES
    enrollFloor,    \* enrollment_clock
    challenges,     \* those begin authenticated
    replays,        \* enrollment_replays
    bindings,       \* enrollment_bindings: [member, identity]
    qualified,      \* enrollment_qualifications: [member, policy, until]
    checkpoints,    \* checkpoints signed, in order; the last one is the head
    links,          \* checkpoint_links kept, as places of their checkpoints
    acknowledged    \* <<sender, identity>>: acknowledgements, one credit each

(* Assumed wherever the module is instantiated. *)
RegistryConstants ==
    RegistryTimes \subseteq Nat /\ epochSeconds \in Nat \ {0} /\ maxRetainedLinks \in Nat

registryVars ==
    <<enrollFloor, challenges, replays, bindings, qualified, checkpoints, links, acknowledged>>

Init ==
    /\ enrollFloor = 0 /\ challenges = {} /\ replays = {}
    /\ bindings = {} /\ qualified = {}
    /\ checkpoints = <<>> /\ links = {} /\ acknowledged = {}

Observed(now) == now >= enrollFloor /\ enrollFloor' = now
Lesser(a, b) == IF a < b THEN a ELSE b
-----------------------------------------------------------------------------
(* begin *)
Begin(m, i, policy, until, now) ==
    /\ now < until /\ Cardinality(challenges) < MaxChallenges
    /\ challenges' = challenges \cup
        {[member |-> m, identity |-> i, policy |-> policy, issuedAt |-> now,
          expiresAt |-> Lesser(now + challengeSeconds, until)]}
    /\ UNCHANGED <<enrollFloor, replays, bindings, qualified, checkpoints, links, acknowledged>>

(* bind: a member's identity never changes, and is nobody else's; it is    *)
(* qualified until the longest of its grants ends.                         *)
Rebindable(c) == \A b \in bindings : b.identity = c.identity => b.member = c.member
Bindable(c) == \A b \in bindings : (b.identity = c.identity) <=> (b.member = c.member)

Unreplayed(now) == {r \in replays : r.expiresAt > now}
Bind(c, until, now) ==
    /\ Observed(now)
    /\ c.issuedAt <= now /\ now < c.expiresAt
    /\ IF c \in replays \/ ~ Bindable(c)
       THEN replays' = Unreplayed(now) /\ UNCHANGED <<bindings, qualified>>
       ELSE /\ replays' = Unreplayed(now) \cup {c}
            /\ bindings' = {b \in bindings : b.member # c.member}
                            \cup {[member |-> c.member, identity |-> c.identity]}
            /\ LET same == {q \in qualified : q.member = c.member /\ q.policy = c.policy}
                   last == Max({q.until : q \in same} \cup {until})
               IN  qualified' = (qualified \ same)
                        \cup {[member |-> c.member, policy |-> c.policy, until |-> last]}
    /\ UNCHANGED <<challenges, checkpoints, links, acknowledged>>

(* enroll: a challenge this service authenticated, with a grant that lasts  *)
(* as long, perhaps another one than it was asked for with; the ledger     *)
(* checks the time again, after all that is awaited.                       *)
Enroll(c, until, now) == c \in challenges /\ until >= c.expiresAt /\ Bind(c, until, now)
-----------------------------------------------------------------------------
(* publishCheckpoint *)
Newest == checkpoints[Len(checkpoints)]
EpochOf(now) == now \div epochSeconds
EpochEnd(now) == (EpochOf(now) + 1) * epochSeconds

(* The head of this epoch, for the same policy, is what the call answers,  *)
(* and any other policy is refused: nothing changes but the floor.         *)
AlreadyPublished(now) == checkpoints # <<>> /\ Newest.epoch = EpochOf(now)

Roster(policy, now) ==
    {b.identity : b \in {x \in bindings : \E q \in qualified :
        q.member = x.member /\ q.policy = policy /\ q.until >= EpochEnd(now)}}

(* The newest maxRetainedLinks, this checkpoint's own among them. *)
OnlyOlderLinks(place) == {n \in links : n + maxRetainedLinks > place}
RetainedLinks(place) == {n \in links \cup {place} : n + maxRetainedLinks > place}

PublishCheckpoint(policy, now) ==
    /\ EpochOf(now) > 0 /\ Observed(now)
    /\ \A place \in DOMAIN checkpoints : checkpoints[place].epoch <= EpochOf(now)
    /\ IF AlreadyPublished(now) THEN Newest.policy = policy /\ UNCHANGED <<qualified, checkpoints, links>>
       ELSE /\ qualified' = {q \in qualified : q.until > now}
            /\ checkpoints' = Append(checkpoints,
                [epoch |-> EpochOf(now), policy |-> policy, notBefore |-> now,
                 expiresAt |-> EpochEnd(now), previous |-> Len(checkpoints),
                 commitments |-> Roster(policy, now)])
            /\ links' = RetainedLinks(Len(checkpoints) + 1)
    /\ UNCHANGED <<challenges, replays, bindings, acknowledged>>

(* checkpointLinks, and verifyCheckpoint of a reader who has `anchor'.     *)
LinksBetween(anchor, place) ==
    {n \in links : checkpoints[n].epoch > checkpoints[anchor].epoch
                   /\ checkpoints[n].epoch < checkpoints[place].epoch}

VerifyCheckpoint(anchor, place, between) ==
    LET before(n) == Max({anchor} \cup {k \in between : k < n})
    IN  /\ checkpoints[place].epoch >= checkpoints[anchor].epoch
        /\ checkpoints[place].epoch = checkpoints[anchor].epoch => place = anchor /\ between = {}
        /\ \A n \in between : checkpoints[n].previous = before(n)
                              /\ checkpoints[n].epoch > checkpoints[before(n)].epoch
        /\ place # anchor => checkpoints[place].previous = before(place)
-----------------------------------------------------------------------------
(* The context a sender is acknowledged in, for a proof by any other of    *)
(* the checkpoint.                                                         *)
IdentityOf(m) == {b.identity : b \in {x \in bindings : x.member = m}}
EveryOne(cp, sender) == cp.commitments
Others(cp, sender) == cp.commitments \ IdentityOf(sender)

RegisteredAcknowledgementContext(cp, sender) ==
    /\ IdentityOf(sender) # {} /\ IdentityOf(sender) \subseteq cp.commitments
    /\ Cardinality(Others(cp, sender)) >= minAnonymity

(* accept: the nullifier and the credit are one transaction. *)
Active(cp, now) == cp.notBefore <= now /\ now < cp.expiresAt
Accept(cp, sender, i, now) ==
    /\ Active(cp, now)
    /\ <<sender, i>> \notin acknowledged
    /\ acknowledged' = acknowledged \cup {<<sender, i>>}

Acknowledge(sender, i, place, now) ==
    LET cp == checkpoints[place]
    IN  /\ RegisteredAcknowledgementContext(cp, sender)
        /\ i \in Others(cp, sender)
        /\ Accept(cp, sender, i, now)
        /\ UNCHANGED <<enrollFloor, challenges, replays, bindings, qualified, checkpoints, links>>

Next ==
    \E now \in RegistryTimes :
        \/ \E m \in Members, i \in Identities, policy \in Policies, until \in GrantEnds :
            Begin(m, i, policy, until, now)
        \/ \E c \in challenges, until \in GrantEnds : Enroll(c, until, now)
        \/ \E policy \in Policies : PublishCheckpoint(policy, now)
        \/ \E sender \in Members, i \in Identities, place \in DOMAIN checkpoints :
            Acknowledge(sender, i, place, now)

Spec == Init /\ [][Next]_registryVars
-----------------------------------------------------------------------------
(* However its qualification was renewed, in whatever epoch, no            *)
(* member acknowledges a sender twice, nor anyone itself: every credit is   *)
(* some other member's, and bindings make one identity one member.         *)
CreditOnce ==
    /\ \A m, sender \in Members :
        Cardinality({a \in acknowledged : a[1] = sender /\ a[2] \in IdentityOf(m)})
            <= IF m = sender THEN 0 ELSE 1
    /\ \A a \in acknowledged : \E b \in bindings : b.identity = a[2]

(* A reader whose last checkpoint is one of the maxRetainedLinks before the *)
(* head verifies the head with the links the publisher still has; and no    *)
(* epoch has two checkpoints to choose from.                               *)
CatchUp ==
    \A anchor \in DOMAIN checkpoints :
        Len(checkpoints) - anchor <= maxRetainedLinks =>
            VerifyCheckpoint(anchor, Len(checkpoints), LinksBetween(anchor, Len(checkpoints)))
=============================================================================
