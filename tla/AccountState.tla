---------------------------- MODULE AccountState ----------------------------
(***************************************************************************)
(* One member's private account: the relation the account-state circuit    *)
(* proves (account-state/src/main.nr), as the ledger admits it.            *)
(*                                                                         *)
(* A transition is proved at a time `at' that the member chooses and is    *)
(* accepted later, at `clock'.  The ledger accepts it only while           *)
(* at <= clock < proof_valid_until(at), so proof times may be backdated    *)
(* inside one window, and successive proofs may even go back in time.      *)
(*                                                                         *)
(* Hashes, Merkle paths and signatures are abstracted: an obligation is    *)
(* named by its event, the two indexed maps are functions of the event     *)
(* (leaves are never removed, so an absent leaf is phase "absent"), and    *)
(* the counterpart's receipts and acknowledgements are always obtainable.  *)
(* The pair map is left out: it is the set of peers ever admitted, and no  *)
(* assertion depends on what it holds.                                     *)
(***************************************************************************)
EXTENDS AccountPolicy, FiniteSets

CONSTANTS
    Events,     \* (peer, nonce) pairs, each one obligation's permanent name
    Waits       \* the waiting periods an operator may set

ASSUME EventsFinite == IsFiniteSet(Events)
ASSUME WaitsValid == \A w \in Waits : ValidWait(w)

VARIABLES
    clock,          \* the ledger's time of acceptance
    abandonAfter,   \* the durable waiting period
    live,           \* whether genesis was accepted
    available, reserved, frontier, createdAt, admissionEpoch, admissions,   \* Opening
    slots,          \* the outgoing and the incoming map: role -> event -> Obligation
    markers,        \* the owner's settlement markers the ledger stores
    \* History: what was accepted, by the ledger's clock.
    granted,        \* units issued by accepted refills
    lastGrant,      \* when genesis or the last refill was accepted
    admittedIn      \* reservations accepted in each window

openingVars == <<available, reserved, frontier, admissionEpoch, admissions>>
history == <<granted, lastGrant, admittedIn>>
vars == <<clock, abandonAfter, live, openingVars, createdAt, slots, markers, history>>

Roles == {"outgoing", "incoming"}
Phases == {"absent", "prepared", "active", "settled", "cancelled", "expired"}
Held == {"prepared", "active"}      \* the phases that hold units
Times == 0..policyValidUntil
Windows == 0..Window(policyValidUntil)

Opposite(role) == IF role = "outgoing" THEN "incoming" ELSE "outgoing"
Amount(role) == IF role = "outgoing" THEN outgoingReservation ELSE incomingReservation
Obligation(phase, opened, expires) ==
    [phase |-> phase, admittedAt |-> opened, expiresAt |-> expires]
HeldBy(role) == {e \in Events : slots[role][e].phase \in Held}

TypeOK ==
    /\ clock \in policyValidFrom..policyValidUntil
    /\ abandonAfter \in Waits
    /\ live \in BOOLEAN
    /\ available \in Nat /\ reserved \in Nat
    /\ frontier \in Times /\ createdAt \in Times
    /\ admissionEpoch \in Windows /\ admissions \in Nat
    /\ slots \in [Roles -> [Events -> [phase : Phases, admittedAt : Times, expiresAt : Times]]]
    /\ markers \in SUBSET Events
    /\ granted \in Nat /\ lastGrant \in Times
    /\ admittedIn \in [Windows -> Nat]

Init ==
    /\ clock = policyValidFrom
    /\ abandonAfter \in Waits
    /\ live = FALSE
    /\ available = 0 /\ reserved = 0 /\ frontier = 0 /\ createdAt = 0
    /\ admissionEpoch = 0 /\ admissions = 0
    /\ slots = [r \in Roles |-> [e \in Events |-> Obligation("absent", 0, 0)]]
    /\ markers = {}
    /\ granted = 0 /\ lastGrant = 0
    /\ admittedIn = [w \in Windows |-> 0]
-----------------------------------------------------------------------------
(* The ledger's acceptance window for a statement proved at `at'. *)
Accepted(at) ==
    /\ at \in policyValidFrom..clock
    /\ clock < ProofValidUntil(at)

Genesis(at) ==
    /\ ~live
    /\ Accepted(at)
    /\ live' = TRUE
    /\ available' = initialCredit /\ reserved' = 0
    /\ frontier' = ProofValidUntil(at) /\ createdAt' = ProofValidUntil(at)
    /\ admissionEpoch' = Window(at) /\ admissions' = 0
    /\ lastGrant' = clock
    /\ UNCHANGED <<clock, abandonAfter, slots, markers, granted, admittedIn>>

(* What main.nr asserts of the old opening before any action. *)
Transition(at) ==
    /\ live
    /\ Accepted(at)
    /\ createdAt <= frontier /\ frontier <= ProofValidUntil(at)
    /\ admissionEpoch <= Window(at) /\ admissions <= maximumAdmissions
    /\ available + reserved <= CapacityAt(createdAt, at)

(* The obligation fields every action but the refill asserts. *)
LeaseBeyondPolicy(slot, at) ==
    /\ slot.admittedAt > 0 /\ slot.admittedAt <= at
    /\ slot.expiresAt > slot.admittedAt

LeaseAt(slot, at) ==
    /\ slot.admittedAt > 0 /\ slot.admittedAt <= at
    /\ slot.expiresAt > slot.admittedAt /\ slot.expiresAt < policyValidUntil

WithinLease(slot, at) == at < slot.expiresAt /\ ProofValidUntil(at) <= slot.expiresAt

WrongMap(role, e, phase) == slots' = [slots EXCEPT ![Opposite(role)][e].phase = phase]
MoveTo(role, e, phase) == slots' = [slots EXCEPT ![role][e].phase = phase]

UncountedFirst(at) == IF admissionEpoch = Window(at) THEN admissions + 1 ELSE 0
NextAdmissions(at) == IF admissionEpoch = Window(at) THEN admissions + 1 ELSE 1
-----------------------------------------------------------------------------
(* An event is inserted once, into one of the maps. *)
UnusedInOwnMap(role, e) == slots[role][e].phase = "absent"
Unused(role, e) ==
    /\ slots[Opposite(role)][e].phase = "absent"
    /\ slots[role][e].phase = "absent"

Affordable(role) == available >= Amount(role)

(* Action 1.  The sender opens the lease at the proof's time; the recipient *)
(* copies the sender's.  An admitted event is a permanent leaf of its map.  *)
ReserveSlot(role, e, slot, at) ==
    /\ Transition(at)
    /\ LeaseAt(slot, at) /\ WithinLease(slot, at)
    /\ NextAdmissions(at) <= AdmissionLimitAt(createdAt, at)
    /\ Unused(role, e)
    /\ Affordable(role)
    /\ available' = available - Amount(role) /\ reserved' = reserved + Amount(role)
    /\ admissionEpoch' = Window(at) /\ admissions' = NextAdmissions(at)
    /\ slots' = [slots EXCEPT ![role][e] = slot]
    /\ admittedIn' = [admittedIn EXCEPT ![Window(clock)] = @ + 1]
    /\ UNCHANGED <<clock, abandonAfter, live, frontier, createdAt, markers, granted, lastGrant>>

ReserveOutgoing(e, at) ==
    ReserveSlot("outgoing", e, Obligation("prepared", at, at + abandonAfter), at)

ReserveIncoming(e, opened, wait, at) ==
    ReserveSlot("incoming", e, Obligation("prepared", opened, opened + wait), at)

(* Action 2. *)
Activate(role, e, at) ==
    /\ Transition(at)
    /\ slots[role][e].phase = "prepared"
    /\ LeaseAt(slots[role][e], at) /\ WithinLease(slots[role][e], at)
    /\ MoveTo(role, e, "active")
    /\ UNCHANGED <<clock, abandonAfter, live, openingVars, createdAt, markers, history>>

(* Actions 3, 4 and 5 return the units and spend the event's marker, which *)
(* the ledger refuses a second time.                                       *)
CanRefund(role, e, from, at) ==
    /\ Transition(at)
    /\ slots[role][e].phase = from
    /\ LeaseAt(slots[role][e], at)
    /\ reserved >= Amount(role)
    /\ e \notin markers

Refund(role, e, from, to, at) ==
    /\ CanRefund(role, e, from, at)
    /\ MoveTo(role, e, to)
    /\ available' = available + Amount(role) /\ reserved' = reserved - Amount(role)
    /\ markers' = markers \cup {e}
    /\ UNCHANGED <<clock, abandonAfter, live, frontier, createdAt,
                   admissionEpoch, admissions, history>>

(* An Answer settles either role within the lease, a Close only the recipient's. *)
SettleAnswer(role, e, at) ==
    /\ WithinLease(slots[role][e], at)
    /\ Refund(role, e, "active", "settled", at)

SettleClose(e, at) == Refund("incoming", e, "active", "settled", at)

Cancel(role, e, at) == Refund(role, e, "prepared", "cancelled", at)

Expire(e, at) ==
    /\ at >= slots["outgoing"][e].expiresAt
    /\ Refund("outgoing", e, "active", "expired", at)

(* Action 6.  Even a zero grant moves the frontier to the common horizon.  *)
(* The cap on the successor's total, asserted once more, follows.          *)
Uncapped(at) == refillUnits
Issue(at) ==
    LET headroom == CapacityAt(createdAt, at) - (available + reserved)
    IN  IF headroom < refillUnits THEN headroom ELSE refillUnits

DueSinceCreation(at) == at - createdAt >= refillPeriod
RefillDue(at) == at - frontier >= refillPeriod

Refill(at) ==
    /\ Transition(at)
    /\ RefillDue(at)
    /\ available' = available + Issue(at)
    /\ frontier' = ProofValidUntil(at)
    /\ granted' = granted + Issue(at)
    /\ lastGrant' = clock
    /\ UNCHANGED <<clock, abandonAfter, live, reserved, createdAt,
                   admissionEpoch, admissions, slots, markers, admittedIn>>
-----------------------------------------------------------------------------
(* update_waiting_period: later reservations take the new wait. *)
Tune(wait) ==
    /\ PolicyCurrent(clock)
    /\ DeadlineUsable(clock, clock + wait)
    /\ abandonAfter' = wait
    /\ UNCHANGED <<clock, live, openingVars, createdAt, slots, markers, history>>

Tick ==
    /\ clock < policyValidUntil
    /\ clock' = clock + 1
    /\ UNCHANGED <<abandonAfter, live, openingVars, createdAt, slots, markers, history>>

Next ==
    \/ Tick
    \/ \E wait \in Waits : Tune(wait)
    \/ \E at \in Times :
        \/ Genesis(at)
        \/ Refill(at)
        \/ \E e \in Events :
            \/ ReserveOutgoing(e, at)
            \/ \E opened \in Times, wait \in Waits : ReserveIncoming(e, opened, wait, at)
            \/ SettleClose(e, at)
            \/ Expire(e, at)
            \/ \E role \in Roles :
                Activate(role, e, at) \/ SettleAnswer(role, e, at) \/ Cancel(role, e, at)

Spec == Init /\ [][Next]_vars
-----------------------------------------------------------------------------
(* Credit is only ever moved, except by accepted refills: the units a      *)
(* member has are the initial credit and the grants, and the reserved ones *)
(* are exactly what the unfinished obligations of both maps hold.          *)
Conservation ==
    live => /\ available + reserved = initialCredit + granted
            /\ reserved = outgoingReservation * Cardinality(HeldBy("outgoing"))
                          + incomingReservation * Cardinality(HeldBy("incoming"))

(* No order of backdated proofs, refunds and refills lifts the total above *)
(* the capacity the account's age allows at the ledger's own clock.        *)
WithinCapacity == live => available + reserved <= CapacityAt(createdAt, clock)

(* The rate limit holds for the ledger's windows although each proof picks *)
(* its own time: cancelling, expiring or backdating buys no admission.     *)
AdmissionRate ==
    \A w \in Windows :
        admittedIn[w] <= AdmissionLimitAt(createdAt, (w + 1) * rateWindow - 1)

(* Units on hold can be released: the marker of a held obligation, in      *)
(* either map, is not yet spent (the ledger would refuse the refund).      *)
HeldMarkerUnspent == \A role \in Roles : HeldBy(role) \cap markers = {}

(* A sender's bond always comes back: its date lies within the policy, and *)
(* from then on the refund proved at the current time passes every check.  *)
ReleasedBondRefundable ==
    \A e \in Events :
        LET slot == slots["outgoing"][e]
        IN  slot.phase = "active" =>
                /\ slot.expiresAt < policyValidUntil
                /\ slot.expiresAt <= clock /\ clock < policyValidUntil
                    => CanRefund("outgoing", e, "active", clock)

(* Backdating buys no early refill: more than a refill period of the       *)
(* ledger's time separates a grant from the genesis or grant before it.    *)
RefillSpacing == [][live /\ frontier' # frontier => clock - lastGrant > refillPeriod]_vars
=============================================================================
