--------------------------- MODULE AccountPolicy ---------------------------
(***************************************************************************)
(* The validated private-account policy (src/accounting_policy.rs): its    *)
(* numbers are the constants, its methods the operators.  abandonAfter is  *)
(* the one live-tuned field, so it is a parameter of the operators that    *)
(* read it and never a constant.                                           *)
(***************************************************************************)
EXTENDS Integers

CONSTANTS
    initialCredit,          \* units of a new account, and its capacity until it matures
    maximumAvailable,       \* capacity of a mature account, available and reserved units together
    outgoingReservation,    \* units one outgoing obligation holds
    incomingReservation,    \* units one incoming obligation holds
    policyValidFrom,
    policyValidUntil,
    newcomerPeriod,         \* age at which an account matures
    rateWindow,             \* length of an admission window, and of a proof's horizon
    newcomerAdmissions,     \* reservations per window before maturity
    maximumAdmissions,      \* reservations per window after it
    refillPeriod,
    refillUnits

(* AccountPolicy::validate, all but the clause on abandon_after. *)
ASSUME PolicyAssumption ==
    /\ {initialCredit, maximumAvailable, outgoingReservation, incomingReservation,
        policyValidFrom, policyValidUntil, newcomerPeriod, rateWindow,
        newcomerAdmissions, maximumAdmissions, refillPeriod, refillUnits} \subseteq Nat \ {0}
    /\ initialCredit <= maximumAvailable
    /\ outgoingReservation <= initialCredit
    /\ incomingReservation <= initialCredit
    /\ newcomerAdmissions <= maximumAdmissions
    /\ refillUnits <= initialCredit
    /\ policyValidFrom < policyValidUntil

(* The clause of validate on the tuned field. *)
ValidWait(abandonAfter) == abandonAfter \in Nat /\ abandonAfter >= rateWindow

PolicyCurrent(now) == policyValidFrom <= now /\ now < policyValidUntil

Window(now) == now \div rateWindow

(* proof_valid_until: everyone proving in one window shares one horizon. *)
ProofValidUntil(now) ==
    LET end == (Window(now) + 1) * rateWindow
    IN  IF end < policyValidUntil THEN end ELSE policyValidUntil

Mature(createdAt, now) == now - createdAt >= newcomerPeriod

(* capacity_at *)
CapacityAt(createdAt, now) ==
    IF Mature(createdAt, now) THEN maximumAvailable ELSE initialCredit

(* admission_limit_at *)
AdmissionLimitAt(createdAt, now) ==
    IF Mature(createdAt, now) THEN maximumAdmissions ELSE newcomerAdmissions

(* reservation_deadline succeeds: the refund date lies beyond this horizon *)
(* and leaves a moment to collect the refund before the policy ends.       *)
DeadlineUsable(now, deadline) ==
    /\ deadline >= ProofValidUntil(now)
    /\ deadline < policyValidUntil
=============================================================================
