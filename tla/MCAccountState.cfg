SPECIFICATION Spec
CONSTANTS
    initialCredit = 2
    maximumAvailable = 3
    outgoingReservation = 1
    incomingReservation = 2
    policyValidFrom = 1
    policyValidUntil = 7
    newcomerPeriod = 2
    rateWindow = 2
    newcomerAdmissions = 1
    maximumAdmissions = 2
    refillPeriod = 1
    refillUnits = 2
    Events = {e1, e2, e3}
    Waits = {2, 3}
SYMMETRY EventSymmetry
INVARIANTS Conservation WithinCapacity AdmissionRate HeldMarkerUnspent ReleasedBondRefundable
PROPERTY RefillSpacing
CHECK_DEADLOCK FALSE
