SPECIFICATION Spec
CONSTANTS
    initialCredit = 2
    maximumAvailable = 3
    outgoingReservation = 1
    incomingReservation = 1
    policyValidFrom = 1
    policyValidUntil = 8
    newcomerPeriod = 2
    rateWindow = 2
    newcomerAdmissions = 1
    maximumAdmissions = 2
    refillPeriod = 1
    refillUnits = 1
    o1 = o1
    o2 = o2
    i1 = i1
    i2 = i2
    i3 = i3
    k1 = k1
    k2 = k2
    r1 = r1
    r2 = r2
    s0 = s0
    s1 = s1
    s2 = s2
    s3 = s3
    m = m
    Owners = {o1, o2}
    Ids = {i1, i2, i3}
    Keys = {k1, k2}
    Roots = {r1, r2}
    States = {s0, s1, s2, s3}
    Markers = {m}
    Waits = {2, 3}
    Handles = {h1, h2}
    Requests <- MCRequests
    Authorities <- MCAuthorities
    Times = {1, 2, 3, 4}
    MaxRevision = 1
    initialWait = 2
    maxAuthorization = 3
    checkpointPeriod = 2
    NoAccount = NoAccount
    NoRoot = NoRoot
    NoState = NoState
    NoMarker = NoMarker
    NoJob = NoJob
    NoReply = NoReply
SYMMETRY HandleSymmetry
INVARIANTS OneSuccessor MarkerOnce AcceptedInOrder AcceptedAsStated
PROPERTIES AcceptedUnderCurrentWait ImplementsChain
CHECK_DEADLOCK FALSE
