SPECIFICATION AllocationSpec
CONSTANTS
    ann = ann
    bob = bob
    n1 = n1
    n2 = n2
    n3 = n3
    n4 = n4
    m1 = m1
    m2 = m2
    m3 = m3
    m4 = m4
    c1 = c1
    c2 = c2
    key = key
    Members = {ann, bob}
    Nonces = {n1, n2, n3, n4}
    Messages = {m1, m2, m3, m4}
    Contexts = {c1, c2}
    Keys = {key}
    Requests <- MCRequests
    Epochs <- MCEpochs
    Readings = {1, 2, 3, 4, 5, 6, 7}
    initialCredits = 1
    periodicCredits = 1
    periodSeconds = 2
    creditCap = 2
    maxAuthorization = 6
    NoMember = NoMember
    Empty = Empty
INVARIANTS AllowanceKept PaidSignatures
CHECK_DEADLOCK FALSE
