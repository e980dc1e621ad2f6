SPECIFICATION Spec
CONSTANTS
    a = a
    b = b
    d1 = d1
    d2 = d2
    reader = reader
    None = None
    Members = {a, b}
    Devices = {d1, d2, reader}
    Publications <- MCPublications
    Requests <- MCRequests
    Handlers = {1, 2}
    Times = {1, 2, 3, 4, 5, 6, 7}
    limits <- MCLimits
    Late = TRUE
    MaxRevision = 4
PROPERTY SupersededCannotOverwrite
CHECK_DEADLOCK FALSE
