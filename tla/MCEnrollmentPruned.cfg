SPECIFICATION Spec
CONSTANTS
    a = a
    b = b
    h1 = h1
    h2 = h2
    None = None
    Members = {a, b}
    Handlers = {h1, h2}
    Clients = {a}
    Delegations <- MCDelegations
    Times = {1, 2, 3}
    Period = 2
    MaxMembers = 2
    MaxRetained = 2
    MaxBytes = 5
    SizeOf <- MCSizeOf
    Remote = FALSE
SYMMETRY Symmetry
INVARIANT HistoryIsInstalled
CHECK_DEADLOCK FALSE
