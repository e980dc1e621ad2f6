SPECIFICATION KeySpec
CONSTANTS
    Publications = {1, 2}
    StateEnd <- MCStateEnd
    Tokens = {1, 2}
    Claims <- TicketClaims
    OwnTokens = {1}
    Handlers = {1, 2}
    limits <- MCLimits
    Times = {1, 2, 3, 4}
    OperatorTimes = {1, 4}
    validFrom = 1
    expiresAt = 4
    MaxTime = 3
    MaxSessions = 2
    MaxChallenges = 2
    None = None
INVARIANTS KeyPerPermit PaidIsKept SpentOnce
PROPERTY GrantIsCurrent
CHECK_DEADLOCK FALSE
