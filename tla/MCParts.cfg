SPECIFICATION PartsSpec
CONSTANTS
    Keys = {1, 2, 3, 4}
    Payloads = {0, 1, 2}
    Limit = 4

    Members = {1, 2, 3}
    Cohorts = {1, 2}
    Services <- MCServices
    Requests <- MCRequests
    Redemptions <- MCRedemptions
    IssueHandlers = {1, 2}
    ReceiptTimes = {1, 2, 4}
    Idle = Idle

    Holders = {ada, ben, cyd}
    Identities = {1, 2, 3}
    Policies = {1}
    GrantEnds = {6}
    challengeSeconds = 2
    epochSeconds = 2
    minAnonymity = 1
    maxRetainedLinks = 2
    RegistryTimes = {2, 4, 6}
    MaxChallenges = 3

    ada = ada
    ben = ben
    cyd = cyd
    Forumers = {ada, ben, cyd}
    policy <- MCPolicy
    InitialGrant = 1
    GroupLimit = 2
    MaxTurns = 1
    MaxChoices = 2

    Grants <- MCGrants
    leaseSeconds = 1
    replySeconds = 2
    maxMembers = 1
    maxReplayEntries = 2
    MaxRdvTime = 3
    MaxBegun = 3
    MaxRegistering = 2

    Epochs <- MCEpochs
    Allocations = {1}
    Quotas = {1}
    Blindings = {1, 2}
    Claims = {1}
    NoClaim = 0
    PermitTimes = {1, 2, 3}
    MaxHandlers = 2

    Connections = {1, 2}
    maxConcurrentProofs = 2
    maxReplayMarks = 1
    challengeLife = 2
    leaseLife = 2
    MaxProfileTime = 3
    MaxServices = 2
    MaxChallenged = 2

    Pieces = 2
    MaxExtra = 1

    Requesters = {1, 2, 3}
    TicketIds = {1, 2}
    TicketContexts = {1, 2, 3}
    SigningKeys = {1, 2}
    Messages = {1, 2}
    TicketRequests <- MCTicketRequests
    TicketEpochs <- MCTicketEpochs
    TicketPolicies <- MCTicketPolicies
    TicketTimes = {1, 2, 3, 4, 5, 6}

    Owners = {1, 2}
    Statements <- MCStatements
    RequestIds = {1, 2}
    Versions = {0, 1}
    Workers = {1, 2}
    WorkerTimes = {1, 2}
    NoHandle = 0
    MaxWorkers = 5

    Authorities <- MCAuthorities
    maxProfileSeconds = 3
    maxKeySeconds = 2
    MaxSeedTime = 4
    MaxPublished = 1
    MaxOffers = 1
    MaxSeeds = 1
    MaxPairs = 2

    Devices = {1, 2}
    PeerChallenges = {1, 2}
    checkpointSeconds = 2
    abandonAfter = 2
    policyValidUntil = 3
    authorityLife = 2
    MaxPeerTime = 3
    MaxStates = 2
    MaxPresented = 1
    MaxChecks = 1

    Names = {1, 2}
    Contents = {1, 2}
    SizeOf <- MCSizeOf
    maxTotalBytes = 4
    Callers = {1, 2}
    MaxChanges = 2

    Peers = {2}
    owner = 1
    PeerOf <- MCPeerOf
    AmountOf <- MCAmountOf
    MaxRosters = 3
    MaxVersion = 2

    DEPTH = 3
    LeafHashes = {1, 2}
    MaxLeaves = 5
INVARIANTS MapHolds PathsProve
INVARIANTS AtMostOnce ReachesReader VouchedFor ForumRules Released TicketsKept
PROPERTIES ImplementsMap
SYMMETRY Symmetry
CHECK_DEADLOCK FALSE
