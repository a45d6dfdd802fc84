SPECIFICATION HostSpec
CONSTANTS
    d1 = d1
    d2 = d2
    c1 = c1
    c2 = c2
    t1 = t1
    t2 = t2
    t3 = t3
    None = None
    NoPlayer = NoPlayer
    Parts = {"backend"}
    Players <- TwoPlayers
    Statuses <- TwoStatuses
    Grace = 1
    MaxDelay = 1
    MaxFailures = 1
    MaxSilence = 1
    Requests <- TwoRequests
    Outcomes <- BothOutcomes
    MaxResults = 1
    MaxInvalid = 2
    MaxSequence = 3
    MaxVersion = 2
    MaxInbox = 1
    Devices <- OneDevice
    Codes <- TwoCodes
    Tokens <- TwoTokens
    PairingTtl = 2
    ApprovalTtl = 2
    PollWindow = 2
    MayRevoke = FALSE
    Identities = {1}
    Limit = 2
    Window = 2
    MaxIdentities = 1
    Sources = {1}
    Covers = {"first", "second"}
    NoCover = "none"
    Room = 1
    MaxStrays = 1
INVARIANTS
    FailuresAreResults
