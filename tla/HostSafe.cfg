SPECIFICATION HostSpec
CONSTANTS
    d1 = d1
    d2 = d2
    c1 = c1
    c2 = c2
    t1 = t1
    t2 = t2
    t3 = t3
    None = None
    NoPlayer = NoPlayer
    Parts = {"backend", "session", "pairing", "cache", "limiter"}
    Players <- TwoPlayers
    Statuses <- TwoStatuses
    Grace = 1
    MaxDelay = 2
    MaxFailures = 1
    MaxSilence = 2
    Requests <- ThreeRequests
    Outcomes <- BothOutcomes
    MaxResults = 2
    MaxInvalid = 2
    MaxSequence = 3
    MaxVersion = 1
    MaxInbox = 1
    Devices <- TwoDevices
    Codes <- TwoCodes
    Tokens <- TwoTokens
    PairingTtl = 1
    ApprovalTtl = 1
    PollWindow = 1
    MayRevoke = TRUE
    Identities = {1, 2, 3}
    Limit = 2
    Window = 2
    MaxIdentities = 2
    Sources = {1}
    Covers = {"first", "second"}
    NoCover = "none"
    Room = 1
    MaxStrays = 1
SYMMETRY Symmetric
INVARIANTS
    HostTypeOK
    KeptTokenIsAccepted
    NeverMoreThanLimit
PROPERTIES
    StatesNeverGoBack
    KeepsPromise
    TokenFitsCode
    ApprovalIsUnambiguous
    SpacedIsAllowed
    OutageIsBridged
    PlayingStays
