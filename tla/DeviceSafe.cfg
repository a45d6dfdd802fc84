SPECIFICATION DeviceSpec
CONSTANTS
    Parts = {"network", "control", "boot", "input"}
    BaseDelay = 1
    MaxDelay = 2
    MaxAttempts = 2
    Timeout = 2
    MaxNotices = 2
    Unset = Unset
    Desktops <- SilentToo
    Lists <- ShortAndLong
    Users <- SeveralUsers
    MaxVolume = 2
    CommandRoom = 1
    FeedbackRoom = 1
    MaxPresses = 2
    MaxWire = 1
    MaxLinks = 2
    home = home
    work = work
    homePassword = homePassword
    workPassword = workPassword
    t1 = t1
    t2 = t2
    host1 = host1
    port1 = port1
    d1 = d1
    d2 = d2
    NoPassword = "open"
    Invalid = Invalid
    Absent = Absent
    Schema = 1
    Endpoints <- OneEndpoint
    Networks <- TwoNetworks
    Tokens = {t1, t2}
    Displays = {d1}
    WritesFail = {FALSE, TRUE}
    Builds <- TwoBuilds
    Debounce = 1
    LongPress <- PressTimes
    RepeatDelay = 0
    RepeatInterval = 1
    ResetHold = 2
    InputRoom = 2
    PassEvents = 1
    Items = 2
    Hands <- ChordAndKnob
SYMMETRY TokenSymmetry
INVARIANTS
    SocketMatchesMachine
    ViewCatchesUp
    DeviceTypeOK
    CommittedCredentialIsWhole
    RestartKeepsSettings
    UpgradeKeepsNetwork
    ResetIsDeliberate
    InOrderAndOnce
    UnsentIsNotExecuted
