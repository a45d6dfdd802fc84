SPECIFICATION FairDevice
CONSTANTS
    Parts = {"network", "control"}
    BaseDelay = 1
    MaxDelay = 2
    MaxAttempts = 2
    Timeout = 2
    MaxNotices = 1
    Unset = Unset
    Desktops <- OneState
    Lists <- NoLists
    Users <- TwoUsers
    MaxVolume = 2
    CommandRoom = 1
    FeedbackRoom = 1
    MaxPresses = 2
    MaxWire = 1
    MaxLinks = 2
    home = home
    work = work
    homePassword = homePassword
    workPassword = workPassword
    t1 = t1
    t2 = t2
    host1 = host1
    port1 = port1
    d1 = d1
    d2 = d2
    NoPassword = "open"
    Invalid = Invalid
    Absent = Absent
    Schema = 1
    Endpoints <- OneEndpoint
    Networks <- OneNetwork
    Tokens = {}
    Displays = {d1, d2}
    WritesFail = {FALSE}
    Builds <- OneBuild
    Debounce = 1
    LongPress <- PressTimes
    RepeatDelay = 0
    RepeatInterval = 1
    ResetHold = 2
    InputRoom = 2
    PassEvents = 1
    Items = 2
    Hands <- KnobOnly
PROPERTIES
    ConnectsInTheEnd
    DisplayReconciles
