SPECIFICATION Spec
CONSTANTS
    Parts = {"setstore", "account", "update", "schedule"}
    Title = {t1, t2}
    Longer = {t2}
    Item = {i1}
    Store = {s1, s2}
    NoStore = NoStore
    Program = {panel, term}
    Panel = panel
    Nobody = Nobody
    Slack = {}
    MaxChanges = 4
    MaxDeaths = 1
    Computer = {c1, c2}
    NoKeys = NoKeys
    OldKeys = OldKeys
    Overlap = FALSE
    StaleCheck = FALSE
    PinTries = 1
    MaxAttempts = 1
    MaxCodes = 2
    MaxPins = 2
    MaxTroubles = 2
    MaxTurns = 1
    Copy = {tray, command}
    Tray = tray
    Bare = {2}
    MidSwapCuts = FALSE
    MaxReleases = 3
    MaxFaults = 1
    MaxLaunches = 3
    MaxBoots = 1
    Name = {plain}
    Plain = plain
    Place = {l1, l2}
    Interval = {50, 90, 120}
    Moment = {1290}
    Off = Off
    Switches = FALSE
    Aside = FALSE
    MaxAsked = 3
    MaxSlipped = 1
    MaxMoved = 1
INVARIANTS Consistent RecordsHold SessionsOpen OldKeysMoved WorkingBinary
    NeverOlder RunsAsTold
PROPERTIES PurgeSparesOthers
SYMMETRY Alike
CHECK_DEADLOCK FALSE
