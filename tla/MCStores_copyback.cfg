SPECIFICATION Spec
CONSTANTS
    Parts = {"mirror"}
    Path = {p1, p2}
    Links = {p2}
    Fetcher = {f1, f2}
    Absent = Absent
    MaxRestores = 1
    MaxStores = 1
    MaxOwn = 1
    MaxSlips = 1
    MaxKills = 1
    Scope = {s1, s2}
    Pair = {s1}
    Copier = {r1}
    Nobody = Nobody
    BusyCopies = FALSE
    CopyBack = TRUE
    MaxWrites = 2
    MaxSettings = 1
    MaxBreaks = 1
    MaxCopies = 1
    Uploader = {u1, u2}
    Leaf = {a, b}
    LostFolders = FALSE
    MaxCalls = 3
    MaxHitches = 1
    MaxOthers = 1
    CfAccount = {a1, a2}
    Nothing = Nothing
    File = {f1, f2}
    Big = {f1}
    RelayGiveUp = 1
    Meanwhile = FALSE
    MaxCommands = 2
    MaxBinaries = 2
    MaxTroubles = 1
    MaxReplaced = 1
    MaxNetRetries = 1
    MaxStale = 1
    Width = 2
    Depth = 2
    MaxLeaves = 3
    MaxHeight = 2
    MaxRules = 1
    MaxEdits = 1
PROPERTIES CopyBackOnlyFills
CHECK_DEADLOCK FALSE
