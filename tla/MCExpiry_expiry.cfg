SPECIFICATION All
CONSTANTS
    Key = {k1, k2}
    Version = {v1, v2, v3}
    None = None
    Torn = Torn
    Bundling = {TRUE, FALSE}
    RetentionDays = 1
    Renames = FALSE
    BusyDisk = FALSE
    Unreadable = FALSE
    Returns = FALSE
    MaxEdits = 2
    MaxFaults = 2
    MaxStops = 1
    MaxDays = 3
    MoreKeys = {k3}
    MoreEdits = 4
INVARIANTS NothingLost QuietIsStored KeptWithoutRenames
PROPERTIES RenamesCopyTheirMatch
SYMMETRY Symmetry
