SPECIFICATION Spec
CONSTANTS
    Key = {k1, k2}
    Version = {v1, v2}
    None = None
    Torn = Torn
    Bundling = {TRUE, FALSE}
    RetentionDays = 0
    Renames = TRUE
    BusyDisk = FALSE
    Unreadable = FALSE
    Returns = FALSE
    MaxEdits = 3
    MaxFaults = 0
    MaxStops = 1
    MaxDays = 0
SYMMETRY Symmetry
PROPERTIES RenameCopiesItsMatch
