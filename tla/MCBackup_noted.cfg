SPECIFICATION Spec
CONSTANTS
    Key = {k1, k2}
    Version = {v1, v2, v3}
    None = None
    Torn = Torn
    Bundling = {TRUE, FALSE}
    RetentionDays = 1
    Renames = TRUE
    BusyDisk = TRUE
    Unreadable = TRUE
    Returns = TRUE
    MaxEdits = 2
    MaxFaults = 1
    MaxStops = 2
    MaxDays = 0
SYMMETRY Symmetry
INVARIANTS TypeOK Accounted
PROPERTIES NotedOnlyWhenStored
