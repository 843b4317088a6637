SPECIFICATION Spec
CONSTANTS
    Key = {k1}
    Version = {v1, v2}
    None = None
    Torn = Torn
    Bundling = {TRUE, FALSE}
    RetentionDays = 0
    Renames = FALSE
    BusyDisk = FALSE
    Unreadable = TRUE
    Returns = FALSE
    MaxEdits = 0
    MaxFaults = 1
    MaxStops = 0
    MaxDays = 0
INVARIANTS DeletesAreGone
