SPECIFICATION FairSpec
CONSTANTS
    Key = {k1, k2}
    Version = {v1, v2, v3}
    None = None
    Torn = Torn
    Bundling = {TRUE, FALSE}
    RetentionDays = 0
    Renames = FALSE
    BusyDisk = TRUE
    Unreadable = FALSE
    Returns = FALSE
    MaxEdits = 2
    MaxFaults = 1
    MaxStops = 1
    MaxDays = 1
PROPERTIES Converges
