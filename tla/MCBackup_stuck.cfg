SPECIFICATION FairSpec
CONSTANTS
    Key = {k1}
    Version = {v1, v2}
    None = None
    Torn = Torn
    Bundling = {TRUE, FALSE}
    RetentionDays = 1
    Renames = FALSE
    BusyDisk = FALSE
    Unreadable = FALSE
    Returns = FALSE
    MaxEdits = 1
    MaxFaults = 1
    MaxStops = 0
    MaxDays = 0
PROPERTIES Converges
