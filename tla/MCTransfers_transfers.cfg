SPECIFICATION FairSpec
CONSTANTS
    Parts = {"workers", "multipart", "runs"}
    Worker = {w1, w2}
    Job = {j1, j2}
    NoJob = NoJob
    MinWorkers = 1
    MaxWorkers = 2
    StartWorkers = 1
    MaxNetRetries = 1
    Patience = 1
    MaxDowns = 1
    MaxPauses = 1
    Short = Short
    NumParts = 2
    Concurrency = 2
    ResumeMaxAge = 0
    MaxEdits = 1
    MaxFaults = 1
    MaxCrashes = 1
    MaxDays = 1
    Child = Child
    Other = Other
    NoPid = NoPid
    Folders = 1
    PidReused = FALSE
    MaxHistory = 1
    MaxStarts = 2
    MaxCuts = 1
    MaxWishes = 1
INVARIANTS Consistent NoLostWakeup RecordedIsWhole OpenIsNoted StopIsKept
PROPERTIES PoolEnds UploadArrives RunsCarryOn
CHECK_DEADLOCK FALSE
