SPECIFICATION Spec
CONSTANTS
    Key = {k1, k2}
    Content = {c1, c2}
    Blank = {}
    None = None
    Packing = {TRUE}
    Mishaps = {"sweep"}
    MaxPacks = 3
    MaxCalls = 2
    MaxFaults = 1
SYMMETRY Symmetry
INVARIANTS SavedIsSafe
