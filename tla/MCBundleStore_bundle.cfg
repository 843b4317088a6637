SPECIFICATION Spec
CONSTANTS
    Key = {k1, k2}
    Content = {c1, c2}
    Blank = {}
    None = None
    Packing = {TRUE, FALSE}
    Mishaps = {}
    MaxPacks = 3
    MaxCalls = 2
    MaxFaults = 2
SYMMETRY Symmetry
INVARIANTS TypeOK IndexedIsStored NothingHeldBack
PROPERTIES KeepsContract
