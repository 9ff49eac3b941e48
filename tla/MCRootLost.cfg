CONSTANTS
    Root = root
    Lists = {l1, l2, l3}
    Null = null
    MaxAge = 5
    HardCount = 4
    HardSize = 9
    HighPermil = 900
    LowPermil = 400
    Sizes = {1}
    Ticks = {1, 4}
    Resolution = {1}
    MaxTimers = 2
    Tiled = TRUE
    Events = {"remove", "remove pinned"}
SPECIFICATION Spec
SYMMETRY Symmetry
INVARIANTS RootListStays
CHECK_DEADLOCK FALSE
