CONSTANTS
    Root = root
    Lists = {l1, l2, l3, l4}
    Null = null
    MaxAge = 4
    HardCount = 5
    HardSize = 20
    HighPermil = 800
    LowPermil = 600
    Sizes = {1}
    Ticks = {1, 3}
    Resolution = {1}
    MaxTimers = 2
    Tiled = FALSE
    Events = {"remove", "read error"}
SPECIFICATION Spec
SYMMETRY Symmetry
INVARIANTS TypeOK AgingListSound TreeComplete PinnedPath NoOtherAssertionFails LimitsKept
PROPERTIES LeastRecentlyUsedFirst
