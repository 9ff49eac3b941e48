CONSTANTS
    Root = root
    Lists = {l1, l2, l3}
    Null = null
    MaxAge = 4
    HardCount = 10
    HardSize = 5
    HighPermil = 800
    LowPermil = 600
    Sizes = {1, 2}
    Ticks = {1, 3}
    Resolution = {1}
    MaxTimers = 2
    Tiled = TRUE
    Events = {"remove", "drop tile"}
SPECIFICATION Spec
SYMMETRY Symmetry
INVARIANTS TreeComplete LimitsKept
