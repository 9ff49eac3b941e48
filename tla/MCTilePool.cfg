CONSTANTS
    TileSize = 1
    Lists = {1, 2}
    Fillers = {f1, f2}
    Sizes <- ThreeAndOne
    Spans = {1, 2}
    Outcomes = {"full", "error"}
SPECIFICATION Spec
INVARIANTS TilesDecided NoFailedAssertions EachTileOnce
PROPERTIES TilesNotShared ReaderLive
