CONSTANTS
    TileSize = 2
    Lists = {1}
    Fillers = {f1, f2}
    Sizes <- FullTiles
    Spans = {1, 2, 4}
    Outcomes = {"full"}
SPECIFICATION Spec
SYMMETRY Symmetry
INVARIANTS TypeOK DeliversRequestedItems WindowSound
