CONSTANTS
    Drawn = {c1}
    RebuildEvery = 1
    FreshGap = 0
    MaxLanded = 1
    MaxUpsets = 2
SPECIFICATION RedrawSpec
INVARIANTS NoHalfMap
