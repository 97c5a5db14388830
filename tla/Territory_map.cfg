CONSTANTS
    belt = belt
    hook = hook
    outer = outer
    Crews <- Crews2
    Width = 6
    Height = 6
    Routes <- Routes3
    Km <- Roads
    Outings <- Outings4
    Floor = 6
    Window = 2
    MaxRides = 3
    MayFold <- Second
SPECIFICATION Spec
INVARIANTS TypeOK DrawnOnce
PROPERTIES PatchesArePlanted NothingLostToNobody OutriddenBlockChangesHands
