CONSTANTS
    ManualSlots = {1}
    AutoSlots = {3, 4, 5, 6}
    SwitchKeep = 2
    NightKeep = 2
    MaxStored = 1
    MaxOrders = 3
    MaxNights = 1
SPECIFICATION DatasetsSpec
INVARIANTS SwitchKeepsTarget
