CONSTANTS
    t1 = t1  t2 = t2  t3 = t3
    ann = ann  bob = bob
    Trips = {t1, t2, t3}
    Riders = {ann, bob}
    Workers = {web}
    Owner <- Owner3
    NoTrip = NoTrip
    NoRow = NoRow
    MaxCrashes = 1
    ManualSlots = {1}
    AutoSlots = {3, 4, 5}
    SwitchKeep = 2
    NightKeep = 2
    MaxStored = 1
    MaxOrders = 3
    MaxNights = 1
SPECIFICATION CronSpec
INVARIANTS CronTypeOK CountedAsFlagged RidesAreKept
PROPERTIES MissedAreCounted ManualKept
