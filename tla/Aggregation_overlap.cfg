CONSTANTS
    t1 = t1  t2 = t2  t3 = t3
    ann = ann  bob = bob
    Trips = {t1, t2}
    Riders = {ann}
    Workers = {web, cron}
    Owner <- OwnerAnn
    NoTrip = NoTrip
    NoRow = NoRow
    MaxCrashes = 0
SPECIFICATION Spec
INVARIANT CountedAsFlagged
