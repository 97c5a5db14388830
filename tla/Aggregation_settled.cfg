CONSTANTS
    t1 = t1  t2 = t2  t3 = t3
    ann = ann  bob = bob
    Trips = {t1, t2}
    Riders = {ann, bob}
    Workers = {web, cron}
    Owner <- OwnerAnn
    NoTrip = NoTrip
    NoRow = NoRow
    MaxCrashes = 1
    Readings <- Readings5
    Gaps <- Gaps3
    MaxSamples = 5
    Accel = 5
    AccelGap = 3
    Window = 4
    MoveKmh = 3
    NearStop = 2
    Target = 40
    LaunchGap = 5
    DipNum = 4
    DipDen = 5
    LeastS = 2
    MostS = 10
    StopFrom = 30
    StopTo = 2
    MaxDecel = 12
    Teams = {c1, c2}
    Cyclists = {ann, bob}
    NoTeam = NoTeam
    Rides = {t1}
    RiddenBy <- RiddenByAnn
SPECIFICATION UploadSpec
INVARIANTS UploadTypeOK SumsSettled TopSpeedIsReached SustainedIsHeld LaunchIsGenuine StopIsReal
PROPERTIES CreditEarned
