CONSTANTS
    c1 = c1  r1 = r1  r2 = r2  b1 = b1  t1 = t1  s1 = s1  s2 = s2  none = none
    Drawn = {c1}
    RebuildEvery = 1
    FreshGap = 0
    MaxLanded = 1
    MaxUpsets = 2
    Told = {1, 2}
    Names = {1, 2}
    Rungs = 2
    MaxShuffles = 4
    Disk = 4
    DayChoices = {0, 1}
    FloorChoices = {0, 2}
    OldAge = 2
    SweepLimit = 2
    MaxArchive = 3
    MaxDeaths = 1
    LastDay = 3
    MaxMishaps = 2
    NoRider = none
    NoToken = none
    NoSession = none
    Riders = {r1, r2}
    Browsers = {b1}
    Tokens = {t1}
    Sessions = {s1, s2}
    CodeTTL = 1
    SessionTTL = 2
    Renewal = 1
    MaxPolls = 2
SPECIFICATION LoopsSpec
INVARIANTS LoopsTypeOK RideIsOwed SessionVouchedFor
PROPERTIES MapSettles RungSpent NewsIsNew OldUploadsGo KeepEverything RecapSettles SessionSlides UsedTokensGo UnheldSessionsEnd
