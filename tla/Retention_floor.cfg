CONSTANTS
    Disk = 4
    DayChoices = {0, 1}
    FloorChoices = {0, 2}
    OldAge = 2
    SweepLimit = 2
    MaxArchive = 3
    MaxDeaths = 1
SPECIFICATION RetentionSpec
PROPERTIES SweepStopsAtTheFloor
