CONSTANTS
    c1 = c1
    c2 = c2
    r1 = r1
    r2 = r2
    r3 = r3
    CrewIds <- Crews1
    Riders <- Riders2
    Proven <- Riders2
    MaxMembers = 0
    Cooldown = 1
    NoticeFor = 0
    SpentAfter = 0
    IdleLeader = 0
    MaxRestores = 1
SPECIFICATION Spec
PROPERTIES RestoreBringsBackTheFold
