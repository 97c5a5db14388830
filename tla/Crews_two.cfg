CONSTANTS
    c1 = c1
    c2 = c2
    r1 = r1
    r2 = r2
    r3 = r3
    CrewIds <- Crews2
    Riders <- Riders2
    Proven <- Riders2
    MaxMembers = 0
    Cooldown = 2
    NoticeFor = 0
    SpentAfter = 0
    IdleLeader = 0
    MaxRestores = 0
SYMMETRY CrewSym2
SPECIFICATION Spec
INVARIANTS OneCrewPerRider
PROPERTIES CooldownServed
