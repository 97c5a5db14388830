CONSTANTS
    CrewIds = {c1, c2}
    Riders = {r1, r2}
    Proven = {r1, r2}
    MaxMembers = 0
    Cooldown = 1
    NoticeFor = 0
    SpentAfter = 0
    IdleLeader = 0
    MaxRestores = 0
SPECIFICATION RaceSpec
INVARIANTS OneCrewPerRider
