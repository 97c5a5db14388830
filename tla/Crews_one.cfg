CONSTANTS
    c1 = c1
    c2 = c2
    r1 = r1
    r2 = r2
    r3 = r3
    CrewIds <- Crews1
    Riders <- Riders3
    Proven <- Riders3
    MaxMembers = 2
    Cooldown = 1
    NoticeFor = 0
    SpentAfter = 0
    IdleLeader = 1
    MaxRestores = 1
SYMMETRY Sym3
SPECIFICATION Spec
INVARIANTS TypeOK QuietCrewCanBeClaimed CapHeld OneLeader PendingHoldsNoOffice LivingIffManned
PROPERTIES RestoreIsComplete LeaderNotDeposed ImplementsMembership
