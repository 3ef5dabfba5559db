SPECIFICATION Spec
CONSTANTS
    boss = boss  r1 = r1  r2 = r2  m1 = m1  m2 = m2  m3 = m3
    Boss = boss
    Roles <- TwoRoles
    Merges <- ThreeMerges
    Concurrency = 2
    PartialMin = 1
    NoProgressMode = "await_user"
    ManualMode = "partial"
    MaxReplies = 1
    Hazards <- NoHazards
    MaxFaults = 0
INVARIANTS AllResultsCollected
CHECK_DEADLOCK FALSE
