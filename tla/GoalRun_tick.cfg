CONSTANTS
    g1 = g1
    r1 = r1
    t1 = t1
    t2 = t2
    t3 = t3
    k1 = k1
    k2 = k2
    NoExecution = NoExecution
    NoGoal = NoGoal
    Goals = {g1}
    Processes = {r1}
    TaskIds = {t1, t2, t3}
    Tokens = {k1, k2}
    DiscoverKeys = {"brief"}
    WebsiteKeys = {"brief"}
    TargetKeys = {"target"}
    CredentialKeys = {"secret"}
    Contexts <- NothingGiven
    MaxRetries = 1
    WithTasks = {TRUE}
    Wishes <- OneWish
    RunHazards = {"tick"}
    MaxRunFaults = 1
SPECIFICATION GoalFairSpec
CHECK_DEADLOCK FALSE
INVARIANTS ExecutionsAreCounted
