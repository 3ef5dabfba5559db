CONSTANTS
    g1 = g1
    r1 = r1
    t1 = t1
    t2 = t2
    t3 = t3
    k1 = k1
    k2 = k2
    NoExecution = NoExecution
    NoGoal = NoGoal
    Goals = {g1}
    Processes = {r1}
    TaskIds = {t1}
    Tokens = {k1}
    DiscoverKeys = {}
    WebsiteKeys = {}
    TargetKeys = {}
    CredentialKeys = {"secret"}
    Contexts <- NothingGiven
    MaxRetries = 1
    WithTasks = {FALSE}
    Wishes <- OneWish
    RunHazards = {}
    MaxRunFaults = 0
SPECIFICATION GoalFairSpec
CHECK_DEADLOCK FALSE
PROPERTIES ProvidedRunsGoOn
