CONSTANTS
    g1 = g1
    r1 = r1
    t1 = t1
    t2 = t2
    t3 = t3
    k1 = k1
    k2 = k2
    NoExecution = NoExecution
    NoGoal = NoGoal
    Goals = {g1}
    Processes = {r1}
    TaskIds = {t1, t2}
    Tokens = {k1, k2}
    DiscoverKeys = {"brief"}
    WebsiteKeys = {"brief"}
    TargetKeys = {"target"}
    CredentialKeys = {"secret"}
    Contexts <- SomethingGiven
    MaxRetries = 1
    WithTasks = {TRUE, FALSE}
    Wishes <- EveryWish
    RunHazards = {"crash", "error", "tick", "slow", "early", "stray"}
    MaxRunFaults = 2
SPECIFICATION GoalSpec
SYMMETRY Symmetry
CHECK_DEADLOCK FALSE
INVARIANTS DeployIsAuthorized
PROPERTIES StagesInOrder TokensAreOneTime
