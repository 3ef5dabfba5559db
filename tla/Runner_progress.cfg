CONSTANTS
    Parts = {"queue", "single", "goals"}
    Tasks = {"parent", "child"}
    NoTask = "none"
    Parent <- Family
    Handlers <- Teamwork
    Slots = {"w1"}
    Runners = {"r1"}
    RunnerOf <- SlotOfOne
    Hazards = {"crash"}
    MaxFaults = 2
    Goals = {"g"}
    Processes = {"r1"}
    TaskIds = {"t1", "t2", "t3"}
    Tokens = {"k1", "k2"}
    DiscoverKeys = {"brief"}
    WebsiteKeys = {"brief"}
    TargetKeys = {"target"}
    CredentialKeys = {"secret"}
    Contexts <- AnyContext
    MaxRetries = 1
    WithTasks = {TRUE}
    Wishes <- AnyWish
    NoExecution = "none"
    NoGoal = "none"
    RunHazards = {"slow", "error"}
    MaxRunFaults = 2
SPECIFICATION MCFairSpec
CHECK_DEADLOCK FALSE
INVARIANTS GoalTypeOK NeverDisturbed ExecutionsAreSingle AwaitingIsJustified
PROPERTIES QueueMovesOn GoalRunsEnd
