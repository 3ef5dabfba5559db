CONSTANTS
    t1 = t1
    t2 = t2
    w1 = w1
    w2 = w2
    r1 = r1
    r2 = r2
    NoTask = NoTask
    Tasks = {t1}
    Slots = {w1, w2}
    Runners = {r1}
    RunnerOf <- OneProcess
    Parent <- Single
    Handlers <- AnyHandler
    Hazards = {"error"}
    MaxFaults = 1
SPECIFICATION FairSpec
CHECK_DEADLOCK FALSE
PROPERTIES PauseTakesEffect
