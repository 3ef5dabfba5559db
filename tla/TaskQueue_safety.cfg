CONSTANTS
    t1 = t1
    t2 = t2
    w1 = w1
    w2 = w2
    r1 = r1
    r2 = r2
    NoTask = NoTask
    Tasks = {t1, t2}
    Slots = {w1, w2}
    Runners = {r1, r2}
    RunnerOf <- TwoProcesses
    Parent <- Family
    Handlers <- Teamwork
    Hazards <- AllHazards
    MaxFaults = 1
SPECIFICATION Spec
CHECK_DEADLOCK FALSE
INVARIANTS TypeOK OneExecutor CompletionStamp
PROPERTIES FinalStaysFinal LeaseSpec
