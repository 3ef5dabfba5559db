CONSTANTS
    w1 = w1
    w2 = w2
    q1 = q1
    q2 = q2
    run1 = run1
    run2 = run2
    run3 = run3
    a1 = a1
    a2 = a2
    NoRun = NoRun
    NoApproval = NoApproval
    Slots = {w1, w2}
    Requests = {q1, q2}
    Runs = {run1, run2}
    Approvals = {a1, a2}
    MaxSteps = 1
    Risks = {"low", "high"}
    Hazards = {"crash"}
    MaxFaults = 1
SPECIFICATION FairSpec
CHECK_DEADLOCK FALSE
PROPERTIES HighRiskNeedsOwner
