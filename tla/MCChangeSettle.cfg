SPECIFICATION ChangeFairSpec
CONSTANTS
    a1 = a1
    w1 = w1
    w2 = w2
    k1 = k1
    ApprovalIds = {a1}
    Keys = {k1}
    KeyOf <- MCKeyOf
    Actors = {"sre"}
    TTL = 1
    PlanTTL = 0
    MaxTime = 1
    Workers = {w1, w2}
    MaxFaults = 0
    Decisions = {"approved"}
    StartModes = {"dry_run_only", "sandbox"}
    Receipts = {}
    MaxResults = 0
PROPERTIES ExecutionSettles ImplementsContract
