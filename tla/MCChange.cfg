SPECIFICATION ChangeSpec
CONSTANTS
    a1 = a1
    w1 = w1
    w2 = w2
    k1 = k1
    ApprovalIds = {a1}
    Keys = {k1}
    KeyOf <- MCKeyOf
    Actors = {"sre"}
    TTL = 0
    PlanTTL = 0
    MaxTime = 0
    Workers = {w1, w2}
    MaxFaults = 1
    Decisions = {"approved"}
    StartModes = {"dry_run_only", "manual_record", "sandbox"}
    Receipts = {}
    MaxResults = 0
SYMMETRY Symmetry
INVARIANTS ChangeTypeOK GatesPassed ExecutionOutboxComplete
