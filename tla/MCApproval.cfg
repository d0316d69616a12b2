SPECIFICATION ApprovalSpec
CONSTANTS
    a1 = a1
    a2 = a2
    w1 = w1
    w2 = w2
    k1 = k1
    ApprovalIds = {a1}
    Keys = {k1}
    KeyOf <- MCKeyOf
    Actors = {"sre"}
    TTL = 1
    MaxTime = 2
    Workers = {w1, w2}
    MaxFaults = 1
    Decisions = {"approved", "rejected"}
SYMMETRY Symmetry
INVARIANTS ApprovalTypeOK OutboxComplete
PROPERTIES DecisionFinal HardTerminalHolds
