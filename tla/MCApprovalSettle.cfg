SPECIFICATION ApprovalFairSpec
CONSTANTS
    a1 = a1
    a2 = a2
    w1 = w1
    w2 = w2
    k1 = k1
    ApprovalIds = {a1, a2}
    Keys = {k1}
    KeyOf <- MCKeyOf
    Actors = {"sre"}
    TTL = 0
    MaxTime = 1
    Workers = {w1, w2}
    MaxFaults = 0
    Decisions = {"approved"}
INVARIANT OnePendingPerKey
PROPERTY MarkersSettle
