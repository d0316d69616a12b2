SPECIFICATION ChangeSpec
CONSTANTS
    a1 = a1
    w1 = w1
    w2 = w2
    k1 = k1
    ApprovalIds = {a1}
    Keys = {k1}
    KeyOf <- MCKeyOf
    Actors = {"sre", "dev"}
    TTL = 0
    PlanTTL = 0
    MaxTime = 0
    Workers = {w1, w2}
    MaxFaults = 0
    Decisions = {"approved"}
    StartModes = {"manual_record"}
    Receipts = {"partial", "rolled_back"}
    MaxResults = 2
SYMMETRY Symmetry
PROPERTY ReceiptsNeverLost
