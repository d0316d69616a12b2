SPECIFICATION AlertFairSpec
CONSTANTS
    w1 = w1
    w2 = w2
    w3 = w3
    p1 = p1
    p2 = p2
    i1 = i1
    i2 = i2
    Webhooks = {w1, w2, w3}
    Processes = {p1, p2}
    ProcessOf <- MCProcessOf
    Incidents = {i1, i2}
    Batches <- MCBatches
    Outcomes = {"completed"}
    Lease = 1
    MaxConcurrency = 1
    MaxFaults = 1
CHECK_DEADLOCK FALSE
INVARIANTS InFlightExact GenerationsOrdered
PROPERTIES ClaimReleasedByHolder DiagnosesEnd
