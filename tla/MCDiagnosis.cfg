SPECIFICATION DiagnosisFairSpec
CONSTANTS
    h1 = h1
    h2 = h2
    h3 = h3
    p1 = p1
    p2 = p2
    s1 = s1
    Handlers = {h1, h2, h3}
    Processes = {p1, p2}
    ProcessOf <- MCProcessOf
    Sessions = {s1}
    Outcomes = {"completed"}
    Stale = 1
    MaxAttempts = 2
    MaxCrashes = 1
    MaxLostWrites = 1
CHECK_DEADLOCK FALSE
INVARIANTS DiagnosisTypeOK OneRunPerSession ResumeAuthorized ResumeRetryable
PROPERTIES RunsSettle
