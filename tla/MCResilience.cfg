SPECIFICATION ResilienceFairSpec
CONSTANTS
    c1 = c1
    c2 = c2
    Callers = {c1, c2}
    Kinds <- MCKinds
    Threshold = 2
    Recovery = 1
    Budget = 3
    MaxAttempts = 3
    Delay = 1
    Slots = 1
    MaxAbandoned = 1
CHECK_DEADLOCK FALSE
INVARIANTS BreakerSound CallsBounded SlotsBack
PROPERTIES ProbeSettles
