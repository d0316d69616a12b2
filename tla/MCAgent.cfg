SPECIFICATION AgentSpec
CONSTANTS
    q1 = q1
    q2 = q2
    qf = qf
    manA = manA
    manB = manB
    act = act
    sug = sug
    Steps = {q1, q2, qf, manA, manB, act, sug}
    NameOf <- MCNameOf
    ToolOf <- MCToolOf
    TextOf <- MCTextOf
    LevelOf <- MCLevelOf
    MaxPlan = 3
    MaxSteps = 4
    Fanout = 3
    MaxNew = 1
    Critics = {TRUE, FALSE}
    MaxFaults = 1
INVARIANTS AgentTypeOK BudgetKept NothingRiskyRuns RiskNeverSkipped RetriedOnce
PROPERTY RunEnds
