SPECIFICATION A2AFairSpec
CONSTANTS
    Callers = {"c1", "c2"}
    Tasks = {"m1"}
    Skills <- MCSkills
    Requests = {"q1", "q2"}
    MaxFaults = 2
INVARIANTS OneRunPerMessage AnswersOwnRequest
PROPERTY RecordSettles
