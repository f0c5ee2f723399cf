SPECIFICATION FairSpec
CONSTANTS
    Sessions = {"s1"}
    Callers = {c1, c2, c3}
    Observations = {"d"}
    Subject <- OneLane
    Class <- AThenB
    Capacity = 1
    Overflow = {}
    MaxSubmissions = 3
    MaxRestarts = 0
    MaxSaveFailures = 0
PROPERTY EverySubmissionAnswered
CHECK_DEADLOCK FALSE
