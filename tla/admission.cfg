SPECIFICATION AllSpec
CONSTANTS
    Sessions = {"s1", "s2"}
    Callers = {c1, c2, c3}
    Observations = {"a", "d", "x"}
    Subject <- TwoLanes
    Class <- AThenB
    Capacity = 2
    Overflow = {"s2"}
    MaxSubmissions = 4
    MaxRestarts = 1
    MaxSaveFailures = 1
    Natives = {"m", "w", "a"}
    Nobody = "nobody"
    Payloads <- SomePayloads
    Calls = {"h1", "h2"}
    MaxMishaps = 1
    MaxRequests = 4
SYMMETRY CallerSymmetry
INVARIANTS NoStrandedEntry WaiterHasEntry FailClosed RefusedIsRemembered AckedIsStored
PROPERTIES AdmissionOrder
CHECK_DEADLOCK FALSE
