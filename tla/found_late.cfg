SPECIFICATION InboxSpec
CONSTANTS
    Writers = {"child1", "child2"}
    Routed = {}
    MaxEvents = 2
    MaxBatch = 1
    MaxRestarts = 0
    MaxFailures = 0
    Calls = {"call1"}
    Limits = {1}
    Guesses = {}
INVARIANT NoEventLost
CHECK_DEADLOCK FALSE
