SPECIFICATION ActivitySpec
CONSTANTS
    NumPids = 2
    NumSessions = 2
    MaxSpawns = 3
    MaxWork = 1
    MaxNamed = 2
    MaxFaults = 1
    MaxTogether = 5
    Children = {child1, child2}
    Natives <- SomeNatives
    Resolve <- Links
    Outside <- OutsidePath
    Keys = {call1, call2}
    MaxRegistered = 2
    MaxChildSessions = 2
    TargetLimit = 4
    MaxRuntimeDirs = 3
    MaxSteps = 3
    Writers = {child1, child2}
    Routed = {}
    MaxEvents = 3
    MaxBatch = 2
    MaxRestarts = 1
    MaxFailures = 1
    Calls = {call1, call2}
    Limits = {2}
    Guesses = {}
SYMMETRY Symmetry
INVARIANTS IdsUnique AcknowledgedWasRead
PROPERTIES DeadGetsNoProgress OwnerCredited
CHECK_DEADLOCK FALSE
