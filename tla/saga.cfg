SPECIFICATION MCFairSpec
CONSTANTS
    SuspectAfter = 1
    StallAfter = 2
    ReminderEvery = 100
    Processes = {"p1", "p2"}
    Child = "p1"
    RuntimeMatches = {"p1", "p2"}
    TerminateAfter = 2
    warning_grace = 1
    action_grace = 1
    Kinds = {"DeadlineSet", "DeadlinePause", "DeadlineResume", "NativeState", "SourceConflict", "SourceConflictResolved", "ProcessIdentity"}
    NativeStates = {"Running", "Completed"}
    Deadlines = {3}
    Legacy = TRUE
    SamplerFails = TRUE
    Toggles = {"automation", "sigkill"}
    Horizon = 3
    MaxTime = 14
    MaxRestarts = 1
    MaxStalls = 2
    MaxFailures = 1
    PassEvery = 1
    MaxDisturbances = 2
INVARIANTS OnlyWarnedProcess GraceRespected WarnedStallOrUnread
PROPERTIES EligibleChildEnds StalledBeforeWarning
CHECK_DEADLOCK FALSE
