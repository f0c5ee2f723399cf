SPECIFICATION AllSpec
CONSTANTS
    SuspectAfter = 1
    StallAfter = 2
    ReminderEvery = 2
    Processes = {"p1"}
    NativeStates = {"Running", "WaitingForUser", "Completed"}
    Deadlines = {3}
    Kinds <- AllKinds
    Ids = {1, 2}
    MaxDelay = 1
    Horizon = 3
    MaxTime = 7
    MaxRestarts = 1
    MaxEvidence = 2
    NumRuntimes = 2
    QueueCapacity = 1
    ActivityCapacity = 1
    MaxEvents = 2
INVARIANTS TypeOK StallMarksCoupled QuietUntilVouched BitsHaveWakeup
PROPERTIES NoPrematureStall ReminderCadence SilenceEndsInStall EveryChangeRead SuspensionLifted
CHECK_DEADLOCK FALSE
