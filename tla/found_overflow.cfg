SPECIFICATION WatchSpec
CONSTANTS
    NumRuntimes = 1
    QueueCapacity = 1
    ActivityCapacity = 1
    MaxEvents = 2
PROPERTY NoNewerOverflow
CHECK_DEADLOCK FALSE
