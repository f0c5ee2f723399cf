SPECIFICATION Spec
CONSTANTS
    Tasks = {"k1", "k2"}
    MaxUpdates = 2
    MaxMishaps = 1
    Wrapper = "w"
    Named = {"l", "k", "m", "n"}
    Shapes <- MCShapes
    MaxEdits = 2
    MaxLapses = 2
    Newest <- MCNewest
    ParentOf <- MCParentOf
    Claude = {"c1", "c2"}
    None = "none"
    MaxEvents = 3
    MaxFailures = 1
    Jobs = {j1}
    MaxJobEvents = 2
    MaxFaults = 1
PROPERTIES TotalsReported TranscriptsFollowed NeverGuesses OutcomeArrives
CHECK_DEADLOCK FALSE
