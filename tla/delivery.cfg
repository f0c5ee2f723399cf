SPECIFICATION AllSpec
CONSTANTS
    Writers = {"main"}
    Routed = {"main"}
    MaxEvents = 2
    MaxBatch = 2
    MaxRestarts = 1
    MaxFailures = 1
    Endpoints = {"Webhook"}
    Limit = 1
    LIVE_CAPACITY = 1
    Mains = {"s"}
    Branches = {"b1", "b2"}
    Supported = {"gh"}
    Others = {"elsewhere"}
    None = None
    CacheTtl = 2
    MaxChanges = 2
    Parents = {1, 2, 3}
    Confidences = {5, 8, 9}
    MinimumConfidence = 6
    MinimumGap = 2
    Bases = {"WeakHeuristic", "UniqueWorktree", "McpRegistration", "ExactNative"}
    Trusts = {"Heuristic", "Authoritative"}
    MaxCandidates = 3
INVARIANTS AcknowledgedWasAttempted AcknowledgedIsShown NoCloseCall
PROPERTIES EverythingSettles BrowserCatchesUp BranchComesThrough
CHECK_DEADLOCK FALSE
