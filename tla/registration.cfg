SPECIFICATION Spec
CONSTANTS
    Transports = {t1, t2}
    Managers = {m1, m2}
    MaxSessions = 1
    MaxTasks = 3
    Nobody = Nobody
    Mains = {main1, main2}
    Children = {child}
    Requests = {r1, r2}
    MaxGenerations = 2
    MaxRequests = 2
SYMMETRY Symmetry
INVARIANTS CapacityHeld
PROPERTIES ScopesKept
CHECK_DEADLOCK FALSE
