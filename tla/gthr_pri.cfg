SPECIFICATION BoundedFairSpec
CONSTANTS
    s1 = s1
    s2 = s2
    NoThread = NoThread
    MAX_G_THREADS = 3
    MIN_PRIORITY = 0
    MAX_PRIORITY = 2
    STARVATION_LIMIT = 1
    Sems = {s1}
    InitialValue <- Binary
    Schedulers = {"RR", "PRI"}
    StaleBound = 3
    MaxValue = 1
    PriorityChoices <- OutsideAndInside
    TicketChoices = {1}
INVARIANTS
    TypeOK
    NeverAborted
    NoReadyThreadInvisible
    StarvationBounded
PROPERTIES
    NoStarvation
