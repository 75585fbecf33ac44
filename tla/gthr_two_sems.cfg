SPECIFICATION MSpec
CONSTANTS
    s1 = s1
    s2 = s2
    NoThread = NoThread
    MAX_G_THREADS = 4
    MIN_PRIORITY = 0
    MAX_PRIORITY = 2
    STARVATION_LIMIT = 2
    Sems = {s1, s2}
    InitialValue <- BinaryAndEmpty
    Schedulers = {"RR", "LS"}
    MaxValue = 1
    PriorityChoices = {1}
    TicketChoices = {0}
    Watched = {1, 2, 3}
INVARIANTS
    RunningIsCurrent
    RingConsistent
    BlockedIsQueued
    MainNeverLost
    WaitIsExact
    RunningTimeIsCharged
PROPERTIES
    RoundRobinProgress
    ImplementsFifo
VIEW ViewWithoutStarvation
