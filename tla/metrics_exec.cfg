SPECIFICATION MSpec
CONSTANTS
    s1 = s1
    s2 = s2
    NoThread = NoThread
    MAX_G_THREADS = 3
    MIN_PRIORITY = 0
    MAX_PRIORITY = 2
    STARVATION_LIMIT = 2
    Sems = {s1, s2}
    InitialValue <- BinaryAndEmpty
    Schedulers = {"RR"}
    MaxValue = 1
    PriorityChoices = {1}
    TicketChoices = {0}
    Watched = {1}
INVARIANTS
    ExecTimeIsTotal
VIEW ViewWithoutStarvation
