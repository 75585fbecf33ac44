SPECIFICATION PCSpec
CONSTANTS
    mutex = mutex
    items_count = items_count
    NoThread = NoThread
    MAX_G_THREADS = 5
    MIN_PRIORITY = 0
    MAX_PRIORITY = 10
    STARVATION_LIMIT = 10
    Sems = {mutex, items_count}
    InitialValue <- BothOne
    Schedulers = {"LS"}
    MaxValue = 2
    PriorityChoices = {5}
    TicketChoices = {30}
    Producers = {1, 2}
    BUFFER_SIZE = 2
VIEW ViewWithoutStarvation
INVARIANTS
    MutualExclusion
    InnerNeverBlocks
    NeverExits
    CountedItemIsThere
