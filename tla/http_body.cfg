SPECIFICATION Spec
CONSTANTS
    MAX_WORKERS = 2
    MaxClients = 1
    SocketCapacity = 1
    LogCapacity = 2
    LoggerStates = {"running"}
    MaxCrashes = 0
    MaxFailures = 0
    MainMayDie = FALSE
    HeaderSize = 1
    MaxBody = 2
    BufferSize = 2
INVARIANTS
    BodyIsRead
CHECK_DEADLOCK FALSE
