SPECIFICATION FairSpec
CONSTANTS
    MAX_WORKERS = 2
    MaxClients = 6
    SocketCapacity = 1
    LogCapacity = 1
    LoggerStates = {"running","gone"}
    MaxCrashes = 2
    MaxFailures = 1
    MainMayDie = TRUE
    HeaderSize = 1
    MaxBody = 2
    BufferSize = 1
INVARIANTS
    HeldOnce
    DropsAreBounded
    UndeliveredIsAShare
    OneSpins
CHECK_DEADLOCK FALSE
PROPERTIES
    ConnectionsEnd
