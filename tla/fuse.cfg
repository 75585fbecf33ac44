SPECIFICATION Spec
CONSTANTS
    a = a
    b = b
    NoEntry = NoEntry
    Zero = Zero
    Junk = Junk
    TotalClusters = 5
    NumberOfFats = 2
    RootDirEntries = 2
    DirEntriesPerCluster = 3
    ClusterSize = 2
    Paths <- WideTree
    DirPaths <- WideTree
    Units = {a, b}
    DataChoices <- One
    OffsetChoices = {0, 2}
    MaxSize = 4
    MaxCrashes = 1
    CrashPaths <- Files
INVARIANTS
    NoSharing
    NoDangling
    UniqueNames
    OthersSurvive
    MirrorsAgree
PROPERTIES
    ImplementsFileStore
    LeaksOnlyInWrite
VIEW ViewOfVolume
