SPECIFICATION Spec
CONSTANTS
    a = a
    b = b
    Units = {a, b}
    NoEntry = NoEntry
    Zero = Zero
    Junk = Junk
    TotalClusters = 6
    NumberOfFats = 2
    RootDirEntries = 3
    DirEntriesPerCluster = 3
    ClusterSize = 2
    Dir <- D
    CdPaths <- IntoDAndBack
    WritePaths <- AnySlash
    Inputs <- AllLengths
    RmNames <- Both
INVARIANTS
    ReadsBack
    ChainsAreDisjoint
    InterruptedWriteHarmless
CONSTRAINT NothingSpoilt
