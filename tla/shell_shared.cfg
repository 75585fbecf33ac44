SPECIFICATION Spec
CONSTANTS
    a = a
    b = b
    Units = {a, b}
    NoEntry = NoEntry
    Zero = Zero
    Junk = Junk
    TotalClusters = 7
    NumberOfFats = 2
    RootDirEntries = 3
    DirEntriesPerCluster = 4
    ClusterSize = 2
    Dir <- D
    CdPaths <- IntoDAndBack
    WritePaths <- HereAndInD
    Inputs <- AllLengths
    RmNames <- Both
INVARIANTS
    RmDeletesOneFile
