SPECIFICATION Spec
CONSTANTS
    MAX_G_THREADS = 3
    NoThread = NoThread
    MaxNest = 2
INVARIANTS
    MutualExclusion
