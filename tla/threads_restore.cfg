SPECIFICATION Spec
CONSTANTS
    Threads = {t1, t2}
    SubDirs = {2, 3}
    Root = 0
INVARIANTS
    RestoredToRoot
CHECK_DEADLOCK FALSE
