SPECIFICATION Spec
CONSTANTS
    MAX_G_THREADS = 4
    NoThread = NoThread
    MaxNest = 2
INVARIANTS
    ExclusionUntilDisturbed
    StacksUntilDisturbed
    MainUntilDisturbed
    ReturnUntilDisturbed
PROPERTIES
    WakingUntilDisturbed
CONSTRAINTS
    Undisturbed
    OneNests
