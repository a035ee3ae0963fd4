CONSTANTS
    Kind = {"audio", "video"}
    Kept = {"audio"}
SPECIFICATION Spec
INVARIANTS NoOrphanTask CleanMeansReleased ShutdownAwaitsItsOwn
PROPERTIES TearDownCompletes
CHECK_DEADLOCK FALSE
