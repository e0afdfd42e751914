SPECIFICATION FairSpec
CONSTANTS
    LocalEps = {e1, e2}
    Disposers = {"deadline", "host_stop", "remove_any"}
INVARIANTS
    TypeOK
    EndedMeansReleased
    DestroyedIsQuiet
PROPERTIES
    ShutdownBeforeClose
    ImplementsContract
    LostSideReaped
    StopReturns
CHECK_DEADLOCK FALSE
