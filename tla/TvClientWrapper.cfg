\* Two threads that get and release two wrappers each.
SPECIFICATION Spec
CONSTANTS
    Threads = {t1, t2}
    MaxInstances = 2
INVARIANTS
    TypeOK
    FaultsOnlyInConstruction
    EachWrapperToldOnce
CHECK_DEADLOCK FALSE
