SPECIFICATION Spec
CONSTANTS
    N = 5
    PoolSizes = {1, 2}
INVARIANTS
    TypeOK
    RestoredWhenQuiet
PROPERTY LeakIsPermanent
CHECK_DEADLOCK FALSE
