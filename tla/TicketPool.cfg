SPECIFICATION FairSpec
CONSTANTS
    Ticket = {t1, t2}
    MaxHeight = 3
    StoreMayFail = FALSE
INVARIANTS
    NoSizeError
    PoolMatchesCursor
    DiskHasMemory
PROPERTIES
    PoolAnswersForHeight
    MutexReleased
