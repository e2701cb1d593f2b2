CONSTANTS
    t1 = t1
    t2 = t2
    t3 = t3
    b1 = b1
    b2 = b2
    NoThread = NoThread
    Threads <- MC_Threads
    Buffers <- MC_Buffers
    NeedDeltaPeriod = 2
    DiskFaults = FALSE

SPECIFICATION Spec
INVARIANT TypeOK
INVARIANT NoStaleDirty
PROPERTY NonEmptyCommit
PROPERTY CommitsRecur
