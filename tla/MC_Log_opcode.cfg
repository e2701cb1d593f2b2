CONSTANTS
    LOG_ALLOC <- MC_LOG_ALLOC
    LOG_FREE <- MC_LOG_FREE
    LOG_UPDATE <- MC_LOG_UPDATE
    LOG_IROOT <- MC_LOG_IROOT
    LOG_REDIRECT <- MC_LOG_REDIRECT
    LogData = 20
    MaxLogBlocks = 3
    MaxRecords = 4
    BlockVals = {2, 51}
    CountVals = {1}
    Ops = {"alloc", "iroot"}
    MainOrder = TRUE

SPECIFICATION Spec
INVARIANT ReplayMatchesLog
