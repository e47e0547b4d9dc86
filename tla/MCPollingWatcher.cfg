SPECIFICATION PollFairSpec
CONSTANTS
    Threads = {keeper, stopper}
    NoThread = NoThread
    EmitUnchanged = {stopper}
    StopOnError = {stopper}
    NumFiles = 2
    Old = Old
    New = New
    Values = {Old, New}
    FirstValue = Old
    Acceptable <- MCAcceptable
    MaxVersion <- MCMaxVersion
    MaxAttempts = 4
    NoError = NoError
INVARIANTS
    StopsAsTold
PROPERTIES
    WatcherCatchesUp
    StopReturns
CHECK_DEADLOCK FALSE
