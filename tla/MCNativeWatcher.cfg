SPECIFICATION NativeFairSpec
CONSTANTS
    Threads = {keeper, stopper}
    NoLoop = NoLoop
    Debounce = 1
    MaxNoise = 1
    EmitUnchanged = {stopper}
    StopOnError = {stopper}
    NumFiles = 2
    Old = Old
    New = New
    Values = {Old, New}
    FirstValue = Old
    Acceptable <- MCAcceptable
    MaxVersion <- MCMaxVersion
    MaxAttempts = 4
    NoError = NoError
INVARIANTS
    ReloadsHaveCauses
    NativeStopsAsTold
PROPERTIES
    EveryChangeIsLoaded
    NativeStopReturns
CHECK_DEADLOCK FALSE
