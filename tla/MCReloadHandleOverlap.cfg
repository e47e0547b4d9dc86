SPECIFICATION Spec
CONSTANTS
    Threads = {caller, watcher}
    EmitUnchanged = {caller}
    StopOnError = {}
    NumFiles = 2
    Old = Old
    New = New
    Values = {Old, New}
    FirstValue = Old
    Acceptable <- MCAcceptable
    MaxVersion <- MCMaxVersion
    MaxAttempts = 2
    NoError = NoError
INVARIANT KeepsMostRecentSuccess
CHECK_DEADLOCK FALSE
