SPECIFICATION Spec
CONSTANTS
    Documents <- MCDocuments
    Values <- MCValues
    Watched <- MCWatched
    RuleLists <- MCRuleLists
    VersionPath <- MCVersionPath
    Supported = 2
    MaxU32 = 3
INVARIANTS
    LegacyPathsGoneIfDistinct
    ReportTellsHistory
    OthersUntouched
CHECK_DEADLOCK FALSE
