SPECIFICATION Spec
CONSTANTS
    MaxDepth = 5
    Order <- MCOrder
    FieldPool <- MCFieldPool
    CheckPool <- MCCheckPool
    Children <- MCChildren
    Configures <- MCConfigures
    Probes = {}
    RawLayers <- MCRawLayers
    Secrets <- MCSecrets
    Reads <- MCReads
    Formats <- MCFormats
    Target <- MCTarget
    Policies <- MCPolicies
    MigrationLists <- MCMigrationLists
    VersionPath <- MCVersionPath
    Supported = 1
    MaxU32 = 9
    Normalizers <- MCNormalizers
    Normalize <- MCNormalize
    MaxPushed = 1
    MaxLayers = 3
    MaxNormalizers = 1
INVARIANTS
    RulesHoldOfTheResult
    ExplainTellsTheResult
    SecretsStayHidden
    NothingIsIgnored
    TextIsReadAsTheTargetAsks
CHECK_DEADLOCK FALSE
