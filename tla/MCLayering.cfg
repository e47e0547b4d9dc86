SPECIFICATION Spec
CONSTANTS
    MaxDepth = 5
    Values <- MCValues
    Defaults <- MCDefaults
    FileValues <- MCFileValues
    ArgOverrides <- MCArgOverrides
    EnvOverrides <- MCEnvOverrides
    Fallbacks <- MCFallbacks
    PatchWrites <- MCPatchWrites
    Metadata <- MCMetadata
    MaxFiles = 1
    MaxOverrides = 3
INVARIANTS
    HighestLayerDecides
    NoHolesUnlessReset
    RefusalsHaveCause
    AcceptedWritesApply
    PatchLeavesTheRest
    DeniedSourcesDoNotDecide
CHECK_DEADLOCK FALSE
