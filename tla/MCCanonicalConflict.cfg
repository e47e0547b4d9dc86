SPECIFICATION Spec
CONSTANTS
    MaxDepth = 5
    Order <- MCOrder
    FieldPool <- MCFieldPool
    CheckPool <- MCCheckPool
    Children <- MCChildren
    Configures <- MCConfigures
    Probes <- MCProbes
    RawLayers <- MCRawLayers
    Secrets <- MCSecrets
    MaxPushed = 2
    MaxLayers = 2
INVARIANT ConflictingPathsFail
CHECK_DEADLOCK FALSE
