SPECIFICATION Spec
CONSTANTS
    Letters = {"a", "_"}
    MaxIndex = 10
    MaxLength = 6
    Upper <- MCUpper
    PrefixSettings <- MCPrefixSettings
    Separators <- MCSeparators
INVARIANTS
    AcceptsTheGrammar
    CanonicalFormIsStable
    DocumentedVariablesAreRead
CHECK_DEADLOCK FALSE
