SPECIFICATION Spec
CONSTANTS
    Names <- MCNames
    Bodies = {"x"}
    NoMacro = "none"
    Conditions = {"true", "unknown", "A"}
    Paths = {"p"}
    CompatName <- MCShared
    Uris = {"u"}
    NotFound = "404"
    Resolutions = {}
    Prefix = "none"
    Compatibility = FALSE
    Cancellable = FALSE
    MaxConditionalDepth = 2
    MaxIncludeDepth = 1
    MaxOutputTokens = 2
    Kinds = {"text", "if", "elseif", "else", "endif", "endinput", "undef", "define", "assert", "message"}
    MaxFileLines = 6
    MaxFiles = 1
INVARIANTS
    TypeOK
    ConditionalsNest
    ExclusiveBranches
    OpenBranchIsOwn
    BranchesTile
PROPERTIES
    DeadTextHasNoEffect
CHECK_DEADLOCK FALSE
