SPECIFICATION FairSpec
CONSTANTS
    Names <- MCNames
    Bodies = {"x"}
    NoMacro = "none"
    Conditions = {"A"}
    Paths = {"p"}
    CompatName <- MCShared
    Uris = {"u", "v"}
    NotFound = "404"
    Resolutions = {"u", "v", "404"}
    Prefix = "optional"
    Compatibility = TRUE
    Cancellable = TRUE
    MaxConditionalDepth = 1
    MaxIncludeDepth = 2
    MaxOutputTokens = 1
    Kinds = {"text", "if", "include", "endinput", "undef"}
    MaxFileLines = 2
    MaxFiles = 4
INVARIANTS
    SuspendedFilesAreLive
    IncludeStackExact
    IncludeDepthBounded
    IncludesFormTree
    OverflowIsReported
    EndIsReported
PROPERTIES
    TruncatedOutputIsFinal
    Terminates
CHECK_DEADLOCK FALSE
