SPECIFICATION FairSpec
CONSTANTS
    Words <- MCWords
    Names <- MCNames
    Macros <- MCMacros
    NoMacro = NoMacro
    Lines <- MCLines
    MaxExpansionDepth = 5
INVARIANTS
    TypeOK
    ConditionsRescan
    SelfReferenceStops
PROPERTIES
    Terminates
CHECK_DEADLOCK FALSE
