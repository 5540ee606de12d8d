SPECIFICATION Spec
CONSTANTS
    Pieces <- MCPieces
    Documents <- MCDocuments
    MaxEdit = 1
INVARIANTS
    TypeOK
    BranchesFollowText
PROPERTIES
    ExactReuse
    TriviaReuseIsExact
