SPECIFICATION Spec
CONSTANTS
    c1 = c1
    c2 = c2
    c3 = c3
    i1 = i1
    i2 = i2
    i3 = i3
    i4 = i4
    Callers <- MCCallers
    Cancellable <- MCCancellable
    Uris = {"u"}
    Contents <- MCContents
    Ids <- MCIds
    Empty = Empty
SYMMETRY MCSymmetry
INVARIANTS
    TypeOK
    OwnContent
    PrivateUntilStored
PROPERTIES
    ServiceSpec
