CONSTANTS
    Dumps <- MCDumps
    W = 6
    NoType = NoType
    T = T
SPECIFICATION Spec
INVARIANTS
    TypeOK
    ObjectsInRecordOrder
    RootsAreResolved
    TypesResolved
