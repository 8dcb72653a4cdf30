CONSTANTS
    Dumps <- MCDumps
    W = 6
    NoType = NoType
    T = T
SPECIFICATION Spec
INVARIANT
    PointersPreserved
