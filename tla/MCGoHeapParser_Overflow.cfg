CONSTANTS
    Dumps <- MCDumpsCrafted
    W = 6
    NoType = NoType
    T = T
SPECIFICATION Spec
INVARIANT
    NoPanic
