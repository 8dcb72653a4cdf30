CONSTANTS
    Ids <- MCJsonIds
    Graphs <- MCJsonGraphs
    Size <- MCJsonSize
    SuperRoot = SuperRoot
SPECIFICATION Spec
INVARIANTS
    TypeOK
    IdomIsImmediateDominator
    RetainedIsFreedBytes
    IsDominatedIsDominance
    DominatorPathListsDominators
    DepthIsPathLength
PROPERTIES
    Terminates
