CONSTANTS
    Ids <- MCIds
    Graphs <- MCGraphs
    From = 1
    MaxPathsIn = {0, 1, 2}
SPECIFICATION Spec
INVARIANTS
    PathsAreRootPaths
    AtMostMaxPaths
    ShortestPathsFirst
PROPERTIES
    Terminates
