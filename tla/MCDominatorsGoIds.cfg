CONSTANTS
    Ids <- MCIdsGo
    Graphs <- MCGraphsGo
    Size <- MCSizeGo
    SuperRoot = SuperRoot
SPECIFICATION Spec
INVARIANT
    IdomIsImmediateDominator
