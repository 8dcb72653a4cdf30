CONSTANTS
    Dumps <- MCDumps
SPECIFICATION FSpec
INVARIANT
    ParseFramesRecords
