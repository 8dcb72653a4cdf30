CONSTANTS
    Dumps <- MCDumps
    MaxErrorsIn = {100}
    SkipOnErrorIn = {TRUE}
    CallbackFails = {FALSE}
SPECIFICATION Spec
INVARIANT
    StreamDeliversRecords
