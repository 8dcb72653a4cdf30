CONSTANTS
    Inputs <- MCInputs
    HeaderOKIn = {TRUE, FALSE}
    MaxErrorsIn = {0, 1, 2}
    SkipOnErrorIn = {TRUE, FALSE}
    OnErrorIn = {"unset", "continue", "stop"}
    OnTypeSetIn = {TRUE, FALSE}
SPECIFICATION Spec
PROPERTY
    ProgressMonotonic
