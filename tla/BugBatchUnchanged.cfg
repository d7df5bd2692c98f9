SPECIFICATION Spec
CONSTANTS
    d1 = d1
    o1 = o1
    Operators = {o1}
    Dates = {d1}
    Unpublishable = {}
    Plans = {{d1}}
    MaxRuns = 1
    MaxVersion = 2
    MaxTrouble = 1
    MaxRelease = 1
    Disturbances = {"crash"}
    DryRuns = {FALSE}
    Forces = {FALSE}
    Legacy = {FALSE}
    Richer = Richer
    Nothing = Nothing
INVARIANTS
    UnchangedIsNoOp
CHECK_DEADLOCK FALSE
