SPECIFICATION FairSpec
CONSTANTS
    d1 = d1
    d2 = d2
    o1 = o1
    Operators = {o1}
    Dates = {d1, d2}
    Unpublishable = {d2}
    Plans = {{d1, d2}}
    MaxRuns = 2
    MaxVersion = 3
    MaxTrouble = 1
    MaxRelease = 1
    Disturbances = {"crash"}
    DryRuns = {FALSE}
    Forces = {FALSE}
    Legacy = {FALSE}
    Richer = Richer
    Nothing = Nothing
PROPERTIES
    EveryDateAttempted
CHECK_DEADLOCK FALSE
