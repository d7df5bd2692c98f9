SPECIFICATION FairSpec
CONSTANTS
    d1 = d1
    d2 = d2
    o1 = o1
    Operators = {o1}
    Dates = {d1, d2}
    Unpublishable = {}
    Plans = {{d1, d2}}
    MaxRuns = 2
    MaxVersion = 3
    MaxTrouble = 2
    MaxRelease = 1
    Disturbances = {"crash", "failure"}
    DryRuns = {FALSE, TRUE}
    Forces = {FALSE}
    Legacy = {FALSE, TRUE}
    Richer = Richer
    Nothing = Nothing
INVARIANTS
    CompletedOwesNothing
PROPERTIES
    DrainedByResume
CHECK_DEADLOCK FALSE
