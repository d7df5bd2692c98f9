SPECIFICATION Spec
CONSTANTS
    d1 = d1
    d2 = d2
    o1 = o1
    o2 = o2
    Operators = {o1, o2}
    Dates = {d1, d2}
    Unpublishable = {}
    Plans = {{d1, d2}}
    MaxRuns = 1
    MaxVersion = 2
    MaxTrouble = 1
    MaxRelease = 1
    Disturbances = {"crash", "lost_payload", "event"}
    DryRuns = {FALSE, TRUE}
    Forces = {FALSE}
    Legacy = {FALSE}
    Richer = Richer
    Nothing = Nothing
SYMMETRY Symmetry
INVARIANTS
    TypeOK
    OneReleasePerRun
    DryRunPublishesNothing
    LedgerNamesPublished
CHECK_DEADLOCK FALSE
