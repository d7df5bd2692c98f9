SPECIFICATION Spec
CONSTANTS
    e1 = e1
    e2 = e2
    w1 = w1
    plain = plain
    eventful = eventful
    Dates = {1, 2}
    Contents = {plain, eventful}
    Eventful = {eventful}
    Editors = {e1, e2}
    Walkers = {w1}
    Legacy = {1}
    MaxJobs = 2
    MaxFaults = 1
    None = None
SYMMETRY Symmetry
INVARIANTS
    TypeOK
    IndexExact
    ServedIsIndexed
    RebuildHeals
PROPERTIES
    NoServedDropped
