SPECIFICATION Spec
CONSTANTS
    p1 = p1
    p2 = p2
    c1 = c1
    c2 = c2
    Publishers = {p1, p2}
    Reconcilers = {}
    Contents = {c1, c2}
    MaxVersion = 3
    Faults = {"crash"}
    Forces = {FALSE}
    Offers = {FALSE, TRUE}
    Legacy = {FALSE}
    Nothing = Nothing
    Garbled = Garbled
    Free = Free
SYMMETRY Symmetry
INVARIANTS
    PendingRecoverable
    PublishedServable
    NoRedundantVersion
    SupersessionIsLinear
