SPECIFICATION FairSpec
CONSTANTS
    p1 = p1
    r1 = r1
    c1 = c1
    Publishers = {p1}
    Reconcilers = {r1}
    Contents = {c1}
    MaxVersion = 2
    Faults = {"crash"}
    Forces = {FALSE, TRUE}
    Offers = {TRUE}
    Legacy = {FALSE}
    Nothing = Nothing
    Garbled = Garbled
    Free = Free
PROPERTIES
    PendingResolved
