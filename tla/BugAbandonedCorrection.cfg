SPECIFICATION Spec
CONSTANTS
    p1 = p1
    r1 = r1
    c1 = c1
    c2 = c2
    Publishers = {p1}
    Reconcilers = {r1}
    Contents = {c1, c2}
    MaxVersion = 3
    Faults = {}
    Forces = {FALSE}
    Offers = {TRUE}
    Legacy = {FALSE}
    Nothing = Nothing
    Garbled = Garbled
    Free = Free
INVARIANTS
    AbandonedFreesPredecessor
