SPECIFICATION Spec
CONSTANTS
    p1 = p1
    p2 = p2
    c1 = c1
    Publishers = {p1, p2}
    Reconcilers = {}
    Contents = {c1}
    MaxVersion = 1
    Faults = {}
    Forces = {FALSE}
    Offers = {FALSE}
    Legacy = {FALSE}
    Nothing = Nothing
    Garbled = Garbled
    Free = Free
INVARIANTS
    PeerCompletionIsSuccess
