SPECIFICATION Spec
CONSTANTS
    p1 = p1
    r1 = r1
    c1 = c1
    Publishers = {p1}
    Reconcilers = {r1}
    Contents = {c1}
    MaxVersion = 1
    Faults = {}
    Forces = {FALSE}
    Offers = {FALSE}
    Legacy = {FALSE}
    Nothing = Nothing
    Garbled = Garbled
    Free = Free
INVARIANTS
    WithdrawnHadNoPayload
