SPECIFICATION Spec
CONSTANTS
    p1 = p1
    p2 = p2
    r1 = r1
    c1 = c1
    c2 = c2
    Publishers = {p1, p2}
    Reconcilers = {r1}
    Contents = {c1, c2}
    MaxVersion = 2
    Faults = {"reconciler_crash", "commit_failure"}
    Forces = {FALSE}
    Offers = {TRUE}
    Legacy = {FALSE}
    Nothing = Nothing
    Garbled = Garbled
    Free = Free
SYMMETRY Symmetry
INVARIANTS
    PendingIsNewest
    PhaseOneHolds
    SuccessIsPublished
PROPERTIES
    ImplementsArchive
