SPECIFICATION Spec
CONSTANTS
    p1 = p1
    r1 = r1
    r2 = r2
    c1 = c1
    Publishers = {p1}
    Reconcilers = {r1, r2}
    Contents = {c1}
    MaxVersion = 2
    Faults = {"damage", "torn_write", "link_failure", "crash", "stall"}
    Forces = {FALSE}
    Offers = {FALSE, TRUE}
    Legacy = {TRUE}
    Nothing = Nothing
    Garbled = Garbled
    Free = Free
SYMMETRY RepairSymmetry
INVARIANTS
    TypeOK
    RepairHolds
    IndexFollowsServed
    PublishedRetained
