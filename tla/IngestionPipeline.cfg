SPECIFICATION Spec
CONSTANTS
    w1 = w1
    w2 = w2
    u1 = u1
    a1 = a1
    g1 = g1
    g2 = g2
    p1 = p1
    o1 = o1
    o2 = o2
    v1 = v1
    v2 = v2
    Operators = {o1, o2}
    Reviewers = {v1, v2}
    Payloads = {w1, w2, u1, a1, g1, g2, p1}
    AdapterOf <- DocAdapter
    LabelOf <- DocLabel
    Malformed = {g2}
    Placed = {w1, w2, u1}
    Predicates = {"identity"}
    MaxRuns = 3
    MaxReviews = 2
    MaxTrouble = 1
    None = None
SYMMETRY Symmetry
INVARIANTS
    TypeOK
    ReleaseIsWhole
    RetryIsAccepted
    OneTerminalDecision
CHECK_DEADLOCK FALSE
