SPECIFICATION Spec
CONSTANTS
    w1 = w1
    w2 = w2
    c1 = c1
    c2 = c2
    s1 = s1
    s2 = s2
    p1 = p1
    Releases = {w1, c1, c2}
    SourceOf <- ReleaseSource
    Records <- ReleaseRecords
    Years = {1, 2, 3}
    Golden = 2
    January = {3}
    MinReference = 2
    Sweepers = {s1, s2}
    Publishers = {p1}
    MaxVersion = 2
    MaxSweeps = 2
    MaxAttempts = 2
    MaxTrouble = 1
    None = None
SYMMETRY Symmetry
INVARIANTS
    RuleNeverOverrules
CHECK_DEADLOCK FALSE
