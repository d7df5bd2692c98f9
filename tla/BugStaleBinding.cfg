SPECIFICATION Spec
CONSTANTS
    p1 = p1
    p2 = p2
    Events = {1, 2}
    Golden = 2
    Publishers = {p1, p2}
    MaxAttempts = 3
    MaxRulings = 2
    MaxChoices = 2
    MaxFlips = 1
    MaxRevisions = 0
    MaxMishaps = 0
    None = None
SYMMETRY Symmetry
CHECK_DEADLOCK FALSE
INVARIANTS
    BindingIsWhatWasEvaluated
