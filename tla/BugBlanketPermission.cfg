SPECIFICATION Spec
CONSTANTS
    p1 = p1
    Events = {1, 2, 3}
    Golden = 3
    Publishers = {p1}
    MaxAttempts = 6
    MaxRulings = 3
    MaxChoices = 0
    MaxFlips = 0
    MaxRevisions = 1
    MaxMishaps = 0
    None = None
CHECK_DEADLOCK FALSE
INVARIANTS
    EveryPairRuledDistinct
