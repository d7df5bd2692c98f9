SPECIFICATION Spec
CONSTANTS
    p1 = p1
    p2 = p2
    Events = {1, 2}
    Golden = 2
    Publishers = {p1, p2}
    MaxAttempts = 3
    MaxRulings = 2
    MaxChoices = 1
    MaxFlips = 1
    MaxRevisions = 1
    MaxMishaps = 1
    None = None
SYMMETRY Symmetry
CHECK_DEADLOCK FALSE
INVARIANTS
    TypeOK
    AdmittedEventsKept
    EveryPairRuledDistinct
    AdmissionWasPermitted
    OneHeadline
    BindingHonest
PROPERTIES
    HumanChoiceStands
