SPECIFICATION FairSpec
CONSTANTS
    q1 = q1
    q2 = q2
    Callers = {q1, q2}
    Kinds <- TwoCallers
    MaxSlots = 1
INVARIANTS
    SlotsHeld
    StrictNeverVariant
    NoOrphans
PROPERTIES
    Answered
