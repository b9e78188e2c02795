SPECIFICATION Spec
CONSTANTS
    Keys = {k1}
    Requests = {r1, r2, r3}
    Cost = 2
    Burst = 4
    IdleTTL = 6
    MaxStall = 1
    MaxTime = 11
SYMMETRY RequestSym
INVARIANTS
    RateGuarantee
PROPERTIES
    EvictionIsInvisible
    PoliteClientAdmitted
