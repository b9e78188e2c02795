SPECIFICATION FairSpec
CONSTANTS
    Ids = {d1}
    Legacy = {l1}
    Nested = {n1}
    Alien = {a1}
    TTLs = {1, 2}
    Getters = {g1}
    Backends = {TRUE, FALSE}
    CleanupConcurrency = 1
    MaxTime = 4
    MaxRestarts = 1
INVARIANTS
    AckedUntilExpiry
    NoTornDeck
    NotRefusedEarly
PROPERTIES
    ForeignUntouched
    ExpiredEventuallyDeleted
