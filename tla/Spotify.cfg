SPECIFICATION FairSpotifySpec
CONSTANTS
    Requests = {r1, r2}
    Tracks = {t1}
    MaxFailures = 2
    Cooldown = 2
    Margin = 4
    Lifetimes = {3, 5}
    MaxTransit = 1
    MaxStall = 1
INVARIANTS
    BreakerStopsPosts
    TokenAliveAtUse
PROPERTIES
    OpensAfterRefusals
    BreakerCloses
