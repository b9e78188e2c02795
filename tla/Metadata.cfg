SPECIFICATION FairSpec
CONSTANTS
    Requests = {r1, r2}
    Providers = {p1, p2}
    Years = {1}
    Titles = {"raw", "bare"}
INVARIANTS
    RoundKeyIsMajority
PROPERTIES
    RequestReturns
