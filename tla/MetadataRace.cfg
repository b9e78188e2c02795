SPECIFICATION Spec
CONSTANTS
    Requests = {r1, r2}
    Providers = {p1, p2, p3}
    Years = {1}
    Titles = {"raw", "bare"}
SYMMETRY MetadataSym
INVARIANTS
    CachedIsMajority
