\* One call fills the cache; later one call refetches while another one fails.
CONSTANTS
    c1 = c1
    c2 = c2
    c3 = c3
    k1 = k1
    k2 = k2
    Call = {c1, c2, c3}
    Kid = {k1, k2}
    TTL = 1
    MinRefetch = 1
    MaxStale = 1
    FetchTime = 1
    Delay = 0
    MaxTime = 3
    MaxChanges = 1
    None = None
SPECIFICATION Spec
SYMMETRY Symmetry
INVARIANT CeilingHolds
CHECK_DEADLOCK FALSE
