\* Three calls, so that two answers can overtake each other around a third
\* call's read; the clock passes every bound by one second.
CONSTANTS
    c1 = c1
    c2 = c2
    c3 = c3
    k1 = k1
    k2 = k2
    Call = {c1, c2, c3}
    Kid = {k1, k2}
    TTL = 1
    MinRefetch = 2
    MaxStale = 1
    FetchTime = 1
    Delay = 1
    MaxTime = 3
    MaxChanges = 2
    None = None
SPECIFICATION Spec
SYMMETRY Symmetry
INVARIANTS
    TypeOK
    CacheIsRecent
    TrustEnds
    AbsentOnlyIfNew
PROPERTY RefetchesSpaced
CHECK_DEADLOCK FALSE
