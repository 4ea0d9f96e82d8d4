\* Two processes with names of their own.  Time for an entry to lapse (lease plus
\* grace), for a key to be rotated away and for a publish to meet a conflict twice.
CONSTANTS
    p1 = p1
    p2 = p2
    Process = {p1, p2}
    NameOf <- UniqueNames
    TTL = 1
    Overlap = 2
    Lease = 1
    Grace = 2
    Attempts = 2
    MaxGap = 1
    MaxTime = 4
    MaxKeys = 2
    MaxRotated = 1
    MaxTokens = 1
SPECIFICATION Spec
SYMMETRY Symmetry
INVARIANTS
    TypeOK
    OwnTokensVerify
    LivePeersKept
PROPERTIES
    StoredUntilExpiry
    ServedUntilExpiry
CHECK_DEADLOCK FALSE
