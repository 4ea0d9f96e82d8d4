\* Two tokens, two presentations, three keys; the overlap is the smallest the
\* daemons accept, and the clock runs past the end of a window and of a leeway.
CONSTANTS
    t1 = t1
    t2 = t2
    v1 = v1
    v2 = v2
    Token = {t1, t2}
    Attempt = {v1, v2}
    TTL = 2
    Overlap = 3
    SignerLeeway = 1
    Leeway = 1
    MaxLifetime = 2
    MaxTime = 7
    MaxKeys = 3
    None = None
SPECIFICATION Spec
SYMMETRY Symmetry
INVARIANTS
    TypeOK
    UnexpiredVerifies
    OnceBeforeExpiry
    RefusedOnlyWithCause
PROPERTIES
    NeverReadmitted
CHECK_DEADLOCK FALSE
