\* The second process is the restart of the first, under the same pod name.
CONSTANTS
    p1 = p1
    p2 = p2
    Process = {p1, p2}
    NameOf <- OnePod
    TTL = 1
    Overlap = 2
    Lease = 1
    Grace = 2
    Attempts = 2
    MaxGap = 1
    MaxTime = 4
    MaxKeys = 2
    MaxRotated = 1
    MaxTokens = 1
SPECIFICATION Spec
PROPERTY StoredUntilExpiry
CHECK_DEADLOCK FALSE
