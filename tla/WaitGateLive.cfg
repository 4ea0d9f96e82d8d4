\* Three calls on one backend, without symmetry: the run checks liveness.
CONSTANTS
    r1 = r1
    r2 = r2
    r3 = r3
    b1 = b1
    Request = {r1, r2, r3}
    Backend = {b1}
    MaxPending = 2
    MaxBackends = 1
    None = None
SPECIFICATION FairSpec
PROPERTIES
    WaitersServed
    ProbersStop
