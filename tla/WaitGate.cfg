\* Four calls: a batch can be signalled while its calls have not left and the
\* next batch already forms.  Two backends for one slot, and room for three of
\* the four calls to pend, so that both limits are met.
CONSTANTS
    r1 = r1
    r2 = r2
    r3 = r3
    r4 = r4
    b1 = b1
    b2 = b2
    Request = {r1, r2, r3, r4}
    Backend = {b1, b2}
    MaxPending = 3
    MaxBackends = 1
    None = None
SPECIFICATION Spec
SYMMETRY Symmetry
INVARIANTS
    TypeOK
    CountsMatchDemand
    NoStrandedWaiter
    ProbeOnlyOnDemand
    AdmittedOnlyAfterProbe
    LimitsHold
