\* Two tables that differ in what sameRoutes compares and one more that differs
\* in ClaimHeaders; two crashes and two outages, so that a restart can meet one.
CONSTANTS
    ra = ra
    rb = rb
    ha = ha
    hb = hb
    Routes = {ra, rb}
    Headers = {ha, hb}
    MaxCrashes = 2
    MaxOutages = 2
    None = None
SPECIFICATION FairSpec
INVARIANTS
    TypeOK
    ServesWhatItHolds
    CacheCoversRestart
PROPERTIES
    OutageKeepsRoutes
    Converges
