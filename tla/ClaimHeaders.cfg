\* One set of routes with two sets of claim headers; no crash and no outage.
CONSTANTS
    ra = ra
    ha = ha
    hb = hb
    Routes = {ra}
    Headers = {ha, hb}
    MaxCrashes = 0
    MaxOutages = 0
    None = None
SPECIFICATION FairSpec
PROPERTY ConvergesFully
