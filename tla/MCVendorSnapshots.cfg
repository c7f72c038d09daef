SPECIFICATION FairSpec
CONSTANTS
    Process = {p1, p2, p3}
    Digest = {d1, d2}
    None = None
    ProbesPids = TRUE
    MaxFaults = 1
INVARIANTS CurrentIsWhole ReadersKeepTheirTree
PROPERTIES ReclaimsOnlyGarbage LockReleased
