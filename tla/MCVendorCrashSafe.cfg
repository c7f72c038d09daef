SPECIFICATION Spec
CONSTANTS
    Process = {p1, p2}
    Digest = {d1, d2}
    None = None
    ProbesPids = TRUE
    MaxFaults = 1
SYMMETRY Symmetry
INVARIANT VendorPublishes
