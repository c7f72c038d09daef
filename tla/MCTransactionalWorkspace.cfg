SPECIFICATION Spec
CONSTANTS
    Process = {p1, p2}
    old = old
    new = new
    b1 = b1
    b2 = b2
    Path = {old, new}
    Byte = {b1, b2}
    Base <- MCBase
    Nested = {new}
    Absent = Absent
    None = None
    Settings <- MCSettings
SYMMETRY Symmetry
CHECK_DEADLOCK FALSE
INVARIANTS JournaledOrRolledBack RollbackRestoresContents RefusesOnlyTraces
PROPERTIES ResumesOnlySettled MutationIsMarked
