SPECIFICATION Spec
CONSTANTS
    Owner = {o1, o2, o3, o4}
    Allocation = {a1, a2, a3}
    Borrow = {b1, b2}
    Resource = {r1, r2}
    None = None
    MaxDepth = 2
SYMMETRY Symmetry
INVARIANTS Forest NoLeak
