SPECIFICATION Spec
CONSTANTS
    Package = {1, 2, 3}
    Root = Root
    None = None
    Inputs <- MCInputs
CHECK_DEADLOCK FALSE
INVARIANT ResolvedIsSolution
INVARIANT ConflictIsReal
INVARIANT NewestFirst
INVARIANT WithinBudgets
INVARIANT ConstraintsAreAsked
