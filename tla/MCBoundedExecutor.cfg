SPECIFICATION Spec
CONSTANTS
    Content = {base, edit}
    base = base
    Sha = {h1, h2}
    Plan = {plan}
    Report <- MCReport
    ApprovedCause = {"Code", "Evidence", "Conflict"}
    RetryLimit = 1
    TokenLimit = 0
    MaxFailures = 2
    h1 = h1
    h2 = h2
    None = None
SYMMETRY Symmetry
CHECK_DEADLOCK FALSE
INVARIANTS ResolvedIsProven EditedIsThere WorkIsRecoverable
