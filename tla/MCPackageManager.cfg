SPECIFICATION FairSpec
CONSTANTS
  Operation = {1, 2}
  p1 = p1
  p2 = p2
  a1 = a1
  Package = {p1, p2}
  ArchiveOf <- MCArchiveOf
  MaxFaults = 2
  MaxInterventions = 1
  None = None
INVARIANTS CommitMeansComplete LockIsBacked TransactionIsKept
PROPERTIES ReplacesWhatItRead OperationsEnd
