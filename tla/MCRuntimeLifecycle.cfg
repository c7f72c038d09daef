SPECIFICATION Spec
CONSTANTS
    MaxId = 8
    MaxHandles = 4
    MaxDepth = 2
    MaxDeferred = 1
    Layouts = {1, 2}
    CopyFlags = {FALSE}
    AllocationLimit = 1
VIEW StoreView
INVARIANT WellFormed
PROPERTIES ErrorsChangeNothing DischargedOnce ReleasedInReverse
