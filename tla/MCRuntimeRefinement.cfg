SPECIFICATION ChangeSpec
CONSTANTS
    MaxId = 8
    MaxHandles = 4
    MaxDepth = 2
    MaxDeferred = 0
    Layouts = {1}
    CopyFlags = {TRUE}
    AllocationLimit = 1
VIEW StoreView
PROPERTY ImplementsOwnership
