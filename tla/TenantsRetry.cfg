CONSTANTS
    MaxWorkspaces = 2
    MaxEnvironments = 1
    HierarchyRequests = {r1, r2}
    PageSize = 1
SPECIFICATION HierarchySpec
SYMMETRY AlikeRequests
INVARIANT
    RetriedCascadeConverges
CHECK_DEADLOCK FALSE
