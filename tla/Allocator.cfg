\* A plain and a movable client and the pages of another process compete for
\* the pages: aligned requests, requests that span pages, out of memory at every
\* step of a creation or of a mapping.
\* The bound on the page counter may leave nothing to do.
SPECIFICATION Spec
CONSTANTS
    Plain = {p}
    Definitions = {d}
    Moved = {v}
    Capacity = 5
    PageSize = 4
    MaintPages = 1
    FirstObjects = 2
    ObjectsPerPage = 3
    MappingOrder = 1
    Alignment = 2
    Alignments = {2, 4}
    Sizes = {1, 3, 6}
    RemoteUsage <- TwoRemotePages
    MaxAllocated = 7
INVARIANT TypeOK
INVARIANT PagesHaveOneOwner
INVARIANT ObjectsConserved
INVARIANT RollbackPossible
INVARIANT PageInfosComplete
INVARIANT MovedAddresses
PROPERTY ImplementsAllocatorSpec
CHECK_DEADLOCK FALSE
