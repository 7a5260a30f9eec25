\* A third request while the dummy handle is shared: two calls get one object.
SPECIFICATION Spec
CHECK_DEADLOCK FALSE
CONSTANTS
    Threads = {t1, t2}
    Handles = {dummy}
    Dummies = {dummy}
    MaxRequests = 3
    MaxArray = 1
    Shared = {dummy}
    MaxShared = 3
    MaxProbed = 1
    StatusOfInactive = FALSE
    FreeActive = FALSE
    None = None
SYMMETRY Symmetry
INVARIANT CorrespondingRequest
