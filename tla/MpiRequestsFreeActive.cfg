\* MPI_Request_free of an active persistent request.
SPECIFICATION Spec
CHECK_DEADLOCK FALSE
CONSTANTS
    Threads = {t1}
    Handles = {h}
    Dummies = {}
    MaxRequests = 2
    MaxArray = 1
    Shared = {}
    MaxShared = 2
    MaxProbed = 2
    StatusOfInactive = FALSE
    FreeActive = TRUE
    None = None
INVARIANT CorrespondingRequest
