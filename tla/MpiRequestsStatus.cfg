\* MPI_Request_get_status of an inactive persistent request.
SPECIFICATION Spec
CHECK_DEADLOCK FALSE
CONSTANTS
    Threads = {t1}
    Handles = {h}
    Dummies = {}
    MaxRequests = 2
    MaxArray = 1
    Shared = {}
    MaxShared = 2
    MaxProbed = 2
    StatusOfInactive = TRUE
    FreeActive = FALSE
    None = None
INVARIANT CompletionsRecorded
