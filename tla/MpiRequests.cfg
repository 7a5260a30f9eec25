\* Two threads, one dummy handle that both are given and one handle that MPI
\* gives again once no call is busy with it; a third request where neither handle
\* is shared.  When all requests are used up nothing is left to do.
SPECIFICATION Spec
CHECK_DEADLOCK FALSE
CONSTANTS
    Threads = {t1, t2}
    Handles = {h, dummy}
    Dummies = {dummy}
    MaxRequests = 3
    MaxArray = 2
    Shared = {dummy}
    MaxShared = 2
    MaxProbed = 1
    StatusOfInactive = FALSE
    FreeActive = FALSE
    None = None
SYMMETRY Symmetry
INVARIANT ObjectsConserved
INVARIANT CorrespondingRequest
INVARIANT CompletionsRecorded
INVARIANT TableComplete
