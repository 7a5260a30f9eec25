\* Types, and every call returns, for requests with a dummy handle.
SPECIFICATION FairSpec
CHECK_DEADLOCK FALSE
CONSTANTS
    Threads = {t1, t2}
    Handles = {dummy}
    Dummies = {dummy}
    MaxRequests = 2
    MaxArray = 1
    Shared = {dummy}
    MaxShared = 2
    MaxProbed = 1
    StatusOfInactive = FALSE
    FreeActive = FALSE
    None = None
INVARIANT TypeOK
PROPERTY CallsReturn
