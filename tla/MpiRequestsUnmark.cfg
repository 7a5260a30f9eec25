\* A call unmarks an object that another one works on by then.
SPECIFICATION Spec
CHECK_DEADLOCK FALSE
CONSTANTS
    Threads = {t1, t2}
    Handles = {h1, h2}
    Dummies = {}
    MaxRequests = 2
    MaxArray = 1
    Shared = {}
    MaxShared = 2
    MaxProbed = 1
    StatusOfInactive = FALSE
    FreeActive = FALSE
    None = None
SYMMETRY Symmetry
INVARIANT MarkerKept
