\* Created threads only, which reuse each other's locations.
SPECIFICATION Spec
CHECK_DEADLOCK FALSE
CONSTANTS
    Main = Main
    None = None
    Created = {c1, c2}
    Foreign = {}
    Detached = {c2}
    Reuse = TRUE
    ReuseKey <- MCReuseKey
    MaxNest = 1
INVARIANT TypeOK
INVARIANT LocationExclusive
INVARIANT TerminatedOnce
INVARIANT WithinWellFormed
INVARIANT QuietComplete
