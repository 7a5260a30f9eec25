\* Two threads that Score-P meets with their first event, and reuse.
SPECIFICATION FairSpec
CHECK_DEADLOCK FALSE
CONSTANTS
    Main = Main
    None = None
    Created = {}
    Foreign = {f1, f2}
    Detached = {}
    Reuse = TRUE
    ReuseKey <- MCReuseKey
    MaxNest = 2
PROPERTY FinalizeEnds
