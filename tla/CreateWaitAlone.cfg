\* One other thread still active when the locations are finalized.
SPECIFICATION Spec
CHECK_DEADLOCK FALSE
CONSTANTS
    Main = Main
    None = None
    Created = {c1, c2}
    Foreign = {}
    Detached = {}
    Reuse = TRUE
    ReuseKey <- MCReuseKey
    MaxNest = 1
PROPERTY FinalizedAlone
