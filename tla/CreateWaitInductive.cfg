\* The inductive invariant of CreateWaitProofs: one created thread, one orphan.
SPECIFICATION Spec
CHECK_DEADLOCK FALSE
CONSTANTS
    Main = Main
    None = None
    Created = {c1}
    Foreign = {f1}
    Detached = {}
    Reuse = TRUE
    ReuseKey <- MCReuseKey
    MaxNest = 1
INVARIANT CreateWaitInv
