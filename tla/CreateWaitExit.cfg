\* A detached thread ends while another one begins on its location.
SPECIFICATION Spec
CHECK_DEADLOCK FALSE
CONSTANTS
    Main = Main
    None = None
    Created = {c1, c2}
    Foreign = {}
    Detached = {c1}
    Reuse = TRUE
    ReuseKey <- MCReuseKey
    MaxNest = 1
INVARIANT NotTakenForMain
