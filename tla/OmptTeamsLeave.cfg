SPECIFICATION Spec
CONSTANTS
    Primary = Primary
    Workers = {w1, w2}
    Regions = 2
    Sizes = {2, 3}
    Recording = {TRUE}
    Tick = 0
    InitialTask = InitialTask
    None = None
PROPERTY LeavesItsTeam
