SPECIFICATION Spec
CONSTANTS
    Primary = Primary
    Workers = {w1, w2}
    Regions = 1
    Sizes = {2}
    Recording = {TRUE}
    Tick = 1
    InitialTask = InitialTask
    None = None
INVARIANT TimestampsOrdered
