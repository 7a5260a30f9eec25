\* Three regions, of one member or two, recorded or not, and two threads that
\* may be the second member: one is late while the other has its index.
SPECIFICATION FairSpec
CONSTANTS
    Primary = Primary
    Workers = {w1, w2}
    Regions = 3
    Sizes = {1, 2}
    Recording = {TRUE, FALSE}
    Tick = 0
    InitialTask = InitialTask
    None = None
INVARIANT TypeOK
INVARIANT NoAssertionFails
INVARIANT NoUseAfterRelease
INVARIANT NothingLeftBehind
INVARIANT EventOrder
PROPERTY MemberRuns
PROPERTY FinalizeEnds
