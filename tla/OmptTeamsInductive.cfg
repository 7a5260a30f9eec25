\* The inductive invariant of OmptTeamsProofs and the times it adds for a coarse
\* clock: as in OmptTeams.cfg, with teams of three members besides.
SPECIFICATION Spec
CONSTANTS
    Primary = Primary
    Workers = {w1, w2}
    Regions = 3
    Sizes = {1, 2, 3}
    Recording = {TRUE, FALSE}
    Tick = 0
    InitialTask = InitialTask
    None = None
SYMMETRY Symmetry
INVARIANT OmptTeamsInv
INVARIANT TimesOK
