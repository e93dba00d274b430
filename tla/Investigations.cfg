SPECIFICATION FairSpec
CONSTANTS
    m1 = m1
    w1 = w1
    Manuals = {m1}
    Workers = {w1}
    Interval = 1
    Sustain = 2
    MaxGap = 2
    Cooldown = 3
    Calls = 2
    Horizon = 6
    SetBack = 4
INVARIANTS OneInvestigator
PROPERTIES StartsApart LockComesFree
CHECK_DEADLOCK FALSE
