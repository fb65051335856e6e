\* A press and a reload while the gate is moved, read and misread.
SPECIFICATION FairSpec
CONSTANTS
    p1 = p1
    r1 = r1
    Press <- MCPress
    Retry <- MCRetry
    Travel = 3
    Settle = 3
    Timeout = 4
    MinDuration = 2
    MaxDuration = 3
    Cooldown = 1
    MaxReloads = 1
INVARIANTS TypeOK FullTravelTimed
PROPERTY PressEnds
