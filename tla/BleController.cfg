\* Three overlapping calls; the run ends when all of them are over.
SPECIFICATION FairSpec
CONSTANTS
    c1 = c1
    c2 = c2
    c3 = c3
    Caller <- MCCaller
INVARIANT ExactlyOnce
INVARIANT OneSession
PROPERTY ImplementsMotorChannel
PROPERTY EverySendEnds
CHECK_DEADLOCK FALSE
