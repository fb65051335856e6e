\* One call to any gate, which may answer late, badly or not at all and sends other frames.
SPECIFICATION FairSpec
CONSTANTS
    SoftVersion <- MCSoftVersion
    CodeMatches = TRUE
    Timeout = 2
    MaxInFlight = 2
INVARIANTS UndisturbedSucceeds OnlyAuthenticated ChangeIsNoticed
PROPERTIES RequestEnds ImplementsCall
CHECK_DEADLOCK FALSE
