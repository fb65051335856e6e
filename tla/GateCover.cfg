\* Two overlapping commands, their timers and any refresh: one gate with BLE, whose listing
\* may change at every full refresh.
SPECIFICATION Spec
CONSTANTS
    t1 = t1
    t2 = t2
    Task <- MCTask
    Listing <- MCAnyListing
    Top = 2
    OpenTimed = TRUE
    CloseTimed = TRUE
    BleConfigured = TRUE
    MaxCalls = 2
SYMMETRY Interchangeable
INVARIANT TypeOK
INVARIANT AtMostOneRoute
INVARIANT NoStaleTimer
PROPERTY RetryOnce
PROPERTY EstimateNeverJumps
