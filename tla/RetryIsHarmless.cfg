\* A statement of the code's own documentation that the code does not keep.
SPECIFICATION Spec
CONSTANTS
    t1 = t1
    t2 = t2
    Task <- MCTask
    Listing <- MCOnlineListing
    Top = 2
    OpenTimed = TRUE
    CloseTimed = TRUE
    BleConfigured = TRUE
    MaxCalls = 2
PROPERTY RetryIsHarmless
