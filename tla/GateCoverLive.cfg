\* Liveness of one gate without BLE that may lose its route or leave the account: two user
\* commands in two coroutine slots.
SPECIFICATION FairSpec
CONSTANTS
    t1 = t1
    t2 = t2
    Task <- MCTask
    Listing <- MCRouteListing
    Top = 1
    OpenTimed = TRUE
    CloseTimed = TRUE
    BleConfigured = FALSE
    MaxCalls = 2
PROPERTY SliderPauseIsSent
PROPERTY EventuallyAtRest
