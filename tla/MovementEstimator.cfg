\* Commands and slider movements of one cover at every time of each other's movement.
SPECIFICATION Spec
CONSTANTS
    OpenDuration = 12
    CloseDuration = 10
    RetryDelay = 5
    Goal <- MCGoal
    MaxCalls = 3
INVARIANT SliderStopsNear
PROPERTY EstimateIsSmooth
