\* One run of a loop that its user cancels.
CONSTANTS
    MaxRuns = 1
    MaxConcurrentRuns = 1
    MaxRetainedRuns = 1
    MaxInFlight = 2
    Scenarios <- CancelScenarios
SPECIFICATION Spec
INVARIANT
    CancelIsRecorded
CHECK_DEADLOCK FALSE
