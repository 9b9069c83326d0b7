\* Two runs of a loop that allows one at a time and keeps one finished row.
CONSTANTS
    MaxRuns = 2
    MaxConcurrentRuns = 1
    MaxRetainedRuns = 1
    MaxInFlight = 2
    Scenarios <- MCScenarios
SPECIFICATION FairSpec
INVARIANTS
    TypeOK
    StatsCountEachRunOnce
    CapRespected
PROPERTY
    RunsComeToAnEnd
CHECK_DEADLOCK FALSE
