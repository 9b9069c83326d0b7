\* One pod; restarts of either side, failures on the runner, and the callers of
\* PodCoordinator.TerminatePod.
CONSTANTS
    Pods = {p1}
    OrphanMissThreshold = 1
    InitRecoverThreshold = 2
    Strangers = {}
    Explore = {"runnerRestart", "backendRestart", "buildFailure", "ptyError",
               "coordinator"}
SPECIFICATION FairSpec
INVARIANTS
    TypeOK
    ProcessIsTracked
PROPERTY
    LivePodRecovers
