\* A pod that is created and one without a row; an undisturbed
\* stream, with output before PodCreated and builds that fail.
CONSTANTS
    Pods = {p1, p2}
    OrphanMissThreshold = 1
    InitRecoverThreshold = 1
    Strangers = {p2}
    Explore = {"earlyOutput", "buildFailure"}
SPECIFICATION FairSpec
PROPERTY
    CountConverges
    FinishedPodDisappears
