\* One pod over a stream that breaks, terminated through REST and by the stale
\* pod cleanup, or whose command is never sent; orphan threshold 2.
CONSTANTS
    Pods = {p1}
    OrphanMissThreshold = 2
    InitRecoverThreshold = 1
    Strangers = {}
    Explore = {"break", "commandFailure", "rest", "stale"}
SPECIFICATION FairSpec
PROPERTY
    FinishedPodDisappears
    LostPodLeaves
