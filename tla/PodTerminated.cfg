\* A REST termination while the pod is created.
CONSTANTS
    Pods = {p1}
    OrphanMissThreshold = 3
    InitRecoverThreshold = 2
    Strangers = {}
    Explore = {"rest"}
SPECIFICATION Spec
PROPERTY
    TerminatedIsTerminal
