\* Two simultaneous streams; the thresholds reduced from 3 to 2 and from 3 to 1.
CONSTANTS
    Streams = {s1, s2}
    NoStream = NoStream
    MaxMissedAcks = 2
    PongPeriods = 1
    Explore = {"break", "reconnect", "reject", "slowInit", "pings"}
SPECIFICATION Spec
SYMMETRY Symmetry
CONSTRAINT FewPings
INVARIANTS
    TypeOK
    OpenMeansRegistered
