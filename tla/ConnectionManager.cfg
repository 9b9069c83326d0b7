\* One runner, two streams, a concurrent sender and shutdown.
CONSTANTS
    Runners = {r1}
    Conns = {c1, c2}
    Senders = {s1}
    Shutdown = TRUE
    NoConn = NoConn
SPECIFICATION FairSpec
INVARIANTS
    TypeOK
    LeavingIsReported
    CountMatchesMap
    NoSendOnClosedChannel
PROPERTY
    ActsAtomically
    HandlersFinish
CHECK_DEADLOCK FALSE
