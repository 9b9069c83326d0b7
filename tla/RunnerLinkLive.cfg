\* Overlapping streams that die silently, end with their runner or are closed by
\* the timeout checker, and late disconnect callbacks; the heartbeat threshold
\* reduced from 3 to 2.
CONSTANTS
    Streams = {s1, s2}
    NoStream = NoStream
    MaxMissedAcks = 2
    PongPeriods = 1
    Explore = {"crash", "dead"}
SPECIFICATION FairSpec
PROPERTY
    HeartbeatMonitorHeals
    ServedRunnerIsOnline
