\* A relay client that is stopped and whose token expires; two publishers, two
\* browsers and two channels that admit one; a relay that registers amid three
\* faults.
CONSTANTS
    Explore = {"expire", "stop"}
    Pubs = {p1, p2}
    Subs = {s1, s2}
    Chans = {c1, c2}
    MaxSubscribers = 1
    None = None
    MaxFaults = 3
SPECIFICATION RelaySpec
INVARIANTS
    RelayTypes
    OneWriter
    OneForwarder
    ClosedHoldsNothing
    OpenIsRegistered
    TimerSparesPublisher
PROPERTY
    ImplementsContract
    Reconnects
    ReplaceMuIsReleased
    AbandonedChannelCloses
    LiveRelayIsRegistered
    GoneRelayIsForgotten
CHECK_DEADLOCK FALSE
