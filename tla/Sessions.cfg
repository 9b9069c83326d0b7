\* Two browsers, two messages and a buffer of one; two subscriptions of the pod,
\* one disconnection and two relays; an autopilot with one
\* iteration, one more on approval, and two triggers; three upgrades, one of
\* them forced, and two pods.
CONSTANTS
    Browsers = {b1, b2}
    MaxMessages = 2
    BufferCount = 1
    Askers = {b1}
    Nobody = Nobody
    Subs = {s1, s2}
    Closers = {d1}
    Relays = {u1, u2}
    NoClient = NoClient
    Triggers = {t1, t2}
    MaxIterations = 1
    MaxConsecutiveErrors = 2
    MaxAdditional = 1
    Cmds = {k1, k2, k3}
    Forced = {k1}
    Pods = {p1, p2}
SPECIFICATION SessionsSpec
INVARIANTS
    SessionTypes
    JoinLeavesNoGap
    KeepAliveMatchesSubscribers
    NoStrayClient
    StopEndsDecisions
    BudgetHolds
    OneUpgrade
CHECK_DEADLOCK FALSE
