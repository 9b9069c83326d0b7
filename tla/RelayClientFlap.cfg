\* A relay client whose new connection breaks while the reconnect callback runs.
CONSTANT
    Explore = {"flap"}
SPECIFICATION FairSpec
PROPERTY
    Reconnects
CHECK_DEADLOCK FALSE
