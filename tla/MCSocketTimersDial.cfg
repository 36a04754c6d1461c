SPECIFICATION FairSpec
CONSTANTS
    Roles = {"client"}
    IdleTimeout = 2
    HeartbeatTimeout = 0
    HandshakeTimeout = 0
    MaxQueued = 2
CHECK_DEADLOCK FALSE
PROPERTIES IdleDisconnects
