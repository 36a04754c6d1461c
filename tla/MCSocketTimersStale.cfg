SPECIFICATION Spec
CONSTANTS
    Roles = {"server"}
    IdleTimeout = 2
    HeartbeatTimeout = 0
    HandshakeTimeout = 0
    MaxQueued = 2
CHECK_DEADLOCK FALSE
INVARIANTS RestartCancels
