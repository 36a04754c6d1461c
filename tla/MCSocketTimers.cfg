SPECIFICATION FairSpec
CONSTANTS
    Roles = {"client", "server", "sync"}
    IdleTimeout = 3
    HeartbeatTimeout = 2
    HandshakeTimeout = 2
    MaxQueued = 2
CHECK_DEADLOCK FALSE
INVARIANTS Watched
PROPERTIES DroppedForSilence SilentPeerDropped HandshakeBounded TimersDieOut
