SPECIFICATION FairSpec
CONSTANTS
    Second = 3
    Delay = 1
    Window = 2
    Sessions <- MCSessions
    MaxData = 1
    MaxQuiet = 19
CHECK_DEADLOCK FALSE
INVARIANTS TypeOK LivePeerKept SilenceBounded ExamplesStayConnected
PROPERTIES RequestAnswered
