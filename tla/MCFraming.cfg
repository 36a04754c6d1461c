SPECIFICATION FramingFairSpec
CONSTANTS
    Frames <- MCFrames
    Handlers <- MCHandlers
    HbPing = 1
    MaxMessageSize = 2
    MaxFrames = 3
    Width = 8
    Base = 2
CHECK_DEADLOCK FALSE
INVARIANTS TypeOK BufferBounded ReceiversAgree EndToEnd
PROPERTIES KeepsReading ImplementsSession
