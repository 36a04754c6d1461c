SPECIFICATION FairSpec
CONSTANTS
    Writes = {w1, w2, w3, w4}
    Threads = {t1, t2, t3}
    NoWrite = NoWrite
    MaxPendingWrites = 2
    Chunks = 2
INVARIANTS TypeOK NoOverlap OneDriver CapRespected NoUseAfterRelease OkMeansSent FramesContiguous
PROPERTIES HandlersRunAfterClose ImplementsFrameStream
