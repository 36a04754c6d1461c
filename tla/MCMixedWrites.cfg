SPECIFICATION MixedSpec
CONSTANTS
    Writes = {w1, w2}
    Threads = {t1, t2}
    NoWrite = NoWrite
    MaxPendingWrites = 0
    Chunks = 2
INVARIANTS NoInterleaving
