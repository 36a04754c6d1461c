SPECIFICATION FairSpec
CONSTANTS
    Sessions = {s1, s2}
    IPs = {i1}
    IPv6 = {i6}
    NoIP = NoIP
    MaxSessions = 1
    MaxPerIp = 1
    Chains = {c1}
    NoChain = NoChain
    InitialDelay = 3
    MaxDelay = 5
    MaxAttempts = 2
    MultiplierNum = 3
    MultiplierDen = 2
CHECK_DEADLOCK FALSE
INVARIANTS TypeOK CountsMatch CallbackOrder NoSilentLoss ChainCustody NoOrphanEntry GiveUpExact BackoffForm
PROPERTIES RedialsOnDrop StopFinal
