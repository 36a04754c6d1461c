SPECIFICATION InboundSpec
CONSTANTS
    Sessions = {s1, s2}
    IPs = {i1, i2}
    IPv6 = {}
    NoIP = NoIP
    MaxSessions = 1
    MaxPerIp = 0
SYMMETRY Symmetry
INVARIANTS InboundCap
