SPECIFICATION SystemSpec
CONSTANTS
    h1 = h1
    p1 = p1
    p2 = p2
    a1 = a1
    a2 = a2
    m1 = m1
    zero = zero
    Hosts <- MCHosts
    Ports <- OnePort
    Addrs <- MCAddrs
    Zero = zero
    Config <- TwoLines
    TTL = 1
    WireModulus = 65536
    SockBuf = 2
    MaxHups = 1
INVARIANT
    RenewalPending
CHECK_DEADLOCK FALSE
