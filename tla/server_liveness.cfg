SPECIFICATION FairSpec
CONSTANTS
    h1 = h1
    p1 = p1
    p2 = p2
    p3 = p3
    a1 = a1
    a2 = a2
    m1 = m1
    zero = zero
    Hosts <- MCHosts
    Ports <- TwoPorts
    Addrs <- MCAddrs
    Zero = zero
    Config <- MCConfig
    TTL = 1
    WireModulus = 65536
    SockBuf = 1
    Datagrams <- MCDatagrams
PROPERTIES
    ExpiredReclaimed
    SilenceDrains
    ImplementsLeasePool
CHECK_DEADLOCK FALSE
