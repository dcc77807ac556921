SPECIFICATION FairSpec
CONSTANTS
    h1 = h1
    a1 = a1
    m1 = m1
    zero = zero
    Hosts <- MCHosts
    Ports <- MCPorts
    Addrs <- MCAddrs
    Zero = zero
    SockBuf = 2
    MaxHups = 2
    Datagrams <- MCDatagrams
INVARIANTS
    ClientTypeOK
    BufferHoldsLease
    RenewalPending
PROPERTIES
    SilenceEndsClient
CHECK_DEADLOCK FALSE
