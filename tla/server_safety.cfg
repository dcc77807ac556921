SPECIFICATION Spec
CONSTANTS
    h1 = h1
    p1 = p1
    p2 = p2
    p3 = p3
    a1 = a1
    a2 = a2
    m1 = m1
    zero = zero
    Hosts <- MCHosts
    Ports <- ThreePorts
    Addrs <- MCAddrs
    Zero = zero
    Config <- MCConfig
    TTL = 2
    WireModulus = 65536
    SockBuf = 1
    Datagrams <- MCDatagrams
INVARIANTS
    TypeOK
    AddressAccounting
    NoSharedAddress
    UniqueClients
    EveryEventHasRow
    NoInitOnReceive
PROPERTIES
    OnlyOwnersRecord
    LeaseNotCutShort
    RepliesMatchLease
SYMMETRY PortSymmetry
CHECK_DEADLOCK FALSE
