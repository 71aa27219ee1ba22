CONSTANTS
    u1 = u1
    u2 = u2
    c1 = c1
    c2 = c2
    c3 = c3
    x1 = x1
    x2 = x2
    Ufrags = {u1, u2}
    PacketConns = {pc1, pc2, pc3}
    TCPConns = {c1, c2, c3}
    AddrOf <- MCAddrOf
    ReadBuffer = 1
    MaxReaders = 1
    Plans <- MCPlans
    NoConn = NoConn
    NoSlot = NoSlot
    Nobody = Nobody
SPECIFICATION FairSpec
INVARIANTS
    TypeOK
    NoSendOnClosed
    OpenListed
    ClosedOnPurpose
    CloseReleases
PROPERTIES
    CloseReturns
CHECK_DEADLOCK FALSE
