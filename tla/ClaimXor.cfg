CONSTANTS
    u1 = u1
    u2 = u2
    p4 = p4
    w1 = w1
    w2 = w2
    q1 = q1
    q2 = q2
    Keys = {u1, u2}
    Ufrags = {u1}
    Addrs = {p4}
    FamilyOf <- MCFamilyOf
    Conns = {1, 2, 3}
    Writers = {w1, w2}
    Plans <- MCPlans
    Servers = {s1}
    Entries = {1, 2}
    Queries = {q1, q2}
    Loads <- MCLoads
    NoConn = NoConn
    NoUfrag = NoUfrag
    NoSlot = NoSlot
    NoServer = NoServer
    NoEntry = NoEntry
SPECIFICATION FairSpec
INVARIANT SafeForConcurrentUse
CHECK_DEADLOCK FALSE
