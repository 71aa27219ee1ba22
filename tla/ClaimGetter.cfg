SPECIFICATION Spec
CONSTANTS
    l1 = l1  l2 = l2  a1 = a1  a2 = a2
    Locals = {l1}
    Addrs = {a1}
    NetworkType <- OneNetwork
    Signalled <- SignalHost
    LocalCreds = {c1}
    PeerCreds = {d1}
    NoCreds = NoCreds
    Role = "controlling"
    Lite = FALSE
    ReadsPairs = TRUE
    DisconnectedTimeout = 1
    FailedTimeout = 1
    KeepaliveInterval = 1
    BindingRequestTimeout = 1
    MaxBindingRequests = 1
INVARIANT ReadingPairsIsHarmless
