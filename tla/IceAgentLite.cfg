SPECIFICATION TimerFairSpec
CONSTANTS
    l1 = l1  l2 = l2  a1 = a1  a2 = a2
    Locals = {l1, l2}
    Addrs = {a1, a2}
    NetworkType <- TwoNetworks
    Signalled <- SignalHost
    LocalCreds = {c1}
    PeerCreds = {d1}
    NoCreds = NoCreds
    Role = "controlled"
    Lite = TRUE
    ReadsPairs = FALSE
    DisconnectedTimeout = 0
    FailedTimeout = 1
    KeepaliveInterval = 1
    DefaultKeepaliveInterval = 2
    BindingRequestTimeout = 1
    MaxBindingRequests = 1
INVARIANT CheckingBounded
PROPERTIES SilentConnectionFails FailsAfterTimeoutOrInherits
