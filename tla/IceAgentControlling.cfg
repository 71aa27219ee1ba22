SPECIFICATION FairSpec
CONSTANTS
    l1 = l1  l2 = l2  a1 = a1  a2 = a2
    Locals = {l1}
    Addrs = {a1, a2}
    NetworkType <- OneNetwork
    Signalled <- SignalHost
    LocalCreds = {c1}
    PeerCreds = {d1}
    NoCreds = NoCreds
    Role = "controlling"
    Lite = FALSE
    ReadsPairs = FALSE
    DisconnectedTimeout = 1
    FailedTimeout = 0
    KeepaliveInterval = 1
    BindingRequestTimeout = 1
    MaxBindingRequests = 0
INVARIANTS
    TypeOK SelectedSucceeded PairsComplete ConnectedUsable
PROPERTY QuietPathProbed
