SPECIFICATION Spec
CONSTANTS
    l1 = l1  l2 = l2  a1 = a1  a2 = a2
    Locals = {l1}
    Addrs = {a1}
    NetworkType <- OneNetwork
    Signalled <- SignalMdns
    LocalCreds = {c1, c2}
    PeerCreds = {d1, d2}
    NoCreds = NoCreds
    Role = "controlled"
    Lite = FALSE
    ReadsPairs = TRUE
    DisconnectedTimeout = 1
    FailedTimeout = 1
    KeepaliveInterval = 1
    BindingRequestTimeout = 2
    MaxBindingRequests = 1
SYMMETRY CredSymmetry
INVARIANTS
    StateMatchesSelection ChecklistCurrent PendingFromChecklist
     
PROPERTIES PairProgress ImplementsLifecycle
