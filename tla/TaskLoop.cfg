SPECIFICATION FairSpec
CONSTANTS
    Callers = {"caller"}
    Closers = {"closer"}
    Handlers = {"h1", "h2", "h3", "h4"}
    StateHandler = {"returns", "runs", "closes"}
    PairHandler = {"returns", "closes"}
    CandidateHandler = {"returns"}
    MaxCalls = 3
INVARIANTS TypeOK  NoCircularWait
PROPERTIES RunReturns ShutsDown
