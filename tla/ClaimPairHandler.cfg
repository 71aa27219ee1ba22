SPECIFICATION FairSpec
CONSTANTS
    Callers = {"caller"}
    Closers = {"closer"}
    Handlers = {"h1", "h2", "h3", "h4"}
    StateHandler = {"returns"}
    PairHandler = {"returns", "runs"}
    CandidateHandler = {"returns"}
    MaxCalls = 3
PROPERTY PairHandlerCanRun
