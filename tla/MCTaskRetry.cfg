SPECIFICATION Spec
CONSTANTS
    X = X
    Y = Y
    A = A
    B = B
    Chains = {X, Y}
    Evm = {X, Y}
    Tasks = {A}
    Route <- BridgeSwap
    Amount = 1
    NoTask = NoTask
    Faults = {"abort", "lostReply", "revert", "evict", "rpcError"}
    Sessions = {s1}
    Callers = {"retry"}
    MaxRetry = 1
    MaxNonce = 3
    NoBalance = NoBalance
    NoDoc = NoDoc
INVARIANTS
    TypeOK
    InOrder
PROPERTIES
    FinishedMeansRan
    ClaimedMeansClaimed
    KeepsToRoute
CHECK_DEADLOCK FALSE
