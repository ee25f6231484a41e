SPECIFICATION Spec
CONSTANTS
    X = X
    Y = Y
    A = A
    B = B
    Chains = {X, Y}
    Evm = {X, Y}
    Tasks = {A, B}
    Route <- BridgeSwap
    Amount = 1
    NoTask = NoTask
    Faults = {}
    Sessions = {s1}
    Callers = {}
    MaxRetry = 1
    MaxNonce = 4
    NoBalance = NoBalance
    NoDoc = NoDoc
PROPERTIES
    FinishedMeansRan
CHECK_DEADLOCK FALSE
