SPECIFICATION Spec
CONSTANTS
    X = X
    Y = Y
    A = A
    B = B
    Chains = {X, Y}
    Evm = {X, Y}
    Tasks = {A, B}
    Route <- BridgeSwap
    Amount = 1
    NoTask = NoTask
    Faults = {}
    Sessions = {s1}
    Callers = {"owner"}
    MaxRetry = 1
    MaxNonce = 2
    NoBalance = NoBalance
    NoDoc = NoDoc
INVARIANTS
    WorkerHasTask
    AtMostOnce
CHECK_DEADLOCK FALSE
