SPECIFICATION Spec
CONSTANTS
    X = X
    Y = Y
    A = A
    B = B
    Chains = {X, Y}
    Evm = {X, Y}
    Tasks = {A}
    Route <- BridgeSwap
    Amount = 1
    NoTask = NoTask
    Faults = {"abort", "lostReply", "revert"}
    Sessions = {s1, s2}
    Callers = {}
    MaxRetry = 1
    MaxNonce = 4
    NoBalance = NoBalance
    NoDoc = NoDoc
INVARIANTS
    AtMostOnce
    CompletedMeansRan
    PaidInFull
SYMMETRY SessionSymmetry
CHECK_DEADLOCK FALSE
