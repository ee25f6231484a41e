SPECIFICATION FairSpec
CONSTANTS
    X = X
    Y = Y
    A = A
    B = B
    Chains = {X, Y}
    Evm = {}
    Tasks = {A}
    Route <- RoundTrip
    Amount = 1
    NoTask = NoTask
    Faults = {}
    Sessions = {s1}
    Callers = {}
    MaxRetry = 1
    MaxNonce = 9
    NoBalance = NoBalance
    NoDoc = NoDoc
PROPERTIES
    EventuallyCompleted
CHECK_DEADLOCK FALSE
