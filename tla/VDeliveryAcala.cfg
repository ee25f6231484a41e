SPECIFICATION FairSpec
CONSTANTS
    Routes <- AcalaRoutes
    Unit = 10000
    Amount = 100000
    TxFees = {1000}
    Float = 50
    Gifts = {}
    U8 = 4
    U32 = 1000000
    Reserve = 1
INVARIANTS
    ArrivalIsSeen
CHECK_DEADLOCK FALSE
