SPECIFICATION FairSpec
CONSTANTS
    Routes <- DeliveryRoutes
    Unit = 10000
    Amount = 100000
    TxFees = {1000, 30000}
    Float = 50
    Gifts = {7}
    U8 = 4
    U32 = 1000000
    Reserve = 1
INVARIANTS
    TypeOK
    ArrivalIsSeen
    SpendsWhatArrived
    NothingToNobody
    CompletedPays
    ClaimedCanRun
    NothingReverts
    FeeCoversCost
    RouteFits
PROPERTIES
    EventuallyDelivered
CHECK_DEADLOCK FALSE
