SPECIFICATION Spec
CONSTANTS
    Keys = {k1, k2}
    Values = {v1}
    NoValue = NoValue
    Clients = {c1, c2}
    NoRequest = NoRequest
    MaxIndex = 2
    MaxInflight = 2
SYMMETRY Symmetry
INVARIANTS
    TypeOK
    AckedIsRecorded
    OneWinnerPerIndex
    LogRebuildsDocs
    InsertsOnlyFresh
PROPERTY
    ImplementsAuditLog
CHECK_DEADLOCK FALSE
