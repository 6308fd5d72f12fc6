SPECIFICATION FairSpec
CONSTANTS
    Ids = {1, 2, 3, 4}
    Workers = {w1}
    Requested = {"ADD_MEMBER", "CREDIT_NOTE", "FLIGHT_INVOICE"}
    MaxRequests = 2
    MaxCrashes = 1
    MaxRetries = 2
    MaxLost = 1
    w1 = w1
INVARIANTS
    OneMailPerInvoice
    RecordedInSimplbooks
    SentIsReal
    NoForgottenRow
PROPERTIES
    KeepsPromise
    EveryMessageEnds
CHECK_DEADLOCK FALSE
