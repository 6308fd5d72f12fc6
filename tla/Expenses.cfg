SPECIFICATION MCSpec
CONSTANTS
    ann = ann
    tom = tom
    a1 = a1
    a2 = a2
    t1 = t1
    r1 = r1
    Ids = {1}
    Claims = {1, 2}
    Records = {r1}
    People = {ann, tom}
    Admins = {tom}
    Claimants = {ann}
    Reviewed = {1}
    Clients = {a1, a2, t1}
    Who <- MCWho
    Reporter <- MCReporter
    Fine = 1
    Costs = {1}
    ByHand <- MCByHand
    LocalPrices = {1}
    MaxRequests = 2
SYMMETRY Alike
INVARIANTS
    NoRecordStranded
PROPERTIES
    SavedMeansLinked
CHECK_DEADLOCK FALSE
