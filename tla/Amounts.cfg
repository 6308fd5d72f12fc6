SPECIFICATION Spec
CONSTANTS
    Litres = {0, 1}
    Fine = 3
    Amounts = {0, 1, 3, 4}
    Prices <- MCPrices
    MaxRows = 4
    efn = efn
    ohc = ohc
    first = first
    second = second
    v = v
    w = w
    Packages = {1, 2}
    AircraftOf <- MCAircraftOf
    Flights = {1, 2, 3}
    MessageOf <- MCMessageOf
    Sorts <- MCSorts
    MinBillable = 3
    Workers = {v, w}
    Minutes = {1, 3}
    Days = {1, 2}
SYMMETRY MCSymmetry
INVARIANTS
    AddsUp
    CardIsNotReimbursed
    NearShare
    PlanStillFits
    BilledInFull
    OldestFirst
CHECK_DEADLOCK FALSE
