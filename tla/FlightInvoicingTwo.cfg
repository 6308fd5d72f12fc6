SPECIFICATION MCSpec
CONSTANTS
    Flights = {1, 2}
    Members = {ann}
    Admins = {a1, a2}
    Pilots = {}
    Msgs = {1, 2}
    ann = ann
    bob = bob
    a1 = a1
    a2 = a2
    p1 = p1
INVARIANTS
    NoFlightStranded
    InvoiceOnRecord
    PaidWithInvoice
PROPERTIES
    FrozenIsKept
    NewAtTheEnd
SYMMETRY Alike
CHECK_DEADLOCK FALSE
