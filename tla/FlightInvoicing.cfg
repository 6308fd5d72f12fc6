SPECIFICATION MCSpec
CONSTANTS
    Flights = {1, 2, 3}
    Members = {ann, bob}
    Admins = {a1}
    Pilots = {p1}
    Msgs = {1, 2}
    ann = ann
    bob = bob
    a1 = a1
    a2 = a2
    p1 = p1
INVARIANTS
    InvoicedOnce
    BilledToPayee
PROPERTIES
    BillingGoesForward
CHECK_DEADLOCK FALSE
