SPECIFICATION Spec
CONSTANTS
    ann = ann
    bob = bob
    a1 = a1
    b1 = b1
    shirt = shirt
    hours = hours
    large = large
    Orders = {1, 2}
    Products = {shirt, hours}
    Packages = {hours}
    Options = {large}
    Members = {ann, bob}
    Clients = {a1, b1}
    Who <- MCWho
    Lines <- MCLines
    Price <- MCPrice
    Discount = 1
    MaxUses = 1
    MaxOwned = 2
    Stock = 2
    Insiders = {bob}
    Stocks = {1}
    Resolved = {"INVOICED"}
    MaxItems = 2
INVARIANTS
    BilledAsConfirmed
CONSTRAINTS FewEdits InTurn
CHECK_DEADLOCK FALSE
