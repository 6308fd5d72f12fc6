SPECIFICATION MCSpec
CONSTANTS
    ann = ann
    boss = boss
    vest = vest
    tank = tank
    v1 = v1
    v2 = v2
    x1 = x1
    b1 = b1
    b2 = b2
    Ids = {b1, b2}
    Items = {vest, tank}
    Units = {v1, v2, x1}
    ItemOf <- MCItemOf
    Members = {ann, boss}
    Suspended = {}
    Admins = {boss}
    Hours = {1, 2, 3}
    Asked <- MCAsked
    Patches <- MCPatches
    Handled = {vest, v2}
    Moves = {"AVAILABLE", "MAINTENANCE"}
    MaxRequests = 2
SYMMETRY Alike
PROPERTIES
    UnitApart
    WriteFits
CHECK_DEADLOCK FALSE
