SPECIFICATION MCSpec
CONSTANTS
    ann = ann
    bob = bob
    a1 = a1
    b1 = b1
    b2 = b2
    Ids = {b1, b2}
    Members = {ann, bob}
    Instructors = {}
    Kinds = {"FLYING", "JUNIOR"}
    Flown = {bob}
    Admins = {a1}
    Slots <- MCSlots
    Asked <- MCAsked
    Patches <- MCPatches
    Lead = 5
    Horizon = 0
    MaxRequests = 2
    MaxStatements = 1
    MaxCrashes = 1
    MaxTurns = 3
INVARIANTS
    RestorableAsBefore
PROPERTIES
    PaidIsRestored
    LongDebtIsSuspended
