SPECIFICATION MCSpec
CONSTANTS
    ann = ann
    bob = bob
    a1 = a1
    b1 = b1
    b2 = b2
    Ids = {b1, b2}
    Members = {ann, bob}
    Instructors = {bob}
    Admins = {a1}
    Slots <- MCSlots
    Asked <- MCAsked
    Patches <- MCPatches
    Lead = 1
    Horizon = 1
    MaxRequests = 2
    MaxStatements = 2
    MaxCrashes = 1
SYMMETRY Alike
INVARIANTS
    RemindedOnce
PROPERTIES
    ConfirmedApart
    LiveApart
    CancelledIsFinal
CHECK_DEADLOCK FALSE
