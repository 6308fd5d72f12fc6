SPECIFICATION Spec
CONSTANTS
    Ids = {1, 2, 3}
    Members = {ann, bob}
    Renewing = {ann}
    Clients = {c1, c2}
    Years = {1, 2}
    MaxFaults = 1
    MaxDocs = 2
    ann = ann
    bob = bob
    c1 = c1
    c2 = c2
INVARIANTS
    QueuedOnce
    ChargedOnce
    MadeOnce
PROPERTIES
    ProcessedMeansQueued
SYMMETRY Alike
CHECK_DEADLOCK FALSE
