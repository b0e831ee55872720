SPECIFICATION FairSpec
CONSTANTS
    r1 = r1
    r1b = r1b
    Workers = {w1, w2}
    Reservations = {r1, r1b}
    OrderOf <- MCOrderOf
    Skus = {s1}
    Active = {s1}
    Qty <- MCQty
    InitialStock <- MCStock
    Deltas = {}
    MaxOnHand = 1
    Commands <- MCOnce
    MaxFaults = 1
INVARIANTS
    OneReservationPerOrder
PROPERTIES
    NoDanglingReservation
    FaultsLoseOneCommand
CHECK_DEADLOCK FALSE
