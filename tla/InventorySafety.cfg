SPECIFICATION Spec
CONSTANTS
    r1 = r1
    r1b = r1b
    Workers = {w1, w2}
    Reservations = {r1, r2}
    OrderOf <- MCOrderOf
    Skus = {s1, s2}
    Active = {s1, s2}
    Qty <- MCQty
    InitialStock <- MCStock
    Deltas <- MCDeltas
    MaxOnHand = 1
    Commands <- MCResent
    MaxFaults = 1
SYMMETRY Symmetry
INVARIANTS
    TypeOK
    NoOversell
    LedgerReconciles
    NoContradiction
PROPERTIES
    SettledIsFinal
CHECK_DEADLOCK FALSE
