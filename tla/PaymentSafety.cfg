SPECIFICATION Spec
CONSTANTS
    Workers = {w1, w2}
    Rails = {"mock", "wallet", "card", "cod"}
    MaxSends = 2
    MaxFailures = 1
    MaxFaults = 1
SYMMETRY Symmetry
INVARIANTS
    TypeOK
    ChargedOnce
    ToldIsTrue
PROPERTY
    SettledIsFinal
CHECK_DEADLOCK FALSE
