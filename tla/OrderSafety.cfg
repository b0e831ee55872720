SPECIFICATION Spec
CONSTANTS
    Consumers = {c1, c2}
    MaxSends = 2
    MaxFaults = 0
    PayAnswers = {"authorized", "declined"}
    TtlSweep = TRUE
SYMMETRY Symmetry
INVARIANTS
    TypeOK
    NoRollbackPastCommit
    CancelledIsSettled
    OneOutcome
PROPERTIES
    TerminalIsStable
    ForwardOrBack
CHECK_DEADLOCK FALSE
