SPECIFICATION FairSpec
CONSTANTS
    Consumers = {c1, c2}
    MaxSends = 1
    MaxFaults = 0
    PayAnswers = {"authorized", "declined"}
    TtlSweep = FALSE
PROPERTY Termination
CHECK_DEADLOCK FALSE
