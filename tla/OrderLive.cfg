SPECIFICATION FairSpec
CONSTANTS
    Consumers = {c1, c2}
    MaxSends = 1
    MaxFaults = 1
    PayAnswers = {"authorized"}
    TtlSweep = FALSE
PROPERTY
    CompensationsAreAcknowledged
CHECK_DEADLOCK FALSE
