CONSTANTS
    Events <- Confirmations
    Workers = {w1, w2}
    MaxRefusals = 2
    MaxFaults = 1
SPECIFICATION Spec
INVARIANTS SentOnce NoSilentDrop
PROPERTY EveryEventSettles
CHECK_DEADLOCK FALSE
