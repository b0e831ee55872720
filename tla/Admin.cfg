SPECIFICATION AdminSpec
CONSTANTS
    Operators = {o1, o2}
    Relays = {r1}
    Prices = {1, 2}
    Statuses = {"ACTIVE", "ARCHIVED"}
    MaxAttempts = 2
    MaxEdits = 2
    MaxAdminFaults = 2
    Staff = {o1}
    MaxActions = 2
INVARIANTS
    PriceChangesChain
    TopicIsCurrent
PROPERTIES
    StatusChangesWhatWasSeen
    OperatorsAreAnswered
CHECK_DEADLOCK FALSE
