SPECIFICATION StorefrontSpec
CONSTANTS
    MaxMounts = 2
    MaxSubmits = 2
    MaxCheckoutFaults = 1
    OrderAttempts = 2
    MaxClicks = 2
    MaxElsewhere = 2
    MaxBasketFaults = 1
    MaxQuantity = 2
    CartAttempts = 2
    MaxGenerations = 4
    ToastLimit = 2
    MaxToasts = 4
    MaxForms = 2
    MaxSessionFaults = 1
    TokenIds = {t1, t2, t3, t4}
    Sessions = {s1, s2}
    Clients = {c1, c2}
    MaxRequests = 3
    MaxAccountFaults = 1
INVARIANTS
    OneOrderPerCheckout
    OutcomeIsTrue
    SecondFactorIsHeld
    LiveTokensAreAccounted
PROPERTIES
    BasketNeverRegresses
    SuggestionsFollowTheBox
    NothingSpinsForEver
CHECK_DEADLOCK FALSE
