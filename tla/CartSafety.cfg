CONSTANTS
    Requests = {r1, r2}
    CartIds = {c1, c2}
    Skus = {s1, s2}
    Coupons = {k1}
    MaxQty = 2
    MaxLines = 1
    MaxRequests = 4
    WindowSize = 2
    Deadline = 1
    ProbeAfter = 2
SPECIFICATION Spec
SYMMETRY Interchangeable
INVARIANTS TypeOK HalfOpenHasItsProbe
PROPERTY CartsAreLinear
CHECK_DEADLOCK FALSE
