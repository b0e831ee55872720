CONSTANTS
    Users = {u1, u2}
    Buyers = {u1}
    ReviewIds = {i1, i2}
    Ratings = {4}
    Moderators = {m1, m2}
    PageSize = 1
    MaxModerations = 3
SPECIFICATION Spec
SYMMETRY Interchangeable
INVARIANTS HistogramIsExact OneLiveReview PagingIsExact
CHECK_DEADLOCK FALSE
