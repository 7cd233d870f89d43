SPECIFICATION Spec
CONSTANTS
    NULL = NULL
    friend = u2
    Users = {u1, u2}
    Threads = {t1, t2}
    Kinds <- Surviving
    Recipients <- Alone
    TripDates <- OneDate
    MaxRestaurants = 2
    MaxRequests = 3
    LastDay = 1
    MayFail = TRUE
SYMMETRY Symmetric
INVARIANTS ListingsComplete
PROPERTIES AddsTrip
CHECK_DEADLOCK FALSE
