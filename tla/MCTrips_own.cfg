SPECIFICATION Spec
CONSTANTS
    NULL = NULL
    friend = u2
    Users = {u1}
    Threads = {t1, t2}
    Kinds <- Creations
    Recipients <- Alone
    TripDates <- OneDate
    MaxRestaurants = 0
    MaxRequests = 2
    LastDay = 0
    MayFail = FALSE
INVARIANTS AttachesOwnTrip
CHECK_DEADLOCK FALSE
