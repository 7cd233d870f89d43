SPECIFICATION Spec
CONSTANTS
    NULL = NULL
    friend = u2
    Users = {u1}
    Threads = {t1}
    Kinds <- Servlets
    Recipients <- Alone
    TripDates <- OneDate
    MaxRestaurants = 0
    MaxRequests = 4
    LastDay = 0
    MayFail = FALSE
PROPERTIES AddsTrip
CHECK_DEADLOCK FALSE
