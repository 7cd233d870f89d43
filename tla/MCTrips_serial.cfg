SPECIFICATION Spec
CONSTANTS
    NULL = NULL
    friend = u2
    Users = {u1, u2}
    Threads = {t1}
    Kinds <- Surviving
    Recipients <- Friend
    TripDates <- NowAndNext
    MaxRestaurants = 0
    MaxRequests = 4
    LastDay = 2
    MayFail = TRUE
INVARIANTS TripsKept ListedAtMostOnce
PROPERTIES StatusSettled HistoryGrows
CHECK_DEADLOCK FALSE
