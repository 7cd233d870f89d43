SPECIFICATION Spec
CONSTANTS
    Users = {u1, u2, u3}
    owner = u1
    Names <- UsersAndStranger
    stranger = stranger
    Nobody = Nobody
    Devices = {1, 2}
    Logins <- Shared
    Threads = {t1, t2}
    MaxRequests = 2
    MaxLoads = 2
    Overlap = FALSE
    MayFail = TRUE
INVARIANTS TypeOK RequestsListed OneSidedPending RequestedOnce
PROPERTIES ConfirmedBothWays FriendsGrow ImplementsFriendships
SYMMETRY Symmetric
CHECK_DEADLOCK FALSE
