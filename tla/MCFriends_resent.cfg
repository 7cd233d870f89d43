SPECIFICATION Spec
CONSTANTS
    Users = {u1, u2}
    owner = u1
    Names <- UsersAndStranger
    stranger = stranger
    Nobody = Nobody
    Devices = {1, 2}
    Logins <- Shared
    Threads = {t1}
    MaxRequests = 2
    MaxLoads = 1
    Overlap = FALSE
    MayFail = TRUE
PROPERTIES SentMeansSent
SYMMETRY Symmetric
CHECK_DEADLOCK FALSE
