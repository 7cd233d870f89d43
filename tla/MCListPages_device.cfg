SPECIFICATION DeviceSpec
CONSTANTS
    u1 = u1
    u2 = u2
    x = x
    y = y
    Users = {u1, u2}
    NULL = NULL
    Items = {x, y}
    Answers <- TwoUsers
    MaxLoads = 4
    MaxUploads = 1
INVARIANTS TypeOK ShowsModel ShowsEverything ListsOwnAnswer OwnPicture
CHECK_DEADLOCK FALSE
