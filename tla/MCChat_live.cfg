SPECIFICATION FairSpec
CONSTANTS
    NoOne = NoOne
    talker = u1
    Users = {u1, u2}
    FriendsOf <- EachOther
    Bodies = {b1}
    MaxSends = 2
    MaxViews = 2
    MaxPulls = 2
    LastMinute = 1
    MayLose = FALSE
PROPERTIES EveryMessageShown AnswersShown
CHECK_DEADLOCK FALSE
