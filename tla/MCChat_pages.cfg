SPECIFICATION Spec
CONSTANTS
    NoOne = NoOne
    talker = u1
    Users = {u1, u2}
    FriendsOf <- OneTalker
    Bodies = {b1, b2}
    MaxSends = 2
    MaxViews = 2
    MaxPulls = 3
    LastMinute = 1
    MayLose = TRUE
SYMMETRY Symmetric
INVARIANTS TypeOK ShowsConversation ViewsAgree
PROPERTIES BubblesStay
CHECK_DEADLOCK FALSE
