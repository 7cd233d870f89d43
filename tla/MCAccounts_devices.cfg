SPECIFICATION Spec
CONSTANTS
    Devices = {d1, d2}
    Names = {n1, n2}
    Passwords = {w1, w2}
    NULL = NULL
    MaxClicks = 3
    MaxPages = 4
SYMMETRY Symmetry
INVARIANTS TypeOK KnowsPassword RegisteredOnce MainShowsUser
PROPERTIES ImplementsSessions
CHECK_DEADLOCK FALSE
