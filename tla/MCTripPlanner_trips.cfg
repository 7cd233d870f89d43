SPECIFICATION Spec
CONSTANTS
    u1 = u1  u2 = u2  f1 = f1  f2 = f2  r1 = r1  r2 = r2
    Users = {u1, u2}
    Friends = {f1, f2}
    FriendsOf <- FewFriends
    Places = {p1}
    TripNames = {n1}
    Restaurants = {r1, r2}
    Results <- FewResults
    PickerDays = {9}
    LabelRows = 1
    NULL = NULL
    MaxTrips = 2
    MaxSearches = 2
    MaxLoads = 2
    MaxSends = 1
    MaxLoaded = 2
    MaxChoices = 1
INVARIANTS TypeOK PlaceChosen DatesInOrder InvitesWhoIsShown InvitedAreAdded AddsWhatIsShown SendsWhatIsReviewed
CHECK_DEADLOCK FALSE
