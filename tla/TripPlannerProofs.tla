------------------------- MODULE TripPlannerProofs -------------------------
(***************************************************************************)
(* Theorems about TripPlanner, for any users, friends, answers and bounds. *)
(*                                                                         *)
(* The pages of the wizard lead forward only, so that what one of them has *)
(* checked holds on all that follow, unless the shared models lose it: the *)
(* invariant says what each page may rely on.                              *)
(***************************************************************************)
EXTENDS TripPlanner, DataLemmas, SequenceTheorems

-----------------------------------------------------------------------------
(* Sequences *)

LEMMA PrefixOfItself ==
    ASSUME NEW S, NEW s \in Seq(S)
    PROVE  IsPrefix(s, s)
BY DEF IsPrefix

LEMMA PrefixOfLonger ==
    ASSUME NEW S, NEW R, NEW r \in Seq(R), NEW s \in Seq(S), NEW t \in Seq(S), IsPrefix(r, s)
    PROVE  IsPrefix(r, s \o t)
<1>1. /\ Len(r) \in Nat /\ Len(s) \in Nat /\ Len(t) \in Nat /\ Len(r) <= Len(s)
      /\ SubSeq(r, 1, Len(r)) = SubSeq(s, 1, Len(r))
  BY LenProperties DEF IsPrefix
<1>2. /\ Len(s \o t) = Len(s) + Len(t)
      /\ \A i \in 1..Len(s) : (s \o t)[i] = s[i]
  BY <1>1, ConcatProperties
<1>3. SubSeq(s, 1, Len(r)) = SubSeq(s \o t, 1, Len(r))
  <2>1. \A i \in 1..Len(r) : s[i] = (s \o t)[i]
    BY <1>1, <1>2
  <2> QED  BY <1>1, <1>2, <2>1
<1> QED  BY <1>1, <1>2, <1>3 DEF IsPrefix

LEMMA PrefixIndex ==
    ASSUME NEW S, NEW R, NEW r \in Seq(R), NEW s \in Seq(S), IsPrefix(r, s),
           NEW i \in 1..Len(r)
    PROVE  i \in 1..Len(s) /\ s[i] \in S /\ s[i] \in ToSet(s)
BY LenProperties DEF IsPrefix, ToSet

LEMMA FirstRowsType ==
    ASSUME NEW S, NEW s \in Seq(S)
    PROVE  FirstRows(s) \in Seq(S)
BY PlannerBounds DEF FirstRows

LEMMA AppendSet ==
    ASSUME NEW S, NEW list \in Seq(S), NEW x \in S
    PROVE  ToSet(Append(list, x)) \subseteq ToSet(list) \union {x}
<1> DEFINE new == Append(list, x)
<1>1. /\ Len(new) = Len(list) + 1 /\ new[Len(list) + 1] = x
      /\ \A i \in 1..Len(list) : new[i] = list[i]
  BY AppendProperties
<1>2. /\ DOMAIN list = 1..Len(list) /\ Len(list) \in Nat
      /\ DOMAIN new = 1..(Len(list) + 1)
  BY <1>1, LenProperties, AppendProperties
<1> HIDE DEF new
<1>3. ToSet(new) \subseteq ToSet(list) \union {x}
  BY <1>1, <1>2 DEF ToSet
<1> QED  BY <1>3 DEF new

LEMMA ConcatKeeps ==
    ASSUME NEW S, NEW s \in Seq(S), NEW t \in Seq(S)
    PROVE  ToSet(s) \subseteq ToSet(s \o t)
<1>1. /\ Len(s \o t) = Len(s) + Len(t) /\ DOMAIN (s \o t) = 1..(Len(s) + Len(t))
      /\ \A i \in 1..Len(s) : (s \o t)[i] = s[i]
  BY ConcatProperties, LenProperties
<1>2. DOMAIN s = 1..Len(s) /\ Len(s) \in Nat /\ Len(t) \in Nat
  BY LenProperties
<1> QED  BY <1>1, <1>2 DEF ToSet

-----------------------------------------------------------------------------
(* The invariant *)

\* Who is logged in and how many trips were begun, by the page on the screen.
PageInv ==
    /\ At("Login") <=> LoggedInUser = NULL
    /\ page.screen \notin {"Login", "TripList"} => trips > 0

TypeInv == TypeOK /\ PageInv /\ InvitesWhoIsShown

\* The pickers show the dates of the trip, and what was compared stays in order.
DatesInv ==
    /\ At("Date") => page.picker = data.date
    /\ DatesInOrder

\* A trip is sent from its own review page only.
SentInv ==
    /\ \A send \in BagToSet(sends) : send.trip <= trips
    /\ page.screen \notin {"Login", "TripList", "Review"} =>
           \A send \in BagToSet(sends) : send.trip # trips
    /\ SendsWhatIsReviewed

-----------------------------------------------------------------------------
(* Type correctness *)

LEMMA NoTripType == NoTrip \in TripData /\ Today \in Days
BY DEF NoTrip, TripData, Text, Today, Days

LEMMA NewPageType ==
    ASSUME NEW screen \in Screens
    PROVE  /\ NewPage(screen) \in Page
           /\ NewPage(screen).screen = screen
           /\ \A picker \in Days :
                  [NewPage(screen) EXCEPT !.picker = picker] \in Page
           /\ \A rows \in Seq(Restaurants \union Friends) :
                  LET p == [NewPage(screen) EXCEPT !.rows = rows]
                  IN  p \in Page /\ p.screen = screen /\ p.rows = rows
           /\ \A labels \in TripData :
                  LET p == [NewPage(screen) EXCEPT !.labels = labels]
                  IN  p \in Page /\ p.screen = screen /\ p.labels = labels
<1>1. NewPage(screen) \in Page
  BY NoTripType DEF NewPage, Page, Text
<1> QED  BY <1>1 DEF Page, NewPage

LEMMA InitType == Init => TypeInv
<1> SUFFICES ASSUME Init PROVE TypeInv
  OBVIOUS
<1>1. page \in Page /\ page.screen = "Login"
  BY NewPageType DEF Init, Screens
<1>2. TypeOK
  BY <1>1, NoTripType, InEmptyBag, PlannerBounds DEF Init, TypeOK
<1> QED  BY <1>1, <1>2 DEF TypeInv, PageInv, InvitesWhoIsShown, At, Init

\* The app crashes and starts again.
LEMMA CrashType == TypeInv /\ Crash => TypeInv'
<1> SUFFICES ASSUME TypeInv, Crash PROVE TypeInv'
  OBVIOUS
<1>1. page' \in Page /\ page'.screen = "Login"
  BY NewPageType DEF Crash, Screens
<1>2. TypeOK'
  BY <1>1, NoTripType, InEmptyBag DEF Crash, TypeInv, TypeOK
<1> QED  BY <1>1, <1>2 DEF TypeInv, PageInv, InvitesWhoIsShown, At, Crash

\* Another page comes on the screen, or this one changes.
LEMMA PageType ==
    ASSUME TypeInv, page' \in Page, LoggedInUser' \in Users \union {NULL},
           page'.screen = "Login" <=> LoggedInUser' = NULL,
           page'.screen \notin {"Login", "TripList"} =>
               page.screen \notin {"Login", "TripList"},
           page'.screen = "Friends" => IsPrefix(page'.rows, myFriends),
           UNCHANGED <<trips, models, requests>>
    PROVE  TypeInv'
<1>1. TypeOK'
  BY DEF TypeInv, TypeOK, models, requests
<1> QED  BY <1>1 DEF TypeInv, PageInv, InvitesWhoIsShown, At, models

\* The trip changes, and perhaps the page.
LEMMA DataType ==
    ASSUME TypeInv, data' \in TripData, page' \in Page, page'.screen = page.screen,
           page'.rows = page.rows,
           UNCHANGED <<LoggedInUser, trips, myFriends, yelpDataArr, requests>>
    PROVE  TypeInv'
<1>1. TypeOK'
  BY DEF TypeInv, TypeOK, requests
<1> QED  BY <1>1 DEF TypeInv, PageInv, InvitesWhoIsShown, At

LEMMA UserNull == \A u \in Users : u # NULL
BY PlannerNull

\* Login, logout, and the pages up to the dates.
LEMMA FirstPagesType ==
    ASSUME TypeInv,
           \/ \E u \in Users : Login(u)
           \/ Logout \/ PopToRoot \/ Cancel \/ LeaveDestination
           \/ \E authorized \in BOOLEAN : BeginTrip(authorized)
           \/ \E name \in Text : EditName(name)
           \/ \E place \in Places : DropPin(place)
           \/ \E isNumber \in BOOLEAN : LeaveBudget(isNumber)
           \/ \E day \in PickerDays : StartValueChanged(day) \/ EndValueChanged(day)
    PROVE  TypeInv'
<1>0. /\ page \in Page /\ data \in TripData /\ LoggedInUser \in Users \union {NULL}
      /\ page.screen = "Login" <=> LoggedInUser = NULL
  BY DEF TypeInv, TypeOK, PageInv, At
<1>1. ASSUME NEW u \in Users, Login(u)
      PROVE  TypeInv'
  BY <1>1, UserNull, NewPageType, PageType DEF Login, Screens
<1>2. CASE Logout \/ PopToRoot \/ Cancel
  BY <1>0, <1>2, NewPageType, PageType DEF Logout, PopToRoot, Cancel, Screens, At
<1>3. CASE LeaveDestination
  BY <1>0, <1>3, NewPageType, PageType DEF LeaveDestination, Screens, At
<1>4. ASSUME NEW authorized \in BOOLEAN, BeginTrip(authorized)
      PROVE  TypeInv'
  <2>1. page' \in Page /\ page'.screen = "Destination"
    BY <1>4, NewPageType DEF BeginTrip, Screens
  <2>2. trips' = trips + 1 /\ trips' \in 0..MaxTrips /\ trips \in 0..MaxTrips
    BY <1>4, PlannerBounds DEF BeginTrip, TypeInv, TypeOK
  <2>3. /\ [trip : 1..trips, user : Users] \subseteq [trip : 1..trips', user : Users]
        /\ 1..trips \subseteq 1..trips'
    BY <2>2, PlannerBounds
  <2>4. yelpDataArr' \in Seq(Restaurants)
    BY <1>4 DEF BeginTrip, TypeInv, TypeOK
  <2>5. UNCHANGED <<LoggedInUser, data, myFriends, loads, searches, sends>>
    BY <1>4 DEF BeginTrip, requests
  <2>6. TypeOK'
    BY <2>1, <2>2, <2>3, <2>4, <2>5 DEF TypeInv, TypeOK
  <2>7. LoggedInUser # NULL /\ trips' > 0
    BY <1>0, <1>4, <2>2, PlannerBounds DEF BeginTrip, At
  <2> QED  BY <2>1, <2>5, <2>6, <2>7 DEF TypeInv, PageInv, InvitesWhoIsShown, At
<1>5. ASSUME NEW name \in Text, EditName(name)
      PROVE  TypeInv'
  <2>1. data' \in TripData
    BY <1>0, <1>5 DEF EditName, Page, TripData
  <2>2. page' \in Page /\ page'.screen = page.screen /\ page'.rows = page.rows
    BY <1>0, <1>5 DEF EditName, Page
  <2> QED  BY <1>5, <2>1, <2>2, DataType DEF EditName
<1>6. ASSUME NEW place \in Places, DropPin(place)
      PROVE  TypeInv'
  <2>1. data' \in TripData
    BY <1>0, <1>6 DEF DropPin, TripData
  <2> QED  BY <1>0, <1>6, <2>1, DataType DEF DropPin
<1>7. ASSUME NEW isNumber \in BOOLEAN, LeaveBudget(isNumber)
      PROVE  TypeInv'
  <2> DEFINE days == [begin |-> 1, end |-> 8]
             p == [NewPage("Date") EXCEPT !.picker = days]
  <2>1. days \in Days
    BY DEF Days
  <2>2. CASE isNumber
    <3>1. data' = [data EXCEPT !.date = days] /\ page' = p /\ At("Budget")
      BY <1>7, <2>2 DEF LeaveBudget
    <3>2. data' \in TripData
      BY <1>0, <2>1, <3>1 DEF TripData
    <3>3. p \in Page
      BY <2>1, NewPageType DEF Screens
    <3>4. p.screen = "Date"
      BY NewPageType DEF Screens, Page
    <3>5. UNCHANGED <<LoggedInUser, trips, myFriends, yelpDataArr, loads, searches, sends>>
      BY <1>7, <2>2 DEF LeaveBudget, requests
    <3> HIDE DEF p
    <3>6. TypeOK'
      BY <3>1, <3>2, <3>3, <3>5 DEF TypeInv, TypeOK
    <3> QED  BY <1>0, <3>1, <3>4, <3>5, <3>6 DEF TypeInv, PageInv, InvitesWhoIsShown, At
  <2>3. CASE ~isNumber
    BY <1>7, <2>3, CrashType DEF LeaveBudget
  <2> QED  BY <2>2, <2>3
<1>8. ASSUME NEW day \in PickerDays, StartValueChanged(day) \/ EndValueChanged(day)
      PROVE  TypeInv'
  <2>0. day \in Nat /\ page.picker \in Days /\ data.date \in Days
    BY <1>0, AnswerAssumption DEF Page, TripData
  <2>1. CASE StartValueChanged(day)
    <3>1. [page.picker EXCEPT !.begin = day] \in Days /\ [data.date EXCEPT !.begin = day] \in Days
      BY <2>0 DEF Days
    <3>2. /\ page' = [page EXCEPT !.picker = [page.picker EXCEPT !.begin = day]]
          /\ data' = [data EXCEPT !.date = [data.date EXCEPT !.begin = day]]
      BY <1>0, <2>1 DEF StartValueChanged, Page, TripData
    <3>3. page' \in Page /\ page'.screen = page.screen /\ page'.rows = page.rows
      BY <1>0, <3>1, <3>2 DEF Page
    <3>4. data' \in TripData
      BY <1>0, <3>1, <3>2 DEF TripData
    <3> QED  BY <2>1, <3>3, <3>4, DataType DEF StartValueChanged
  <2>2. CASE EndValueChanged(day)
    <3>1. [page.picker EXCEPT !.end = day] \in Days /\ [data.date EXCEPT !.end = day] \in Days
      BY <2>0 DEF Days
    <3>2. /\ page' = [page EXCEPT !.picker = [page.picker EXCEPT !.end = day]]
          /\ data' = [data EXCEPT !.date = [data.date EXCEPT !.end = day]]
      BY <1>0, <2>2 DEF EndValueChanged, Page, TripData
    <3>3. page' \in Page /\ page'.screen = page.screen /\ page'.rows = page.rows
      BY <1>0, <3>1, <3>2 DEF Page
    <3>4. data' \in TripData
      BY <1>0, <3>1, <3>2 DEF TripData
    <3> QED  BY <2>2, <3>3, <3>4, DataType DEF EndValueChanged
  <2> QED  BY <1>8, <2>1, <2>2
<1> QED  BY <1>1, <1>2, <1>3, <1>4, <1>5, <1>6, <1>7, <1>8

\* The restaurants, from the dates to the friends.
LEMMA RestaurantsType ==
    ASSUME TypeInv,
           \/ LeaveDate \/ Search \/ LeaveRestaurants
           \/ \E i \in 1..Len(page.rows) : AddRestaurant(i)
           \/ \E trip \in BagToSet(searches) :
                  \/ \E result \in Results : SearchAnswer(trip, result)
                  \/ SearchFindsNothing(trip)
                  \/ SearchLost(trip)
    PROVE  TypeInv'
<1>0. /\ page \in Page /\ data \in TripData /\ LoggedInUser \in Users \union {NULL}
      /\ page.screen = "Login" <=> LoggedInUser = NULL
      /\ page.screen \notin {"Login", "TripList"} => trips > 0
      /\ yelpDataArr \in Seq(Restaurants) /\ myFriends \in Seq(Friends)
      /\ yelpDataArr \in Seq(Restaurants \union Friends)
      /\ myFriends \in Seq(Restaurants \union Friends)
      /\ trips \in Int
  BY PlannerBounds DEF TypeInv, TypeOK, PageInv, At
<1>1. CASE LeaveDate
  <2>1. page' \in Page /\ page'.screen = "Restaurants"
    BY <1>0, <1>1, NewPageType DEF LeaveDate, Screens
  <2> QED  BY <1>0, <1>1, <2>1, PageType DEF LeaveDate, At
<1>2. CASE Search
  <2>1. trips \in 1..trips
    BY <1>0, <1>2 DEF Search, At
  <2>2. BagToSet(searches') \subseteq 1..trips
    BY <1>2, <2>1, InBagAdd DEF Search, TypeInv, TypeOK
  <2>3. TypeOK'
    BY <1>2, <2>2 DEF Search, models, TypeInv, TypeOK
  <2> QED  BY <1>2, <2>3 DEF Search, models, TypeInv, PageInv, InvitesWhoIsShown, At
<1>3. CASE LeaveRestaurants
  <2>1. page' \in Page /\ page'.screen = "Friends"
    BY <1>0, <1>3, NewPageType DEF LeaveRestaurants, Screens
  <2>2. page'.rows = myFriends
    BY <1>0, <1>3, NewPageType DEF LeaveRestaurants, Screens
  <2>3. IsPrefix(myFriends, myFriends)
    BY <1>0, PrefixOfItself
  <2>4. [trip |-> trips, user |-> LoggedInUser] \in [trip : 1..trips, user : Users]
    BY <1>0, <1>3 DEF LeaveRestaurants, At
  <2>5. BagToSet(loads') \subseteq [trip : 1..trips, user : Users]
    BY <1>3, <2>4, InBagAdd DEF LeaveRestaurants, Load, TypeInv, TypeOK
  <2>6. TypeOK'
    BY <1>3, <2>1, <2>5 DEF LeaveRestaurants, Load, TypeInv, TypeOK
  <2>7. UNCHANGED <<LoggedInUser, trips, myFriends>> /\ At("Restaurants")
    BY <1>3 DEF LeaveRestaurants, Load
  <2> QED  BY <1>0, <2>1, <2>2, <2>3, <2>6, <2>7 DEF TypeInv, PageInv, InvitesWhoIsShown, At
<1>4. ASSUME NEW i \in 1..Len(page.rows), AddRestaurant(i)
      PROVE  TypeInv'
  <2>1. CASE i <= Len(yelpDataArr)
    <3>1. yelpDataArr[i] \in Restaurants
      BY <1>0, <2>1 DEF Page
    <3>2. Append(data.Restaurants, yelpDataArr[i]) \in Seq(Restaurants)
      BY <1>0, <3>1 DEF TripData
    <3>3. data' \in TripData
      BY <1>0, <1>4, <2>1, <3>2 DEF AddRestaurant, TripData
    <3> QED  BY <1>0, <1>4, <2>1, <3>3, DataType DEF AddRestaurant
  <2>2. CASE ~(i <= Len(yelpDataArr))
    BY <1>4, <2>2, CrashType DEF AddRestaurant
  <2> QED  BY <2>1, <2>2
<1>5. ASSUME NEW trip \in BagToSet(searches), NEW result \in Results, SearchAnswer(trip, result)
      PROVE  TypeInv'
  <2>1. result \in Seq(Restaurants) /\ result \in Seq(Restaurants \union Friends)
    BY AnswerAssumption
  <2>2. BagToSet(searches') \subseteq 1..trips
    BY <1>5, InBagRemove DEF SearchAnswer, TypeInv, TypeOK
  <2>3. /\ page' \in Page /\ page'.screen = page.screen
        /\ page.screen = "Friends" => page' = page
    <3>1. page' \in {page, [page EXCEPT !.rows = result], [page EXCEPT !.late = TRUE]}
      BY <1>5 DEF SearchAnswer
    <3>2. \A x \in {page, [page EXCEPT !.rows = result], [page EXCEPT !.late = TRUE]} :
              x \in Page /\ x.screen = page.screen
      BY <1>0, <2>1 DEF Page
    <3>3. page.screen = "Friends" => page' = page
      BY <1>5 DEF SearchAnswer, At
    <3> QED  BY <3>1, <3>2, <3>3
  <2>4. TypeOK'
    BY <1>5, <2>1, <2>2, <2>3 DEF SearchAnswer, TypeInv, TypeOK
  <2>5. UNCHANGED <<LoggedInUser, trips, myFriends>>
    BY <1>5 DEF SearchAnswer
  <2> QED  BY <1>0, <2>3, <2>4, <2>5 DEF TypeInv, PageInv, InvitesWhoIsShown, At
<1>6. ASSUME NEW trip \in BagToSet(searches), SearchFindsNothing(trip)
      PROVE  TypeInv'
  BY <1>6, CrashType DEF SearchFindsNothing
<1>7. ASSUME NEW trip \in BagToSet(searches), SearchLost(trip)
      PROVE  TypeInv'
  <2>1. BagToSet(searches') \subseteq 1..trips
    BY <1>7, InBagRemove DEF SearchLost, TypeInv, TypeOK
  <2>2. TypeOK'
    BY <1>7, <2>1 DEF SearchLost, models, TypeInv, TypeOK
  <2> QED  BY <1>7, <2>2 DEF SearchLost, models, TypeInv, PageInv, InvitesWhoIsShown, At
<1> QED  BY <1>1, <1>2, <1>3, <1>4, <1>5, <1>6, <1>7

\* The friends and the review.
LEMMA LastPagesType ==
    ASSUME TypeInv,
           \/ Reappear \/ LeaveFriends \/ Send
           \/ \E i \in 1..Len(page.rows) : Invite(i)
           \/ \E load \in BagToSet(loads) : LoadAnswer(load) \/ LoadLost(load)
           \/ \E send \in BagToSet(sends) : SendAnswer(send) \/ SendLost(send)
    PROVE  TypeInv'
<1>0. /\ page \in Page /\ data \in TripData /\ LoggedInUser \in Users \union {NULL}
      /\ page.screen = "Login" <=> LoggedInUser = NULL
      /\ page.screen \notin {"Login", "TripList"} => trips > 0
      /\ myFriends \in Seq(Friends) /\ page.rows \in Seq(Restaurants \union Friends)
      /\ myFriends \in Seq(Restaurants \union Friends)
      /\ trips \in Int /\ trips \in Nat
  BY PlannerBounds DEF TypeInv, TypeOK, PageInv, At, Page
<1>1. CASE Reappear
  <2>1. [trip |-> trips, user |-> LoggedInUser] \in [trip : 1..trips, user : Users]
    BY <1>0, <1>1 DEF Reappear, At
  <2>2. BagToSet(loads') \subseteq [trip : 1..trips, user : Users]
    BY <1>1, <2>1, InBagAdd DEF Reappear, Load, TypeInv, TypeOK
  <2>3. TypeOK'
    BY <1>1, <2>2 DEF Reappear, Load, TypeInv, TypeOK
  <2> QED  BY <1>1, <2>3 DEF Reappear, Load, TypeInv, PageInv, InvitesWhoIsShown, At
<1>2. CASE LeaveFriends
  <2>1. Shown(data) \in TripData
    BY <1>0, FirstRowsType DEF Shown, TripData
  <2>2. page' \in Page /\ page'.screen = "Review"
    BY <1>2, <2>1, NewPageType DEF LeaveFriends, Screens
  <2> QED  BY <1>0, <1>2, <2>2, PageType DEF LeaveFriends, At
<1>3. CASE Send
  <2>1. NewTrip \in newTrip
    BY <1>0, <1>3 DEF Send, At, NewTrip, newTrip
  <2>2. BagToSet(sends') \subseteq newTrip
    BY <1>3, <2>1, InBagAdd DEF Send, TypeInv, TypeOK
  <2>3. TypeOK'
    BY <1>3, <2>2 DEF Send, models, TypeInv, TypeOK
  <2> QED  BY <1>3, <2>3 DEF Send, models, TypeInv, PageInv, InvitesWhoIsShown, At
<1>4. ASSUME NEW i \in 1..Len(page.rows), Invite(i)
      PROVE  TypeInv'
  <2>1. IsPrefix(page.rows, myFriends)
    BY <1>4 DEF Invite, TypeInv, InvitesWhoIsShown
  <2>2. myFriends[i] \in Friends
    BY <1>0, <2>1, PrefixIndex
  <2>3. Append(data.Friends, myFriends[i]) \in Seq(Friends)
    BY <1>0, <2>2 DEF TripData
  <2>4. data' \in TripData
    BY <1>0, <1>4, <2>3 DEF Invite, TripData
  <2> QED  BY <1>0, <1>4, <2>4, DataType DEF Invite
<1>5. ASSUME NEW load \in BagToSet(loads), LoadAnswer(load)
      PROVE  TypeInv'
  <2>1. FriendsOf[load.user] \in Seq(Friends)
    BY AnswerAssumption DEF TypeInv, TypeOK
  <2>2. /\ myFriends' = myFriends \o FriendsOf[load.user]
        /\ myFriends' \in Seq(Friends) /\ myFriends' \in Seq(Restaurants \union Friends)
    BY <1>0, <1>5, <2>1 DEF LoadAnswer
  <2>3. BagToSet(loads') \subseteq [trip : 1..trips, user : Users]
    BY <1>5, InBagRemove DEF LoadAnswer, TypeInv, TypeOK
  <2>4. /\ page' \in Page /\ page'.screen = page.screen
        /\ page'.rows \in {page.rows, myFriends'}
    <3>1. page' \in {page, [page EXCEPT !.rows = myFriends']}
      BY <1>5 DEF LoadAnswer
    <3>2. \A rows \in Seq(Restaurants \union Friends) :
              /\ [page EXCEPT !.rows = rows] \in Page
              /\ [page EXCEPT !.rows = rows].screen = page.screen
              /\ [page EXCEPT !.rows = rows].rows = rows
      BY <1>0 DEF Page
    <3> QED  BY <1>0, <2>2, <3>1, <3>2
  <2>5. At("Friends") => IsPrefix(page'.rows, myFriends')
    <3>1. At("Friends") => IsPrefix(page.rows, myFriends \o FriendsOf[load.user])
      BY <1>0, <2>1, PrefixOfLonger DEF TypeInv, InvitesWhoIsShown
    <3>2. IsPrefix(myFriends', myFriends')
      BY <2>2, PrefixOfItself
    <3> QED  BY <2>2, <2>4, <3>1, <3>2
  <2>6. TypeOK'
    BY <1>5, <2>2, <2>3, <2>4 DEF LoadAnswer, TypeInv, TypeOK
  <2>7. UNCHANGED <<LoggedInUser, trips>>
    BY <1>5 DEF LoadAnswer
  <2> QED  BY <1>0, <2>4, <2>5, <2>6, <2>7 DEF TypeInv, PageInv, InvitesWhoIsShown, At
<1>6. ASSUME NEW load \in BagToSet(loads), LoadLost(load)
      PROVE  TypeInv'
  <2>1. BagToSet(loads') \subseteq [trip : 1..trips, user : Users]
    BY <1>6, InBagRemove DEF LoadLost, TypeInv, TypeOK
  <2>2. TypeOK'
    BY <1>6, <2>1 DEF LoadLost, models, TypeInv, TypeOK
  <2> QED  BY <1>6, <2>2 DEF LoadLost, models, TypeInv, PageInv, InvitesWhoIsShown, At
<1>7. ASSUME NEW send \in BagToSet(sends), SendAnswer(send) \/ SendLost(send)
      PROVE  TypeInv'
  <2>1. BagToSet(sends') \subseteq newTrip
    BY <1>7, InBagRemove DEF SendAnswer, SendLost, TypeInv, TypeOK
  <2>2. /\ page' \in Page
        /\ page' = page \/ (page'.screen = "TripList" /\ At("Review"))
    BY <1>0, <1>7, NewPageType DEF SendAnswer, SendLost, Screens
  <2>3. TypeOK'
    BY <1>7, <2>1, <2>2 DEF SendAnswer, SendLost, models, TypeInv, TypeOK
  <2>4. UNCHANGED <<LoggedInUser, trips, myFriends>>
    BY <1>7 DEF SendAnswer, SendLost, models
  <2> QED  BY <1>0, <2>2, <2>3, <2>4 DEF TypeInv, PageInv, InvitesWhoIsShown, At
<1> QED  BY <1>1, <1>2, <1>3, <1>4, <1>5, <1>6, <1>7

LEMMA NextType == TypeInv /\ [Next]_vars => TypeInv'
<1> SUFFICES ASSUME TypeInv, [Next]_vars PROVE TypeInv'
  OBVIOUS
<1>1. CASE UNCHANGED vars
  BY <1>1 DEF vars, models, requests, TypeInv, TypeOK, PageInv, InvitesWhoIsShown, At
<1>2. CASE User
  BY <1>2, FirstPagesType, RestaurantsType, LastPagesType DEF User
<1>3. CASE Answer
  BY <1>3, RestaurantsType, LastPagesType DEF Answer
<1> QED  BY <1>1, <1>2, <1>3 DEF Next

\* TypeCorrect: whatever the users do and whichever answers arrive, the models,
\* the page on the screen and the requests under way keep their types.
THEOREM TypeCorrect == Spec => []TypeOK
<1>1. TypeInv => TypeOK
  BY DEF TypeInv
<1> QED  BY <1>1, InitType, NextType, PTL DEF Spec

\* RowsInvite: whatever answers arrive while the friend page is open, its rows
\* are the first entries of the model its buttons read, for any users and friends.
THEOREM RowsInvite == Spec => []InvitesWhoIsShown
<1>1. TypeInv => InvitesWhoIsShown
  BY DEF TypeInv
<1> QED  BY <1>1, InitType, NextType, PTL DEF Spec

-----------------------------------------------------------------------------
(* What the pages rely on *)

\* Steps that leave the wizard: the trip stays in the models, or all is forgotten.
Leaves ==
    /\ page'.screen \in {"Login", "TripList"}
    /\ BagToSet(sends') \subseteq BagToSet(sends) /\ trips' = trips
    /\ UNCHANGED <<data, myFriends>> \/ data' = NoTrip

\* Steps that leave a page and the trip as they are, up to the rows of the page.
Stays ==
    /\ page'.screen = page.screen /\ page'.picker = page.picker /\ page'.labels = page.labels
    /\ BagToSet(sends') \subseteq BagToSet(sends)
    /\ data' = data /\ trips' = trips
    /\ ToSet(myFriends) \subseteq ToSet(myFriends')
    /\ \/ ~At("Restaurants") \/ page'.late \/ page'.rows = yelpDataArr'
       \/ page' = page /\ yelpDataArr' = yelpDataArr

\* The steps that are neither.
Advances ==
    \/ \E authorized \in BOOLEAN : BeginTrip(authorized)
    \/ \E name \in Text : EditName(name)
    \/ \E place \in Places : DropPin(place)
    \/ LeaveDestination
    \/ LeaveBudget(TRUE)
    \/ \E day \in PickerDays : StartValueChanged(day) \/ EndValueChanged(day)
    \/ LeaveDate
    \/ \E i \in 1..Len(page.rows) : i <= Len(yelpDataArr) /\ AddRestaurant(i)
    \/ LeaveRestaurants
    \/ \E i \in 1..Len(page.rows) : Invite(i)
    \/ LeaveFriends
    \/ Send

LEMMA CrashLeaves == Crash => Leaves
BY NewPageType, InEmptyBag DEF Crash, Leaves, Screens

LEMMA NextSplit ==
    ASSUME TypeInv, [Next]_vars
    PROVE  Leaves \/ Stays \/ Advances
<1>0. /\ page \in Page /\ myFriends \in Seq(Friends)
  BY DEF TypeInv, TypeOK
<1>1. CASE (\E u \in Users : Login(u)) \/ Logout \/ PopToRoot \/ Cancel
  BY <1>1, NewPageType DEF Login, Logout, PopToRoot, Cancel, Leaves, Screens, models, requests
<1>2. ASSUME NEW isNumber \in BOOLEAN, LeaveBudget(isNumber)
      PROVE  Leaves \/ Advances
  <2>1. CASE isNumber = TRUE
    BY <1>2, <2>1 DEF Advances
  <2>2. CASE isNumber = FALSE
    BY <1>2, <2>2, CrashLeaves DEF LeaveBudget
  <2> QED  BY <2>1, <2>2
<1>3. ASSUME NEW i \in 1..Len(page.rows), AddRestaurant(i)
      PROVE  Leaves \/ Advances
  BY <1>3, CrashLeaves DEF AddRestaurant, Advances
<1>4. ASSUME \/ Search \/ Reappear \/ UNCHANGED vars
             \/ \E trip \in BagToSet(searches) : SearchLost(trip)
             \/ \E load \in BagToSet(loads) : LoadLost(load)
             \/ \E send \in BagToSet(sends) : SendLost(send)
      PROVE  Stays
  <2>1. UNCHANGED <<page, trips, data, myFriends, yelpDataArr>>
    BY <1>4 DEF Search, Reappear, Load, SearchLost, LoadLost, SendLost, vars, models
  <2>2. BagToSet(sends') \subseteq BagToSet(sends)
    BY <1>4, InBagRemove
       DEF Search, Reappear, Load, SearchLost, LoadLost, SendLost, vars, requests
  <2> QED  BY <2>1, <2>2 DEF Stays
<1>5. ASSUME NEW trip \in BagToSet(searches), NEW result \in Results, SearchAnswer(trip, result)
      PROVE  Stays
  <2>1. page' \in {page, [page EXCEPT !.rows = result], [page EXCEPT !.late = TRUE]}
    BY <1>5 DEF SearchAnswer
  <2>2. page'.screen = page.screen /\ page'.picker = page.picker /\ page'.labels = page.labels
    BY <1>0, <2>1 DEF Page
  <2>3. ~At("Restaurants") \/ page'.late \/ page'.rows = yelpDataArr'
    BY <1>0, <1>5 DEF SearchAnswer, Page
  <2> QED  BY <1>5, <2>2, <2>3 DEF SearchAnswer, Stays
<1>6. ASSUME NEW trip \in BagToSet(searches), SearchFindsNothing(trip)
      PROVE  Leaves
  BY <1>6, CrashLeaves DEF SearchFindsNothing
<1>7. ASSUME NEW load \in BagToSet(loads), LoadAnswer(load)
      PROVE  Stays
  <2>1. page' \in {page, [page EXCEPT !.rows = myFriends']}
    BY <1>7 DEF LoadAnswer
  <2>2. page'.screen = page.screen /\ page'.picker = page.picker /\ page'.labels = page.labels
    BY <1>0, <2>1 DEF Page
  <2>3. ~At("Restaurants") \/ page' = page
    BY <1>7 DEF LoadAnswer, At
  <2>4. ToSet(myFriends) \subseteq ToSet(myFriends')
    <3>1. FriendsOf[load.user] \in Seq(Friends)
      BY AnswerAssumption DEF TypeInv, TypeOK
    <3>2. myFriends' = myFriends \o FriendsOf[load.user]
      BY <1>7 DEF LoadAnswer
    <3> QED  BY <1>0, <3>1, <3>2, ConcatKeeps
  <2> QED  BY <1>7, <2>2, <2>3, <2>4 DEF LoadAnswer, Stays
<1>8. ASSUME NEW send \in BagToSet(sends), SendAnswer(send)
      PROVE  Leaves \/ Stays
  <2>1. /\ BagToSet(sends') \subseteq BagToSet(sends)
        /\ UNCHANGED <<trips, data, myFriends, yelpDataArr>>
    BY <1>8, InBagRemove DEF SendAnswer, models
  <2>2. page' = page \/ page'.screen = "TripList"
    BY <1>8, NewPageType DEF SendAnswer, Screens
  <2> QED  BY <2>1, <2>2 DEF Leaves, Stays
<1>9. CASE User
  BY <1>1, <1>2, <1>3, <1>4, <1>9 DEF User, Advances
<1>10. CASE Answer
  BY <1>4, <1>5, <1>6, <1>7, <1>8, <1>10 DEF Answer
<1> QED  BY <1>4, <1>9, <1>10 DEF Next

\* What the steps that advance do to the page and the trip.
LEMMA PagesReached ==
    ASSUME TypeInv
    PROVE  /\ \A authorized \in BOOLEAN : BeginTrip(authorized) => page'.screen = "Destination"
           /\ \A name \in Text : EditName(name) => /\ page.screen = "Destination"
                                                   /\ page'.screen = "Destination"
           /\ LeaveDestination => page'.screen = "Budget"
           /\ LeaveBudget(TRUE) =>
                  /\ page'.screen = "Date" /\ page'.picker = [begin |-> 1, end |-> 8]
                  /\ data' = [data EXCEPT !.date = [begin |-> 1, end |-> 8]]
           /\ \A day \in PickerDays : StartValueChanged(day) \/ EndValueChanged(day) =>
                  page.screen = "Date" /\ page'.screen = "Date"
           /\ LeaveDate => page'.screen = "Restaurants" /\ page'.rows = yelpDataArr
           /\ LeaveRestaurants => page'.screen = "Friends"
           /\ LeaveFriends => page'.screen = "Review" /\ page'.labels = Shown(data)
<1>1. page \in Page /\ data \in TripData /\ yelpDataArr \in Seq(Restaurants \union Friends)
      /\ myFriends \in Seq(Restaurants \union Friends)
  BY DEF TypeInv, TypeOK
<1>2. ASSUME NEW authorized \in BOOLEAN, BeginTrip(authorized) PROVE page'.screen = "Destination"
  BY <1>2, NewPageType DEF BeginTrip, Screens
<1>3. ASSUME NEW name \in Text, EditName(name)
      PROVE  page.screen = "Destination" /\ page'.screen = "Destination"
  BY <1>1, <1>3 DEF EditName, At, Page
<1>4. ASSUME LeaveDestination PROVE page'.screen = "Budget"
  BY <1>4, NewPageType DEF LeaveDestination, Screens
<1>5. ASSUME LeaveBudget(TRUE)
      PROVE  /\ page'.screen = "Date" /\ page'.picker = [begin |-> 1, end |-> 8]
             /\ data' = [data EXCEPT !.date = [begin |-> 1, end |-> 8]]
  BY <1>5, NewPageType DEF LeaveBudget, Screens, Page
<1>6. ASSUME NEW day \in PickerDays, StartValueChanged(day) \/ EndValueChanged(day)
      PROVE  page.screen = "Date" /\ page'.screen = "Date"
  BY <1>1, <1>6 DEF StartValueChanged, EndValueChanged, At, Page
<1>7. ASSUME LeaveDate PROVE page'.screen = "Restaurants" /\ page'.rows = yelpDataArr
  BY <1>1, <1>7, NewPageType DEF LeaveDate, Screens
<1>8. ASSUME LeaveRestaurants PROVE page'.screen = "Friends"
  BY <1>1, <1>8, NewPageType DEF LeaveRestaurants, Screens
<1>9. ASSUME LeaveFriends PROVE page'.screen = "Review" /\ page'.labels = Shown(data)
  <2>1. Shown(data) \in TripData
    BY <1>1, FirstRowsType DEF Shown, TripData
  <2> QED  BY <1>9, <2>1, NewPageType DEF LeaveFriends, Screens
<1> QED  BY <1>2, <1>3, <1>4, <1>5, <1>6, <1>7, <1>8, <1>9

LEMMA NextPlace ==
    ASSUME TypeInv, PlaceChosen, [Next]_vars
    PROVE  PlaceChosen'
<1>0. page \in Page /\ data \in TripData
  BY DEF TypeInv, TypeOK
<1>1. CASE Leaves \/ Stays
  BY <1>1 DEF Leaves, Stays, PlaceChosen
<1>2. CASE \/ \E authorized \in BOOLEAN : BeginTrip(authorized)
           \/ \E name \in Text : EditName(name)
  BY <1>2, PagesReached DEF PlaceChosen
<1>3. CASE \E place \in Places : DropPin(place)
  BY <1>3 DEF DropPin, At, PlaceChosen
<1>4. CASE LeaveDestination
  BY <1>4 DEF LeaveDestination, models, PlaceChosen
<1>5. CASE LeaveBudget(TRUE)
  BY <1>0, <1>5, PagesReached DEF LeaveBudget, At, TripData, PlaceChosen
<1>6. CASE \E day \in PickerDays : StartValueChanged(day) \/ EndValueChanged(day)
  BY <1>0, <1>6, PagesReached DEF StartValueChanged, EndValueChanged, TripData, PlaceChosen
<1>7. CASE LeaveDate \/ LeaveRestaurants \/ LeaveFriends \/ Send
  BY <1>7 DEF LeaveDate, LeaveRestaurants, LeaveFriends, Send, Load, models, At, PlaceChosen
<1>8. CASE \/ \E i \in 1..Len(page.rows) : i <= Len(yelpDataArr) /\ AddRestaurant(i)
           \/ \E i \in 1..Len(page.rows) : Invite(i)
  <2>1. page' = page /\ data'.place = data.place /\ data'.cityName = data.cityName
    BY <1>0, <1>8 DEF AddRestaurant, Invite, TripData
  <2> QED  BY <2>1 DEF PlaceChosen
<1> QED  BY <1>1, <1>2, <1>3, <1>4, <1>5, <1>6, <1>7, <1>8, NextSplit DEF Advances

LEMMA NextDates ==
    ASSUME TypeInv, DatesInv, [Next]_vars
    PROVE  DatesInv'
<1>0. /\ page \in Page /\ data \in TripData
      /\ page.picker \in Days /\ data.date \in Days
  BY DEF TypeInv, TypeOK, Page, TripData
<1>1. CASE Leaves \/ Stays
  BY <1>1 DEF Leaves, Stays, DatesInv, DatesInOrder, At
<1>2. CASE \/ \E authorized \in BOOLEAN : BeginTrip(authorized)
           \/ \E name \in Text : EditName(name)
           \/ LeaveDestination
  <2>1. page'.screen \in {"Destination", "Budget"} /\ sends' = sends
    BY <1>2, PagesReached DEF BeginTrip, EditName, LeaveDestination, requests
  <2> QED  BY <2>1 DEF DatesInv, DatesInOrder, At
<1>3. CASE \E place \in Places : DropPin(place)
  BY <1>3 DEF DropPin, requests, At, DatesInv, DatesInOrder
<1>4. CASE LeaveBudget(TRUE)
  <2>1. page'.screen = "Date" /\ page'.picker = [begin |-> 1, end |-> 8] /\ sends' = sends
    BY <1>4, PagesReached DEF LeaveBudget, requests
  <2>2. data'.date = [begin |-> 1, end |-> 8]
    BY <1>0, <1>4, PagesReached DEF TripData
  <2> QED  BY <2>1, <2>2 DEF At, DatesInv, DatesInOrder
<1>5. ASSUME NEW day \in PickerDays, StartValueChanged(day) \/ EndValueChanged(day)
      PROVE  DatesInv'
  <2>1. page.picker = data.date
    BY <1>5 DEF StartValueChanged, EndValueChanged, DatesInv
  <2>2. page'.picker = data'.date
    BY <1>0, <1>5, <2>1 DEF StartValueChanged, EndValueChanged, Page, TripData
  <2>3. page'.screen = "Date" /\ sends' = sends
    BY <1>5, PagesReached DEF StartValueChanged, EndValueChanged, requests
  <2> QED  BY <2>2, <2>3 DEF At, DatesInv, DatesInOrder
<1>6. CASE LeaveDate
  <2>1. data.date.begin <= data.date.end
    BY <1>0, <1>6 DEF LeaveDate, DatesInv, Days
  <2>2. page'.screen = "Restaurants" /\ data' = data /\ sends' = sends
    BY <1>6, PagesReached DEF LeaveDate, models, requests
  <2> QED  BY <2>1, <2>2 DEF At, DatesInv, DatesInOrder
<1>7. CASE LeaveRestaurants \/ LeaveFriends
  <2>1. page'.screen \in {"Friends", "Review"} /\ data' = data /\ sends' = sends
    BY <1>7, PagesReached DEF LeaveRestaurants, LeaveFriends, Load, models, requests
  <2>2. page.screen \in {"Restaurants", "Friends"}
    BY <1>7 DEF LeaveRestaurants, LeaveFriends, At
  <2> QED  BY <2>1, <2>2 DEF At, DatesInv, DatesInOrder
<1>8. CASE \/ \E i \in 1..Len(page.rows) : i <= Len(yelpDataArr) /\ AddRestaurant(i)
           \/ \E i \in 1..Len(page.rows) : Invite(i)
  <2>1. page' = page /\ data'.date = data.date /\ sends' = sends
    BY <1>0, <1>8 DEF AddRestaurant, Invite, TripData, requests
  <2> QED  BY <2>1 DEF At, DatesInv, DatesInOrder
<1>9. CASE Send
  <2>1. BagToSet(sends') = BagToSet(sends) \union {NewTrip} /\ page' = page /\ data' = data
    BY <1>9, InBagAdd DEF Send, models
  <2>2. NewTrip.body.date.begin <= NewTrip.body.date.end
    BY <1>9 DEF Send, NewTrip, At, DatesInv, DatesInOrder
  <2> QED  BY <2>1, <2>2 DEF At, DatesInv, DatesInOrder
<1> QED  BY <1>1, <1>2, <1>3, <1>4, <1>5, <1>6, <1>7, <1>8, <1>9, NextSplit DEF Advances

LEMMA NextInvited ==
    ASSUME TypeInv, InvitedAreAdded, [Next]_vars
    PROVE  InvitedAreAdded'
<1>0. /\ page \in Page /\ data \in TripData /\ myFriends \in Seq(Friends)
      /\ page.rows \in Seq(Restaurants \union Friends) /\ data.Friends \in Seq(Friends)
  BY DEF TypeInv, TypeOK, Page, TripData
<1>1. CASE Leaves \/ Stays
  <2>1. ToSet(NoTrip.Friends) = {}
    BY DEF NoTrip, ToSet
  <2> QED  BY <1>1, <2>1 DEF Leaves, Stays, InvitedAreAdded
<1>2. CASE \/ \E authorized \in BOOLEAN : BeginTrip(authorized)
           \/ \E name \in Text : EditName(name)
           \/ \E place \in Places : DropPin(place)
           \/ LeaveBudget(TRUE)
           \/ \E day \in PickerDays : StartValueChanged(day) \/ EndValueChanged(day)
           \/ \E i \in 1..Len(page.rows) : i <= Len(yelpDataArr) /\ AddRestaurant(i)
  <2>1. data'.Friends = data.Friends /\ myFriends' = myFriends /\ sends' = sends
    BY <1>0, <1>2
       DEF BeginTrip, EditName, DropPin, LeaveBudget, StartValueChanged, EndValueChanged,
           AddRestaurant, requests, TripData
  <2> QED  BY <2>1 DEF InvitedAreAdded
<1>3. CASE LeaveDestination \/ LeaveDate \/ LeaveRestaurants \/ LeaveFriends
  <2>1. data' = data /\ myFriends' = myFriends /\ sends' = sends
    BY <1>3 DEF LeaveDestination, LeaveDate, LeaveRestaurants, LeaveFriends, Load, models, requests
  <2> QED  BY <2>1 DEF InvitedAreAdded
<1>4. ASSUME NEW i \in 1..Len(page.rows), Invite(i)
      PROVE  InvitedAreAdded'
  <2>1. IsPrefix(page.rows, myFriends)
    BY <1>4 DEF Invite, TypeInv, InvitesWhoIsShown
  <2>2. myFriends[i] \in Friends /\ myFriends[i] \in ToSet(myFriends)
    BY <1>0, <2>1, PrefixIndex
  <2>3. data'.Friends = Append(data.Friends, myFriends[i])
    BY <1>0, <1>4 DEF Invite, TripData
  <2>4. ToSet(data'.Friends) \subseteq ToSet(data.Friends) \union {myFriends[i]}
    BY <1>0, <2>2, <2>3, AppendSet
  <2>5. myFriends' = myFriends /\ sends' = sends
    BY <1>4 DEF Invite, requests
  <2> QED  BY <2>2, <2>4, <2>5 DEF InvitedAreAdded
<1>5. CASE Send
  <2>1. /\ BagToSet(sends') = BagToSet(sends) \union {NewTrip}
        /\ myFriends' = myFriends /\ data' = data
    BY <1>5, InBagAdd DEF Send, models
  <2>2. ToSet(NewTrip.body.Friends) \subseteq ToSet(NewTrip.usernamesToAdd)
    BY DEF NewTrip, InvitedAreAdded
  <2> QED  BY <2>1, <2>2 DEF InvitedAreAdded
<1> QED  BY <1>1, <1>2, <1>3, <1>4, <1>5, NextSplit DEF Advances

LEMMA NextSent ==
    ASSUME TypeInv, SentInv, [Next]_vars
    PROVE  SentInv'
<1>0. page \in Page /\ data \in TripData /\ trips \in Nat
      /\ \A send \in BagToSet(sends) : send.trip \in Nat
  BY PlannerBounds DEF TypeInv, TypeOK, newTrip
<1>1. CASE Leaves \/ Stays
  BY <1>1 DEF Leaves, Stays, SentInv, SendsWhatIsReviewed, At
<1>2. ASSUME NEW authorized \in BOOLEAN, BeginTrip(authorized)
      PROVE  SentInv'
  <2>1. page'.screen = "Destination" /\ trips' = trips + 1 /\ sends' = sends
    BY <1>2, PagesReached DEF BeginTrip, requests
  <2> QED  BY <1>0, <2>1 DEF SentInv, SendsWhatIsReviewed, At
<1>3. CASE \/ \E name \in Text : EditName(name)
           \/ \E place \in Places : DropPin(place)
           \/ LeaveDestination
           \/ LeaveBudget(TRUE)
           \/ \E day \in PickerDays : StartValueChanged(day) \/ EndValueChanged(day)
           \/ LeaveDate
           \/ \E i \in 1..Len(page.rows) : i <= Len(yelpDataArr) /\ AddRestaurant(i)
           \/ LeaveRestaurants
           \/ \E i \in 1..Len(page.rows) : Invite(i)
  <2>1. /\ page.screen \in {"Destination", "Budget", "Date", "Restaurants", "Friends"}
        /\ sends' = sends /\ trips' = trips
    BY <1>3
       DEF EditName, DropPin, LeaveDestination, LeaveBudget, StartValueChanged, EndValueChanged,
           LeaveDate, AddRestaurant, LeaveRestaurants, Load, Invite, models, requests, At
  <2>2. page' = page \/ page'.screen \in {"Destination", "Budget", "Date", "Restaurants", "Friends"}
    BY <1>3, PagesReached DEF DropPin, AddRestaurant, Invite
  <2> QED  BY <2>1, <2>2 DEF SentInv, SendsWhatIsReviewed, At
<1>4. CASE LeaveFriends
  <2>1. /\ page.screen = "Friends" /\ page'.screen = "Review" /\ page'.labels = Shown(data)
        /\ data' = data /\ sends' = sends /\ trips' = trips
    BY <1>4, PagesReached DEF LeaveFriends, models, requests, At
  <2> QED  BY <2>1 DEF SentInv, SendsWhatIsReviewed, At
<1>5. CASE Send
  <2>1. /\ BagToSet(sends') = BagToSet(sends) \union {NewTrip}
        /\ page' = page /\ data' = data /\ trips' = trips /\ At("Review")
    BY <1>5, InBagAdd DEF Send, models
  <2>2. NewTrip.trip = trips /\ NewTrip.body = data
    BY DEF NewTrip
  <2> QED  BY <1>0, <2>1, <2>2 DEF SentInv, SendsWhatIsReviewed, At
<1> QED  BY <1>1, <1>2, <1>3, <1>4, <1>5, NextSplit DEF Advances

LEMMA NextAdds ==
    ASSUME TypeInv, AddsWhatIsShown, [Next]_vars
    PROVE  AddsWhatIsShown'
<1>1. CASE Leaves \/ Stays
  BY <1>1 DEF Leaves, Stays, AddsWhatIsShown, At
<1>2. CASE \/ \E authorized \in BOOLEAN : BeginTrip(authorized)
           \/ \E name \in Text : EditName(name)
           \/ \E place \in Places : DropPin(place)
           \/ LeaveDestination
           \/ LeaveBudget(TRUE)
           \/ \E day \in PickerDays : StartValueChanged(day) \/ EndValueChanged(day)
           \/ LeaveRestaurants
           \/ \E i \in 1..Len(page.rows) : Invite(i)
           \/ LeaveFriends
           \/ Send
  <2>1. page'.screen # "Restaurants"
    BY <1>2, PagesReached DEF DropPin, Invite, Send, At
  <2> QED  BY <2>1 DEF AddsWhatIsShown, At
<1>3. CASE LeaveDate
  BY <1>3, PagesReached DEF LeaveDate, models, AddsWhatIsShown
<1>4. CASE \E i \in 1..Len(page.rows) : i <= Len(yelpDataArr) /\ AddRestaurant(i)
  BY <1>4 DEF AddRestaurant, AddsWhatIsShown, At
<1> QED  BY <1>1, <1>2, <1>3, <1>4, NextSplit DEF Advances

LEMMA InitInv == Init => PlaceChosen /\ DatesInv /\ InvitedAreAdded /\ SentInv /\ AddsWhatIsShown
<1> SUFFICES ASSUME Init
             PROVE  PlaceChosen /\ DatesInv /\ InvitedAreAdded /\ SentInv /\ AddsWhatIsShown
  OBVIOUS
<1>1. page.screen = "Login" /\ BagToSet(sends) = {}
  BY NewPageType, InEmptyBag DEF Init, Screens
<1>2. ToSet(data.Friends) = {}
  BY DEF Init, NoTrip, ToSet
<1> QED  BY <1>1, <1>2 DEF PlaceChosen, DatesInv, DatesInOrder, InvitedAreAdded, SentInv,
                           SendsWhatIsReviewed, AddsWhatIsShown, At

\* TripsHaveAPlace: a page that searches near the destination, or sends it, is only
\* reached with one, whatever users and trips came before.
THEOREM TripsHaveAPlace == Spec => []PlaceChosen
BY InitType, NextType, InitInv, NextPlace, PTL DEF Spec

\* TripsEndInOrder: no page after the dates is open for, and none has sent, a trip
\* that ends before it begins.
THEOREM TripsEndInOrder == Spec => []DatesInOrder
<1>1. DatesInv => DatesInOrder
  BY DEF DatesInv
<1> QED  BY <1>1, InitType, NextType, InitInv, NextDates, PTL DEF Spec

\* InvitedFriendsAdded: whoever a trip shows as invited is among the usernames it
\* is sent with, however the answers to loads of friends come in.
THEOREM InvitedFriendsAdded == Spec => []InvitedAreAdded
BY InitType, NextType, InitInv, NextInvited, PTL DEF Spec

\* ReviewedIsSent: a trip that is under way from the review page on the screen is
\* the one on its labels, and so is the one a second press would send.
THEOREM ReviewedIsSent == Spec => []SendsWhatIsReviewed
<1>1. SentInv => SendsWhatIsReviewed
  BY DEF SentInv
<1> QED  BY <1>1, InitType, NextType, InitInv, NextSent, PTL DEF Spec

\* ShownIsAdded: only an answer to an earlier page lets the restaurant page show
\* other results than its buttons add.
THEOREM ShownIsAdded == Spec => []AddsWhatIsShown
BY InitType, NextType, InitInv, NextAdds, PTL DEF Spec

=============================================================================
