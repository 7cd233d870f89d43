---------------------------- MODULE TripPlanner ----------------------------
(***************************************************************************)
(* The screens of the app that plan a trip: destination, budget, dates,    *)
(* restaurants, friends, review.  They lead forward only (the back button  *)
(* is hidden), and each writes into models that live as long as the app:   *)
(* TripData.shared, FriendsModel.shared and YelpDataModel.shared.  Nothing *)
(* empties these when a trip is sent or cancelled or a user logs out.      *)
(*                                                                         *)
(* The friend list and the restaurants come as answers from the server.    *)
(* An answer is handled on the main queue at any later time, also when     *)
(* its page has been left: it changes the shared model, and the table of   *)
(* the page that asked for it, which may not be the one on the screen.     *)
(*                                                                         *)
(* The tab bar stays visible, so that the user can leave a page for        *)
(* another tab and come back, or log out, at any time.                     *)
(***************************************************************************)
EXTENDS Integers, FiniteSetsExt, SequencesExt, BagsExt

CONSTANTS Users,          \* usernames that log in on this device
          Friends,        \* usernames that friendlist answers with
          FriendsOf,      \* friendlist: the friends of each user, in order
          Places,         \* placemarks of the map search
          TripNames,      \* nonempty names for a trip
          Restaurants,    \* restaurants that Yelp knows
          Results,        \* the lists of restaurants a search can return
          PickerDays,     \* days the user may choose, as days from today
          LabelRows,      \* rows of the labels of the review page (5)
          NULL,           \* no user, no place, empty text
          MaxTrips,       \* bound: trips begun in a behaviour
          MaxSearches,    \* bounds: requests of each kind under way
          MaxLoads,
          MaxSends,
          MaxLoaded,      \* bound: friends loaded before a page reappears
          MaxChoices      \* bound: restaurants, and invitations, chosen

ASSUME PlannerNull == NULL \notin Users \union Places \union TripNames
ASSUME AnswerAssumption == /\ FriendsOf \in [Users -> Seq(Friends)]
                           /\ Results \subseteq Seq(Restaurants)
                           /\ PickerDays \subseteq Nat
ASSUME PlannerBounds ==
    {LabelRows, MaxTrips, MaxSearches, MaxLoads, MaxSends, MaxLoaded,
     MaxChoices} \subseteq Nat

VARIABLES LoggedInUser,   \* the global of LoginController.swift
          page,           \* the controller on the screen, and what it shows
          trips,          \* trips begun so far: numbers the pages of each
          data,           \* TripData.shared
          myFriends,      \* FriendsModel.shared.myFriends
          yelpDataArr,    \* YelpDataModel.shared.yelpDataArr
          loads,          \* bag of friendlist requests under way
          searches,       \* bag of YelpApiCall requests under way
          sends           \* bag of NewTripWithRestaurants requests under way

models   == <<data, myFriends, yelpDataArr>>
requests == <<loads, searches, sends>>
vars     == <<LoggedInUser, page, trips, models, requests>>

Screens == {"Login", "TripList", "Destination", "Budget", "Date",
            "Restaurants", "Friends", "Review"}

Text == TripNames \union {NULL}

Days == [begin : Nat, end : Nat]

\* lat and long are set together: they are one place.
TripData == [place       : Places \union {NULL},
             cityName    : Text,
             date        : Days,
             Restaurants : Seq(Restaurants),
             Friends     : Seq(Friends)]

\* What a page holds, each field on the page that has it: the text field of the
\* destination, the pickers of the dates, the rows of a table, and the labels of
\* the review.  `late` is history: another page's answer came to this page.
Page == [screen    : Screens,
         nameField : Text,
         picker    : Days,
         rows      : Seq(Restaurants \union Friends),
         late      : BOOLEAN,
         labels    : TripData]

\* The body of NewTripWithRestaurants, and the page that waits for the answer.
newTrip == [trip           : Nat,
            userName       : Users,
            body           : TripData,
            usernamesToAdd : Seq(Friends)]

Today == [begin |-> 0, end |-> 0]

NoTrip == [place |-> NULL, cityName |-> NULL, date |-> Today,
           Restaurants |-> <<>>, Friends |-> <<>>]

NewPage(screen) == [screen |-> screen, nameField |-> NULL, picker |-> Today,
                    rows |-> <<>>, late |-> FALSE, labels |-> NoTrip]

At(screen) == page.screen = screen

Init == /\ LoggedInUser = NULL
        /\ page = NewPage("Login")
        /\ trips = 0
        /\ data = NoTrip
        /\ myFriends = <<>>
        /\ yelpDataArr = <<>>
        /\ loads = EmptyBag
        /\ searches = EmptyBag
        /\ sends = EmptyBag

\* A runtime error kills the app.  Started again, it has forgotten everything.
Crash == /\ LoggedInUser' = NULL
         /\ page' = NewPage("Login")
         /\ data' = NoTrip
         /\ myFriends' = <<>>
         /\ yelpDataArr' = <<>>
         /\ loads' = EmptyBag
         /\ searches' = EmptyBag
         /\ sends' = EmptyBag
         /\ UNCHANGED trips

-----------------------------------------------------------------------------
(* Account *)

\* The answer "login success".
Login(u) ==
    /\ At("Login")
    /\ LoggedInUser' = u
    /\ page' = NewPage("TripList")
    /\ UNCHANGED <<trips, models, requests>>

\* Mutant: the page stays on the screen.
LogoutStays ==
    /\ ~At("Login")
    /\ LoggedInUser' = NULL
    /\ UNCHANGED <<page, trips, models, requests>>

Logout ==
    /\ ~At("Login")
    /\ LoggedInUser' = NULL
    /\ page' = NewPage("Login")
    /\ UNCHANGED <<trips, models, requests>>

\* A tap on the tab of the trips leaves whatever page is open there.
PopToRoot ==
    /\ page.screen \notin {"Login", "TripList"}
    /\ page' = NewPage("TripList")
    /\ UNCHANGED <<LoggedInUser, trips, models, requests>>

-----------------------------------------------------------------------------
(* Destination, budget and dates *)

\* viewDidLoad empties the results only if the app may use the location.
BeginTrip(authorized) ==
    /\ At("TripList")
    /\ trips < MaxTrips
    /\ trips' = trips + 1
    /\ page' = NewPage("Destination")
    /\ yelpDataArr' = IF authorized THEN <<>> ELSE yelpDataArr
    /\ UNCHANGED <<LoggedInUser, data, myFriends, requests>>

\* nameDidChange is connected to editingDidBegin: it stores the text as it was
\* before the user edits it.
EditName(name) ==
    /\ At("Destination")
    /\ data' = [data EXCEPT !.cityName = page.nameField]
    /\ page' = [page EXCEPT !.nameField = name]
    /\ UNCHANGED <<LoggedInUser, trips, myFriends, yelpDataArr, requests>>

DropPin(place) ==
    /\ At("Destination")
    /\ data' = [data EXCEPT !.place = place]
    /\ UNCHANGED <<LoggedInUser, page, trips, myFriends, yelpDataArr, requests>>

\* Mutant: the name is checked, the destination is not.
LeaveDestinationNamed ==
    /\ At("Destination")
    /\ data.cityName # NULL
    /\ page' = NewPage("Budget")
    /\ UNCHANGED <<LoggedInUser, trips, models, requests>>

LeaveDestination ==
    /\ At("Destination")
    /\ data.place # NULL
    /\ data.cityName # NULL
    /\ page' = NewPage("Budget")
    /\ UNCHANGED <<LoggedInUser, trips, models, requests>>

\* Double(number)! fails for a text like "1.2.3"; else the date page opens,
\* with tomorrow and a week from tomorrow.
LeaveBudget(isNumber) ==
    /\ At("Budget")
    /\ IF isNumber
       THEN /\ data' = [data EXCEPT !.date = [begin |-> 1, end |-> 8]]
            /\ page' = [NewPage("Date") EXCEPT !.picker = [begin |-> 1, end |-> 8]]
            /\ UNCHANGED <<LoggedInUser, trips, myFriends, yelpDataArr, requests>>
       ELSE Crash

StartValueChanged(day) ==
    /\ At("Date")
    /\ page' = [page EXCEPT !.picker.begin = day]
    /\ data' = [data EXCEPT !.date.begin = day]
    /\ UNCHANGED <<LoggedInUser, trips, myFriends, yelpDataArr, requests>>

EndValueChanged(day) ==
    /\ At("Date")
    /\ page' = [page EXCEPT !.picker.end = day]
    /\ data' = [data EXCEPT !.date.end = day]
    /\ UNCHANGED <<LoggedInUser, trips, myFriends, yelpDataArr, requests>>

\* Mutant: the pickers are not compared.
LeaveDateUnchecked ==
    /\ At("Date")
    /\ page' = [NewPage("Restaurants") EXCEPT !.rows = yelpDataArr]
    /\ UNCHANGED <<LoggedInUser, trips, models, requests>>

\* The restaurant page opens with whatever results the model holds.  The pickers
\* are compared as instants, here by days: the code also rejects an end that is
\* earlier on the day of the beginning.
LeaveDate ==
    /\ At("Date")
    /\ ~(page.picker.begin > page.picker.end)
    /\ page' = [NewPage("Restaurants") EXCEPT !.rows = yelpDataArr]
    /\ UNCHANGED <<LoggedInUser, trips, models, requests>>

-----------------------------------------------------------------------------
(* Restaurants *)

Search ==
    /\ At("Restaurants")
    /\ BagCardinality(searches) < MaxSearches
    /\ searches' = BagAdd(searches, trips)
    /\ UNCHANGED <<LoggedInUser, page, trips, models, loads, sends>>

\* Mutant: the model is filled by the session's thread, the table only if the
\* answer is not empty.
SearchAnswerNonempty(trip, result) ==
    /\ searches' = BagRemove(searches, trip)
    /\ yelpDataArr' = result
    /\ page' = IF At("Restaurants") /\ trip = trips /\ result # <<>>
               THEN [page EXCEPT !.rows = result]
               ELSE IF At("Restaurants") /\ trip # trips
               THEN [page EXCEPT !.late = TRUE]
               ELSE page
    /\ UNCHANGED <<LoggedInUser, trips, data, myFriends, loads, sends>>

\* The closure sets the model and reloads the table of the page that searched.
SearchAnswer(trip, result) ==
    /\ searches' = BagRemove(searches, trip)
    /\ yelpDataArr' = result
    /\ page' = IF ~At("Restaurants") THEN page
               ELSE IF trip = trips THEN [page EXCEPT !.rows = result]
                                    ELSE [page EXCEPT !.late = TRUE]
    /\ UNCHANGED <<LoggedInUser, trips, data, myFriends, loads, sends>>

\* Yelp found nothing: the answer is empty, and jsonArr[0] is out of range.
SearchFindsNothing(trip) == Crash

SearchLost(trip) ==
    /\ searches' = BagRemove(searches, trip)
    /\ UNCHANGED <<LoggedInUser, page, trips, models, loads, sends>>

\* The button of row i adds the i-th result of the model, which need not be the
\* one the row shows, nor exist.
AddRestaurant(i) ==
    /\ At("Restaurants")
    /\ Len(data.Restaurants) < MaxChoices
    /\ IF i <= Len(yelpDataArr)
       THEN /\ data' = [data EXCEPT !.Restaurants = Append(@, yelpDataArr[i])]
            /\ UNCHANGED <<LoggedInUser, page, trips, myFriends, yelpDataArr, requests>>
       ELSE Crash

-----------------------------------------------------------------------------
(* Friends *)

\* viewWillAppear, when the page opens and when the user comes back to its tab.
Load == /\ BagCardinality(loads) < MaxLoads
        /\ loads' = BagAdd(loads, [trip |-> trips, user |-> LoggedInUser])
        /\ UNCHANGED <<LoggedInUser, trips, data, yelpDataArr, searches, sends>>

LeaveRestaurants ==
    /\ At("Restaurants")
    /\ page' = [NewPage("Friends") EXCEPT !.rows = myFriends]
    /\ UNCHANGED myFriends
    /\ Load

\* Mutant: the list is emptied before it is loaded again.
ReappearCleared ==
    /\ At("Friends")
    /\ Len(myFriends) < MaxLoaded
    /\ myFriends' = <<>>
    /\ UNCHANGED page
    /\ Load

Reappear ==
    /\ At("Friends")
    /\ Len(myFriends) < MaxLoaded
    /\ UNCHANGED <<page, myFriends>>
    /\ Load

\* Mutant: the closure replaces the friends of earlier answers.
LoadAnswerReplaces(load) ==
    /\ loads' = BagRemove(loads, load)
    /\ myFriends' = FriendsOf[load.user]
    /\ page' = IF At("Friends") /\ load.trip = trips
               THEN [page EXCEPT !.rows = myFriends']
               ELSE page
    /\ UNCHANGED <<LoggedInUser, trips, data, yelpDataArr, searches, sends>>

\* The closure appends all friends to those of earlier answers, and reloads the
\* table of the page that asked.
LoadAnswer(load) ==
    /\ loads' = BagRemove(loads, load)
    /\ myFriends' = myFriends \o FriendsOf[load.user]
    /\ page' = IF At("Friends") /\ load.trip = trips
               THEN [page EXCEPT !.rows = myFriends']
               ELSE page
    /\ UNCHANGED <<LoggedInUser, trips, data, yelpDataArr, searches, sends>>

LoadLost(load) ==
    /\ loads' = BagRemove(loads, load)
    /\ UNCHANGED <<LoggedInUser, page, trips, models, searches, sends>>

Invite(i) ==
    /\ At("Friends")
    /\ Len(data.Friends) < MaxChoices
    /\ data' = [data EXCEPT !.Friends = Append(@, myFriends[i])]
    /\ UNCHANGED <<LoggedInUser, page, trips, myFriends, yelpDataArr, requests>>

-----------------------------------------------------------------------------
(* Review *)

FirstRows(s) == SubSeq(s, 1, IF Len(s) < LabelRows THEN Len(s) ELSE LabelRows)

\* What the labels of the review page show of a trip.
Shown(trip) == [trip EXCEPT !.Restaurants = FirstRows(@), !.Friends = FirstRows(@)]

LeaveFriends ==
    /\ At("Friends")
    /\ page' = [NewPage("Review") EXCEPT !.labels = Shown(data)]
    /\ UNCHANGED <<LoggedInUser, trips, models, requests>>

NewTrip == [trip |-> trips, userName |-> LoggedInUser, body |-> data,
            usernamesToAdd |-> myFriends]

\* Mutant: the model is emptied as soon as a trip is sent.
SendAndForget ==
    /\ At("Review")
    /\ BagCardinality(sends) < MaxSends
    /\ sends' = BagAdd(sends, NewTrip)
    /\ data' = [data EXCEPT !.Restaurants = <<>>, !.Friends = <<>>]
    /\ UNCHANGED <<LoggedInUser, page, trips, myFriends, yelpDataArr, loads, searches>>

\* The page stays until the answer comes, and its button stays enabled.  Every
\* friend that was loaded is added to the trip, invited or not.
Send ==
    /\ At("Review")
    /\ BagCardinality(sends) < MaxSends
    /\ sends' = BagAdd(sends, NewTrip)
    /\ UNCHANGED <<LoggedInUser, page, trips, models, loads, searches>>

SendAnswer(send) ==
    /\ sends' = BagRemove(sends, send)
    /\ page' = IF At("Review") /\ send.trip = trips THEN NewPage("TripList") ELSE page
    /\ UNCHANGED <<LoggedInUser, trips, models, loads, searches>>

SendLost(send) ==
    /\ sends' = BagRemove(sends, send)
    /\ UNCHANGED <<LoggedInUser, page, trips, models, loads, searches>>

Cancel ==
    /\ At("Review")
    /\ page' = NewPage("TripList")
    /\ UNCHANGED <<LoggedInUser, trips, models, requests>>

-----------------------------------------------------------------------------

User == \/ \E u \in Users : Login(u)
        \/ Logout
        \/ PopToRoot
        \/ \E authorized \in BOOLEAN : BeginTrip(authorized)
        \/ \E name \in Text : EditName(name)
        \/ \E place \in Places : DropPin(place)
        \/ LeaveDestination
        \/ \E isNumber \in BOOLEAN : LeaveBudget(isNumber)
        \/ \E day \in PickerDays : StartValueChanged(day) \/ EndValueChanged(day)
        \/ LeaveDate
        \/ Search
        \/ \E i \in 1..Len(page.rows) : AddRestaurant(i) \/ Invite(i)
        \/ LeaveRestaurants
        \/ Reappear
        \/ LeaveFriends
        \/ Send
        \/ Cancel

Answer == \/ \E trip \in BagToSet(searches) :
                \/ \E result \in Results : SearchAnswer(trip, result)
                \/ SearchFindsNothing(trip)
                \/ SearchLost(trip)
          \/ \E load \in BagToSet(loads) : LoadAnswer(load) \/ LoadLost(load)
          \/ \E send \in BagToSet(sends) : SendAnswer(send) \/ SendLost(send)

Next == User \/ Answer

Spec == Init /\ [][Next]_vars

-----------------------------------------------------------------------------
(* Properties *)

\* TypeOK: the models, the page and the requests keep their types.
TypeOK ==
    /\ LoggedInUser \in Users \union {NULL}
    /\ page \in Page
    /\ trips \in 0..MaxTrips
    /\ data \in TripData
    /\ myFriends \in Seq(Friends)
    /\ yelpDataArr \in Seq(Restaurants)
    /\ BagToSet(loads) \subseteq [trip : 1..trips, user : Users]
    /\ BagToSet(searches) \subseteq 1..trips
    /\ BagToSet(sends) \subseteq newTrip

\* PlaceChosen: a page that searches near data.lat! and data.long!, or sends them
\* (YelpDataModel.swift 47, ReveiwTripViewController.swift 139), is reached only
\* with a destination, even though the model outlives pages, users and trips.
PlaceChosen ==
    page.screen \in {"Budget", "Date", "Restaurants", "Friends", "Review"} =>
        data.place # NULL /\ data.cityName # NULL

\* DatesInOrder: no page after the dates is open for, and none has sent, a trip
\* that ends before it begins, however often the pickers were moved and left:
\* the page compares the pickers, the later ones use the model
\* (DateViewController.swift 45-75, ReveiwTripViewController.swift 120-143).
DatesInOrder ==
    /\ page.screen \in {"Restaurants", "Friends", "Review"} => data.date.begin <= data.date.end
    /\ \A send \in BagToSet(sends) : send.body.date.begin <= send.body.date.end

\* InvitesWhoIsShown: whatever answers come while the friend page is open, also
\* those of earlier pages and other users, its button adds the friend whose row it
\* is in (FriendTableViewCell.swift 28): rows of the model never move.
InvitesWhoIsShown == At("Friends") => IsPrefix(page.rows, myFriends)

\* InvitedAreAdded: every friend a review page shows as invited is among the
\* usernames the trip is sent with, although the two come from different models
\* (ReveiwTripViewController.swift 51-58, 130-139).
InvitedAreAdded ==
    /\ ToSet(data.Friends) \subseteq ToSet(myFriends)
    /\ \A send \in BagToSet(sends) :
           ToSet(send.body.Friends) \subseteq ToSet(send.usernamesToAdd)

\* AddsWhatIsShown: overlapping searches of one page never let its table show
\* other results than those its buttons add.  It takes an answer to a page of an
\* earlier trip to do so (RestaurantTableViewController.swift 94-97).
AddsWhatIsShown == At("Restaurants") /\ ~page.late => page.rows = yelpDataArr

\* SendsWhatIsReviewed: while the review page waits for the answer, the trip it
\* has sent is the one on its labels, and so is the one that a second press of
\* Send would send (ReveiwTripViewController.swift 41-63, 120-171).
SendsWhatIsReviewed ==
    At("Review") =>
        /\ Shown(data) = page.labels
        /\ \A send \in BagToSet(sends) :
               send.trip = trips => Shown(send.body) = page.labels

=============================================================================
