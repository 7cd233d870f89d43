---------------------------- MODULE TripListing ----------------------------
(***************************************************************************)
(* The servlets of Backend/src/Trip that read the database: userCheck,     *)
(* GetPendingTripsInfo and GetHistoryTripsInfo.  They differ in the column *)
(* only.  One statement reads the column, one more each trip in it, and    *)
(* one more each restaurant of the trip.  Rows of Trip and Restaurant are  *)
(* never changed or deleted, so the later statements find every row that   *)
(* was there when the column was read: an answer is taken to be a function *)
(* of the tables at that moment.                                           *)
(***************************************************************************)
EXTENDS Trips

\* NULL, which stands for JSON's null as well, is no number and no entry.
ASSUME AnswerAssumption ==
    NULL \notin Nat \union [tripId : Nat, restaurants : Seq(Nat \union {NULL})]

\* The answer of a request for a column that is NULL; it is no JSON.
NoTrips == "trip doesn't exist"

\* What a request finds of a trip: its number and, for each restaurant in its
\* row, the restaurant's number, or NULL if there is no such row.  A row without
\* restaurants is searched for one, whose number is the empty text.
Entry(id) ==
    LET restaurantIds == Trip[id].rest
    IN  [tripId      |-> id,
         restaurants |-> IF restaurantIds = <<>> THEN <<NULL>>
                         ELSE [j \in DOMAIN restaurantIds |->
                                  IF restaurantIds[j] \in 1..Restaurant
                                  THEN restaurantIds[j] ELSE NULL]]

\* One entry for each number in the column, NULL where no trip has it.  An empty
\* text is searched for one trip as well: `trips == ""` compares references, and
\* holds only for the text that a NULL was replaced by.
Listing(column) ==
    IF column = NULL THEN NoTrips
    ELSE IF column.ids = <<>> THEN <<NULL>>
    ELSE [i \in DOMAIN column.ids |->
             IF TripExists(column.ids[i]) THEN Entry(column.ids[i]) ELSE NULL]

userCheck(username)           == Listing(User[username]["current_trip"])
GetPendingTripsInfo(username) == Listing(User[username]["pending_trip"])
GetHistoryTripsInfo(username) == Listing(User[username]["history_trip"])

-----------------------------------------------------------------------------
(* Properties *)

\* Whether every number of the column is answered by its trip, and every
\* restaurant in that trip's row by its own.
Complete(answer, column) ==
    column # NULL =>
        \A i \in DOMAIN column.ids :
            /\ answer[i] # NULL
            /\ answer[i].tripId = column.ids[i]
            /\ LET rest == Trip[column.ids[i]].rest
               IN  rest # <<>> => answer[i].restaurants = rest

\* ListingsComplete: as long as nobody calls deleteTrip, a listing finds every trip
\* in the column and every restaurant in the trip's row, in their order, whatever
\* requests overlapped or failed when they were written.  One null instead of a
\* trip, and the app, whose Trip is not optional, rejects the whole answer
\* (userCheck.java 97-147, TripDataModel.swift 91); one instead of a restaurant,
\* and the page of the trip stops at it (FoodListTableViewController.swift 43);
\* one number without a trip, and UpdateTripStatus stops at it.  Only a trip
\* that was created without restaurants is answered with one that is null.
ListingsComplete ==
    \A u \in Users :
        /\ Complete(userCheck(u), User[u]["current_trip"])
        /\ Complete(GetPendingTripsInfo(u), User[u]["pending_trip"])
        /\ Complete(GetHistoryTripsInfo(u), User[u]["history_trip"])

=============================================================================
