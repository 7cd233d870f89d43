------------------------------- MODULE Trips -------------------------------
(***************************************************************************)
(* The servlets of Backend/src/Trip that write the database: NewTrip,      *)
(* NewTripWithRestaurants, deleteTrip and UpdateTripStatus.  Tomcat runs   *)
(* each request in a thread; the thread opens its own MySQL connection in  *)
(* autocommit mode and sends one statement after another, so every         *)
(* statement is an atomic step and other threads run between two of them.  *)
(* Nothing is kept in the server between requests.                         *)
(*                                                                         *)
(* There is one action per statement (or loop iteration) of a servlet.     *)
(* Fail is the SQLException that any statement can raise, or the crash of  *)
(* the server: the request ends and keeps what it wrote so far.            *)
(*                                                                         *)
(* One thread models requests handled one after another.                   *)
(***************************************************************************)
EXTENDS TripLists

CONSTANTS Users,            \* usernames with a row in User
          Threads,          \* Tomcat's worker threads
          Kinds,            \* the servlets that clients call
          Recipients,       \* values of usernamesToAdd, as sequences of users
          TripDates,        \* <<date_Begin, date_End>> a client may send
          MaxRestaurants,   \* bound: restaurants sent with one trip
          MaxRequests,      \* bound: requests in a behaviour
          LastDay,          \* bound: the calendar stops on this day
          MayFail           \* whether statements may raise SQLException

Servlets == {"NewTrip", "NewTripWithRestaurants", "deleteTrip", "UpdateTripStatus"}

ASSUME RequestAssumption == /\ Kinds \subseteq Servlets
                            /\ Recipients \subseteq Seq(Users)
                            /\ TripDates \subseteq Nat \X Nat
ASSUME BoundAssumption == /\ MaxRestaurants \in Nat
                          /\ MaxRequests \in Nat
                          /\ LastDay \in Nat
                          /\ MayFail \in BOOLEAN

VARIABLES User,         \* table User: the three trip columns of each row
          Trip,         \* table Trip: TripID k is the k-th row inserted
          Restaurant,   \* number of rows of table Restaurant, its MAX id
          today,        \* Calendar.getInstance(), in days
          job,          \* what each thread is doing
          requests,     \* number of requests accepted so far (for the bound)
          failed        \* history: whether a request has failed so far

vars == <<User, Trip, Restaurant, today, job, requests, failed>>

-----------------------------------------------------------------------------
(* The state of a thread: the next statement and the servlet's locals.     *)

CreationSteps == {"insertRestaurant", "maxRestaurant", "insertTrip", "maxTrip",
                  "selectUser", "updateUser"}
DeletionSteps == {"selectTrips", "updateTrips"}
StatusSteps   == {"selectSource", "selectDates", "classify", "updateSource",
                  "selectTarget", "updateTarget"}
Steps == {"idle"} \union CreationSteps \union DeletionSteps \union StatusSteps

Phases == 1..3

Job == [pc     : Steps,
        to     : Seq(Users),    \* usernames whose row is still to be changed
        begin  : Nat,           \* date_Begin, date_End
        end    : Nat,
        rest   : Nat,           \* number of restaurants in the request
        rID    : Seq(Nat),      \* restaurant ids found so far
        tripID : Nat,
        trips  : Text,          \* the column read last
        phase  : Phases,        \* which of the three blocks of UpdateTripStatus
        ids    : Seq(Nat),      \* trips still to be classified in this block
        keep   : Seq(Nat),      \* keepInPending, keepInCurrent
        move   : Seq(Nat),      \* moveToCurrent, moveToPending, moveToHistroy
        own    : Nat,           \* history: the row this request inserted
        start  : Nat]           \* history: the day the request arrived

Idle == [pc |-> "idle", to |-> <<>>, begin |-> 0, end |-> 0, rest |-> 0,
         rID |-> <<>>, tripID |-> 0, trips |-> Empty, phase |-> 1, ids |-> <<>>,
         keep |-> <<>>, move |-> <<>>, own |-> 0, start |-> 0]

\* A row of Trip: its dates and its Restaurants column.  `to` is history: the
\* users the creating request named, in the order their rows are changed.
TripRow == [begin : Nat, end : Nat, rest : Seq(Nat), to : Seq(Users)]

\* The user whose row the thread is working on.
Target(t) == Head(job[t].to)

TripExists(id) == id \in 1..Len(Trip)

Init == /\ User = [u \in Users |-> [c \in Columns |-> NULL]]
        /\ Trip = <<>>
        /\ Restaurant = 0
        /\ today = 0
        /\ job = [t \in Threads |-> Idle]
        /\ requests = 0
        /\ failed = FALSE

-----------------------------------------------------------------------------
(* A request arrives: the body is parsed into the servlet's locals.        *)

Accept(t, kind, request) ==
    /\ kind \in Kinds
    /\ job[t].pc = "idle"
    /\ requests < MaxRequests
    /\ requests' = requests + 1
    /\ job' = [job EXCEPT ![t] = request]
    /\ UNCHANGED <<User, Trip, Restaurant, today, failed>>

NewTrip(t, userName, usernamesToAdd, dates) ==
    Accept(t, "NewTrip",
           [Idle EXCEPT !.pc = "insertTrip",
                        !.to = Append(usernamesToAdd, userName),
                        !.begin = dates[1],
                        !.end = dates[2]])

\* restaurants counts those whose six fields are all filled in: the parser
\* drops the others.
NewTripWithRestaurants(t, userName, usernamesToAdd, dates, restaurants) ==
    Accept(t, "NewTripWithRestaurants",
           [Idle EXCEPT !.pc = IF restaurants = 0 THEN "insertTrip"
                                                  ELSE "insertRestaurant",
                        !.to = Append(usernamesToAdd, userName),
                        !.begin = dates[1],
                        !.end = dates[2],
                        !.rest = restaurants])

DeleteTrip(t, username, id) ==
    Accept(t, "deleteTrip",
           [Idle EXCEPT !.pc = "selectTrips", !.to = <<username>>, !.tripID = id])

UpdateTripStatus(t, username) ==
    Accept(t, "UpdateTripStatus",
           [Idle EXCEPT !.pc = "selectSource", !.to = <<username>>, !.start = today])

-----------------------------------------------------------------------------
(* NewTrip and NewTripWithRestaurants                                      *)

\* Mutant: INSERT IGNORE, so that a known restaurant gets no new row.
InsertRestaurantOnce(t) ==
    /\ job[t].pc = "insertRestaurant"
    /\ Restaurant' = 1
    /\ job' = [job EXCEPT ![t].pc = "maxRestaurant"]
    /\ UNCHANGED <<User, Trip, today, requests, failed>>

\* Mutant: SELECT MAX(idRestaurant) comes before the INSERT.
InsertRestaurantAfterMax(t) ==
    /\ job[t].pc = "insertRestaurant"
    /\ Restaurant' = Restaurant + 1
    /\ LET rID == Append(job[t].rID, Restaurant)
       IN  job' = [job EXCEPT ![t].rID = rID,
                              ![t].pc = IF Len(rID) < job[t].rest
                                        THEN "insertRestaurant"
                                        ELSE "insertTrip"]
    /\ UNCHANGED <<User, Trip, today, requests, failed>>

InsertRestaurant(t) ==
    /\ job[t].pc = "insertRestaurant"
    /\ Restaurant' = Restaurant + 1
    /\ job' = [job EXCEPT ![t].pc = "maxRestaurant"]
    /\ UNCHANGED <<User, Trip, today, requests, failed>>

MaxRestaurant(t) ==
    /\ job[t].pc = "maxRestaurant"
    /\ LET rID == Append(job[t].rID, Restaurant)
       IN  job' = [job EXCEPT ![t].rID = rID,
                              ![t].pc = IF Len(rID) < job[t].rest
                                        THEN "insertRestaurant"
                                        ELSE "insertTrip"]
    /\ UNCHANGED <<User, Trip, Restaurant, today, requests, failed>>

\* Mutant: SELECT MAX(TripID) comes before the INSERT.
InsertTripAfterMax(t) ==
    /\ job[t].pc = "insertTrip"
    /\ Trip' = Append(Trip, [begin |-> job[t].begin, end |-> job[t].end,
                             rest |-> job[t].rID, to |-> job[t].to])
    /\ job' = [job EXCEPT ![t].pc = "selectUser", ![t].own = Len(Trip) + 1,
                          ![t].tripID = Len(Trip)]
    /\ UNCHANGED <<User, Restaurant, today, requests, failed>>

InsertTrip(t) ==
    /\ job[t].pc = "insertTrip"
    /\ Trip' = Append(Trip, [begin |-> job[t].begin, end |-> job[t].end,
                             rest |-> job[t].rID, to |-> job[t].to])
    /\ job' = [job EXCEPT ![t].pc = "maxTrip", ![t].own = Len(Trip) + 1]
    /\ UNCHANGED <<User, Restaurant, today, requests, failed>>

MaxTrip(t) ==
    /\ job[t].pc = "maxTrip"
    /\ job' = [job EXCEPT ![t].pc = "selectUser", ![t].tripID = Len(Trip)]
    /\ UNCHANGED <<User, Trip, Restaurant, today, requests, failed>>

SelectUser(t) ==
    /\ job[t].pc = "selectUser"
    /\ job' = [job EXCEPT ![t].pc = "updateUser",
                          ![t].trips = TextOf(User[Target(t)]["current_trip"])]
    /\ UNCHANGED <<User, Trip, Restaurant, today, requests, failed>>

\* Adds the trip to the row of the next username; the owner's row is last.
UpdateUser(t) ==
    /\ job[t].pc = "updateUser"
    /\ User' = [User EXCEPT ![Target(t)]["current_trip"] =
                                AddIds(job[t].trips, <<job[t].tripID>>)]
    /\ job' = [job EXCEPT ![t] = IF Len(job[t].to) = 1
                                 THEN Idle
                                 ELSE [@ EXCEPT !.pc = "selectUser",
                                                !.to = Tail(job[t].to),
                                                !.trips = Empty]]
    /\ UNCHANGED <<Trip, Restaurant, today, requests, failed>>

-----------------------------------------------------------------------------
(* deleteTrip                                                              *)

\* A NULL column is a NullPointerException, and a list without the trip is
\* answered "User doesn't match with trip": both end the request.
SelectTrips(t) ==
    /\ job[t].pc = "selectTrips"
    /\ LET trips == User[Target(t)]["current_trip"]
       IN  job' = [job EXCEPT ![t] = IF job[t].tripID \in IdsIn(trips)
                                     THEN [@ EXCEPT !.pc = "updateTrips",
                                                    !.trips = TextOf(trips)]
                                     ELSE Idle]
    /\ UNCHANGED <<User, Trip, Restaurant, today, requests, failed>>

UpdateTrips(t) ==
    /\ job[t].pc = "updateTrips"
    /\ User' = [User EXCEPT ![Target(t)]["current_trip"] =
                                RemoveId(job[t].trips, job[t].tripID)]
    /\ job' = [job EXCEPT ![t] = Idle]
    /\ UNCHANGED <<Trip, Restaurant, today, requests, failed>>

-----------------------------------------------------------------------------
(* UpdateTripStatus: three blocks of the same shape.                       *)

Source(phase) == IF phase = 1 THEN "pending_trip" ELSE "current_trip"

Destination(phase) ==
    IF phase = 1 THEN "current_trip"
    ELSE IF phase = 2 THEN "pending_trip" ELSE "history_trip"

\* Mutant: a trip that ends today is already history.
MovesOnLastDay(phase, row) ==
    \/ phase = 1 /\ row.begin < today
    \/ phase = 2 /\ row.begin > today
    \/ phase = 3 /\ row.end <= today

\* Mutant: the third block selects Date_Begin, like the second.
MovesByBegin(phase, row) ==
    \/ phase = 1 /\ row.begin < today
    \/ phase = 2 /\ row.begin > today
    \/ phase = 3 /\ row.begin < today

\* Whether block `phase` moves this trip out of its source column today.
Moves(phase, row) ==
    \/ phase = 1 /\ row.begin < today
    \/ phase = 2 /\ row.begin > today
    \/ phase = 3 /\ row.end < today

\* Mutant: nothing stops the thread after the third block.
NextBlockUnbounded(j) ==
    [Idle EXCEPT !.pc = "selectSource", !.to = j.to,
                 !.phase = j.phase + 1, !.start = j.start]

\* The thread goes on with the next block, and ends after the third.
NextBlock(j) ==
    IF j.phase = 3
    THEN Idle
    ELSE [Idle EXCEPT !.pc = "selectSource", !.to = j.to,
                      !.phase = j.phase + 1, !.start = j.start]

SelectSource(t) ==
    /\ job[t].pc = "selectSource"
    /\ LET trips == TextOf(User[Target(t)][Source(job[t].phase)])
       IN  job' = [job EXCEPT ![t] = IF trips.ids = <<>>
                                     THEN NextBlock(@)
                                     ELSE [@ EXCEPT !.pc = "selectDates",
                                                    !.ids = trips.ids]]
    /\ UNCHANGED <<User, Trip, Restaurant, today, requests, failed>>

\* Reads the date of every listed trip.  Rows of Trip never change, so the
\* reads are one step; a number that is no TripID is an SQLException ("Illegal
\* operation on empty result set"), which ends the request.
SelectDates(t) ==
    /\ job[t].pc = "selectDates"
    /\ job' = [job EXCEPT ![t] = IF \A i \in 1..Len(job[t].ids) :
                                        TripExists(job[t].ids[i])
                                 THEN [@ EXCEPT !.pc = "classify"]
                                 ELSE Idle]
    /\ UNCHANGED <<User, Trip, Restaurant, today, requests, failed>>

\* One iteration of the loop: it asks for the current date again each time.
Classify(t) ==
    /\ job[t].pc = "classify"
    /\ LET id == Head(job[t].ids)
           classified == IF Moves(job[t].phase, Trip[id])
                         THEN [job[t] EXCEPT !.move = Append(@, id)]
                         ELSE [job[t] EXCEPT !.keep = Append(@, id)]
       IN  job' = [job EXCEPT ![t] =
                    [classified EXCEPT !.ids = Tail(job[t].ids),
                                       !.pc = IF Len(job[t].ids) = 1
                                              THEN "updateSource"
                                              ELSE "classify"]]
    /\ UNCHANGED <<User, Trip, Restaurant, today, requests, failed>>

\* Mutant: the source column is rewritten only if some trip stays in it.
UpdateSourceIfKept(t) ==
    /\ job[t].pc = "updateSource"
    /\ User' = IF job[t].keep = <<>>
               THEN User
               ELSE [User EXCEPT ![Target(t)][Source(job[t].phase)] =
                                     ListOf(job[t].keep)]
    /\ job' = [job EXCEPT ![t].pc = "selectTarget", ![t].keep = <<>>]
    /\ UNCHANGED <<Trip, Restaurant, today, requests, failed>>

UpdateSource(t) ==
    /\ job[t].pc = "updateSource"
    /\ User' = [User EXCEPT ![Target(t)][Source(job[t].phase)] = ListOf(job[t].keep)]
    /\ job' = [job EXCEPT ![t].pc = "selectTarget", ![t].keep = <<>>]
    /\ UNCHANGED <<Trip, Restaurant, today, requests, failed>>

SelectTarget(t) ==
    /\ job[t].pc = "selectTarget"
    /\ job' = [job EXCEPT ![t].pc = "updateTarget",
                          ![t].trips = TextOf(User[Target(t)][Destination(job[t].phase)])]
    /\ UNCHANGED <<User, Trip, Restaurant, today, requests, failed>>

UpdateTarget(t) ==
    /\ job[t].pc = "updateTarget"
    /\ User' = [User EXCEPT ![Target(t)][Destination(job[t].phase)] =
                                AddIds(job[t].trips, job[t].move)]
    /\ job' = [job EXCEPT ![t] = NextBlock(@)]
    /\ UNCHANGED <<Trip, Restaurant, today, requests, failed>>

-----------------------------------------------------------------------------

Fail(t) ==
    /\ MayFail
    /\ job[t].pc # "idle"
    /\ job' = [job EXCEPT ![t] = Idle]
    /\ failed' = TRUE
    /\ UNCHANGED <<User, Trip, Restaurant, today, requests>>

\* Midnight passes.
Tick == /\ today < LastDay
        /\ today' = today + 1
        /\ UNCHANGED <<User, Trip, Restaurant, job, requests, failed>>

Arrive(t) ==
    \E u \in Users :
        \/ \E to \in Recipients, d \in TripDates :
               \/ NewTrip(t, u, to, d)
               \/ \E r \in 0..MaxRestaurants : NewTripWithRestaurants(t, u, to, d, r)
        \/ \E id \in 1..Len(Trip) : DeleteTrip(t, u, id)
        \/ UpdateTripStatus(t, u)

Step(t) == \/ InsertRestaurant(t) \/ MaxRestaurant(t)
           \/ InsertTrip(t) \/ MaxTrip(t) \/ SelectUser(t) \/ UpdateUser(t)
           \/ SelectTrips(t) \/ UpdateTrips(t)
           \/ SelectSource(t) \/ SelectDates(t) \/ Classify(t)
           \/ UpdateSource(t) \/ SelectTarget(t) \/ UpdateTarget(t)

Next == \/ Tick
        \/ \E t \in Threads : Arrive(t) \/ Step(t) \/ Fail(t)

Spec == Init /\ [][Next]_vars

-----------------------------------------------------------------------------
(* Properties *)

\* TypeOK: the tables and the locals of every thread keep their types, and a
\* thread that handles a request has a user row to work on.
TypeOK ==
    /\ User \in [Users -> [Columns -> Column]]
    /\ Trip \in Seq(TripRow)
    /\ Restaurant \in Nat
    /\ today \in Nat
    /\ job \in [Threads -> Job]
    /\ requests \in Nat
    /\ failed \in BOOLEAN
    /\ \A t \in Threads : job[t].pc # "idle" => job[t].to # <<>>

\* HistoryOnlyPast: whatever the requests that overlap, fail half way or edit
\* the same row, history_trip lists only trips that exist and have ended.  The
\* third block of UpdateTripStatus writes it from a classification and a read
\* that may both be stale by then (UpdateTripStatus.java 204-273).
HistoryOnlyPast ==
    \A u \in Users : \A id \in IdsIn(User[u]["history_trip"]) :
        TripExists(id) /\ Trip[id].end < today

\* RestaurantsInOrder: the Restaurants column of a trip lists existing
\* restaurants, each once and in insertion order, although each id was found by
\* SELECT MAX while other requests insert (NewTripWithRestaurants.java 153-182).
RestaurantsInOrder ==
    \A k \in 1..Len(Trip) : \A i \in 1..Len(Trip[k].rest) :
        /\ Trip[k].rest[i] \in 1..Restaurant
        /\ \A j \in 1..(i - 1) : Trip[k].rest[j] < Trip[k].rest[i]

\* AttachesNoOlderTrip: the TripID a creation writes into the users' rows was
\* found by SELECT MAX; it may belong to a later trip but never to one inserted
\* before the request's own (NewTrip.java 92-102).
AttachesNoOlderTrip ==
    \A t \in Threads : job[t].pc \in {"selectUser", "updateUser"} =>
        job[t].tripID \in job[t].own..Len(Trip)

Count(seq, x) == Cardinality({i \in DOMAIN seq : seq[i] = x})

\* How often the columns of u list the trip.
Listings(u, id) ==
    LET n(c) == Count(TextOf(User[u][c]).ids, id)
    IN  n("pending_trip") + n("current_trip") + n("history_trip")

\* ListedAtMostOnce: with requests one after another, no user's columns ever
\* list a trip more often than its creation named the user, at any moment and
\* whatever statement failed before: a move takes the trip out of its source
\* column before it adds it to the other one (UpdateTripStatus.java 107-130).
ListedAtMostOnce ==
    \A u \in Users, id \in 1..Len(Trip) : Listings(u, id) <= Count(Trip[id].to, u)

\* TripsKept: with requests one after another, none of which failed, between two
\* requests every trip is listed exactly as often as its creation named the
\* user: creations and the three blocks of UpdateTripStatus lose none, duplicate
\* none, and give none to a user who was not named.
TripsKept ==
    (~failed /\ \A t \in Threads : job[t].pc = "idle") =>
        \A u \in Users, id \in 1..Len(Trip) : Listings(u, id) = Count(Trip[id].to, u)

\* Where every trip of u belongs on this day.
Settled(u) ==
    /\ \A id \in IdsIn(User[u]["pending_trip"]) : Trip[id].begin >= today
    /\ \A id \in IdsIn(User[u]["current_trip"]) :
           Trip[id].begin <= today /\ Trip[id].end >= today
    /\ \A id \in IdsIn(User[u]["history_trip"]) : Trip[id].end < today

\* StatusSettled: an UpdateTripStatus that ends on the day it began, with no other
\* request at the same time, leaves every trip of the user where its dates say,
\* whatever failed before: the three blocks in their order need no second call
\* (UpdateTripStatus.java 64-273).
StatusSettled ==
    [][\A t \in Threads, u \in Users :
          (/\ SelectSource(t) \/ UpdateTarget(t)
           /\ u = Target(t)
           /\ job'[t].pc = "idle"
           /\ job[t].start = today) => Settled(u)']_vars

\* HistoryGrows: with requests one after another, history_trip only grows at
\* its end, even when statements fail: no past trip is dropped or reordered
\* (UpdateTripStatus.java 251-272).
HistoryGrows ==
    [][\A u \in Users : IsPrefix(TextOf(User[u]["history_trip"]).ids,
                                 TextOf(User'[u]["history_trip"]).ids)]_vars

-----------------------------------------------------------------------------
(* What comments in the code say and the code does not do.                 *)

\* AttachesOwnTrip: NewTrip "updates the user's table with the current trip id"
\* (NewTrip.java 23): the id it writes is that of the trip it inserted.
AttachesOwnTrip ==
    \A t \in Threads : job[t].pc \in {"selectUser", "updateUser"} =>
        job[t].tripID = job[t].own

\* AddsTrip: the same sentence, of a request that nothing disturbs: the trip id
\* is in the user's list once the row is updated.
AddsTrip ==
    [][\A t \in Threads, u \in Users :
          UpdateUser(t) /\ u = Target(t)
          => job[t].tripID \in IdsIn(User'[u]["current_trip"])]_vars

=============================================================================
