------------------------- MODULE TripCreationProofs -------------------------
(***************************************************************************)
(* Theorems about the creations of Trips: what SELECT MAX can find while   *)
(* other threads insert, and what becomes of the trips created.            *)
(*                                                                         *)
(* RestaurantsInOrder and AttachesNoOlderTrip speak of Trip and of the     *)
(* last steps of a thread only.  They become inductive with what the       *)
(* thread holds before: the ids found so far are in order, and once it has *)
(* inserted again, all of them are below the maximum it is about to read.  *)
(*                                                                         *)
(* ListedAtMostOnce and TripsKept count what the columns list; they become *)
(* inductive with what the request under way still owes (KeptInv).         *)
(*                                                                         *)
(* ListingsComplete says of TripListing that every number it looks up is a *)
(* trip's; so are, without deleteTrip, all numbers a thread holds.         *)
(***************************************************************************)
EXTENDS TripsProofs, TripListing, FiniteSetTheorems, FunctionTheorems

\* seq lists restaurants among the first n, each once and in insertion order.
InOrder(seq, n) ==
    \A i \in 1..Len(seq) : /\ seq[i] \in 1..n
                           /\ \A j \in 1..(i - 1) : seq[j] < seq[i]

\* What the locals j of a thread promise when Restaurant is n and Trip has
\* k rows.
Found(j, n, k) ==
    /\ j.pc \in {"insertRestaurant", "maxRestaurant", "insertTrip"} => InOrder(j.rID, n)
    /\ j.pc = "maxRestaurant" => n > 0 /\ \A i \in 1..Len(j.rID) : j.rID[i] < n
    /\ j.pc = "maxTrip" => j.own <= k
    /\ j.pc \in {"selectUser", "updateUser"} => j.tripID \in j.own..k

CreationInv ==
    /\ \A k \in 1..Len(Trip) : InOrder(Trip[k].rest, Restaurant)
    /\ \A t \in Threads : Found(job[t], Restaurant, Len(Trip))

\* Rows that other threads insert take nothing away.
LEMMA InOrderStable ==
    ASSUME NEW seq, NEW n \in Nat, NEW m \in Nat, n <= m, InOrder(seq, n)
    PROVE  InOrder(seq, m)
BY DEF InOrder

\* The maximum of a table that has grown since goes to the end.
LEMMA AppendInOrder ==
    ASSUME NEW seq \in Seq(Nat), NEW n \in Nat, n > 0, InOrder(seq, n),
           \A i \in 1..Len(seq) : seq[i] < n
    PROVE  InOrder(Append(seq, n), n)
<1> DEFINE new == Append(seq, n)
<1>1. /\ Len(seq) \in Nat /\ Len(new) = Len(seq) + 1 /\ new[Len(seq) + 1] = n
      /\ \A i \in 1..Len(seq) : new[i] = seq[i]
  BY AppendProperties, LenProperties
<1> HIDE DEF new
<1>2. ASSUME NEW i \in 1..Len(new)
      PROVE  new[i] \in 1..n /\ \A j \in 1..(i - 1) : new[j] < new[i]
  <2>1. CASE i = Len(seq) + 1
    <3>1. new[i] = n
      BY <1>1, <2>1
    <3>2. ASSUME NEW j \in 1..(i - 1) PROVE new[j] < n
      <4>1. j \in 1..Len(seq)
        BY <1>1, <2>1
      <4> QED  BY <1>1, <4>1
    <3> QED  BY <3>1, <3>2
  <2>2. CASE i \in 1..Len(seq)
    <3>1. new[i] = seq[i] /\ seq[i] \in 1..n
      BY <1>1, <2>2 DEF InOrder
    <3>2. ASSUME NEW j \in 1..(i - 1) PROVE new[j] < new[i]
      <4>1. j \in 1..Len(seq)
        BY <1>1, <2>2
      <4>2. new[j] = seq[j]
        BY <1>1, <4>1
      <4>3. seq[j] < seq[i]
        BY <2>2 DEF InOrder
      <4> QED  BY <3>1, <4>2, <4>3
    <3> QED  BY <3>1, <3>2
  <2> QED  BY <1>1, <2>1, <2>2
<1>3. InOrder(new, n)
  BY <1>2 DEF InOrder
<1> QED  BY <1>3 DEF new

LEMMA FoundStable ==
    ASSUME NEW j \in Job, NEW n \in Nat, NEW m \in Nat, n <= m,
           NEW k \in Nat, NEW l \in Nat, k <= l, Found(j, n, k)
    PROVE  Found(j, m, l)
<1>1. j.own \in Nat /\ j.tripID \in Nat /\ j.rID \in Seq(Nat)
  BY DEF Job
<1>2. \A i \in 1..Len(j.rID) : j.rID[i] \in Nat
  BY <1>1, ElementOfSeq
<1>3. InOrder(j.rID, n) => InOrder(j.rID, m)
  BY InOrderStable
<1> QED  BY <1>1, <1>2, <1>3 DEF Found

\* A thread that handles no creation, or has found no restaurant, promises nothing.
LEMMA NothingFound ==
    ASSUME NEW j, NEW n, NEW k,
           \/ j.pc \notin CreationSteps
           \/ j.pc \in {"insertRestaurant", "insertTrip"} /\ j.rID = <<>>
    PROVE  Found(j, n, k)
BY DEF Found, CreationSteps, InOrder

\* What is left to show of a step of one thread.
LEMMA CreationStep ==
    ASSUME TypeInv, CreationInv, NEW t \in Threads, NEW new,
           job' = [job EXCEPT ![t] = new],
           Restaurant' = Restaurant \/ Restaurant' = Restaurant + 1,
           \/ Trip' = Trip
           \/ \E row \in TripRow : /\ Trip' = Append(Trip, row)
                                   /\ InOrder(row.rest, Restaurant),
           Found(new, Restaurant', Len(Trip'))
    PROVE  CreationInv'
<1>1. /\ Trip \in Seq(TripRow) /\ Len(Trip) \in Nat /\ Restaurant \in Nat
      /\ Restaurant' \in Nat /\ Restaurant' >= Restaurant
      /\ \A s \in Threads : job[s] \in Job
  BY LenProperties DEF TypeInv, TypeOK
<1>2. \A s \in Threads : job'[s] = IF s = t THEN new ELSE job[s]
  BY DEF TypeInv, TypeOK
<1>3. /\ Len(Trip') \in Nat /\ Len(Trip') >= Len(Trip)
      /\ \A k \in 1..Len(Trip') : InOrder(Trip'[k].rest, Restaurant)
  <2>1. CASE Trip' = Trip
    BY <1>1, <2>1 DEF CreationInv
  <2>2. CASE \E row \in TripRow : Trip' = Append(Trip, row) /\ InOrder(row.rest, Restaurant)
    <3>1. PICK row \in TripRow : Trip' = Append(Trip, row) /\ InOrder(row.rest, Restaurant)
      BY <2>2
    <3>2. /\ Len(Trip') = Len(Trip) + 1 /\ Trip'[Len(Trip) + 1] = row
          /\ \A k \in 1..Len(Trip) : Trip'[k] = Trip[k]
      BY <1>1, <3>1, AppendProperties
    <3>3. ASSUME NEW k \in 1..Len(Trip') PROVE InOrder(Trip'[k].rest, Restaurant)
      <4>1. CASE k = Len(Trip) + 1
        BY <3>1, <3>2, <4>1
      <4>2. CASE k \in 1..Len(Trip)
        BY <3>2, <4>2 DEF CreationInv
      <4> QED  BY <1>1, <3>2, <4>1, <4>2
    <3> QED  BY <1>1, <3>2, <3>3
  <2> QED  BY <2>1, <2>2
<1>4. ASSUME NEW k \in 1..Len(Trip') PROVE InOrder(Trip'[k].rest, Restaurant')
  BY <1>1, <1>3, InOrderStable
<1>5. ASSUME NEW s \in Threads PROVE Found(job'[s], Restaurant', Len(Trip'))
  <2>1. CASE s = t
    BY <1>2, <2>1
  <2>2. CASE s # t
    <3>1. Found(job[s], Restaurant, Len(Trip)) /\ job'[s] = job[s]
      BY <1>2, <2>2 DEF CreationInv
    <3> QED  BY <1>1, <1>3, <3>1, FoundStable
  <2> QED  BY <2>1, <2>2
<1> QED  BY <1>4, <1>5 DEF CreationInv

\* The two statements that insert and find a restaurant.
LEMMA RestaurantsFound ==
    ASSUME TypeInv, CreationInv, NEW t \in Threads,
           InsertRestaurant(t) \/ MaxRestaurant(t)
    PROVE  CreationInv'
<1>1. /\ job[t] \in Job /\ Found(job[t], Restaurant, Len(Trip))
      /\ Restaurant \in Nat /\ job[t].rID \in Seq(Nat) /\ Len(job[t].rID) \in Nat
  BY LenProperties DEF TypeInv, TypeOK, CreationInv, Job
<1>2. CASE InsertRestaurant(t)
  <2> DEFINE new == [job[t] EXCEPT !.pc = "maxRestaurant"]
  <2>1. /\ job' = [job EXCEPT ![t] = new] /\ Trip' = Trip
        /\ Restaurant' = Restaurant + 1 /\ job[t].pc = "insertRestaurant"
    BY <1>2 DEF InsertRestaurant
  <2>2. new.pc = "maxRestaurant" /\ new.rID = job[t].rID
    BY <1>1 DEF Job
  <2>3. InOrder(job[t].rID, Restaurant)
    BY <1>1, <2>1 DEF Found
  <2>4. \A i \in 1..Len(job[t].rID) : job[t].rID[i] < Restaurant + 1
    BY <1>1, <2>3 DEF InOrder
  <2>5. InOrder(job[t].rID, Restaurant + 1)
    BY <1>1, <2>3, InOrderStable
  <2> HIDE DEF new
  <2>6. Found(new, Restaurant', Len(Trip'))
    BY <1>1, <2>1, <2>2, <2>4, <2>5 DEF Found
  <2> QED  BY <1>1, <2>1, <2>6, CreationStep
<1>3. CASE MaxRestaurant(t)
  <2> DEFINE rID == Append(job[t].rID, Restaurant)
             pc == IF Len(rID) < job[t].rest THEN "insertRestaurant" ELSE "insertTrip"
             new == [job[t] EXCEPT !.rID = rID, !.pc = pc]
  <2>1. /\ job' = [job EXCEPT ![t] = new] /\ Trip' = Trip
        /\ Restaurant' = Restaurant /\ job[t].pc = "maxRestaurant"
    BY <1>3 DEF MaxRestaurant
  <2>2. /\ InOrder(job[t].rID, Restaurant) /\ Restaurant > 0
        /\ \A i \in 1..Len(job[t].rID) : job[t].rID[i] < Restaurant
    BY <1>1, <2>1 DEF Found
  <2>3. pc \in {"insertRestaurant", "insertTrip"}
    OBVIOUS
  <2>4. InOrder(rID, Restaurant)
    BY <1>1, <2>2, AppendInOrder
  <2> HIDE DEF rID, pc
  <2>5. new.pc = pc /\ new.rID = rID
    BY <1>1 DEF Job
  <2> HIDE DEF new
  <2>6. Found(new, Restaurant', Len(Trip'))
    BY <2>1, <2>3, <2>4, <2>5 DEF Found
  <2> QED  BY <1>1, <2>1, <2>6, CreationStep
<1> QED  BY <1>2, <1>3

\* The statements that insert the trip, find its id and write it to the users.
LEMMA TripFound ==
    ASSUME TypeInv, CreationInv, NEW t \in Threads,
           InsertTrip(t) \/ MaxTrip(t) \/ SelectUser(t) \/ UpdateUser(t)
    PROVE  CreationInv'
<1>1. /\ job[t] \in Job /\ Found(job[t], Restaurant, Len(Trip))
      /\ Restaurant \in Nat /\ Trip \in Seq(TripRow) /\ Len(Trip) \in Nat
      /\ job[t].own \in Nat
  BY LenProperties DEF TypeInv, TypeOK, CreationInv, Job
<1>2. CASE InsertTrip(t)
  <2> DEFINE row == [begin |-> job[t].begin, end |-> job[t].end,
                     rest |-> job[t].rID, to |-> job[t].to]
             new == [job[t] EXCEPT !.pc = "maxTrip", !.own = Len(Trip) + 1]
  <2>1. /\ job' = [job EXCEPT ![t] = new] /\ Trip' = Append(Trip, row)
        /\ Restaurant' = Restaurant /\ job[t].pc = "insertTrip"
    BY <1>2 DEF InsertTrip
  <2>2. row \in TripRow /\ row.rest = job[t].rID
    BY <1>1 DEF Job, TripRow
  <2>3. InOrder(row.rest, Restaurant)
    BY <1>1, <2>1, <2>2 DEF Found
  <2>4. new.pc = "maxTrip" /\ new.own = Len(Trip) + 1
    BY <1>1 DEF Job
  <2> HIDE DEF row, new
  <2>5. Len(Trip') = Len(Trip) + 1
    BY <1>1, <2>1, <2>2, AppendProperties
  <2>6. Found(new, Restaurant', Len(Trip'))
    BY <1>1, <2>4, <2>5 DEF Found
  <2> QED  BY <1>1, <2>1, <2>2, <2>3, <2>6, CreationStep
<1>3. CASE MaxTrip(t)
  <2> DEFINE new == [job[t] EXCEPT !.pc = "selectUser", !.tripID = Len(Trip)]
  <2>1. /\ job' = [job EXCEPT ![t] = new] /\ Trip' = Trip
        /\ Restaurant' = Restaurant /\ job[t].pc = "maxTrip"
    BY <1>3 DEF MaxTrip
  <2>2. new.pc = "selectUser" /\ new.own = job[t].own /\ new.tripID = Len(Trip)
    BY <1>1 DEF Job
  <2> HIDE DEF new
  <2>3. Found(new, Restaurant', Len(Trip'))
    BY <1>1, <2>1, <2>2 DEF Found
  <2> QED  BY <1>1, <2>1, <2>3, CreationStep
<1>4. CASE SelectUser(t)
  <2> DEFINE x == TextOf(User[Target(t)]["current_trip"])
             new == [job[t] EXCEPT !.pc = "updateUser", !.trips = x]
  <2>1. /\ job' = [job EXCEPT ![t] = new] /\ Trip' = Trip
        /\ Restaurant' = Restaurant /\ job[t].pc = "selectUser"
    BY <1>4 DEF SelectUser
  <2> HIDE DEF x
  <2>2. new.pc = "updateUser" /\ new.own = job[t].own /\ new.tripID = job[t].tripID
    BY <1>1 DEF Job
  <2> HIDE DEF new
  <2>3. Found(new, Restaurant', Len(Trip'))
    BY <1>1, <2>1, <2>2 DEF Found
  <2> QED  BY <1>1, <2>1, <2>3, CreationStep
<1>5. CASE UpdateUser(t)
  <2> DEFINE next == [job[t] EXCEPT !.pc = "selectUser", !.to = Tail(job[t].to),
                                    !.trips = Empty]
  <2>1. /\ job' = [job EXCEPT ![t] = Idle] \/ job' = [job EXCEPT ![t] = next]
        /\ Trip' = Trip /\ Restaurant' = Restaurant /\ job[t].pc = "updateUser"
    BY <1>5 DEF UpdateUser
  <2>2. Found(Idle, Restaurant', Len(Trip'))
    BY NothingFound DEF Idle, CreationSteps
  <2>3. /\ next.pc = "selectUser" /\ next.own = job[t].own
        /\ next.tripID = job[t].tripID
    BY <1>1 DEF Job
  <2> HIDE DEF next
  <2>4. Found(next, Restaurant', Len(Trip'))
    BY <1>1, <2>1, <2>3 DEF Found
  <2> QED  BY <1>1, <2>1, <2>2, <2>4, CreationStep
<1> QED  BY <1>2, <1>3, <1>4, <1>5

\* A request that arrives has found nothing yet.
LEMMA ArriveFound ==
    ASSUME TypeInv, CreationInv, NEW t \in Threads, Arrive(t)
    PROVE  CreationInv'
<1>1. ASSUME NEW kind, NEW request, Accept(t, kind, request),
             \/ request.pc \notin CreationSteps
             \/ request.pc \in {"insertRestaurant", "insertTrip"} /\ request.rID = <<>>
      PROVE  CreationInv'
  <2>1. Found(request, Restaurant', Len(Trip'))
    BY <1>1, NothingFound
  <2>2. /\ job' = [job EXCEPT ![t] = request] /\ Trip' = Trip
        /\ Restaurant' = Restaurant /\ Restaurant \in Nat
    BY <1>1 DEF Accept, TypeInv, TypeOK
  <2> QED  BY <2>1, <2>2, CreationStep
<1>2. PICK u \in Users :
          \/ \E to \in Recipients, d \in TripDates :
               \/ NewTrip(t, u, to, d)
               \/ \E r \in 0..MaxRestaurants : NewTripWithRestaurants(t, u, to, d, r)
          \/ \E id \in 1..Len(Trip) : DeleteTrip(t, u, id)
          \/ UpdateTripStatus(t, u)
  BY DEF Arrive
<1>3. ASSUME NEW to \in Recipients, NEW d \in TripDates, NewTrip(t, u, to, d)
      PROVE  CreationInv'
  <2> DEFINE r == [Idle EXCEPT !.pc = "insertTrip", !.to = Append(to, u),
                               !.begin = d[1], !.end = d[2]]
  <2>1. r.pc = "insertTrip" /\ r.rID = <<>>
    BY DEF Idle
  <2>2. Accept(t, "NewTrip", r)
    BY <1>3 DEF NewTrip
  <2> QED  BY <1>1, <2>1, <2>2
<1>4. ASSUME NEW to \in Recipients, NEW d \in TripDates, NEW n \in 0..MaxRestaurants,
             NewTripWithRestaurants(t, u, to, d, n)
      PROVE  CreationInv'
  <2> DEFINE r == [Idle EXCEPT !.pc = IF n = 0 THEN "insertTrip" ELSE "insertRestaurant",
                               !.to = Append(to, u),
                               !.begin = d[1], !.end = d[2], !.rest = n]
  <2>1. r.pc \in {"insertTrip", "insertRestaurant"} /\ r.rID = <<>>
    BY DEF Idle
  <2>2. Accept(t, "NewTripWithRestaurants", r)
    BY <1>4 DEF NewTripWithRestaurants
  <2> QED  BY <1>1, <2>1, <2>2
<1>5. ASSUME NEW id \in 1..Len(Trip), DeleteTrip(t, u, id)
      PROVE  CreationInv'
  <2> DEFINE r == [Idle EXCEPT !.pc = "selectTrips", !.to = <<u>>, !.tripID = id]
  <2>1. r.pc \notin CreationSteps
    BY DEF Idle, CreationSteps
  <2>2. Accept(t, "deleteTrip", r)
    BY <1>5 DEF DeleteTrip
  <2> QED  BY <1>1, <2>1, <2>2
<1>6. ASSUME UpdateTripStatus(t, u)
      PROVE  CreationInv'
  <2> DEFINE r == [Idle EXCEPT !.pc = "selectSource", !.to = <<u>>, !.start = today]
  <2>1. r.pc \notin CreationSteps
    BY DEF Idle, CreationSteps
  <2>2. Accept(t, "UpdateTripStatus", r)
    BY <1>6 DEF UpdateTripStatus
  <2> QED  BY <1>1, <2>1, <2>2
<1> QED  BY <1>2, <1>3, <1>4, <1>5, <1>6

\* deleteTrip, UpdateTripStatus and a failing statement leave the thread outside
\* a creation.
LEMMA OthersLeave ==
    ASSUME TypeInv, NEW t \in Threads,
           \/ SelectTrips(t) \/ UpdateTrips(t) \/ SelectSource(t) \/ SelectDates(t)
           \/ Classify(t) \/ UpdateSource(t) \/ SelectTarget(t) \/ UpdateTarget(t)
           \/ Fail(t)
    PROVE  \E new : job' = [job EXCEPT ![t] = new] /\ new.pc \notin CreationSteps
<1>1. job[t] \in Job /\ job[t].pc # "idle"
  BY DEF TypeInv, TypeOK, SelectTrips, UpdateTrips, SelectSource, SelectDates,
         Classify, UpdateSource, SelectTarget, UpdateTarget, Fail
<1>2. ASSUME NEW new, job' = [job EXCEPT ![t] = new], new.pc \notin CreationSteps
      PROVE  \E x : job' = [job EXCEPT ![t] = x] /\ x.pc \notin CreationSteps
  BY <1>2
<1>3. Idle.pc \notin CreationSteps
  BY DEF Idle, CreationSteps
<1>4. NextBlock(job[t]).pc \notin CreationSteps
  BY <1>1, NextBlockType DEF CreationSteps
<1>5. \A x : [job[t] EXCEPT !.pc = "updateTrips", !.trips = x].pc \notin CreationSteps
  BY <1>1 DEF Job, CreationSteps
<1>6. CASE SelectTrips(t)
  BY <1>2, <1>3, <1>5, <1>6 DEF SelectTrips
<1>7. CASE UpdateTrips(t) \/ Fail(t)
  BY <1>2, <1>3, <1>7 DEF UpdateTrips, Fail
<1>8. CASE SelectSource(t)
  <2> DEFINE x == TextOf(User[Target(t)][Source(job[t].phase)])
             new == [job[t] EXCEPT !.pc = "selectDates", !.ids = x.ids]
  <2>1. job' = [job EXCEPT ![t] = NextBlock(job[t])] \/ job' = [job EXCEPT ![t] = new]
    BY <1>8 DEF SelectSource
  <2> HIDE DEF x
  <2>2. new.pc \notin CreationSteps
    BY <1>1 DEF Job, CreationSteps
  <2> QED  BY <1>2, <1>4, <2>1, <2>2
<1>9. CASE SelectDates(t)
  <2> DEFINE new == [job[t] EXCEPT !.pc = "classify"]
  <2>1. job' = [job EXCEPT ![t] = Idle] \/ job' = [job EXCEPT ![t] = new]
    BY <1>9 DEF SelectDates
  <2>2. new.pc \notin CreationSteps
    BY <1>1 DEF Job, CreationSteps
  <2> QED  BY <1>2, <1>3, <2>1, <2>2
<1>10. CASE Classify(t)
  <2> DEFINE id == Head(job[t].ids)
             moves == Moves(job[t].phase, Trip[id])
             classified == IF moves
                           THEN [job[t] EXCEPT !.move = Append(@, id)]
                           ELSE [job[t] EXCEPT !.keep = Append(@, id)]
             pc == IF Len(job[t].ids) = 1 THEN "updateSource" ELSE "classify"
             new == [classified EXCEPT !.ids = Tail(job[t].ids), !.pc = pc]
  <2>1. job' = [job EXCEPT ![t] = new]
    BY <1>10 DEF Classify
  <2>2. pc \notin CreationSteps
    BY DEF CreationSteps
  <2> HIDE DEF id, moves, pc
  <2>3. new.pc = pc
    <3>1. CASE moves
      BY <1>1, <3>1 DEF Job
    <3>2. CASE ~ moves
      BY <1>1, <3>2 DEF Job
    <3> QED  BY <3>1, <3>2
  <2> HIDE DEF new
  <2> QED  BY <1>2, <2>1, <2>2, <2>3
<1>11. CASE UpdateSource(t)
  <2> DEFINE new == [job[t] EXCEPT !.pc = "selectTarget", !.keep = <<>>]
  <2>1. job' = [job EXCEPT ![t] = new]
    BY <1>11 DEF UpdateSource
  <2>2. new.pc \notin CreationSteps
    BY <1>1 DEF Job, CreationSteps
  <2> QED  BY <1>2, <2>1, <2>2
<1>12. CASE SelectTarget(t)
  <2> DEFINE x == TextOf(User[Target(t)][Destination(job[t].phase)])
             new == [job[t] EXCEPT !.pc = "updateTarget", !.trips = x]
  <2>1. job' = [job EXCEPT ![t] = new]
    BY <1>12 DEF SelectTarget
  <2> HIDE DEF x
  <2>2. new.pc \notin CreationSteps
    BY <1>1 DEF Job, CreationSteps
  <2> QED  BY <1>2, <2>1, <2>2
<1>13. CASE UpdateTarget(t)
  BY <1>2, <1>4, <1>13 DEF UpdateTarget
<1> QED  BY <1>6, <1>7, <1>8, <1>9, <1>10, <1>11, <1>12, <1>13

\* They insert nothing either.
LEMMA OthersFound ==
    ASSUME TypeInv, CreationInv, NEW t \in Threads,
           \/ SelectTrips(t) \/ UpdateTrips(t) \/ SelectSource(t) \/ SelectDates(t)
           \/ Classify(t) \/ UpdateSource(t) \/ SelectTarget(t) \/ UpdateTarget(t)
           \/ Fail(t)
    PROVE  CreationInv'
<1>1. PICK new : job' = [job EXCEPT ![t] = new] /\ new.pc \notin CreationSteps
  BY OthersLeave
<1>2. Found(new, Restaurant', Len(Trip'))
  BY <1>1, NothingFound
<1>3. Trip' = Trip /\ Restaurant' = Restaurant
  BY DEF SelectTrips, UpdateTrips, SelectSource, SelectDates, Classify,
         UpdateSource, SelectTarget, UpdateTarget, Fail
<1> QED  BY <1>1, <1>2, <1>3, CreationStep

LEMMA InitFound == Init => CreationInv
<1> SUFFICES ASSUME Init PROVE CreationInv
  OBVIOUS
<1>1. \A t \in Threads : Found(job[t], Restaurant, Len(Trip))
  BY NothingFound DEF Init, Idle, CreationSteps
<1> QED  BY <1>1 DEF Init, CreationInv

LEMMA NextFound == TypeInv /\ CreationInv /\ [Next]_vars => CreationInv'
<1> SUFFICES ASSUME TypeInv, CreationInv, [Next]_vars PROVE CreationInv'
  OBVIOUS
<1>1. CASE UNCHANGED vars \/ Tick
  BY <1>1 DEF vars, Tick, CreationInv
<1>2. ASSUME NEW t \in Threads, Step(t) PROVE CreationInv'
  BY <1>2, RestaurantsFound, TripFound, OthersFound DEF Step
<1>3. ASSUME NEW t \in Threads, Fail(t) PROVE CreationInv'
  BY <1>3, OthersFound
<1> QED  BY <1>1, <1>2, <1>3, ArriveFound DEF Next

\* However requests overlap and fail, a trip lists existing restaurants, each
\* once and in insertion order.
THEOREM RestaurantsCorrect == Spec => []RestaurantsInOrder
<1>1. CreationInv => RestaurantsInOrder
  BY DEF CreationInv, InOrder, RestaurantsInOrder
<1> QED  BY <1>1, InitType, NextType, InitFound, NextFound, PTL DEF Spec

\* However requests overlap and fail, a creation never gives the users a trip
\* older than its own.
THEOREM AttachesCorrect == Spec => []AttachesNoOlderTrip
<1>1. CreationInv => AttachesNoOlderTrip
  BY DEF CreationInv, Found, AttachesNoOlderTrip
<1> QED  BY <1>1, InitType, NextType, InitFound, NextFound, PTL DEF Spec

-----------------------------------------------------------------------------
(***************************************************************************)
(* The trip a creation gives the users is its own when requests come one   *)
(* after another: nobody inserts between its INSERT and its SELECT MAX.    *)
(***************************************************************************)

\* A thread that has inserted its trip inserted the last one.
OwnInv ==
    \A t \in Threads :
        job[t].pc \in {"maxTrip", "selectUser", "updateUser"} => job[t].own = Len(Trip)

\* Only the statements after its INSERT keep a thread among these.
LEMMA OwnStep ==
    ASSUME Alone, TypeInv, OwnInv, NEW t \in Threads, NEW new,
           job' = [job EXCEPT ![t] = new],
           \/ new.pc \notin {"maxTrip", "selectUser", "updateUser"}
           \/ new.own = Len(Trip')
    PROVE  OwnInv'
BY DEF Alone, TypeInv, TypeOK, OwnInv

LEMMA NextOwn ==
    ASSUME Alone, TypeInv, OwnInv, [Next]_vars
    PROVE  OwnInv'
<1>1. CASE UNCHANGED vars \/ Tick
  BY <1>1 DEF vars, Tick, OwnInv
<1>2. ASSUME NEW t \in Threads, Arrive(t)
      PROVE  OwnInv'
  <2>1. ASSUME NEW kind, NEW request, Accept(t, kind, request),
               request.pc \notin {"maxTrip", "selectUser", "updateUser"}
        PROVE  OwnInv'
    BY <2>1, OwnStep DEF Accept
  <2> QED  BY <1>2, <2>1 DEF Arrive, NewTrip, NewTripWithRestaurants, DeleteTrip,
                             UpdateTripStatus, Idle
<1>3. ASSUME NEW t \in Threads,
             \/ SelectTrips(t) \/ UpdateTrips(t) \/ SelectSource(t) \/ SelectDates(t)
             \/ Classify(t) \/ UpdateSource(t) \/ SelectTarget(t) \/ UpdateTarget(t)
             \/ Fail(t)
      PROVE  OwnInv'
  <2>1. PICK new : job' = [job EXCEPT ![t] = new] /\ new.pc \notin CreationSteps
    BY <1>3, OthersLeave
  <2> QED  BY <2>1, OwnStep DEF CreationSteps
<1>4. ASSUME NEW t \in Threads, InsertRestaurant(t) \/ MaxRestaurant(t)
      PROVE  OwnInv'
  <2>0. job[t] \in Job
    BY DEF TypeInv, TypeOK
  <2>1. CASE InsertRestaurant(t)
    <3> DEFINE new == [job[t] EXCEPT !.pc = "maxRestaurant"]
    <3>1. job' = [job EXCEPT ![t] = new]
      BY <2>1 DEF InsertRestaurant
    <3>2. new.pc = "maxRestaurant"
      BY <2>0 DEF Job
    <3> QED  BY <3>1, <3>2, OwnStep
  <2>2. CASE MaxRestaurant(t)
    <3> DEFINE rID == Append(job[t].rID, Restaurant)
               pc == IF Len(rID) < job[t].rest THEN "insertRestaurant" ELSE "insertTrip"
               new == [job[t] EXCEPT !.rID = rID, !.pc = pc]
    <3>1. job' = [job EXCEPT ![t] = new]
      BY <2>2 DEF MaxRestaurant
    <3>2. pc \in {"insertRestaurant", "insertTrip"}
      OBVIOUS
    <3> HIDE DEF rID, pc
    <3>3. new.pc = pc
      BY <2>0 DEF Job
    <3> QED  BY <3>1, <3>2, <3>3, OwnStep
  <2> QED  BY <1>4, <2>1, <2>2
<1>5. ASSUME NEW t \in Threads, InsertTrip(t) \/ MaxTrip(t) \/ SelectUser(t) \/ UpdateUser(t)
      PROVE  OwnInv'
  <2>0. job[t] \in Job /\ Trip \in Seq(TripRow)
    BY DEF TypeInv, TypeOK
  <2>1. CASE InsertTrip(t)
    <3> DEFINE new == [job[t] EXCEPT !.pc = "maxTrip", !.own = Len(Trip) + 1]
               row == [begin |-> job[t].begin, end |-> job[t].end,
                       rest |-> job[t].rID, to |-> job[t].to]
    <3>1. job' = [job EXCEPT ![t] = new] /\ Trip' = Append(Trip, row)
      BY <2>1 DEF InsertTrip
    <3>2. new.own = Len(Trip) + 1
      BY <2>0 DEF Job
    <3>3. row \in TripRow
      BY <2>0 DEF Job, TripRow
    <3> HIDE DEF new, row
    <3>4. Len(Trip') = Len(Trip) + 1
      BY <2>0, <3>1, <3>3, AppendProperties
    <3> QED  BY <3>1, <3>2, <3>4, OwnStep
  <2>2. CASE MaxTrip(t)
    <3> DEFINE new == [job[t] EXCEPT !.pc = "selectUser", !.tripID = Len(Trip)]
    <3>1. job' = [job EXCEPT ![t] = new] /\ Trip' = Trip /\ job[t].pc = "maxTrip"
      BY <2>2 DEF MaxTrip
    <3>2. new.own = job[t].own
      BY <2>0 DEF Job
    <3> HIDE DEF new
    <3> QED  BY <3>1, <3>2, OwnStep DEF OwnInv
  <2>3. CASE SelectUser(t)
    <3> DEFINE x == TextOf(User[Target(t)]["current_trip"])
               new == [job[t] EXCEPT !.pc = "updateUser", !.trips = x]
    <3>1. job' = [job EXCEPT ![t] = new] /\ Trip' = Trip /\ job[t].pc = "selectUser"
      BY <2>3 DEF SelectUser
    <3> HIDE DEF x
    <3>2. new.own = job[t].own
      BY <2>0 DEF Job
    <3> HIDE DEF new
    <3> QED  BY <3>1, <3>2, OwnStep DEF OwnInv
  <2>4. CASE UpdateUser(t)
    <3> DEFINE next == [job[t] EXCEPT !.pc = "selectUser", !.to = Tail(job[t].to),
                                      !.trips = Empty]
    <3>1. /\ job' = [job EXCEPT ![t] = Idle] \/ job' = [job EXCEPT ![t] = next]
          /\ Trip' = Trip /\ job[t].pc = "updateUser"
      BY <2>4 DEF UpdateUser
    <3>2. next.own = job[t].own
      BY <2>0 DEF Job
    <3> HIDE DEF next
    <3> QED  BY <3>1, <3>2, OwnStep DEF OwnInv, Idle
  <2> QED  BY <1>5, <2>1, <2>2, <2>3, <2>4
<1> QED  BY <1>1, <1>2, <1>3, <1>4, <1>5 DEF Next, Step

\* AttachesOwn: when requests come one after another, a creation gives the users
\* the trip it inserted, as the comment in NewTrip.java says, whatever fails.
THEOREM AttachesOwn ==
    ASSUME Alone
    PROVE  Spec => []AttachesOwnTrip
<1>1. Init => OwnInv
  BY DEF Init, OwnInv, Idle
<1>2. TypeInv /\ OwnInv /\ [Next]_vars => OwnInv'
  BY NextOwn
<1>3. TypeInv /\ CreationInv /\ OwnInv => AttachesOwnTrip
  <2> SUFFICES ASSUME TypeInv, CreationInv, OwnInv, NEW t \in Threads,
                      job[t].pc \in {"selectUser", "updateUser"}
               PROVE  job[t].tripID = job[t].own
    BY DEF AttachesOwnTrip
  <2>1. job[t].tripID \in job[t].own..Len(Trip) /\ job[t].own = Len(Trip)
    BY DEF CreationInv, Found, OwnInv
  <2>2. Len(Trip) \in Nat
    BY LenProperties DEF TypeInv, TypeOK
  <2> QED  BY <2>1, <2>2
<1> QED  BY <1>1, <1>2, <1>3, InitType, NextType, InitFound, NextFound, PTL DEF Spec

-----------------------------------------------------------------------------
(* How often a list has a number. *)

\* A number occurs in a list finitely often.
LEMMA CountType ==
    ASSUME NEW S, NEW s \in Seq(S), NEW x
    PROVE  /\ Count(s, x) \in Nat
           /\ IsFiniteSet({i \in DOMAIN s : s[i] = x})
<1>1. DOMAIN s = 1..Len(s) /\ Len(s) \in Nat
  BY LenProperties
<1>2. IsFiniteSet(1..Len(s))
  BY <1>1, FS_Interval
<1>3. IsFiniteSet({i \in DOMAIN s : s[i] = x})
  BY <1>1, <1>2, FS_Subset
<1> QED  BY <1>3, FS_CardinalityType DEF Count

LEMMA CountEmpty ==
    ASSUME NEW x
    PROVE  Count(<<>>, x) = 0
<1>1. {i \in DOMAIN <<>> : <<>>[i] = x} = {}
  OBVIOUS
<1> QED  BY <1>1, FS_EmptySet DEF Count

LEMMA CountOne ==
    ASSUME NEW e, NEW x
    PROVE  Count(<<e>>, x) = IF e = x THEN 1 ELSE 0
<1>1. {i \in DOMAIN <<e>> : <<e>>[i] = x} = IF e = x THEN {1} ELSE {}
  OBVIOUS
<1> QED  BY <1>1, FS_EmptySet, FS_Singleton DEF Count

\* The places in the second list are shifted by the length of the first.
LEMMA CountConcat ==
    ASSUME NEW S, NEW s \in Seq(S), NEW t \in Seq(S), NEW x
    PROVE  Count(s \o t, x) = Count(s, x) + Count(t, x)
<1> DEFINE n == Len(s)
           A == {i \in DOMAIN s : s[i] = x}
           B == {i \in DOMAIN t : t[i] = x}
           C == {i + n : i \in B}
           D == {i \in DOMAIN (s \o t) : (s \o t)[i] = x}
           shift == [i \in B |-> i + n]
<1>1. /\ n \in Nat /\ Len(t) \in Nat /\ DOMAIN s = 1..n /\ DOMAIN t = 1..Len(t)
      /\ DOMAIN (s \o t) = 1..(n + Len(t))
      /\ \A i \in 1..n : (s \o t)[i] = s[i]
      /\ \A i \in 1..(n + Len(t)) : i > n => (s \o t)[i] = t[i - n]
  <2>1. n \in Nat /\ Len(t) \in Nat /\ DOMAIN s = 1..n /\ DOMAIN t = 1..Len(t)
    BY LenProperties
  <2>2. s \o t \in Seq(S) /\ Len(s \o t) = n + Len(t)
    BY ConcatProperties
  <2>3. DOMAIN (s \o t) = 1..(n + Len(t))
    BY <2>2, LenProperties
  <2> QED  BY <2>1, <2>3, ConcatProperties
<1>2. IsFiniteSet(A) /\ IsFiniteSet(B) /\ Cardinality(A) \in Nat /\ Cardinality(B) \in Nat
  BY CountType, FS_CardinalityType
<1>3. D = A \union C
  <2>1. ASSUME NEW i \in D PROVE i \in A \union C
    <3>1. i \in 1..(n + Len(t)) /\ (s \o t)[i] = x
      BY <1>1
    <3>2. CASE i <= n
      BY <1>1, <3>1, <3>2
    <3>3. CASE i > n
      <4>1. t[i - n] = x /\ i - n \in 1..Len(t) /\ i = (i - n) + n
        BY <1>1, <3>1, <3>3
      <4> QED  BY <1>1, <4>1
    <3> QED  BY <1>1, <3>1, <3>2, <3>3
  <2>2. ASSUME NEW i \in A PROVE i \in D
    BY <1>1
  <2>3. ASSUME NEW i \in C PROVE i \in D
    <3>1. PICK j \in B : i = j + n
      OBVIOUS
    <3>2. j \in 1..Len(t) /\ t[j] = x
      BY <1>1
    <3>3. i \in 1..(n + Len(t)) /\ i > n /\ i - n = j
      BY <1>1, <3>1, <3>2
    <3> QED  BY <1>1, <3>2, <3>3
  <2> QED  BY <2>1, <2>2, <2>3
<1>4. A \cap C = {}
  BY <1>1
<1>5. IsFiniteSet(C) /\ Cardinality(C) = Cardinality(B)
  <2>1. B \subseteq Int
    BY <1>1
  <2> HIDE DEF B
  <2>2. shift \in Bijection(B, C)
    <3>1. shift \in [B -> C]
      OBVIOUS
    <3>2. \A i, j \in B : shift[i] = shift[j] => i = j
      BY <1>1, <2>1
    <3>3. \A k \in C : \E i \in B : shift[i] = k
      OBVIOUS
    <3> QED  BY <3>1, <3>2, <3>3, Fun_IsBij
  <2>3. ExistsBijection(B, C)
    BY <2>2 DEF ExistsBijection
  <2> QED  BY <1>2, <2>3, FS_Bijection
<1>6. Count(s, x) = Cardinality(A) /\ Count(t, x) = Cardinality(B)
      /\ Count(s \o t, x) = Cardinality(D)
  BY DEF Count
<1> HIDE DEF A, B, C, D
<1>7. Cardinality(A \union C) = Cardinality(A) + Cardinality(C) - Cardinality({})
  BY <1>2, <1>4, <1>5, FS_Union
<1> QED  BY <1>2, <1>3, <1>5, <1>6, <1>7, FS_EmptySet

LEMMA CountAppend ==
    ASSUME NEW S, NEW s \in Seq(S), NEW e \in S, NEW x
    PROVE  Count(Append(s, e), x) = Count(s, x) + IF e = x THEN 1 ELSE 0
<1>1. Append(s, e) = s \o <<e>> /\ <<e>> \in Seq(S)
  OBVIOUS
<1>2. Count(s \o <<e>>, x) = Count(s, x) + Count(<<e>>, x)
  BY <1>1, CountConcat
<1>3. Count(<<e>>, x) = IF e = x THEN 1 ELSE 0
  BY CountOne
<1> QED  BY <1>1, <1>2, <1>3

LEMMA CountHead ==
    ASSUME NEW S, NEW s \in Seq(S), s # <<>>, NEW x
    PROVE  Count(s, x) = Count(Tail(s), x) + IF Head(s) = x THEN 1 ELSE 0
<1>1. Head(s) \in S /\ Tail(s) \in Seq(S) /\ <<Head(s)>> \in Seq(S)
  BY HeadTailProperties
<1>2. s = <<Head(s)>> \o Tail(s)
  BY <1>1
<1>3. Count(<<Head(s)>> \o Tail(s), x) = Count(<<Head(s)>>, x) + Count(Tail(s), x)
  BY <1>1, CountConcat
<1>4. Count(Tail(s), x) \in Nat
  BY <1>1, CountType
<1>5. Count(<<Head(s)>>, x) = IF Head(s) = x THEN 1 ELSE 0
  BY CountOne
<1> DEFINE h == <<Head(s)>>
<1>6. Count(s, x) = Count(h, x) + Count(Tail(s), x)
  BY <1>2, <1>3
<1>7. Count(h, x) = IF Head(s) = x THEN 1 ELSE 0
  BY <1>5
<1> HIDE DEF h
<1> QED  BY <1>4, <1>6, <1>7

-----------------------------------------------------------------------------
(***************************************************************************)
(* What becomes of the trips created, with one thread and no deleteTrip.   *)
(*                                                                         *)
(* KeptInv keeps the books: what the columns of a user list, and what the  *)
(* request under way still owes the user, is what the creations named the  *)
(* user; less only after a failure.  HeldOK says that the thread's locals  *)
(* are those it needs to pay what it owes: what it read is still there,    *)
(* and the trips of the column it classifies are in one of its lists.      *)
(***************************************************************************)

Creating    == {"maxTrip", "selectUser", "updateUser"}
Classifying == {"selectDates", "classify", "updateSource"}
Moving      == {"selectTarget", "updateTarget"}

\* row is the row of the user the thread works on, n the number of trips.
HeldOK(j, row, n) ==
    /\ j.pc \notin DeletionSteps
    /\ j.pc \in Creating => j.own = n
    /\ j.pc \in {"selectUser", "updateUser"} => j.tripID = n
    /\ j.pc = "updateUser" => j.trips = TextOf(row["current_trip"])
    /\ j.pc = "updateTarget" => j.trips = TextOf(row[Destination(j.phase)])
    /\ j.pc = "selectSource" => j.keep = <<>> /\ j.move = <<>>
    /\ j.pc = "updateSource" => j.ids = <<>>
    /\ j.pc \in Classifying =>
           \A id \in Nat : Count(TextOf(row[Source(j.phase)]).ids, id) =
                               Count(j.ids, id) + Count(j.keep, id) + Count(j.move, id)

\* How often the request will still add the trip to the columns of u.
Owed(j, u, id) ==
    (IF j.pc \in Creating /\ j.own = id THEN Count(j.to, u) ELSE 0)
    + (IF j.pc \in Moving /\ Head(j.to) = u THEN Count(j.move, id) ELSE 0)

\* How often the creation of the trip named u.
Named(u, id) == IF id \in 1..Len(Trip) THEN Count(Trip[id].to, u) ELSE 0

Balance(t) ==
    \A u \in Users, id \in Nat :
        /\ Listings(u, id) + Owed(job[t], u, id) <= Named(u, id)
        /\ ~ failed => Listings(u, id) + Owed(job[t], u, id) = Named(u, id)

KeptInv(t) == /\ \A u \in Users, c \in Columns : TextOf(User[u][c]).closed
              /\ HeldOK(job[t], User[Target(t)], Len(Trip))
              /\ Balance(t)

LEMMA ColumnCount ==
    ASSUME NEW c \in Column, NEW id
    PROVE  Count(TextOf(c).ids, id) \in Nat
<1>1. TextOf(c).ids \in Seq(Nat)
  BY TextOfType DEF Text
<1> QED  BY <1>1, CountType

LEMMA ListingsType ==
    ASSUME TypeInv, NEW u \in Users, NEW id
    PROVE  Listings(u, id) \in Nat
<1>1. \A c \in Columns : Count(TextOf(User[u][c]).ids, id) \in Nat
  BY ColumnCount DEF TypeInv, TypeOK
<1> QED  BY <1>1 DEF Listings, Columns

LEMMA OwedType ==
    ASSUME NEW j \in Job, NEW u, NEW id
    PROVE  Owed(j, u, id) \in Nat
<1>1. j.to \in Seq(Users) /\ j.move \in Seq(Nat)
  BY DEF Job
<1>2. Count(j.to, u) \in Nat /\ Count(j.move, id) \in Nat
  BY <1>1, CountType
<1> QED  BY <1>2 DEF Owed

\* Rewriting a column of v changes what v lists by the numbers it had and has.
LEMMA ColumnRewritten ==
    ASSUME TypeInv, NEW v \in Users, NEW c \in Columns, NEW x \in Column,
           User' = [User EXCEPT ![v][c] = x], NEW u \in Users, NEW id
    PROVE  Listings(u, id)' =
               IF u = v THEN Listings(u, id) - Count(TextOf(User[v][c]).ids, id)
                             + Count(TextOf(x).ids, id)
                        ELSE Listings(u, id)
<1> DEFINE old(d) == Count(TextOf(User[u][d]).ids, id)
           new(d) == Count(TextOf(User'[u][d]).ids, id)
           k == Count(TextOf(x).ids, id)
<1>1. /\ Listings(u, id) = old("pending_trip") + old("current_trip") + old("history_trip")
      /\ Listings(u, id)' = new("pending_trip") + new("current_trip") + new("history_trip")
  BY DEF Listings
<1>2. \A d \in Columns : new(d) = IF u = v /\ d = c THEN k ELSE old(d)
  BY DEF TypeInv, TypeOK
<1>3. k \in Nat /\ \A d \in Columns : old(d) \in Nat
  BY ColumnCount DEF TypeInv, TypeOK
<1>4. u = v => Count(TextOf(User[v][c]).ids, id) = old(c)
  OBVIOUS
<1>5. \A d : d \in Columns <=> d \in {"pending_trip", "current_trip", "history_trip"}
  BY DEF Columns
<1> HIDE DEF old, new, k
<1>6. CASE u # v
  BY <1>1, <1>2, <1>5, <1>6
<1>7. CASE u = v
  <2>1. CASE c = "pending_trip"
    BY <1>1, <1>2, <1>3, <1>4, <1>5, <1>7, <2>1 DEF k
  <2>2. CASE c = "current_trip"
    BY <1>1, <1>2, <1>3, <1>4, <1>5, <1>7, <2>2 DEF k
  <2>3. CASE c = "history_trip"
    BY <1>1, <1>2, <1>3, <1>4, <1>5, <1>7, <2>3 DEF k
  <2> QED  BY <1>5, <2>1, <2>2, <2>3
<1> QED  BY <1>6, <1>7

\* A step that keeps the sum keeps the books.
LEMMA KeptStep ==
    ASSUME NEW t \in Threads, TypeInv, KeptInv(t), NEW new,
           job' = [job EXCEPT ![t] = new], Trip' = Trip, failed' = failed,
           \A u \in Users, c \in Columns : TextOf(User'[u][c]).closed,
           HeldOK(new, User'[Head(new.to)], Len(Trip)),
           \A u \in Users, id \in Nat :
               Listings(u, id)' + Owed(new, u, id) = Listings(u, id) + Owed(job[t], u, id)
    PROVE  KeptInv(t)'
<1>1. job'[t] = new
  BY DEF TypeInv, TypeOK
<1>2. HeldOK(job[t], User[Target(t)], Len(Trip))'
  BY <1>1 DEF HeldOK, Target
<1>3. \A u \in Users, id \in Nat : Owed(job[t], u, id)' = Owed(new, u, id)
  BY <1>1 DEF Owed
<1>4. \A u, id : Named(u, id)' = Named(u, id)
  BY DEF Named
<1>5. Balance(t)'
  BY <1>3, <1>4 DEF KeptInv, Balance
<1> QED  BY <1>2, <1>5 DEF KeptInv

LEMMA QuietKept ==
    ASSUME NEW t \in Threads, TypeInv, KeptInv(t), NEW new,
           job' = [job EXCEPT ![t] = new], UNCHANGED <<User, Trip, failed>>,
           HeldOK(new, User[Head(new.to)], Len(Trip)),
           \A u \in Users, id \in Nat : Owed(new, u, id) = Owed(job[t], u, id)
    PROVE  KeptInv(t)'
<1>1. \A u \in Users, id \in Nat : Listings(u, id)' = Listings(u, id)
  BY DEF Listings
<1>2. \A u \in Users, c \in Columns : TextOf(User'[u][c]).closed
  BY DEF KeptInv
<1> QED  BY <1>1, <1>2, KeptStep

\* A request that arrives owes nothing yet.
LEMMA ArriveKept ==
    ASSUME NEW t \in Threads, "deleteTrip" \notin Kinds, TypeInv, KeptInv(t), Arrive(t)
    PROVE  KeptInv(t)'
<1> DEFINE new == job'[t]
<1>1. /\ job[t].pc = "idle" /\ UNCHANGED <<User, Trip, failed>>
      /\ \/ new.pc \in {"insertRestaurant", "insertTrip"}
         \/ \E u \in Users : new = [Idle EXCEPT !.pc = "selectSource",
                                                !.to = <<u>>, !.start = today]
  BY Arriving
<1>2. HeldOK(new, User[Head(new.to)], Len(Trip)) /\ new.pc \notin Creating \union Moving
  <2>1. CASE new.pc \in {"insertRestaurant", "insertTrip"}
    BY <2>1 DEF HeldOK, DeletionSteps, Creating, Classifying, Moving
  <2>2. CASE \E u \in Users : new = [Idle EXCEPT !.pc = "selectSource",
                                                 !.to = <<u>>, !.start = today]
    <3>1. new.pc = "selectSource" /\ new.keep = <<>> /\ new.move = <<>>
      BY <2>2 DEF Idle
    <3> HIDE DEF new
    <3> QED  BY <3>1 DEF HeldOK, DeletionSteps, Creating, Classifying, Moving
  <2> QED  BY <1>1, <2>1, <2>2
<1>3. job' = [job EXCEPT ![t] = new]
  <2>1. PICK request : job' = [job EXCEPT ![t] = request]
    BY DEF Arrive, NewTrip, NewTripWithRestaurants, DeleteTrip, UpdateTripStatus, Accept
  <2> QED  BY <2>1 DEF TypeInv, TypeOK
<1> HIDE DEF new
<1>4. \A u \in Users, id \in Nat : Owed(new, u, id) = Owed(job[t], u, id)
  BY <1>1, <1>2 DEF Owed, Creating, Moving
<1> QED  BY <1>1, <1>2, <1>3, <1>4, QuietKept

LEMMA RestaurantsKept ==
    ASSUME NEW t \in Threads, TypeInv, KeptInv(t), InsertRestaurant(t) \/ MaxRestaurant(t)
    PROVE  KeptInv(t)'
<1> DEFINE new == job'[t]
<1>1. /\ UNCHANGED <<User, Trip, failed>> /\ job' = [job EXCEPT ![t] = new]
      /\ job[t].pc \in {"insertRestaurant", "maxRestaurant"}
      /\ new.pc \in {"insertRestaurant", "maxRestaurant", "insertTrip"}
  <2>1. CASE InsertRestaurant(t)
    BY <2>1 DEF InsertRestaurant, TypeInv, TypeOK, Job
  <2>2. CASE MaxRestaurant(t)
    BY <2>2 DEF MaxRestaurant, TypeInv, TypeOK, Job
  <2> QED  BY <2>1, <2>2
<1> HIDE DEF new
<1>2. HeldOK(new, User[Head(new.to)], Len(Trip))
  BY <1>1 DEF HeldOK, DeletionSteps, Creating, Classifying
<1>3. \A u \in Users, id \in Nat : Owed(new, u, id) = Owed(job[t], u, id)
  BY <1>1 DEF Owed, Creating, Moving
<1>4. UNCHANGED <<User, Trip, failed>> /\ job' = [job EXCEPT ![t] = new]
  BY <1>1
<1> QED  BY <1>2, <1>3, <1>4, QuietKept

\* The new trip is owed to everybody its creation names; nobody lists it yet.
LEMMA InsertTripKept ==
    ASSUME NEW t \in Threads, TypeInv, KeptInv(t), InsertTrip(t)
    PROVE  KeptInv(t)'
<1> DEFINE row == [begin |-> job[t].begin, end |-> job[t].end,
                   rest |-> job[t].rID, to |-> job[t].to]
           n == Len(Trip)
<1>1. /\ job[t] \in Job /\ row \in TripRow /\ row.to = job[t].to
      /\ Trip' = Append(Trip, row) /\ User' = User /\ failed' = failed
      /\ Trip \in Seq(TripRow) /\ n \in Nat /\ job[t].to \in Seq(Users)
  BY LenProperties DEF TypeInv, TypeOK, Job, TripRow, InsertTrip
<1>2. /\ job[t].pc = "insertTrip" /\ job'[t].pc = "maxTrip" /\ job'[t].own = n + 1
      /\ job'[t].to = job[t].to
  BY <1>1 DEF TypeInv, TypeOK, Job, InsertTrip
<1> HIDE DEF row
<1>3. /\ Len(Trip') = n + 1 /\ Trip'[n + 1] = row
      /\ \A i \in 1..n : Trip'[i] = Trip[i]
  BY <1>1, AppendProperties
<1>4. ASSUME NEW u \in Users, NEW id \in Nat
      PROVE  /\ Listings(u, id)' + Owed(job[t], u, id)' <= Named(u, id)'
             /\ ~ failed' => Listings(u, id)' + Owed(job[t], u, id)' = Named(u, id)'
  <2>1. /\ Listings(u, id)' = Listings(u, id) /\ Listings(u, id) \in Nat
        /\ Listings(u, id) <= Named(u, id)
        /\ ~ failed => Listings(u, id) = Named(u, id)
    <3>1. Owed(job[t], u, id) = 0
      BY <1>2 DEF Owed, Creating, Moving
    <3>2. Listings(u, id) \in Nat
      BY ListingsType
    <3>3. Listings(u, id)' = Listings(u, id)
      BY <1>1 DEF Listings
    <3> QED  BY <3>1, <3>2, <3>3 DEF KeptInv, Balance
  <2>2. Owed(job[t], u, id)' = IF id = n + 1 THEN Count(job[t].to, u) ELSE 0
    <3>1. Count(job[t].to, u) \in Nat
      BY <1>1, CountType
    <3> QED  BY <1>2, <3>1 DEF Owed, Creating, Moving
  <2>3. CASE id = n + 1
    <3>1. Named(u, id) = 0 /\ Named(u, id)' = Count(job[t].to, u)
      BY <1>1, <1>3, <2>3 DEF Named
    <3>2. Count(job[t].to, u) \in Nat
      BY <1>1, CountType
    <3> QED  BY <1>1, <2>1, <2>2, <2>3, <3>1, <3>2
  <2>4. CASE id # n + 1
    <3>1. Named(u, id)' = Named(u, id)
      BY <1>1, <1>3, <2>4 DEF Named
    <3> QED  BY <1>1, <2>1, <2>2, <2>4, <3>1
  <2> QED  BY <2>3, <2>4
<1>5. Balance(t)'
  BY <1>4 DEF Balance
<1>6. HeldOK(job[t], User[Target(t)], Len(Trip))'
  BY <1>2, <1>3 DEF HeldOK, DeletionSteps, Creating, Classifying
<1> QED  BY <1>1, <1>5, <1>6 DEF KeptInv

\* SELECT MAX finds the trip just inserted, and SELECT the list to extend.
LEMMA SelectsKept ==
    ASSUME NEW t \in Threads, TypeInv, KeptInv(t), MaxTrip(t) \/ SelectUser(t)
    PROVE  KeptInv(t)'
<1> DEFINE new == job'[t]
<1>1. /\ UNCHANGED <<User, Trip, failed>> /\ job' = [job EXCEPT ![t] = new]
      /\ job[t].pc \in {"maxTrip", "selectUser"}
      /\ new.to = job[t].to /\ new.own = job[t].own
      /\ \/ new.pc = "selectUser" /\ new.tripID = Len(Trip)
         \/ /\ new.pc = "updateUser" /\ new.trips = TextOf(User[Target(t)]["current_trip"])
            /\ new.tripID = job[t].tripID /\ job[t].pc = "selectUser"
  <2>1. CASE MaxTrip(t)
    BY <2>1 DEF MaxTrip, TypeInv, TypeOK, Job
  <2>2. CASE SelectUser(t)
    <3> DEFINE x == TextOf(User[Target(t)]["current_trip"])
    <3>1. job' = [job EXCEPT ![t] = [job[t] EXCEPT !.pc = "updateUser", !.trips = x]]
          /\ UNCHANGED <<User, Trip, failed>> /\ job[t].pc = "selectUser"
      BY <2>2 DEF SelectUser, TypeInv, TypeOK
    <3> HIDE DEF x
    <3>2. /\ new.to = job[t].to /\ new.own = job[t].own /\ new.tripID = job[t].tripID
          /\ new.pc = "updateUser" /\ new.trips = x
          /\ job' = [job EXCEPT ![t] = new]
      BY <3>1 DEF TypeInv, TypeOK, Job
    <3> QED  BY <3>1, <3>2 DEF x
  <2> QED  BY <2>1, <2>2
<1>2. /\ job[t].own = Len(Trip)
      /\ job[t].pc = "selectUser" => job[t].tripID = Len(Trip)
  BY <1>1 DEF KeptInv, HeldOK, Creating
<1> HIDE DEF new
<1>3. HeldOK(new, User[Head(new.to)], Len(Trip))
  BY <1>1, <1>2 DEF HeldOK, DeletionSteps, Creating, Classifying, Target
<1>4. \A u \in Users, id \in Nat : Owed(new, u, id) = Owed(job[t], u, id)
  BY <1>1 DEF Owed, Creating, Moving
<1>5. UNCHANGED <<User, Trip, failed>> /\ job' = [job EXCEPT ![t] = new]
  BY <1>1
<1> QED  BY <1>3, <1>4, <1>5, QuietKept

\* The next user is paid: the trip comes once more into the user's list.
LEMMA UpdateUserKept ==
    ASSUME NEW t \in Threads, TypeInv, KeptInv(t), UpdateUser(t)
    PROVE  KeptInv(t)'
<1> DEFINE v == Target(t)
           n == job[t].tripID
           x == AddIds(job[t].trips, <<n>>)
           new == IF Len(job[t].to) = 1
                  THEN Idle
                  ELSE [job[t] EXCEPT !.pc = "selectUser", !.to = Tail(job[t].to),
                                      !.trips = Empty]
           old == job[t].trips
<1>1. /\ job[t] \in Job /\ job[t].pc = "updateUser" /\ v \in Users
      /\ job' = [job EXCEPT ![t] = new] /\ Trip' = Trip /\ failed' = failed
      /\ User' = [User EXCEPT ![v]["current_trip"] = x]
  BY TargetType DEF UpdateUser, TypeInv, TypeOK
<1>2. /\ job[t].to \in Seq(Users) /\ job[t].to # <<>> /\ n \in Nat
      /\ old \in Text /\ old.ids \in Seq(Nat)
      /\ Len(job[t].to) \in Nat
  BY <1>1, LenProperties DEF TypeInv, TypeOK, Job, Text
<1>3. /\ old = TextOf(User[v]["current_trip"]) /\ old.closed
      /\ job[t].own = n /\ n = Len(Trip)
  BY <1>1 DEF KeptInv, HeldOK, Creating, Columns
<1>4. x = [ids |-> Append(old.ids, n), closed |-> TRUE] /\ x \in Text /\ TextOf(x) = x
  <2>1. <<n>> \in Seq(Nat) /\ <<n>> # <<>> /\ old.ids \o <<n>> = Append(old.ids, n)
    BY <1>2
  <2>2. x \in Text
    BY <1>2, <2>1, AddIdsType
  <2> QED  BY <1>3, <2>1, <2>2, NullAssumption DEF AddIds, TextOf
<1>5. \A id : Count(TextOf(x).ids, id) = Count(old.ids, id) + IF n = id THEN 1 ELSE 0
  <2>1. TextOf(x).ids = Append(old.ids, n)
    BY <1>4
  <2> HIDE DEF x, old, n
  <2> QED  BY <1>2, <2>1, CountAppend
<1>6. x \in Column /\ TextOf(x).closed
  BY <1>4 DEF Column
<1> HIDE DEF x, old
<1>7. \A u \in Users, id \in Nat :
          Listings(u, id)' = Listings(u, id) + IF u = v /\ id = n THEN 1 ELSE 0
  <2> TAKE u \in Users, id \in Nat
  <2> DEFINE a == Count(TextOf(User[v]["current_trip"]).ids, id)
             b == Count(TextOf(x).ids, id)
  <2>1. Listings(u, id)' = IF u = v THEN Listings(u, id) - a + b ELSE Listings(u, id)
    <3>1. "current_trip" \in Columns /\ x \in Column /\ v \in Users
          /\ User' = [User EXCEPT ![v]["current_trip"] = x]
      BY <1>1, <1>6 DEF Columns
    <3> HIDE DEF v
    <3> QED  BY <3>1, ColumnRewritten
  <2>2. a \in Nat /\ b = a + IF n = id THEN 1 ELSE 0
    BY <1>1, <1>3, <1>5, ColumnCount DEF TypeInv, TypeOK, Columns
  <2>3. Listings(u, id) \in Nat
    BY ListingsType
  <2> HIDE DEF a, b, v
  <2> QED  BY <2>1, <2>2, <2>3
<1>8. \A u \in Users, c \in Columns : TextOf(User'[u][c]).closed
  BY <1>1, <1>6 DEF KeptInv, TypeInv, TypeOK
<1>9. \A u \in Users : Count(job[t].to, u) = Count(Tail(job[t].to), u) + IF v = u THEN 1 ELSE 0
  BY <1>2, CountHead DEF Target
<1>10. \A u \in Users, id \in Nat :
           Owed(job[t], u, id) = IF id = n THEN Count(job[t].to, u) ELSE 0
  <2>1. \A u \in Users : Count(job[t].to, u) \in Nat
    BY <1>2, CountType
  <2> QED  BY <1>1, <1>3, <2>1 DEF Owed, Creating, Moving
<1>11. /\ Tail(job[t].to) \in Seq(Users)
       /\ \A u \in Users : Count(Tail(job[t].to), u) \in Nat
  <2>1. Tail(job[t].to) \in Seq(Users)
    BY <1>2, HeadTailProperties
  <2> QED  BY <2>1, CountType
<1>12. CASE Len(job[t].to) = 1
  <2>1. new = Idle
    BY <1>12
  <2> HIDE DEF new
  <2>2. Tail(job[t].to) = <<>>
    <3>1. Tail(job[t].to) \in Seq(Users) /\ Len(Tail(job[t].to)) = 0
      BY <1>2, <1>12, HeadTailProperties
    <3> QED  BY <3>1, EmptySeq
  <2>3. \A u \in Users, id \in Nat :
            Listings(u, id)' + Owed(new, u, id) = Listings(u, id) + Owed(job[t], u, id)
    <3> TAKE u \in Users, id \in Nat
    <3>1. Owed(new, u, id) = 0
      BY <2>1 DEF Owed, Idle, Creating, Moving
    <3>2. Count(job[t].to, u) = IF v = u THEN 1 ELSE 0
      <4>1. Count(Tail(job[t].to), u) = 0
        BY <2>2, CountEmpty
      <4> QED  BY <1>9, <4>1
    <3>3. Listings(u, id) \in Nat
      BY ListingsType
    <3> QED  BY <1>7, <1>10, <3>1, <3>2, <3>3
  <2>4. HeldOK(new, User'[Head(new.to)], Len(Trip))
    BY <2>1 DEF HeldOK, Idle, DeletionSteps, Creating, Classifying
  <2>5. job' = [job EXCEPT ![t] = new] /\ Trip' = Trip /\ failed' = failed
    BY <1>1
  <2> QED  BY <1>8, <2>3, <2>4, <2>5, KeptStep
<1>13. CASE Len(job[t].to) # 1
  <2>1. /\ new.pc = "selectUser" /\ new.to = Tail(job[t].to) /\ new.own = job[t].own
        /\ new.tripID = n
    BY <1>1, <1>13 DEF Job
  <2> HIDE DEF new
  <2>2. \A u \in Users, id \in Nat :
            Listings(u, id)' + Owed(new, u, id) = Listings(u, id) + Owed(job[t], u, id)
    <3> TAKE u \in Users, id \in Nat
    <3>1. Owed(new, u, id) = IF id = n THEN Count(Tail(job[t].to), u) ELSE 0
      BY <1>3, <1>11, <2>1 DEF Owed, Creating, Moving
    <3>2. Listings(u, id) \in Nat /\ Count(Tail(job[t].to), u) \in Nat
      BY <1>11, ListingsType
    <3> QED  BY <1>7, <1>9, <1>10, <3>1, <3>2
  <2>3. HeldOK(new, User'[Head(new.to)], Len(Trip))
    BY <1>3, <2>1 DEF HeldOK, DeletionSteps, Creating, Classifying
  <2>4. job' = [job EXCEPT ![t] = new] /\ Trip' = Trip /\ failed' = failed
    BY <1>1
  <2> QED  BY <1>8, <2>2, <2>3, <2>4, KeptStep
<1> QED  BY <1>12, <1>13

\* The next block starts with nothing in hand.
LEMMA NextBlockKept ==
    ASSUME NEW t \in Threads, TypeInv, job[t].pc # "idle", NEW row, NEW n
    PROVE  /\ HeldOK(NextBlock(job[t]), row, n)
           /\ \A u, id : Owed(NextBlock(job[t]), u, id) = 0
<1> DEFINE new == NextBlock(job[t])
<1>1. \/ new.pc = "idle"
      \/ new.pc = "selectSource" /\ new.keep = <<>> /\ new.move = <<>>
  BY NextBlockLocals DEF Idle
<1> HIDE DEF new
<1>2. HeldOK(new, row, n)
  BY <1>1 DEF HeldOK, DeletionSteps, Creating, Classifying
<1>3. \A u, id : Owed(new, u, id) = 0
  BY <1>1 DEF Owed, Creating, Moving
<1> QED  BY <1>2, <1>3 DEF new

\* The trips of the source column are those to classify.
LEMMA SelectSourceKept ==
    ASSUME NEW t \in Threads, TypeInv, KeptInv(t), SelectSource(t)
    PROVE  KeptInv(t)'
<1> DEFINE x == TextOf(User[Target(t)][Source(job[t].phase)])
           new == [job[t] EXCEPT !.pc = "selectDates", !.ids = x.ids]
<1>1. /\ job[t] \in Job /\ job[t].pc = "selectSource" /\ UNCHANGED <<User, Trip, failed>>
  BY DEF TypeInv, TypeOK, SelectSource
<1>2. \A u, id : Owed(job[t], u, id) = 0
  BY <1>1 DEF Owed, Creating, Moving
<1>3. CASE x.ids = <<>>
  <2>1. job' = [job EXCEPT ![t] = NextBlock(job[t])]
    BY <1>3 DEF SelectSource
  <2> DEFINE next == NextBlock(job[t])
  <2>2. /\ HeldOK(next, User[Head(next.to)], Len(Trip))
        /\ \A u, id : Owed(next, u, id) = 0
    BY <1>1, NextBlockKept
  <2>3. job' = [job EXCEPT ![t] = next] /\ UNCHANGED <<User, Trip, failed>>
    BY <1>1, <2>1
  <2> HIDE DEF next
  <2> QED  BY <1>2, <2>2, <2>3, QuietKept
<1>4. CASE x.ids # <<>>
  <2>1. job' = [job EXCEPT ![t] = new]
    BY <1>4 DEF SelectSource
  <2>2. /\ new.pc = "selectDates" /\ new.ids = x.ids /\ new.to = job[t].to
        /\ new.keep = <<>> /\ new.move = <<>> /\ new.phase = job[t].phase
    <3>1. job[t].keep = <<>> /\ job[t].move = <<>>
      BY <1>1 DEF KeptInv, HeldOK
    <3> HIDE DEF x
    <3> QED  BY <1>1, <3>1 DEF Job
  <2>3. Target(t) \in Users /\ Source(job[t].phase) \in Columns
    BY <1>1, TargetType DEF Source, Columns
  <2>4. \A id \in Nat : Count(x.ids, id) \in Nat
    BY <2>3, ColumnCount DEF TypeInv, TypeOK
  <2>5. TextOf(User[Head(new.to)][Source(new.phase)]) = x
    BY <2>2 DEF Target
  <2> HIDE DEF new, x
  <2>6. HeldOK(new, User[Head(new.to)], Len(Trip))
    <3>1. \A id \in Nat : Count(new.ids, id) + Count(new.keep, id) + Count(new.move, id)
                              = Count(x.ids, id)
      BY <2>2, <2>4, CountEmpty
    <3> QED  BY <2>2, <2>5, <3>1 DEF HeldOK, DeletionSteps, Creating, Classifying
  <2>7. \A u, id : Owed(new, u, id) = 0
    BY <2>2 DEF Owed, Creating, Moving
  <2> QED  BY <1>1, <1>2, <2>1, <2>6, <2>7, QuietKept
<1> QED  BY <1>3, <1>4

LEMMA SelectDatesKept ==
    ASSUME NEW t \in Threads, TypeInv, KeptInv(t), SelectDates(t)
    PROVE  KeptInv(t)'
<1> DEFINE new == [job[t] EXCEPT !.pc = "classify"]
<1>1. /\ job[t] \in Job /\ job[t].pc = "selectDates" /\ UNCHANGED <<User, Trip, failed>>
  BY DEF TypeInv, TypeOK, SelectDates
<1>2. \A u, id : Owed(job[t], u, id) = 0
  BY <1>1 DEF Owed, Creating, Moving
<1>3. CASE job' = [job EXCEPT ![t] = Idle]
  <2>1. \A u, id : Owed(Idle, u, id) = 0
    BY DEF Owed, Idle, Creating, Moving
  <2>2. HeldOK(Idle, User[Head(Idle.to)], Len(Trip))
    BY DEF HeldOK, Idle, DeletionSteps, Creating, Classifying
  <2> QED  BY <1>1, <1>2, <1>3, <2>1, <2>2, QuietKept
<1>4. CASE job' = [job EXCEPT ![t] = new]
  <2>1. /\ new.pc = "classify" /\ new.ids = job[t].ids /\ new.to = job[t].to
        /\ new.keep = job[t].keep /\ new.move = job[t].move /\ new.phase = job[t].phase
    BY <1>1 DEF Job
  <2> HIDE DEF new
  <2>2. HeldOK(new, User[Head(new.to)], Len(Trip))
    BY <1>1, <2>1 DEF KeptInv, HeldOK, DeletionSteps, Creating, Classifying, Target
  <2>3. \A u, id : Owed(new, u, id) = 0
    BY <2>1 DEF Owed, Creating, Moving
  <2> QED  BY <1>1, <1>2, <1>4, <2>2, <2>3, QuietKept
<1> QED  BY <1>3, <1>4 DEF SelectDates

\* A trip goes from the list to classify to one of the other two.
LEMMA ClassifyKept ==
    ASSUME NEW t \in Threads, TypeInv, KeptInv(t), Classify(t)
    PROVE  KeptInv(t)'
<1> DEFINE i == Head(job[t].ids)
           moves == Moves(job[t].phase, Trip[i])
           classified == IF moves
                         THEN [job[t] EXCEPT !.move = Append(@, i)]
                         ELSE [job[t] EXCEPT !.keep = Append(@, i)]
           pc == IF Len(job[t].ids) = 1 THEN "updateSource" ELSE "classify"
           new == [classified EXCEPT !.ids = Tail(job[t].ids), !.pc = pc]
           row == User[Target(t)]
<1>1. /\ job[t] \in Job /\ job[t].pc = "classify" /\ UNCHANGED <<User, Trip, failed>>
      /\ job' = [job EXCEPT ![t] = new]
  BY DEF TypeInv, TypeOK, Classify
<1>2. /\ job[t].ids \in Seq(Nat) /\ job[t].ids # <<>>
      /\ job[t].move \in Seq(Nat) /\ job[t].keep \in Seq(Nat)
  BY <1>1 DEF TypeInv, StepsOK, Job
<1>3. i \in Nat /\ Tail(job[t].ids) \in Seq(Nat)
  BY <1>2, HeadTailProperties
<1>4. /\ pc \in {"updateSource", "classify"}
      /\ pc = "updateSource" => Tail(job[t].ids) = <<>>
  <2>1. Len(job[t].ids) = 1 => Len(Tail(job[t].ids)) = 0
    BY <1>2, HeadTailProperties
  <2> QED  BY <1>3, <2>1, EmptySeq
<1>5. \A id \in Nat :
          Count(TextOf(row[Source(job[t].phase)]).ids, id) =
              Count(job[t].ids, id) + Count(job[t].keep, id) + Count(job[t].move, id)
  BY <1>1 DEF KeptInv, HeldOK, Classifying
<1>6. ASSUME NEW id \in Nat
      PROVE  /\ Count(job[t].ids, id) = Count(Tail(job[t].ids), id) + IF i = id THEN 1 ELSE 0
             /\ Count(Append(job[t].move, i), id) =
                    Count(job[t].move, id) + IF i = id THEN 1 ELSE 0
             /\ Count(Append(job[t].keep, i), id) =
                    Count(job[t].keep, id) + IF i = id THEN 1 ELSE 0
             /\ Count(Tail(job[t].ids), id) \in Nat
             /\ Count(job[t].move, id) \in Nat /\ Count(job[t].keep, id) \in Nat
  <2>1. /\ Count(Tail(job[t].ids), id) \in Nat
        /\ Count(job[t].move, id) \in Nat /\ Count(job[t].keep, id) \in Nat
    BY <1>2, <1>3, CountType
  <2>2. Count(job[t].ids, id) = Count(Tail(job[t].ids), id) + IF i = id THEN 1 ELSE 0
    BY <1>2, CountHead
  <2> HIDE DEF i
  <2>3. \A s \in Seq(Nat) : Count(Append(s, i), id) = Count(s, id) + IF i = id THEN 1 ELSE 0
    <3>1. i \in Nat
      BY <1>3
    <3> TAKE s \in Seq(Nat)
    <3> QED  BY <3>1, CountAppend
  <2> QED  BY <1>2, <2>1, <2>2, <2>3
<1> HIDE DEF i, moves, pc
<1>7. /\ new.pc = pc /\ new.ids = Tail(job[t].ids) /\ new.phase = job[t].phase
      /\ new.to = job[t].to
      /\ new.move = IF moves THEN Append(job[t].move, i) ELSE job[t].move
      /\ new.keep = IF moves THEN job[t].keep ELSE Append(job[t].keep, i)
  <2>1. CASE moves
    BY <1>1, <2>1 DEF Job
  <2>2. CASE ~ moves
    BY <1>1, <2>2 DEF Job
  <2> QED  BY <2>1, <2>2
<1>8. job' = [job EXCEPT ![t] = new] /\ UNCHANGED <<User, Trip, failed>>
  BY <1>1
<1> HIDE DEF new
<1>9. \A id \in Nat : Count(TextOf(row[Source(new.phase)]).ids, id) =
          Count(new.ids, id) + Count(new.keep, id) + Count(new.move, id)
  <2> TAKE id \in Nat
  <2>1. Count(job[t].ids, id) + Count(job[t].keep, id) + Count(job[t].move, id) =
            Count(new.ids, id) + Count(new.keep, id) + Count(new.move, id)
    <3> DEFINE one == IF i = id THEN 1 ELSE 0
               rest == Count(Tail(job[t].ids), id)
               keep == Count(job[t].keep, id)
               move == Count(job[t].move, id)
    <3>1. /\ rest \in Nat /\ keep \in Nat /\ move \in Nat /\ one \in Nat
          /\ Count(job[t].ids, id) = rest + one
      BY <1>6
    <3>2. Count(new.ids, id) = rest
      BY <1>7
    <3>3. Count(new.keep, id) = IF moves THEN keep ELSE keep + one
      BY <1>6, <1>7
    <3>4. Count(new.move, id) = IF moves THEN move + one ELSE move
      BY <1>6, <1>7
    <3> HIDE DEF one, rest
    <3> QED  BY <3>1, <3>2, <3>3, <3>4
  <2> QED  BY <1>5, <1>7, <2>1
<1>10. HeldOK(new, User[Head(new.to)], Len(Trip))
  <2>1. User[Head(new.to)] = row
    BY <1>7 DEF Target
  <2> HIDE DEF row
  <2> QED  BY <1>4, <1>7, <1>9, <2>1 DEF HeldOK, DeletionSteps, Creating
<1>11. \A u, id : Owed(new, u, id) = 0 /\ Owed(job[t], u, id) = 0
  BY <1>1, <1>4, <1>7 DEF Owed, Creating, Moving
<1> QED  BY <1>8, <1>10, <1>11, QuietKept

\* The trips that leave the source are owed to the destination.
LEMMA UpdateSourceKept ==
    ASSUME NEW t \in Threads, TypeInv, KeptInv(t), UpdateSource(t)
    PROVE  KeptInv(t)'
<1> DEFINE v == Target(t)
           c == Source(job[t].phase)
           x == ListOf(job[t].keep)
           new == [job[t] EXCEPT !.pc = "selectTarget", !.keep = <<>>]
<1>1. /\ job[t] \in Job /\ job[t].pc = "updateSource" /\ v \in Users
      /\ job' = [job EXCEPT ![t] = new] /\ Trip' = Trip /\ failed' = failed
      /\ User' = [User EXCEPT ![v][c] = x] /\ c \in Columns
  BY TargetType DEF UpdateSource, TypeInv, TypeOK, Source, Columns
<1>2. /\ x \in Column /\ TextOf(x).closed /\ TextOf(x).ids = job[t].keep
  <2>1. x \in Text
    BY <1>1, ListOfType DEF Job
  <2> QED  BY <2>1, NullAssumption DEF Column, TextOf, ListOf
<1>3. job[t].move \in Seq(Nat) /\ job[t].keep \in Seq(Nat)
  BY <1>1 DEF Job
<1>4. \A id \in Nat : Count(TextOf(User[v][c]).ids, id) =
                          Count(job[t].keep, id) + Count(job[t].move, id)
  <2> TAKE id \in Nat
  <2>1. Count(TextOf(User[v][c]).ids, id) =
            Count(job[t].ids, id) + Count(job[t].keep, id) + Count(job[t].move, id)
    BY <1>1 DEF KeptInv, HeldOK, Classifying
  <2>2. Count(job[t].ids, id) = 0
    BY <1>1, CountEmpty DEF KeptInv, HeldOK
  <2>3. Count(job[t].keep, id) \in Nat /\ Count(job[t].move, id) \in Nat
    BY <1>3, CountType
  <2> QED  BY <2>1, <2>2, <2>3
<1>5. /\ new.pc = "selectTarget" /\ new.to = job[t].to /\ new.move = job[t].move
  BY <1>1 DEF Job
<1>6. job' = [job EXCEPT ![t] = new] /\ Trip' = Trip /\ failed' = failed
  BY <1>1
<1> HIDE DEF new, x, c
<1>7. \A u \in Users, d \in Columns : TextOf(User'[u][d]).closed
  BY <1>1, <1>2 DEF KeptInv, TypeInv, TypeOK
<1>8. HeldOK(new, User'[Head(new.to)], Len(Trip))
  BY <1>5 DEF HeldOK, DeletionSteps, Creating, Classifying
<1>9. \A u \in Users, id \in Nat :
          Listings(u, id)' + Owed(new, u, id) = Listings(u, id) + Owed(job[t], u, id)
  <2> TAKE u \in Users, id \in Nat
  <2> DEFINE k == Count(job[t].keep, id)
             m == Count(job[t].move, id)
  <2>1. k \in Nat /\ m \in Nat /\ Listings(u, id) \in Nat
    BY <1>3, CountType, ListingsType
  <2>2. Listings(u, id)' = IF u = v THEN Listings(u, id) - (k + m) + k ELSE Listings(u, id)
    <3> HIDE DEF v
    <3>1. Listings(u, id)' = IF u = v THEN Listings(u, id)
                                              - Count(TextOf(User[v][c]).ids, id)
                                              + Count(TextOf(x).ids, id)
                             ELSE Listings(u, id)
      BY <1>1, <1>2, ColumnRewritten
    <3> QED  BY <1>2, <1>4, <3>1
  <2>3. Owed(new, u, id) = IF u = v THEN m ELSE 0
    BY <1>5, <2>1 DEF Owed, Creating, Moving, Target
  <2>4. Owed(job[t], u, id) = 0
    BY <1>1 DEF Owed, Creating, Moving
  <2> HIDE DEF k, m, v
  <2> QED  BY <2>1, <2>2, <2>3, <2>4
<1> QED  BY <1>6, <1>7, <1>8, <1>9, KeptStep

LEMMA SelectTargetKept ==
    ASSUME NEW t \in Threads, TypeInv, KeptInv(t), SelectTarget(t)
    PROVE  KeptInv(t)'
<1> DEFINE x == TextOf(User[Target(t)][Destination(job[t].phase)])
           new == [job[t] EXCEPT !.pc = "updateTarget", !.trips = x]
<1>1. /\ job[t] \in Job /\ job[t].pc = "selectTarget" /\ UNCHANGED <<User, Trip, failed>>
      /\ job' = [job EXCEPT ![t] = new]
  BY DEF TypeInv, TypeOK, SelectTarget
<1>2. /\ new.pc = "updateTarget" /\ new.trips = x /\ new.to = job[t].to
      /\ new.move = job[t].move /\ new.phase = job[t].phase
  <2> HIDE DEF x
  <2> QED  BY <1>1 DEF Job
<1>3. TextOf(User[Head(new.to)][Destination(new.phase)]) = x
  BY <1>2 DEF Target
<1>4. job' = [job EXCEPT ![t] = new] /\ UNCHANGED <<User, Trip, failed>>
  BY <1>1
<1> HIDE DEF new, x
<1>5. HeldOK(new, User[Head(new.to)], Len(Trip))
  BY <1>2, <1>3 DEF HeldOK, DeletionSteps, Creating, Classifying
<1>6. \A u \in Users, id \in Nat : Owed(new, u, id) = Owed(job[t], u, id)
  BY <1>1, <1>2 DEF Owed, Creating, Moving
<1> QED  BY <1>4, <1>5, <1>6, QuietKept

\* The destination gets what it is owed.
LEMMA UpdateTargetKept ==
    ASSUME NEW t \in Threads, TypeInv, KeptInv(t), UpdateTarget(t)
    PROVE  KeptInv(t)'
<1> DEFINE v == Target(t)
           c == Destination(job[t].phase)
           old == job[t].trips
           x == AddIds(old, job[t].move)
           new == NextBlock(job[t])
<1>1. /\ job[t] \in Job /\ job[t].pc = "updateTarget" /\ v \in Users
      /\ job' = [job EXCEPT ![t] = new] /\ Trip' = Trip /\ failed' = failed
      /\ User' = [User EXCEPT ![v][c] = x] /\ c \in Columns
  BY TargetType DEF UpdateTarget, TypeInv, TypeOK, Destination, Columns
<1>2. /\ old \in Text /\ old.ids \in Seq(Nat) /\ job[t].move \in Seq(Nat)
      /\ old = TextOf(User[v][c])
  BY <1>1 DEF Job, Text, KeptInv, HeldOK
<1>3. old.closed
  BY <1>1, <1>2 DEF KeptInv
<1>4. x \in Text /\ x.ids = old.ids \o job[t].move /\ x.closed
  <2>1. x \in Text
    BY <1>2, AddIdsType
  <2>2. CASE job[t].move = <<>>
    BY <1>2, <1>3, <2>1, <2>2 DEF AddIds
  <2>3. CASE job[t].move # <<>>
    BY <1>3, <2>1, <2>3 DEF AddIds
  <2> QED  BY <2>1, <2>2, <2>3
<1>5. x \in Column /\ TextOf(x) = x
  BY <1>4, NullAssumption DEF Column, TextOf
<1> HIDE DEF x
<1>6. \A id : Count(TextOf(x).ids, id) = Count(old.ids, id) + Count(job[t].move, id)
  <2>1. \A id : Count(old.ids \o job[t].move, id) = Count(old.ids, id) + Count(job[t].move, id)
    BY <1>2, CountConcat
  <2> HIDE DEF old
  <2> QED  BY <1>4, <1>5, <2>1
<1>7. job' = [job EXCEPT ![t] = new] /\ Trip' = Trip /\ failed' = failed
  BY <1>1
<1>8. HeldOK(new, User'[Head(new.to)], Len(Trip)) /\ \A u, id : Owed(new, u, id) = 0
  BY <1>1, NextBlockKept
<1> HIDE DEF new, c
<1>9. \A u \in Users, d \in Columns : TextOf(User'[u][d]).closed
  BY <1>1, <1>4, <1>5 DEF KeptInv, TypeInv, TypeOK
<1>10. \A u \in Users, id \in Nat :
           Listings(u, id)' + Owed(new, u, id) = Listings(u, id) + Owed(job[t], u, id)
  <2> TAKE u \in Users, id \in Nat
  <2> DEFINE k == Count(old.ids, id)
             m == Count(job[t].move, id)
  <2>1. k \in Nat /\ m \in Nat /\ Listings(u, id) \in Nat
    BY <1>2, CountType, ListingsType
  <2>2. Listings(u, id)' = IF u = v THEN Listings(u, id) - k + (k + m) ELSE Listings(u, id)
    <3> HIDE DEF v
    <3>1. Listings(u, id)' = IF u = v THEN Listings(u, id)
                                              - Count(TextOf(User[v][c]).ids, id)
                                              + Count(TextOf(x).ids, id)
                             ELSE Listings(u, id)
      BY <1>1, <1>5, ColumnRewritten
    <3>2. Count(TextOf(User[v][c]).ids, id) = k
      BY <1>2
    <3> QED  BY <1>6, <3>1, <3>2
  <2>3. Owed(job[t], u, id) = IF u = v THEN m ELSE 0
    BY <1>1, <2>1 DEF Owed, Creating, Moving, Target
  <2> HIDE DEF k, m, v
  <2> QED  BY <1>8, <2>1, <2>2, <2>3
<1> QED  BY <1>7, <1>8, <1>9, <1>10, KeptStep

\* A failure gives up what is owed.
LEMMA FailKept ==
    ASSUME NEW t \in Threads, TypeInv, KeptInv(t), Fail(t)
    PROVE  KeptInv(t)'
<1>1. job'[t] = Idle /\ failed' = TRUE /\ User' = User /\ Trip' = Trip /\ job[t] \in Job
  BY DEF Fail, TypeInv, TypeOK
<1>2. HeldOK(job[t], User[Target(t)], Len(Trip))'
  BY <1>1 DEF HeldOK, Idle, DeletionSteps, Creating, Classifying
<1>3. ASSUME NEW u \in Users, NEW id \in Nat
      PROVE  Listings(u, id)' + Owed(job[t], u, id)' <= Named(u, id)'
  <2>1. Owed(job[t], u, id)' = 0
    BY <1>1 DEF Owed, Idle, Creating, Moving
  <2>2. Listings(u, id)' = Listings(u, id) /\ Named(u, id)' = Named(u, id)
    BY <1>1 DEF Listings, Named
  <2>3. Listings(u, id) \in Nat /\ Owed(job[t], u, id) \in Nat
    BY <1>1, ListingsType, OwedType
  <2>4. Listings(u, id) + Owed(job[t], u, id) <= Named(u, id)
    BY DEF KeptInv, Balance
  <2>5. Named(u, id) \in Nat
    <3>1. CASE id \in 1..Len(Trip)
      <4>1. Trip[id] \in TripRow
        BY <3>1, ElementOfSeq DEF TypeInv, TypeOK
      <4>2. Trip[id].to \in Seq(Users)
        BY <4>1 DEF TripRow
      <4> QED  BY <3>1, <4>2, CountType DEF Named
    <3>2. CASE id \notin 1..Len(Trip)
      BY <3>2 DEF Named
    <3> QED  BY <3>1, <3>2
  <2> QED  BY <2>1, <2>2, <2>3, <2>4, <2>5
<1>4. \A u \in Users, c \in Columns : TextOf(User'[u][c]).closed
  BY <1>1 DEF KeptInv
<1> QED  BY <1>1, <1>2, <1>3, <1>4 DEF KeptInv, Balance

LEMMA NextKept ==
    ASSUME NEW t, Threads = {t}, "deleteTrip" \notin Kinds, TypeInv, KeptInv(t), [Next]_vars
    PROVE  KeptInv(t)'
<1>1. CASE UNCHANGED <<User, Trip, job, failed>>
  BY <1>1 DEF KeptInv, HeldOK, Balance, Listings, Owed, Named, Target
<1>2. CASE Arrive(t)
  BY <1>2, ArriveKept
<1>3. CASE Step(t)
  <2>1. job[t].pc \notin DeletionSteps
    BY DEF KeptInv, HeldOK
  <2>2. ~ SelectTrips(t) /\ ~ UpdateTrips(t)
    BY <2>1 DEF SelectTrips, UpdateTrips, DeletionSteps
  <2> QED  BY <1>3, <2>2, RestaurantsKept, InsertTripKept, SelectsKept, UpdateUserKept,
              SelectSourceKept, SelectDatesKept, ClassifyKept, UpdateSourceKept,
              SelectTargetKept, UpdateTargetKept DEF Step
<1>4. CASE Fail(t)
  BY <1>4, FailKept
<1> QED  BY <1>1, <1>2, <1>3, <1>4 DEF Next, Tick, vars

LEMMA InitKept ==
    ASSUME NEW t, Threads = {t}, Init
    PROVE  KeptInv(t)
<1>1. job[t] = Idle /\ Trip = <<>> /\ \A u \in Users, c \in Columns : User[u][c] = NULL
  BY DEF Init
<1>2. TextOf(NULL) = Empty
  BY DEF TextOf
<1>3. HeldOK(job[t], User[Target(t)], Len(Trip))
  BY <1>1 DEF HeldOK, Idle, DeletionSteps, Creating, Classifying
<1>4. ASSUME NEW u \in Users, NEW id \in Nat
      PROVE  Listings(u, id) = 0 /\ Owed(job[t], u, id) = 0 /\ Named(u, id) = 0
  <2>1. Count(Empty.ids, id) = 0
    BY CountEmpty DEF Empty
  <2>2. Listings(u, id) = 0
    BY <1>1, <1>2, <2>1 DEF Listings, Columns
  <2> QED  BY <1>1, <2>2 DEF Owed, Idle, Creating, Moving, Named
<1>5. \A u \in Users, c \in Columns : TextOf(User[u][c]).closed
  BY <1>1, <1>2 DEF Empty
<1> QED  BY <1>3, <1>4, <1>5 DEF KeptInv, Balance

\* NoneTwice: if requests come one after another and none is a deleteTrip, then no
\* sequence of creations, failures and UpdateTripStatus lists a trip more often than
\* its creation named the user.
THEOREM NoneTwice ==
    ASSUME NEW t, Threads = {t}, "deleteTrip" \notin Kinds
    PROVE  Spec => []ListedAtMostOnce
<1>1. TypeInv /\ KeptInv(t) => ListedAtMostOnce
  <2> SUFFICES ASSUME TypeInv, KeptInv(t), NEW u \in Users, NEW id \in 1..Len(Trip)
               PROVE  Listings(u, id) <= Count(Trip[id].to, u)
    BY DEF ListedAtMostOnce
  <2>1. job[t] \in Job /\ Len(Trip) \in Nat
    BY LenProperties DEF TypeInv, TypeOK
  <2>2. Listings(u, id) \in Nat /\ Owed(job[t], u, id) \in Nat
    BY <2>1, ListingsType, OwedType
  <2>3. Listings(u, id) + Owed(job[t], u, id) <= Count(Trip[id].to, u)
    BY <2>1 DEF KeptInv, Balance, Named
  <2>4. Count(Trip[id].to, u) \in Nat
    <3>1. Trip[id] \in TripRow
      BY ElementOfSeq DEF TypeInv, TypeOK
    <3>2. Trip[id].to \in Seq(Users)
      BY <3>1 DEF TripRow
    <3> QED  BY <3>2, CountType
  <2> QED  BY <2>2, <2>3, <2>4
<1>2. Init => KeptInv(t)
  BY InitKept
<1>3. TypeInv /\ KeptInv(t) /\ [Next]_vars => KeptInv(t)'
  BY NextKept
<1> QED  BY <1>1, <1>2, <1>3, InitType, NextType, PTL DEF Spec

\* NoneLost: as long as no such request fails, every trip is listed, whenever the
\* server is idle, exactly as often as its creation named the user.
THEOREM NoneLost ==
    ASSUME NEW t, Threads = {t}, "deleteTrip" \notin Kinds
    PROVE  Spec => []TripsKept
<1>1. TypeInv /\ KeptInv(t) => TripsKept
  <2> SUFFICES ASSUME TypeInv, KeptInv(t), ~ failed, job[t].pc = "idle",
                      NEW u \in Users, NEW id \in 1..Len(Trip)
               PROVE  Listings(u, id) = Count(Trip[id].to, u)
    BY DEF TripsKept
  <2>1. Owed(job[t], u, id) = 0
    BY DEF Owed, Creating, Moving
  <2>2. Listings(u, id) \in Nat
    BY ListingsType
  <2>3. id \in Nat
    BY LenProperties DEF TypeInv, TypeOK
  <2>4. Listings(u, id) + Owed(job[t], u, id) = Count(Trip[id].to, u)
    BY <2>3 DEF KeptInv, Balance, Named
  <2> QED  BY <2>1, <2>2, <2>4
<1>2. Init => KeptInv(t)
  BY InitKept
<1>3. TypeInv /\ KeptInv(t) /\ [Next]_vars => KeptInv(t)'
  BY NextKept
<1> QED  BY <1>1, <1>2, <1>3, InitType, NextType, PTL DEF Spec

-----------------------------------------------------------------------------
(***************************************************************************)
(* Listings.  Without deleteTrip no text is ever open, so that no digits   *)
(* meet, and every number a thread writes is one it has found: in a column *)
(* or as the maximum of Trip.                                              *)
(***************************************************************************)

\* Every number in the text x is that of one of the first n trips.
Lists(x, n) == x.closed /\ ToSet(x.ids) \subseteq 1..n

\* So is every number the locals j hold when Trip has n rows.
Holds(j, n) ==
    /\ j.pc \notin {"selectTrips", "updateTrips"}
    /\ j.pc = "maxTrip" => n > 0
    /\ j.pc \in {"selectUser", "updateUser"} => j.tripID \in 1..n
    /\ j.pc \in {"updateUser", "updateTarget"} => Lists(j.trips, n)
    /\ j.pc \in StatusSteps =>
           ToSet(j.ids) \union ToSet(j.keep) \union ToSet(j.move) \subseteq 1..n

ListedInv ==
    /\ \A u \in Users, c \in Columns : Lists(TextOf(User[u][c]), Len(Trip))
    /\ \A t \in Threads : Holds(job[t], Len(Trip))

LEMMA HoldsStable ==
    ASSUME NEW n \in Nat, NEW m \in Nat, n <= m
    PROVE  /\ \A x : Lists(x, n) => Lists(x, m)
           /\ \A j : Holds(j, n) => Holds(j, m)
<1>1. 1..n \subseteq 1..m
  OBVIOUS
<1> QED  BY <1>1 DEF Lists, Holds

\* A thread that is idle, or starts a block or a creation, holds no number.
LEMMA NothingHeldYet ==
    ASSUME NEW j, NEW n,
           \/ j.pc \in {"idle", "insertRestaurant", "maxRestaurant", "insertTrip"}
           \/ j.pc = "selectSource" /\ j.ids = <<>> /\ j.keep = <<>> /\ j.move = <<>>
    PROVE  Holds(j, n)
BY DEF Holds, StatusSteps, ToSet

LEMMA ListedStep ==
    ASSUME TypeInv, ListedInv, NEW t \in Threads, NEW new,
           job' = [job EXCEPT ![t] = new],
           Trip' = Trip \/ \E row \in TripRow : Trip' = Append(Trip, row),
           \A u \in Users, c \in Columns : \/ User'[u][c] = User[u][c]
                                           \/ Lists(TextOf(User'[u][c]), Len(Trip)),
           Holds(new, Len(Trip'))
    PROVE  ListedInv'
<1>1. Trip \in Seq(TripRow) /\ Len(Trip) \in Nat
  BY LenProperties DEF TypeInv, TypeOK
<1>2. Len(Trip') \in Nat /\ Len(Trip) <= Len(Trip')
  <2>1. CASE Trip' = Trip
    BY <1>1, <2>1
  <2>2. CASE \E row \in TripRow : Trip' = Append(Trip, row)
    BY <1>1, <2>2, AppendProperties
  <2> QED  BY <2>1, <2>2
<1>3. ASSUME NEW u \in Users, NEW c \in Columns
      PROVE  Lists(TextOf(User'[u][c]), Len(Trip'))
  <2>1. Lists(TextOf(User'[u][c]), Len(Trip))
    BY DEF ListedInv
  <2> QED  BY <1>1, <1>2, <2>1, HoldsStable
<1>4. ASSUME NEW s \in Threads PROVE Holds(job'[s], Len(Trip'))
  <2>1. job'[s] = IF s = t THEN new ELSE job[s]
    BY DEF TypeInv, TypeOK
  <2>2. Holds(job[s], Len(Trip))
    BY DEF ListedInv
  <2>3. Holds(job[s], Len(Trip'))
    BY <1>1, <1>2, <2>2, HoldsStable
  <2> QED  BY <2>1, <2>3
<1> QED  BY <1>3, <1>4 DEF ListedInv, TextOf

LEMMA ArriveListed ==
    ASSUME "deleteTrip" \notin Kinds, TypeInv, ListedInv, NEW t \in Threads, Arrive(t)
    PROVE  ListedInv'
<1>1. /\ UNCHANGED <<User, Trip>>
      /\ \/ job'[t].pc \in {"insertRestaurant", "insertTrip"}
         \/ \E u \in Users : job'[t] = [Idle EXCEPT !.pc = "selectSource",
                                                    !.to = <<u>>, !.start = today]
  BY Arriving
<1>2. job' = [job EXCEPT ![t] = job'[t]]
  <2>1. ASSUME NEW kind, NEW request, Accept(t, kind, request)
        PROVE  job' = [job EXCEPT ![t] = job'[t]]
    BY <2>1 DEF Accept, TypeInv, TypeOK
  <2> QED
    BY <2>1 DEF Arrive, NewTrip, NewTripWithRestaurants, DeleteTrip, UpdateTripStatus
<1>3. \/ job'[t].pc \in {"insertRestaurant", "insertTrip"}
      \/ /\ job'[t].pc = "selectSource" /\ job'[t].ids = <<>>
         /\ job'[t].keep = <<>> /\ job'[t].move = <<>>
  BY <1>1 DEF Idle
<1>4. Holds(job'[t], Len(Trip'))
  BY <1>3, NothingHeldYet
<1> QED  BY <1>1, <1>2, <1>4, ListedStep

LEMMA CreationListed ==
    ASSUME TypeInv, ListedInv, NEW t \in Threads,
           \/ InsertRestaurant(t) \/ MaxRestaurant(t) \/ InsertTrip(t)
           \/ MaxTrip(t) \/ SelectUser(t) \/ UpdateUser(t)
    PROVE  ListedInv'
<1>1. /\ job[t] \in Job /\ Holds(job[t], Len(Trip)) /\ Idle.pc = "idle"
      /\ Trip \in Seq(TripRow) /\ Len(Trip) \in Nat
      /\ \A u \in Users, c \in Columns : Lists(TextOf(User[u][c]), Len(Trip))
  BY LenProperties DEF TypeInv, TypeOK, ListedInv, Idle
<1>2. CASE InsertRestaurant(t)
  <2> DEFINE new == [job[t] EXCEPT !.pc = "maxRestaurant"]
  <2>1. job' = [job EXCEPT ![t] = new] /\ Trip' = Trip /\ User' = User
    BY <1>2 DEF InsertRestaurant
  <2>2. new.pc = "maxRestaurant"
    BY <1>1 DEF Job
  <2> QED  BY <2>1, <2>2, NothingHeldYet, ListedStep
<1>3. CASE MaxRestaurant(t)
  <2> DEFINE rID == Append(job[t].rID, Restaurant)
             pc == IF Len(rID) < job[t].rest THEN "insertRestaurant" ELSE "insertTrip"
             new == [job[t] EXCEPT !.rID = rID, !.pc = pc]
  <2>1. job' = [job EXCEPT ![t] = new] /\ Trip' = Trip /\ User' = User
    BY <1>3 DEF MaxRestaurant
  <2>2. pc \in {"insertRestaurant", "insertTrip"}
    OBVIOUS
  <2> HIDE DEF rID, pc
  <2>3. new.pc = pc
    BY <1>1 DEF Job
  <2> HIDE DEF new
  <2> QED  BY <2>1, <2>2, <2>3, NothingHeldYet, ListedStep
<1>4. CASE InsertTrip(t)
  <2> DEFINE row == [begin |-> job[t].begin, end |-> job[t].end,
                     rest |-> job[t].rID, to |-> job[t].to]
             new == [job[t] EXCEPT !.pc = "maxTrip", !.own = Len(Trip) + 1]
  <2>1. job' = [job EXCEPT ![t] = new] /\ Trip' = Append(Trip, row) /\ User' = User
    BY <1>4 DEF InsertTrip
  <2>2. row \in TripRow
    BY <1>1 DEF Job, TripRow
  <2>3. new.pc = "maxTrip"
    BY <1>1 DEF Job
  <2> HIDE DEF row, new
  <2>4. Len(Trip') > 0
    BY <1>1, <2>1, <2>2, AppendProperties
  <2>5. Holds(new, Len(Trip'))
    BY <2>3, <2>4 DEF Holds, StatusSteps
  <2> QED  BY <2>1, <2>2, <2>5, ListedStep
<1>5. CASE MaxTrip(t)
  <2> DEFINE new == [job[t] EXCEPT !.pc = "selectUser", !.tripID = Len(Trip)]
  <2>1. job' = [job EXCEPT ![t] = new] /\ Trip' = Trip /\ User' = User /\ Len(Trip) > 0
    BY <1>1, <1>5 DEF MaxTrip, Holds
  <2>2. new.pc = "selectUser" /\ new.tripID = Len(Trip)
    BY <1>1 DEF Job
  <2> HIDE DEF new
  <2>3. Holds(new, Len(Trip'))
    BY <1>1, <2>1, <2>2 DEF Holds, StatusSteps
  <2> QED  BY <2>1, <2>3, ListedStep
<1>6. CASE SelectUser(t)
  <2> DEFINE x == TextOf(User[Target(t)]["current_trip"])
             new == [job[t] EXCEPT !.pc = "updateUser", !.trips = x]
  <2>1. job' = [job EXCEPT ![t] = new] /\ Trip' = Trip /\ User' = User
        /\ job[t].tripID \in 1..Len(Trip)
    BY <1>1, <1>6 DEF SelectUser, Holds
  <2>2. Lists(x, Len(Trip))
    <3>1. Target(t) \in Users
      BY <1>6, TargetType DEF SelectUser
    <3> QED  BY <1>1, <3>1 DEF Columns
  <2> HIDE DEF x
  <2>3. new.pc = "updateUser" /\ new.tripID = job[t].tripID /\ new.trips = x
    BY <1>1 DEF Job
  <2> HIDE DEF new
  <2>4. Holds(new, Len(Trip'))
    BY <2>1, <2>2, <2>3 DEF Holds, StatusSteps
  <2> QED  BY <2>1, <2>4, ListedStep
<1>7. CASE UpdateUser(t)
  <2> DEFINE next == [job[t] EXCEPT !.pc = "selectUser", !.to = Tail(job[t].to),
                                    !.trips = Empty]
             x == AddIds(job[t].trips, <<job[t].tripID>>)
  <2>1. /\ job' = [job EXCEPT ![t] = Idle] \/ job' = [job EXCEPT ![t] = next]
        /\ User' = [User EXCEPT ![Target(t)]["current_trip"] = x]
        /\ Trip' = Trip /\ job[t].tripID \in 1..Len(Trip) /\ Lists(job[t].trips, Len(Trip))
    BY <1>1, <1>7 DEF UpdateUser, Holds
  <2>2. Lists(TextOf(x), Len(Trip))
    <3>1. job[t].trips \in Text /\ <<job[t].tripID>> \in Seq(Nat)
      BY <1>1 DEF Job
    <3>2. ToSet(<<job[t].tripID>>) = {job[t].tripID}
      BY DEF ToSet
    <3>3. x \in Text
      BY <3>1, AddIdsType
    <3>4. TextOf(x) = x
      BY <3>3, NullAssumption DEF TextOf
    <3>5. x.closed /\ ToSet(x.ids) \subseteq ToSet(job[t].trips.ids) \union {job[t].tripID}
      BY <2>1, <3>1, <3>2, AddIdsToClosed DEF Lists
    <3> QED  BY <2>1, <3>4, <3>5 DEF Lists
  <2> HIDE DEF x
  <2>3. \A u \in Users, c \in Columns : \/ User'[u][c] = User[u][c]
                                        \/ Lists(TextOf(User'[u][c]), Len(Trip))
    <3>1. Target(t) \in Users /\ "current_trip" \in Columns
      BY <1>7, TargetType DEF UpdateUser, Columns
    <3> QED  BY <2>1, <2>2, <3>1, ColumnWritten
  <2>4. next.pc = "selectUser" /\ next.tripID = job[t].tripID
    BY <1>1 DEF Job
  <2> HIDE DEF next
  <2>5. Holds(Idle, Len(Trip')) /\ Holds(next, Len(Trip'))
    BY <1>1, <2>1, <2>4, NothingHeldYet DEF Holds, StatusSteps
  <2> QED  BY <2>1, <2>3, <2>5, ListedStep
<1> QED  BY <1>2, <1>3, <1>4, <1>5, <1>6, <1>7

\* NextBlock holds no number, and neither does a thread that failed.
LEMMA BlockListed ==
    ASSUME TypeInv, NEW t \in Threads, job[t].pc # "idle", NEW n
    PROVE  Holds(NextBlock(job[t]), n) /\ Holds(Idle, n)
<1>1. Holds(Idle, n)
  BY NothingHeldYet DEF Idle
<1>2. CASE job[t].phase = 3
  BY <1>1, <1>2, NextBlockLocals
<1>3. CASE job[t].phase # 3
  <2> DEFINE new == NextBlock(job[t])
  <2>1. new.pc = "selectSource" /\ new.ids = <<>> /\ new.keep = <<>> /\ new.move = <<>>
    BY <1>3, NextBlockLocals
  <2> HIDE DEF new
  <2>2. Holds(new, n)
    BY <2>1, NothingHeldYet
  <2> QED  BY <1>1, <2>2 DEF new
<1> QED  BY <1>1, <1>2, <1>3

LEMMA ReadingListed ==
    ASSUME TypeInv, ListedInv, NEW t \in Threads,
           SelectSource(t) \/ SelectDates(t) \/ Classify(t) \/ Fail(t)
    PROVE  ListedInv'
<1>1. /\ job[t] \in Job /\ Holds(job[t], Len(Trip)) /\ job[t].pc # "idle"
      /\ job[t].ids \in Seq(Nat) /\ job[t].keep \in Seq(Nat) /\ job[t].move \in Seq(Nat)
      /\ \A u \in Users, c \in Columns : Lists(TextOf(User[u][c]), Len(Trip))
  BY DEF TypeInv, TypeOK, Job, ListedInv, SelectSource, SelectDates, Classify, Fail
<1>2. Trip' = Trip /\ User' = User
  BY DEF SelectSource, SelectDates, Classify, Fail
<1>3. Holds(NextBlock(job[t]), Len(Trip)) /\ Holds(Idle, Len(Trip))
  BY <1>1, BlockListed
<1>4. CASE SelectSource(t)
  <2> DEFINE x == TextOf(User[Target(t)][Source(job[t].phase)])
             new == [job[t] EXCEPT !.pc = "selectDates", !.ids = x.ids]
  <2>1. /\ job' = [job EXCEPT ![t] = NextBlock(job[t])] \/ job' = [job EXCEPT ![t] = new]
        /\ job[t].pc \in StatusSteps
    BY <1>4 DEF SelectSource, StatusSteps
  <2>2. Lists(x, Len(Trip))
    <3>1. Target(t) \in Users /\ Source(job[t].phase) \in Columns
      BY <1>1, TargetType DEF Source, Columns
    <3> QED  BY <1>1, <3>1
  <2> HIDE DEF x
  <2>3. /\ new.pc = "selectDates" /\ new.ids = x.ids
        /\ new.keep = job[t].keep /\ new.move = job[t].move
    BY <1>1 DEF Job
  <2> HIDE DEF new
  <2>4. Holds(new, Len(Trip))
    BY <1>1, <2>1, <2>2, <2>3 DEF Holds, Lists, StatusSteps
  <2> QED  BY <1>2, <1>3, <2>1, <2>4, ListedStep
<1>5. CASE SelectDates(t)
  <2> DEFINE new == [job[t] EXCEPT !.pc = "classify"]
  <2>1. /\ job' = [job EXCEPT ![t] = Idle] \/ job' = [job EXCEPT ![t] = new]
        /\ job[t].pc \in StatusSteps
    BY <1>5 DEF SelectDates, StatusSteps
  <2>2. /\ new.pc = "classify" /\ new.ids = job[t].ids
        /\ new.keep = job[t].keep /\ new.move = job[t].move
    BY <1>1 DEF Job
  <2> HIDE DEF new
  <2>3. Holds(new, Len(Trip))
    BY <1>1, <2>1, <2>2 DEF Holds, StatusSteps
  <2> QED  BY <1>2, <1>3, <2>1, <2>3, ListedStep
<1>6. CASE Classify(t)
  <2> DEFINE id == Head(job[t].ids)
             moves == Moves(job[t].phase, Trip[id])
             classified == IF moves
                           THEN [job[t] EXCEPT !.move = Append(@, id)]
                           ELSE [job[t] EXCEPT !.keep = Append(@, id)]
             pc == IF Len(job[t].ids) = 1 THEN "updateSource" ELSE "classify"
             new == [classified EXCEPT !.ids = Tail(job[t].ids), !.pc = pc]
  <2>1. job[t].ids # <<>>
    BY <1>6 DEF Classify, TypeInv, StepsOK
  <2>2. /\ ToSet(Tail(job[t].ids)) \subseteq ToSet(job[t].ids)
        /\ id \in ToSet(job[t].ids) /\ id \in Nat
    BY <1>1, <2>1, TailRange, HeadTailProperties
  <2>3. /\ ToSet(Append(job[t].move, id)) \subseteq ToSet(job[t].move) \union {id}
        /\ ToSet(Append(job[t].keep, id)) \subseteq ToSet(job[t].keep) \union {id}
    BY <1>1, <2>2, AppendRange
  <2>4. pc \in {"updateSource", "classify"}
    OBVIOUS
  <2>5. job' = [job EXCEPT ![t] = new] /\ job[t].pc \in StatusSteps
    BY <1>6 DEF Classify, StatusSteps
  <2> HIDE DEF id, moves, pc
  <2>6. /\ new.pc = pc /\ new.ids = Tail(job[t].ids)
        /\ new.move \in {job[t].move, Append(job[t].move, id)}
        /\ new.keep \in {job[t].keep, Append(job[t].keep, id)}
    <3>1. CASE moves
      BY <1>1, <3>1 DEF Job
    <3>2. CASE ~ moves
      BY <1>1, <3>2 DEF Job
    <3> QED  BY <3>1, <3>2
  <2> HIDE DEF new
  <2>7. ToSet(new.ids) \union ToSet(new.keep) \union ToSet(new.move) \subseteq
            ToSet(job[t].ids) \union ToSet(job[t].keep) \union ToSet(job[t].move)
    BY <2>2, <2>3, <2>6
  <2>8. Holds(new, Len(Trip))
    BY <1>1, <2>4, <2>5, <2>6, <2>7 DEF Holds
  <2> QED  BY <1>2, <2>5, <2>8, ListedStep
<1>7. CASE Fail(t)
  BY <1>2, <1>3, <1>7, ListedStep DEF Fail
<1> QED  BY <1>4, <1>5, <1>6, <1>7

LEMMA WritingListed ==
    ASSUME TypeInv, ListedInv, NEW t \in Threads,
           UpdateSource(t) \/ SelectTarget(t) \/ UpdateTarget(t)
    PROVE  ListedInv'
<1>1. /\ job[t] \in Job /\ Holds(job[t], Len(Trip)) /\ job[t].pc # "idle"
      /\ job[t].pc \in StatusSteps /\ Target(t) \in Users
      /\ \A u \in Users, c \in Columns : Lists(TextOf(User[u][c]), Len(Trip))
      /\ Source(job[t].phase) \in Columns /\ Destination(job[t].phase) \in Columns
  BY TargetType
  DEF TypeInv, TypeOK, ListedInv, UpdateSource, SelectTarget, UpdateTarget, StatusSteps,
      Source, Destination, Columns
<1>2. Trip' = Trip
  BY DEF UpdateSource, SelectTarget, UpdateTarget
<1>3. /\ job[t].keep \in Seq(Nat) /\ job[t].move \in Seq(Nat) /\ job[t].trips \in Text
      /\ ToSet(job[t].ids) \union ToSet(job[t].keep) \union ToSet(job[t].move)
             \subseteq 1..Len(Trip)
  BY <1>1 DEF Job, Holds
<1>4. CASE UpdateSource(t)
  <2> DEFINE new == [job[t] EXCEPT !.pc = "selectTarget", !.keep = <<>>]
             x == ListOf(job[t].keep)
             c == Source(job[t].phase)
  <2>1. /\ job' = [job EXCEPT ![t] = new]
        /\ User' = [User EXCEPT ![Target(t)][c] = x]
    BY <1>4 DEF UpdateSource
  <2>2. Lists(TextOf(x), Len(Trip))
    <3>1. x \in Text
      BY <1>3, ListOfType
    <3>2. TextOf(x) = x
      BY <3>1, NullAssumption DEF TextOf
    <3>3. x.closed /\ x.ids = job[t].keep
      BY DEF ListOf
    <3> QED  BY <1>3, <3>2, <3>3 DEF Lists
  <2>3. /\ new.pc = "selectTarget" /\ new.keep = <<>>
        /\ new.ids = job[t].ids /\ new.move = job[t].move
    BY <1>1 DEF Job
  <2>4. ToSet(<<>>) = {}
    BY DEF ToSet
  <2> HIDE DEF x, new, c
  <2>5. Holds(new, Len(Trip))
    BY <1>3, <2>3, <2>4 DEF Holds
  <2>6. \A u \in Users, d \in Columns : \/ User'[u][d] = User[u][d]
                                        \/ Lists(TextOf(User'[u][d]), Len(Trip))
    <3>1. c \in Columns
      BY <1>1 DEF c
    <3> QED  BY <1>1, <2>1, <2>2, <3>1, ColumnWritten
  <2> QED  BY <1>2, <2>1, <2>5, <2>6, ListedStep
<1>5. CASE SelectTarget(t)
  <2> DEFINE x == TextOf(User[Target(t)][Destination(job[t].phase)])
             new == [job[t] EXCEPT !.pc = "updateTarget", !.trips = x]
  <2>1. job' = [job EXCEPT ![t] = new] /\ User' = User
    BY <1>5 DEF SelectTarget
  <2>2. Lists(x, Len(Trip))
    BY <1>1
  <2> HIDE DEF x
  <2>3. /\ new.pc = "updateTarget" /\ new.trips = x /\ new.ids = job[t].ids
        /\ new.keep = job[t].keep /\ new.move = job[t].move
    BY <1>1 DEF Job
  <2> HIDE DEF new
  <2>4. Holds(new, Len(Trip))
    BY <1>3, <2>2, <2>3 DEF Holds
  <2> QED  BY <1>2, <2>1, <2>4, ListedStep
<1>6. CASE UpdateTarget(t)
  <2> DEFINE x == AddIds(job[t].trips, job[t].move)
             c == Destination(job[t].phase)
  <2>1. /\ job' = [job EXCEPT ![t] = NextBlock(job[t])]
        /\ User' = [User EXCEPT ![Target(t)][c] = x]
        /\ Lists(job[t].trips, Len(Trip))
    BY <1>1, <1>6 DEF UpdateTarget, Holds
  <2>2. Lists(TextOf(x), Len(Trip))
    <3>1. x \in Text
      BY <1>3, AddIdsType
    <3>2. TextOf(x) = x
      BY <3>1, NullAssumption DEF TextOf
    <3>3. x.closed /\ ToSet(x.ids) \subseteq ToSet(job[t].trips.ids) \union ToSet(job[t].move)
      BY <1>3, <2>1, AddIdsToClosed DEF Lists
    <3> QED  BY <1>3, <2>1, <3>2, <3>3 DEF Lists
  <2>3. Holds(NextBlock(job[t]), Len(Trip))
    BY <1>1, BlockListed
  <2> HIDE DEF x, c
  <2>4. \A u \in Users, d \in Columns : \/ User'[u][d] = User[u][d]
                                        \/ Lists(TextOf(User'[u][d]), Len(Trip))
    <3>1. c \in Columns
      BY <1>1 DEF c
    <3> QED  BY <1>1, <2>1, <2>2, <3>1, ColumnWritten
  <2> QED  BY <1>2, <2>1, <2>3, <2>4, ListedStep
<1> QED  BY <1>4, <1>5, <1>6

LEMMA NextListed ==
    ASSUME "deleteTrip" \notin Kinds, TypeInv, ListedInv, [Next]_vars
    PROVE  ListedInv'
<1>1. CASE UNCHANGED vars \/ Tick
  BY <1>1 DEF vars, Tick, ListedInv
<1>2. ASSUME NEW t \in Threads, Step(t) PROVE ListedInv'
  <2>1. ~ SelectTrips(t) /\ ~ UpdateTrips(t)
    BY DEF ListedInv, Holds, SelectTrips, UpdateTrips
  <2> QED  BY <1>2, <2>1, CreationListed, ReadingListed, WritingListed DEF Step
<1>3. ASSUME NEW t \in Threads, Fail(t) PROVE ListedInv'
  BY <1>3, ReadingListed
<1> QED  BY <1>1, <1>2, <1>3, ArriveListed DEF Next

LEMMA InitListed == Init => ListedInv
<1> SUFFICES ASSUME Init PROVE ListedInv
  OBVIOUS
<1>1. \A t \in Threads : Holds(job[t], Len(Trip))
  BY NothingHeldYet DEF Init, Idle
<1>2. \A u \in Users, c \in Columns : TextOf(User[u][c]) = Empty
  BY DEF Init, TextOf
<1>3. Lists(Empty, Len(Trip))
  BY DEF Lists, Empty, ToSet
<1> QED  BY <1>1, <1>2, <1>3 DEF ListedInv

\* What is answered about an existing trip whose restaurants exist.
LEMMA EntryComplete ==
    ASSUME TypeInv, CreationInv, NEW id \in 1..Len(Trip)
    PROVE  /\ Entry(id) # NULL /\ Entry(id).tripId = id
           /\ Trip[id].rest # <<>> => Entry(id).restaurants = Trip[id].rest
<1> DEFINE rest == Trip[id].rest
<1>1. rest \in Seq(Nat) /\ Restaurant \in Nat /\ id \in Nat
  <2>1. Trip \in Seq(TripRow) /\ Len(Trip) \in Nat /\ Restaurant \in Nat
    BY LenProperties DEF TypeInv, TypeOK
  <2>2. Trip[id] \in TripRow
    BY <2>1, ElementOfSeq
  <2> QED  BY <2>1, <2>2 DEF TripRow
<1>2. \A j \in DOMAIN rest : rest[j] \in 1..Restaurant
  BY <1>1, LenProperties DEF CreationInv, InOrder
<1> HIDE DEF rest
<1>3. CASE rest = <<>>
  <2> DEFINE nothing == <<NULL>>
  <2>1. Entry(id) = [tripId |-> id, restaurants |-> nothing]
    BY <1>3 DEF Entry, rest
  <2>2. nothing \in Seq(Nat \union {NULL})
    OBVIOUS
  <2>3. Entry(id).tripId = id
    BY <2>1
  <2> HIDE DEF nothing
  <2>4. Entry(id) # NULL
    BY <1>1, <2>1, <2>2, AnswerAssumption
  <2> QED  BY <1>3, <2>3, <2>4 DEF rest
<1>4. CASE rest # <<>>
  <2>1. [j \in DOMAIN rest |-> IF rest[j] \in 1..Restaurant THEN rest[j] ELSE NULL] = rest
    BY <1>1, <1>2
  <2>2. Entry(id) = [tripId |-> id, restaurants |-> rest]
    BY <1>4, <2>1 DEF Entry, rest
  <2>3. rest \in Seq(Nat \union {NULL})
    BY <1>1
  <2>4. Entry(id) # NULL
    BY <1>1, <2>2, <2>3, AnswerAssumption
  <2> QED  BY <2>2, <2>4 DEF rest
<1> QED  BY <1>3, <1>4

\* NoneMissing: without deleteTrip, a listing finds every trip in the column and
\* every restaurant in the trip's row, in their order, however many requests
\* overlapped or failed before.
THEOREM NoneMissing ==
    ASSUME "deleteTrip" \notin Kinds
    PROVE  Spec => []ListingsComplete
<1>1. TypeInv /\ CreationInv /\ ListedInv => ListingsComplete
  <2> SUFFICES ASSUME TypeInv, CreationInv, ListedInv, NEW u \in Users, NEW c \in Columns
               PROVE  Complete(Listing(User[u][c]), User[u][c])
    BY DEF ListingsComplete, userCheck, GetPendingTripsInfo, GetHistoryTripsInfo, Columns
  <2> DEFINE column == User[u][c]
  <2> SUFFICES ASSUME column # NULL, NEW i \in DOMAIN column.ids
               PROVE  LET answer == Listing(column)[i]
                      IN  /\ answer # NULL /\ answer.tripId = column.ids[i]
                          /\ LET rest == Trip[column.ids[i]].rest
                             IN  rest # <<>> => answer.restaurants = rest
    BY DEF Complete
  <2>1. column.ids[i] \in 1..Len(Trip)
    BY DEF ListedInv, Lists, TextOf, ToSet
  <2>2. column.ids # <<>>
    OBVIOUS
  <2>3. Listing(column)[i] = Entry(column.ids[i])
    BY <2>1, <2>2 DEF Listing, TripExists
  <2> HIDE DEF column
  <2> QED  BY <2>1, <2>3, EntryComplete
<1>2. Init => TypeInv /\ CreationInv /\ ListedInv
  BY InitType, InitFound, InitListed
<1>3. TypeInv /\ CreationInv /\ ListedInv /\ [Next]_vars
          => (TypeInv /\ CreationInv /\ ListedInv)'
  BY NextType, NextFound, NextListed
<1> QED  BY <1>1, <1>2, <1>3, PTL DEF Spec

LEMMA LastIsListed ==
    ASSUME NEW list \in Seq(Nat), NEW x \in Nat
    PROVE  x \in ToSet(list \o <<x>>)
<1> DEFINE new == Append(list, x)
<1>1. new = list \o <<x>>
  BY AppendIsConcat
<1>2. /\ new \in Seq(Nat) /\ Len(list) \in Nat
      /\ Len(new) = Len(list) + 1 /\ new[Len(list) + 1] = x
  BY AppendProperties, LenProperties
<1> HIDE DEF new
<1>3. Len(list) + 1 \in DOMAIN new
  BY <1>2, LenProperties
<1> QED  BY <1>1, <1>2, <1>3 DEF ToSet

LEMMA AddsStep ==
    ASSUME TypeInv, ListedInv, NEW t \in Threads, UpdateUser(t)
    PROVE  job[t].tripID \in IdsIn(User'[Target(t)]["current_trip"])
<1> DEFINE new == AddIds(job[t].trips, <<job[t].tripID>>)
<1>1. /\ job[t] \in Job /\ job[t].tripID \in Nat /\ job[t].trips \in Text
      /\ job[t].trips.closed /\ Target(t) \in Users
  BY TargetType DEF TypeInv, TypeOK, Job, ListedInv, Holds, Lists, UpdateUser
<1>2. new = [ids |-> job[t].trips.ids \o <<job[t].tripID>>, closed |-> TRUE]
  BY <1>1 DEF AddIds
<1>3. job[t].trips.ids \in Seq(Nat) /\ <<job[t].tripID>> \in Seq(Nat)
  BY <1>1 DEF Text
<1>4. job[t].tripID \in ToSet(job[t].trips.ids \o <<job[t].tripID>>)
  BY <1>1, <1>3, LastIsListed
<1>5. new \in Text
  BY <1>1, <1>3, AddIdsType
<1>6. User'[Target(t)]["current_trip"] = new
  BY <1>1 DEF UpdateUser, TypeInv, TypeOK, Columns
<1>7. TextOf(new) = new
  BY <1>5, NullAssumption DEF TextOf
<1>8. new.ids = job[t].trips.ids \o <<job[t].tripID>>
  BY <1>2
<1> HIDE DEF new
<1> QED  BY <1>4, <1>6, <1>7, <1>8 DEF IdsIn

\* TripAdded: unless deleteTrip leaves a text without its last comma, the users
\* list the trip once their row is updated, whatever overlaps or fails.
THEOREM TripAdded ==
    ASSUME "deleteTrip" \notin Kinds
    PROVE  Spec => AddsTrip
<1> DEFINE Adds == \A t \in Threads, u \in Users :
                       UpdateUser(t) /\ u = Target(t) =>
                           job[t].tripID \in IdsIn(User'[u]["current_trip"])
<1>1. TypeInv /\ ListedInv => [Adds]_vars
  BY AddsStep
<1>2. TypeInv /\ ListedInv /\ [Next]_vars => ListedInv'
  BY NextListed
<1> QED  BY <1>1, <1>2, InitType, NextType, InitListed, PTL DEF Spec, AddsTrip

=============================================================================
