---------------------------- MODULE TripsProofs ----------------------------
(***************************************************************************)
(* Theorems about Trips, for any users, threads, requests and bounds.      *)
(*                                                                         *)
(* TypeOK alone is not inductive: a loop of UpdateTripStatus must know     *)
(* that trips are left to classify, and deleteTrip that the trip it cuts   *)
(* out is in the list it read.  StepsOK says so.                           *)
(***************************************************************************)
EXTENDS Trips, SequenceTheorems, WellFoundedInduction, TLAPS

-----------------------------------------------------------------------------
(* What the operations on trip columns return, for every text and number. *)

\* Joined digits are a number again.
LEMMA GlueType ==
    ASSUME NEW a \in Nat, NEW b \in Nat
    PROVE  Glue(a, b) \in Nat
<1>1. \E p \in PowersOfTen : /\ b < p \/ p = 100000
                             /\ \A q \in PowersOfTen : b < q => p <= q
  <2>1. CASE b < 10      BY <2>1 DEF PowersOfTen
  <2>2. CASE b >= 10 /\ b < 100      BY <2>2 DEF PowersOfTen
  <2>3. CASE b >= 100 /\ b < 1000      BY <2>3 DEF PowersOfTen
  <2>4. CASE b >= 1000 /\ b < 10000      BY <2>4 DEF PowersOfTen
  <2>5. CASE b >= 10000      BY <2>5 DEF PowersOfTen
  <2> QED  BY <2>1, <2>2, <2>3, <2>4, <2>5
<1>2. Shift(b) \in PowersOfTen
  BY <1>1 DEF Shift
<1>3. CASE Shift(b) = 10       BY <1>3 DEF Glue
<1>4. CASE Shift(b) = 100      BY <1>4 DEF Glue
<1>5. CASE Shift(b) = 1000     BY <1>5 DEF Glue
<1>6. CASE Shift(b) = 10000    BY <1>6 DEF Glue
<1>7. CASE Shift(b) = 100000   BY <1>7 DEF Glue
<1> QED  BY <1>2, <1>3, <1>4, <1>5, <1>6, <1>7 DEF PowersOfTen

\* NULL becomes "", and a text stays as it is.
LEMMA TextOfType ==
    ASSUME NEW c \in Column
    PROVE  TextOf(c) \in Text
BY DEF TextOf, Column, Text, Empty

\* The numbers a column lists are natural numbers.
LEMMA IdsInType ==
    ASSUME NEW c \in Column
    PROVE  IdsIn(c) \subseteq Nat
<1>1. TextOf(c).ids \in Seq(Nat)
  BY TextOfType DEF Text
<1> QED  BY <1>1, LenProperties, ElementOfSeq DEF IdsIn, ToSet

\* The list of kept trips is a text.
LEMMA ListOfType ==
    ASSUME NEW m \in Seq(Nat)
    PROVE  ListOf(m) \in Text
BY DEF ListOf, Text

\* What a servlet appends to a text is a text, closed or not.
LEMMA AddIdsType ==
    ASSUME NEW x \in Text, NEW m \in Seq(Nat)
    PROVE  AddIds(x, m) \in Text
<1>1. CASE m = <<>>
  BY <1>1 DEF AddIds
<1>2. CASE m # <<>> /\ x.closed
  <2>1. x.ids \o m \in Seq(Nat)
    BY ConcatProperties DEF Text
  <2> QED  BY <1>2, <2>1 DEF AddIds, Text
<1>3. CASE m # <<>> /\ ~ x.closed
  <2>1. x.ids \in Seq(Nat) /\ x.ids # <<>> /\ Len(x.ids) \in Nat \ {0}
    BY <1>3, EmptySeq DEF Text
  <2>2. Front(x.ids) \in Seq(Nat)
    <3>1. \A i \in 1..(Len(x.ids) - 1) : x.ids[i] \in Nat
      BY <2>1, ElementOfSeq
    <3> QED  BY <2>1, <3>1, SubSeqProperties DEF Front
  <2>3. Last(x.ids) \in Nat
    BY <2>1, ElementOfSeq DEF Last
  <2>4. Head(m) \in Nat /\ Tail(m) \in Seq(Nat)
    BY <1>3, HeadTailProperties
  <2>5. <<Glue(Last(x.ids), Head(m))>> \in Seq(Nat)
    <3>1. \A g \in Nat : <<g>> \in Seq(Nat)
      OBVIOUS
    <3> QED  BY <2>3, <2>4, <3>1, GlueType
  <2>6. Front(x.ids) \o <<Glue(Last(x.ids), Head(m))>> \o Tail(m) \in Seq(Nat)
    BY <2>2, <2>4, <2>5, ConcatProperties
  <2> QED  BY <1>3, <2>6 DEF AddIds, Text
<1> QED  BY <1>1, <1>2, <1>3

\* A closed text keeps its numbers and takes the appended ones, no other.
LEMMA AddIdsToClosed ==
    ASSUME NEW x \in Text, NEW m \in Seq(Nat), x.closed
    PROVE  /\ AddIds(x, m).closed
           /\ ToSet(AddIds(x, m).ids) \subseteq ToSet(x.ids) \union ToSet(m)
<1>1. CASE m = <<>>
  BY <1>1 DEF AddIds
<1>2. CASE m # <<>>
  <2>1. x.ids \in Seq(Nat)
    BY DEF Text
  <2>2. AddIds(x, m) = [ids |-> x.ids \o m, closed |-> TRUE]
    BY <1>2 DEF AddIds
  <2>3. ASSUME NEW i \in DOMAIN (x.ids \o m)
        PROVE  (x.ids \o m)[i] \in ToSet(x.ids) \union ToSet(m)
    <3>1. /\ DOMAIN (x.ids \o m) = 1..(Len(x.ids) + Len(m))
          /\ Len(x.ids) \in Nat /\ Len(m) \in Nat
          /\ DOMAIN x.ids = 1..Len(x.ids) /\ DOMAIN m = 1..Len(m)
      BY <2>1, ConcatProperties, LenProperties
    <3>2. CASE i <= Len(x.ids)
      BY <2>1, <2>3, <3>1, <3>2, ConcatProperties DEF ToSet
    <3>3. CASE ~ (i <= Len(x.ids))
      <4>1. (x.ids \o m)[i] = m[i - Len(x.ids)]
        BY <2>1, <2>3, <3>1, <3>3, ConcatProperties
      <4>2. i - Len(x.ids) \in 1..Len(m)
        BY <2>3, <3>1, <3>3
      <4> QED  BY <3>1, <4>1, <4>2 DEF ToSet
    <3> QED  BY <3>2, <3>3
  <2> QED  BY <2>2, <2>3 DEF ToSet
<1> QED  BY <1>1, <1>2

\* What is appended to a closed text comes after the numbers it has.
LEMMA AddIdsExtends ==
    ASSUME NEW x \in Text, NEW m \in Seq(Nat), x.closed
    PROVE  IsPrefix(x.ids, AddIds(x, m).ids)
<1>1. x.ids \in Seq(Nat) /\ Len(x.ids) \in Nat /\ Len(m) \in Nat
  BY LenProperties DEF Text
<1>2. CASE m = <<>>
  BY <1>1, <1>2 DEF AddIds, IsPrefix
<1>3. CASE m # <<>>
  <2>1. AddIds(x, m).ids = x.ids \o m
    BY <1>3 DEF AddIds
  <2>2. /\ Len(x.ids \o m) = Len(x.ids) + Len(m)
        /\ \A i \in 1..Len(x.ids) : (x.ids \o m)[i] = x.ids[i]
    BY <1>1, ConcatProperties
  <2>3. SubSeq(x.ids, 1, Len(x.ids)) = SubSeq(x.ids \o m, 1, Len(x.ids))
    BY <1>1, <2>2
  <2> QED  BY <1>1, <2>1, <2>2, <2>3 DEF IsPrefix
<1> QED  BY <1>2, <1>3

\* The trips of the list that UpdateTripStatus writes back.
LEMMA AppendRange ==
    ASSUME NEW m \in Seq(Nat), NEW id \in Nat
    PROVE  ToSet(Append(m, id)) \subseteq ToSet(m) \union {id}
<1>1. /\ Append(m, id) \in Seq(Nat)
      /\ Len(Append(m, id)) = Len(m) + 1
      /\ \A i \in 1..Len(m) : Append(m, id)[i] = m[i]
      /\ Append(m, id)[Len(m) + 1] = id
  BY AppendProperties
<1>2. DOMAIN m = 1..Len(m) /\ Len(m) \in Nat /\ DOMAIN Append(m, id) = 1..(Len(m) + 1)
  BY <1>1, LenProperties
<1> QED  BY <1>1, <1>2 DEF ToSet

LEMMA TailRange ==
    ASSUME NEW m \in Seq(Nat), m # <<>>
    PROVE  ToSet(Tail(m)) \subseteq ToSet(m) /\ Head(m) \in ToSet(m)
<1>1. /\ Tail(m) \in Seq(Nat) /\ Len(Tail(m)) = Len(m) - 1
      /\ \A i \in 1..Len(Tail(m)) : Tail(m)[i] = m[i + 1]
      /\ Len(m) \in Nat \ {0}
  BY HeadTailProperties, EmptySeq
<1>2. DOMAIN m = 1..Len(m) /\ DOMAIN Tail(m) = 1..Len(Tail(m))
  BY <1>1, LenProperties
<1>3. Head(m) = m[1]
  OBVIOUS
<1> QED  BY <1>1, <1>2, <1>3 DEF ToSet

-----------------------------------------------------------------------------

\* A set of natural numbers that is not empty has a least element.
LEMMA LeastNatural ==
    ASSUME NEW S \in SUBSET Nat, S # {}
    PROVE  \E n \in S : \A k \in S : n <= k
<1>1. PICK n \in S : \A k \in S : <<k, n>> \notin OpToRel(<, Nat)
  BY NatLessThanWellFounded, WFMin
<1>2. ASSUME NEW k \in S
      PROVE  n <= k
  <2>1. ~ (k < n)
    BY <1>1, <1>2 DEF OpToRel
  <2> QED  BY <2>1
<1> QED  BY <1>2

LEMMA RemoveAtType ==
    ASSUME NEW s \in Seq(Nat), NEW k \in 1..Len(s)
    PROVE  RemoveAt(s, k) \in Seq(Nat) /\ Len(RemoveAt(s, k)) = Len(s) - 1
<1> DEFINE before == SubSeq(s, 1, k - 1)
           after == SubSeq(s, k + 1, Len(s))
<1>1. Len(s) \in Nat /\ \A i \in 1..Len(s) : s[i] \in Nat
  BY LenProperties, ElementOfSeq
<1>2. before \in Seq(Nat) /\ Len(before) = k - 1
  <2>1. \A i \in 1..(k - 1) : s[i] \in Nat
    BY <1>1
  <2> QED  BY <1>1, <2>1, SubSeqProperties
<1>3. after \in Seq(Nat) /\ Len(after) = Len(s) - k
  <2>1. \A i \in (k + 1)..Len(s) : s[i] \in Nat
    BY <1>1
  <2> QED  BY <1>1, <2>1, SubSeqProperties
<1>4. RemoveAt(s, k) = before \o after
  BY DEF RemoveAt
<1> HIDE DEF before, after
<1>5. before \o after \in Seq(Nat) /\ Len(before \o after) = Len(before) + Len(after)
  BY <1>2, <1>3, ConcatProperties
<1> QED  BY <1>1, <1>2, <1>3, <1>4, <1>5

\* deleteTrip writes NULL or a text: a list of two trips or more keeps one.
LEMMA RemoveIdType ==
    ASSUME NEW x \in Text, NEW id \in ToSet(x.ids)
    PROVE  RemoveId(x, id) \in Column
<1>1. /\ x.ids \in Seq(Nat) /\ Len(x.ids) \in Nat
      /\ \E i \in 1..Len(x.ids) : x.ids[i] = id
  <2>1. x.ids \in Seq(Nat)
    BY DEF Text
  <2> QED  BY <2>1, LenProperties DEF ToSet
<1>2. PICK k \in 1..Len(x.ids) : RemoveFirst(x.ids, id) = RemoveAt(x.ids, k)
  <2> DEFINE I == {i \in 1..Len(x.ids) : x.ids[i] = id}
  <2>1. I # {} /\ I \in SUBSET Nat
    BY <1>1
  <2>2. SelectInSeq(x.ids, LAMBDA v : v = id) = Min(I)
    BY <2>1 DEF SelectInSeq
  <2>3. Min(I) \in I
    <3> HIDE DEF I
    <3> QED  BY <2>1, LeastNatural DEF Min
  <2>4. RemoveFirst(x.ids, id) = RemoveAt(x.ids, Min(I))
    BY <1>1, <2>2 DEF RemoveFirst
  <2> QED  BY <2>3, <2>4
<1>3. RemoveAt(x.ids, k) \in Seq(Nat) /\ Len(RemoveAt(x.ids, k)) = Len(x.ids) - 1
  BY <1>1, RemoveAtType
<1>4. CASE Len(x.ids) = 1
  BY <1>4 DEF RemoveId, Column
<1>5. CASE Len(x.ids) # 1
  <2>1. Len(RemoveAt(x.ids, k)) # 0
    BY <1>1, <1>3, <1>5
  <2>2. RemoveAt(x.ids, k) # <<>>
    BY <2>1, EmptySeq
  <2> QED  BY <1>2, <1>3, <1>5, <2>2 DEF RemoveId, Column, Text
<1> QED  BY <1>4, <1>5

-----------------------------------------------------------------------------

StepsOK ==
    \A t \in Threads :
        /\ job[t].pc \in {"selectDates", "classify"} => job[t].ids # <<>>
        /\ job[t].pc = "updateTrips" => job[t].tripID \in ToSet(job[t].trips.ids)

TypeInv == TypeOK /\ StepsOK

LEMMA IdleType == Idle \in Job
BY DEF Idle, Job, Steps, Phases, Text, Empty

\* A thread that handles a request works on the row of a user.
LEMMA TargetType ==
    ASSUME TypeInv, NEW t \in Threads, job[t].pc # "idle"
    PROVE  Target(t) \in Users
<1>1. job[t].to \in Seq(Users) /\ job[t].to # <<>>
  BY DEF TypeInv, TypeOK, Job
<1> QED  BY <1>1, HeadTailProperties DEF Target

\* What is left to show of a step of one thread: its new locals and the tables.
LEMMA JobType ==
    ASSUME TypeInv, NEW t \in Threads, NEW new \in Job,
           job' = [job EXCEPT ![t] = new],
           new.pc # "idle" => new.to # <<>>,
           new.pc \in {"selectDates", "classify"} => new.ids # <<>>,
           new.pc = "updateTrips" => new.tripID \in ToSet(new.trips.ids),
           User' \in [Users -> [Columns -> Column]], Trip' \in Seq(TripRow),
           Restaurant' \in Nat, today' \in Nat, requests' \in Nat, failed' \in BOOLEAN
    PROVE  TypeInv'
<1>1. job' \in [Threads -> Job]
  BY DEF TypeInv, TypeOK
<1>2. \A s \in Threads : job'[s] = IF s = t THEN new ELSE job[s]
  BY DEF TypeInv, TypeOK
<1>3. TypeOK'
  BY <1>1, <1>2 DEF TypeInv, TypeOK
<1>4. StepsOK'
  BY <1>2 DEF TypeInv, StepsOK
<1> QED  BY <1>3, <1>4 DEF TypeInv

LEMMA AcceptType ==
    ASSUME TypeInv, NEW t \in Threads, NEW kind, NEW request \in Job,
           request.to # <<>>,
           request.pc \in {"insertTrip", "insertRestaurant", "selectTrips", "selectSource"},
           Accept(t, kind, request)
    PROVE  TypeInv'
<1>1. job' = [job EXCEPT ![t] = request]
  BY DEF Accept
<1>2. /\ User' \in [Users -> [Columns -> Column]] /\ Trip' \in Seq(TripRow)
      /\ Restaurant' \in Nat /\ today' \in Nat /\ requests' \in Nat
      /\ failed' \in BOOLEAN
  BY DEF Accept, TypeInv, TypeOK
<1> QED  BY <1>1, <1>2, JobType

LEMMA ArriveType ==
    ASSUME TypeInv, NEW t \in Threads, Arrive(t)
    PROVE  TypeInv'
<1> USE IdleType
<1>1. PICK u \in Users :
          \/ \E to \in Recipients, d \in TripDates :
               \/ NewTrip(t, u, to, d)
               \/ \E r \in 0..MaxRestaurants : NewTripWithRestaurants(t, u, to, d, r)
          \/ \E id \in 1..Len(Trip) : DeleteTrip(t, u, id)
          \/ UpdateTripStatus(t, u)
  BY DEF Arrive
<1>2. ASSUME NEW to \in Recipients, NEW d \in TripDates, NewTrip(t, u, to, d)
      PROVE  TypeInv'
  <2> DEFINE r == [Idle EXCEPT !.pc = "insertTrip", !.to = Append(to, u),
                               !.begin = d[1], !.end = d[2]]
  <2>1. d[1] \in Nat /\ d[2] \in Nat /\ to \in Seq(Users)
    BY RequestAssumption
  <2>2. Append(to, u) \in Seq(Users) /\ Append(to, u) # <<>>
    BY <2>1
  <2>3. r \in Job /\ r.pc = "insertTrip" /\ r.to # <<>>
    BY <2>1, <2>2 DEF Job, Idle, Steps, CreationSteps
  <2>4. Accept(t, "NewTrip", r)
    BY <1>2 DEF NewTrip
  <2> QED  BY <2>3, <2>4, AcceptType
<1>3. ASSUME NEW to \in Recipients, NEW d \in TripDates, NEW n \in 0..MaxRestaurants,
             NewTripWithRestaurants(t, u, to, d, n)
      PROVE  TypeInv'
  <2> DEFINE r == [Idle EXCEPT !.pc = IF n = 0 THEN "insertTrip" ELSE "insertRestaurant",
                               !.to = Append(to, u),
                               !.begin = d[1], !.end = d[2], !.rest = n]
  <2>1. d[1] \in Nat /\ d[2] \in Nat /\ to \in Seq(Users) /\ n \in Nat
    BY RequestAssumption, BoundAssumption
  <2>2. Append(to, u) \in Seq(Users) /\ Append(to, u) # <<>>
    BY <2>1
  <2>3. r \in Job /\ r.pc \in {"insertTrip", "insertRestaurant"} /\ r.to # <<>>
    BY <2>1, <2>2 DEF Job, Idle, Steps, CreationSteps
  <2>4. Accept(t, "NewTripWithRestaurants", r)
    BY <1>3 DEF NewTripWithRestaurants
  <2> QED  BY <2>3, <2>4, AcceptType
<1>4. ASSUME NEW id \in 1..Len(Trip), DeleteTrip(t, u, id)
      PROVE  TypeInv'
  <2> DEFINE r == [Idle EXCEPT !.pc = "selectTrips", !.to = <<u>>, !.tripID = id]
  <2>1. id \in Nat
    BY DEF TypeInv, TypeOK
  <2>2. <<u>> \in Seq(Users) /\ <<u>> # <<>>
    OBVIOUS
  <2>3. r \in Job /\ r.pc = "selectTrips" /\ r.to # <<>>
    BY <2>1, <2>2 DEF Job, Idle, Steps, DeletionSteps
  <2>4. Accept(t, "deleteTrip", r)
    BY <1>4 DEF DeleteTrip
  <2> QED  BY <2>3, <2>4, AcceptType
<1>5. ASSUME UpdateTripStatus(t, u)
      PROVE  TypeInv'
  <2> DEFINE r == [Idle EXCEPT !.pc = "selectSource", !.to = <<u>>, !.start = today]
  <2>1. <<u>> \in Seq(Users) /\ <<u>> # <<>>
    OBVIOUS
  <2>2. r \in Job /\ r.pc = "selectSource" /\ r.to # <<>>
    BY <2>1 DEF Job, Idle, Steps, StatusSteps, TypeInv, TypeOK
  <2>3. Accept(t, "UpdateTripStatus", r)
    BY <1>5 DEF UpdateTripStatus
  <2> QED  BY <2>2, <2>3, AcceptType
<1> QED  BY <1>1, <1>2, <1>3, <1>4, <1>5

\* NewTrip and NewTripWithRestaurants keep the types.
LEMMA CreationType ==
    ASSUME TypeInv, NEW t \in Threads,
           \/ InsertRestaurant(t) \/ MaxRestaurant(t) \/ InsertTrip(t)
           \/ MaxTrip(t) \/ SelectUser(t) \/ UpdateUser(t)
    PROVE  TypeInv'
<1> USE IdleType
<1>1. job[t] \in Job /\ (job[t].pc # "idle" => job[t].to # <<>>)
  BY DEF TypeInv, TypeOK
<1>2. CASE InsertRestaurant(t)
  <2> DEFINE new == [job[t] EXCEPT !.pc = "maxRestaurant"]
  <2>1. new \in Job /\ new.pc = "maxRestaurant" /\ new.to # <<>>
    BY <1>1, <1>2 DEF InsertRestaurant, Job, Steps, CreationSteps
  <2>2. job' = [job EXCEPT ![t] = new]
    BY <1>2 DEF InsertRestaurant
  <2>3. /\ User' \in [Users -> [Columns -> Column]] /\ Trip' \in Seq(TripRow)
        /\ Restaurant' \in Nat /\ today' \in Nat /\ requests' \in Nat
        /\ failed' \in BOOLEAN
    BY <1>2 DEF InsertRestaurant, TypeInv, TypeOK
  <2> QED  BY <2>1, <2>2, <2>3, JobType
<1>3. CASE MaxRestaurant(t)
  <2> DEFINE rID == Append(job[t].rID, Restaurant)
             pc == IF Len(rID) < job[t].rest THEN "insertRestaurant" ELSE "insertTrip"
             new == [job[t] EXCEPT !.rID = rID, !.pc = pc]
  <2>1. rID \in Seq(Nat)
    BY <1>1 DEF Job, TypeInv, TypeOK
  <2>2. pc \in {"insertRestaurant", "insertTrip"}
    OBVIOUS
  <2>3. job' = [job EXCEPT ![t] = new]
    BY <1>3 DEF MaxRestaurant
  <2> HIDE DEF rID, pc
  <2>4. new \in Job /\ new.pc \in {"insertRestaurant", "insertTrip"} /\ new.to # <<>>
    BY <1>1, <1>3, <2>1, <2>2 DEF MaxRestaurant, Job, Steps, CreationSteps
  <2>5. /\ User' \in [Users -> [Columns -> Column]] /\ Trip' \in Seq(TripRow)
        /\ Restaurant' \in Nat /\ today' \in Nat /\ requests' \in Nat
        /\ failed' \in BOOLEAN
    BY <1>3 DEF MaxRestaurant, TypeInv, TypeOK
  <2> QED  BY <2>3, <2>4, <2>5, JobType
<1>4. CASE InsertTrip(t)
  <2> DEFINE row == [begin |-> job[t].begin, end |-> job[t].end,
                     rest |-> job[t].rID, to |-> job[t].to]
             new == [job[t] EXCEPT !.pc = "maxTrip", !.own = Len(Trip) + 1]
  <2>1. row \in TripRow
    BY <1>1 DEF Job, TripRow
  <2>2. Trip' \in Seq(TripRow)
    BY <1>4, <2>1 DEF InsertTrip, TypeInv, TypeOK
  <2>3. Len(Trip) + 1 \in Nat
    BY DEF TypeInv, TypeOK
  <2>4. new \in Job /\ new.pc = "maxTrip" /\ new.to # <<>>
    BY <1>1, <1>4, <2>3 DEF InsertTrip, Job, Steps, CreationSteps
  <2>5. job' = [job EXCEPT ![t] = new]
    BY <1>4 DEF InsertTrip
  <2>6. /\ User' \in [Users -> [Columns -> Column]]
        /\ Restaurant' \in Nat /\ today' \in Nat /\ requests' \in Nat
        /\ failed' \in BOOLEAN
    BY <1>4 DEF InsertTrip, TypeInv, TypeOK
  <2> QED  BY <2>2, <2>4, <2>5, <2>6, JobType
<1>5. CASE MaxTrip(t)
  <2> DEFINE new == [job[t] EXCEPT !.pc = "selectUser", !.tripID = Len(Trip)]
  <2>1. Len(Trip) \in Nat
    BY DEF TypeInv, TypeOK
  <2>2. new \in Job /\ new.pc = "selectUser" /\ new.to # <<>>
    BY <1>1, <1>5, <2>1 DEF MaxTrip, Job, Steps, CreationSteps
  <2>3. job' = [job EXCEPT ![t] = new]
    BY <1>5 DEF MaxTrip
  <2>4. /\ User' \in [Users -> [Columns -> Column]] /\ Trip' \in Seq(TripRow)
        /\ Restaurant' \in Nat /\ today' \in Nat /\ requests' \in Nat
        /\ failed' \in BOOLEAN
    BY <1>5 DEF MaxTrip, TypeInv, TypeOK
  <2> QED  BY <2>2, <2>3, <2>4, JobType
<1>6. CASE SelectUser(t)
  <2> DEFINE x == TextOf(User[Target(t)]["current_trip"])
             new == [job[t] EXCEPT !.pc = "updateUser", !.trips = x]
  <2>1. x \in Text
    <3>1. Target(t) \in Users
      BY <1>1, <1>6, TargetType DEF SelectUser
    <3>2. User[Target(t)]["current_trip"] \in Column
      BY <3>1 DEF Columns, TypeInv, TypeOK
    <3> QED  BY <3>2, TextOfType
  <2>2. job' = [job EXCEPT ![t] = new]
    BY <1>6 DEF SelectUser
  <2> HIDE DEF x
  <2>3. new \in Job /\ new.pc = "updateUser" /\ new.to # <<>>
    BY <1>1, <1>6, <2>1 DEF SelectUser, Job, Steps, CreationSteps
  <2>4. /\ User' \in [Users -> [Columns -> Column]] /\ Trip' \in Seq(TripRow)
        /\ Restaurant' \in Nat /\ today' \in Nat /\ requests' \in Nat
        /\ failed' \in BOOLEAN
    BY <1>6 DEF SelectUser, TypeInv, TypeOK
  <2> QED  BY <2>2, <2>3, <2>4, JobType
<1>7. CASE UpdateUser(t)
  <2> DEFINE x == AddIds(job[t].trips, <<job[t].tripID>>)
             next == [job[t] EXCEPT !.pc = "selectUser", !.to = Tail(job[t].to),
                                    !.trips = Empty]
  <2>1. <<job[t].tripID>> \in Seq(Nat) /\ job[t].trips \in Text
    <3>1. job[t].tripID \in Nat /\ job[t].trips \in Text
      BY <1>1 DEF Job
    <3>2. \A n \in Nat : <<n>> \in Seq(Nat)
      OBVIOUS
    <3> QED  BY <3>1, <3>2
  <2>2. x \in Column
    BY <2>1, AddIdsType DEF Column
  <2>3. User' \in [Users -> [Columns -> Column]]
    <3> HIDE DEF x
    <3>1. User' = [User EXCEPT ![Target(t)]["current_trip"] = x]
      BY <1>7 DEF UpdateUser, x
    <3> QED  BY <2>2, <3>1 DEF TypeInv, TypeOK
  <2>4. /\ Trip' \in Seq(TripRow)
        /\ Restaurant' \in Nat /\ today' \in Nat /\ requests' \in Nat
        /\ failed' \in BOOLEAN
    BY <1>7 DEF UpdateUser, TypeInv, TypeOK
  <2>5. CASE Len(job[t].to) = 1
    <3>1. job' = [job EXCEPT ![t] = Idle]
      BY <1>7, <2>5 DEF UpdateUser
    <3>2. Idle.pc = "idle"
      BY DEF Idle
    <3> QED  BY <2>3, <2>4, <3>1, <3>2, JobType
  <2>6. CASE Len(job[t].to) # 1
    <3>1. job' = [job EXCEPT ![t] = next]
      BY <1>7, <2>6 DEF UpdateUser
    <3>2. Tail(job[t].to) \in Seq(Users) /\ Tail(job[t].to) # <<>>
      <4>1. job[t].to \in Seq(Users) /\ job[t].to # <<>>
        BY <1>1, <1>7 DEF UpdateUser, Job
      <4>2. Len(job[t].to) \in Nat \ {0} /\ Tail(job[t].to) \in Seq(Users)
            /\ Len(Tail(job[t].to)) = Len(job[t].to) - 1
        BY <4>1, HeadTailProperties, EmptySeq
      <4>3. Len(Tail(job[t].to)) # 0
        BY <2>6, <4>2
      <4> QED  BY <4>2, <4>3, EmptySeq
    <3>3. Empty \in Text
      BY DEF Text, Empty
    <3>4. next \in Job /\ next.pc = "selectUser" /\ next.to # <<>>
      BY <1>1, <1>7, <3>2, <3>3 DEF UpdateUser, Job, Steps, CreationSteps
    <3> QED  BY <2>3, <2>4, <3>1, <3>4, JobType
  <2> QED  BY <2>5, <2>6
<1> QED  BY <1>2, <1>3, <1>4, <1>5, <1>6, <1>7

\* deleteTrip keeps the types.
LEMMA DeletionType ==
    ASSUME TypeInv, NEW t \in Threads, SelectTrips(t) \/ UpdateTrips(t)
    PROVE  TypeInv'
<1> USE IdleType
<1>1. /\ job[t] \in Job /\ job[t].pc # "idle" /\ job[t].to # <<>>
      /\ Target(t) \in Users
  BY TargetType DEF TypeInv, TypeOK, SelectTrips, UpdateTrips
<1>2. Idle.pc = "idle"
  BY DEF Idle
<1>3. CASE SelectTrips(t)
  <2> DEFINE c == User[Target(t)]["current_trip"]
             new == [job[t] EXCEPT !.pc = "updateTrips", !.trips = TextOf(c)]
  <2>1. /\ User' \in [Users -> [Columns -> Column]] /\ Trip' \in Seq(TripRow)
        /\ Restaurant' \in Nat /\ today' \in Nat /\ requests' \in Nat
        /\ failed' \in BOOLEAN
    BY <1>3 DEF SelectTrips, TypeInv, TypeOK
  <2>2. TextOf(c) \in Text
    <3>1. c \in Column
      BY <1>1 DEF Columns, TypeInv, TypeOK
    <3> QED  BY <3>1, TextOfType
  <2>3. CASE job[t].tripID \in IdsIn(c)
    <3>1. job' = [job EXCEPT ![t] = new]
      BY <1>3, <2>3 DEF SelectTrips
    <3>2. /\ new \in Job /\ new.pc = "updateTrips" /\ new.to # <<>>
          /\ new.tripID = job[t].tripID /\ new.trips = TextOf(c)
      BY <1>1, <2>2 DEF Job, Steps, DeletionSteps
    <3>3. new.tripID \in ToSet(new.trips.ids)
      BY <2>3, <3>2 DEF IdsIn
    <3> QED  BY <2>1, <3>1, <3>2, <3>3, JobType
  <2>4. CASE job[t].tripID \notin IdsIn(c)
    <3>1. job' = [job EXCEPT ![t] = Idle]
      BY <1>3, <2>4 DEF SelectTrips
    <3> QED  BY <1>2, <2>1, <3>1, JobType
  <2> QED  BY <2>3, <2>4
<1>4. CASE UpdateTrips(t)
  <2>1. RemoveId(job[t].trips, job[t].tripID) \in Column
    <3>1. job[t].trips \in Text /\ job[t].tripID \in ToSet(job[t].trips.ids)
      BY <1>1, <1>4 DEF UpdateTrips, TypeInv, StepsOK, Job
    <3> QED  BY <3>1, RemoveIdType
  <2>2. User' \in [Users -> [Columns -> Column]]
    BY <1>4, <2>1 DEF UpdateTrips, TypeInv, TypeOK
  <2>3. /\ Trip' \in Seq(TripRow)
        /\ Restaurant' \in Nat /\ today' \in Nat /\ requests' \in Nat
        /\ failed' \in BOOLEAN
    BY <1>4 DEF UpdateTrips, TypeInv, TypeOK
  <2>4. job' = [job EXCEPT ![t] = Idle]
    BY <1>4 DEF UpdateTrips
  <2> QED  BY <1>2, <2>2, <2>3, <2>4, JobType
<1> QED  BY <1>3, <1>4

\* The locals of the next block.
LEMMA NextBlockType ==
    ASSUME TypeInv, NEW t \in Threads, job[t].pc # "idle"
    PROVE  LET new == NextBlock(job[t])
           IN  /\ new \in Job
               /\ new.pc \in {"idle", "selectSource"}
               /\ new.pc # "idle" => new.to # <<>> /\ new.to = job[t].to
               /\ new.move = <<>>
<1>1. job[t] \in Job /\ job[t].to # <<>>
  BY DEF TypeInv, TypeOK
<1>2. CASE job[t].phase = 3
  BY <1>2, IdleType DEF NextBlock, Idle
<1>3. CASE job[t].phase # 3
  <2> DEFINE new == [Idle EXCEPT !.pc = "selectSource", !.to = job[t].to,
                                 !.phase = job[t].phase + 1, !.start = job[t].start]
  <2>1. NextBlock(job[t]) = new
    BY <1>3 DEF NextBlock
  <2>2. /\ job[t].phase + 1 \in Phases /\ job[t].to \in Seq(Users)
        /\ job[t].start \in Nat
    BY <1>1, <1>3 DEF Job, Phases
  <2>3. /\ new \in Job /\ new.pc = "selectSource" /\ new.to = job[t].to
        /\ new.move = <<>>
    BY <2>2, IdleType DEF Job, Idle, Steps, StatusSteps
  <2> QED  BY <1>1, <2>1, <2>3
<1> QED  BY <1>2, <1>3

\* The first three statements of a block of UpdateTripStatus keep the types.
LEMMA ReadingType ==
    ASSUME TypeInv, NEW t \in Threads,
           SelectSource(t) \/ SelectDates(t) \/ Classify(t)
    PROVE  TypeInv'
<1> USE IdleType
<1>1. /\ job[t] \in Job /\ job[t].pc # "idle" /\ job[t].to # <<>>
      /\ Target(t) \in Users
  BY TargetType DEF TypeInv, TypeOK, SelectSource, SelectDates, Classify
<1>2. Idle.pc = "idle"
  BY DEF Idle
<1>3. /\ User' \in [Users -> [Columns -> Column]] /\ Trip' \in Seq(TripRow)
      /\ Restaurant' \in Nat /\ today' \in Nat /\ requests' \in Nat
      /\ failed' \in BOOLEAN
  BY DEF SelectSource, SelectDates, Classify, TypeInv, TypeOK
<1>4. CASE SelectSource(t)
  <2> DEFINE x == TextOf(User[Target(t)][Source(job[t].phase)])
             new == [job[t] EXCEPT !.pc = "selectDates", !.ids = x.ids]
  <2>1. x \in Text
    <3>1. Source(job[t].phase) \in Columns
      BY DEF Source, Columns
    <3>2. User[Target(t)][Source(job[t].phase)] \in Column
      BY <1>1, <3>1 DEF TypeInv, TypeOK
    <3> QED  BY <3>2, TextOfType
  <2>2. CASE x.ids = <<>>
    <3>1. job' = [job EXCEPT ![t] = NextBlock(job[t])]
      BY <1>4, <2>2 DEF SelectSource
    <3> QED  BY <1>1, <1>3, <3>1, NextBlockType, JobType
  <2>3. CASE x.ids # <<>>
    <3>1. job' = [job EXCEPT ![t] = new]
      BY <1>4, <2>3 DEF SelectSource
    <3>2. x.ids \in Seq(Nat)
      BY <2>1 DEF Text
    <3> HIDE DEF x
    <3>3. new \in Job /\ new.pc = "selectDates" /\ new.to # <<>> /\ new.ids = x.ids
      BY <1>1, <3>2 DEF Job, Steps, StatusSteps
    <3> QED  BY <1>3, <2>3, <3>1, <3>3, JobType
  <2> QED  BY <2>2, <2>3
<1>5. CASE SelectDates(t)
  <2> DEFINE found == \A i \in 1..Len(job[t].ids) : TripExists(job[t].ids[i])
             new == [job[t] EXCEPT !.pc = "classify"]
  <2>1. CASE found
    <3>1. job' = [job EXCEPT ![t] = new]
      BY <1>5, <2>1 DEF SelectDates
    <3>2. new \in Job /\ new.pc = "classify" /\ new.to # <<>> /\ new.ids = job[t].ids
      BY <1>1 DEF Job, Steps, StatusSteps
    <3>3. job[t].ids # <<>>
      BY <1>5 DEF SelectDates, TypeInv, StepsOK
    <3> QED  BY <1>3, <3>1, <3>2, <3>3, JobType
  <2>2. CASE ~ found
    <3>1. job' = [job EXCEPT ![t] = Idle]
      BY <1>5, <2>2 DEF SelectDates
    <3> QED  BY <1>2, <1>3, <3>1, JobType
  <2> QED  BY <2>1, <2>2
<1>6. CASE Classify(t)
  <2> DEFINE id == Head(job[t].ids)
             moves == Moves(job[t].phase, Trip[id])
             classified == IF moves
                           THEN [job[t] EXCEPT !.move = Append(@, id)]
                           ELSE [job[t] EXCEPT !.keep = Append(@, id)]
             pc == IF Len(job[t].ids) = 1 THEN "updateSource" ELSE "classify"
             new == [classified EXCEPT !.ids = Tail(job[t].ids), !.pc = pc]
  <2>1. job[t].ids \in Seq(Nat) /\ job[t].ids # <<>>
    BY <1>1, <1>6 DEF Classify, TypeInv, StepsOK, Job
  <2>2. /\ id \in Nat /\ Tail(job[t].ids) \in Seq(Nat)
        /\ Len(Tail(job[t].ids)) = Len(job[t].ids) - 1 /\ Len(job[t].ids) \in Nat
    BY <2>1, HeadTailProperties, LenProperties
  <2>3. pc = "classify" => Tail(job[t].ids) # <<>>
    <3>1. pc = "classify" => Len(Tail(job[t].ids)) # 0
      BY <2>2
    <3> QED  BY <2>2, <3>1, EmptySeq
  <2>4. pc \in Steps /\ pc \in {"updateSource", "classify"}
    BY DEF Steps, StatusSteps
  <2>5. job' = [job EXCEPT ![t] = new]
    BY <1>6 DEF Classify
  <2> HIDE DEF id, moves, pc
  <2>6. classified \in Job /\ classified.to = job[t].to
    <3>1. Append(job[t].move, id) \in Seq(Nat) /\ Append(job[t].keep, id) \in Seq(Nat)
      <4>1. job[t].move \in Seq(Nat) /\ job[t].keep \in Seq(Nat)
        BY <1>1 DEF Job
      <4>2. \A s \in Seq(Nat), n \in Nat : Append(s, n) \in Seq(Nat)
        OBVIOUS
      <4> QED  BY <2>2, <4>1, <4>2
    <3>2. CASE moves
      BY <1>1, <3>1, <3>2 DEF Job
    <3>3. CASE ~ moves
      BY <1>1, <3>1, <3>3 DEF Job
    <3> QED  BY <3>2, <3>3
  <2> HIDE DEF classified
  <2>7. new \in Job /\ new.pc = pc /\ new.ids = Tail(job[t].ids) /\ new.to = job[t].to
    BY <2>2, <2>4, <2>6 DEF Job
  <2> QED  BY <1>1, <1>3, <2>3, <2>4, <2>5, <2>7, JobType
<1> QED  BY <1>4, <1>5, <1>6

\* The last three statements of a block of UpdateTripStatus keep the types.
LEMMA WritingType ==
    ASSUME TypeInv, NEW t \in Threads,
           UpdateSource(t) \/ SelectTarget(t) \/ UpdateTarget(t)
    PROVE  TypeInv'
<1>1. /\ job[t] \in Job /\ job[t].pc # "idle" /\ job[t].to # <<>>
      /\ Target(t) \in Users
  BY TargetType DEF TypeInv, TypeOK, UpdateSource, SelectTarget, UpdateTarget
<1>2. /\ Trip' \in Seq(TripRow)
      /\ Restaurant' \in Nat /\ today' \in Nat /\ requests' \in Nat
      /\ failed' \in BOOLEAN
  BY DEF UpdateSource, SelectTarget, UpdateTarget, TypeInv, TypeOK
<1>3. CASE UpdateSource(t)
  <2> DEFINE new == [job[t] EXCEPT !.pc = "selectTarget", !.keep = <<>>]
             x == ListOf(job[t].keep)
  <2>1. x \in Column
    BY <1>1, ListOfType DEF Job, Column
  <2>2. User' \in [Users -> [Columns -> Column]]
    <3>1. User' = [User EXCEPT ![Target(t)][Source(job[t].phase)] = x]
      BY <1>3 DEF UpdateSource
    <3> HIDE DEF x
    <3> QED  BY <2>1, <3>1 DEF TypeInv, TypeOK
  <2>3. job' = [job EXCEPT ![t] = new]
    BY <1>3 DEF UpdateSource
  <2> HIDE DEF x
  <2>4. new \in Job /\ new.pc = "selectTarget" /\ new.to # <<>>
    <3>1. <<>> \in Seq(Nat)
      OBVIOUS
    <3> QED  BY <1>1, <3>1 DEF Job, Steps, StatusSteps
  <2> QED  BY <1>2, <2>2, <2>3, <2>4, JobType
<1>4. CASE SelectTarget(t)
  <2> DEFINE x == TextOf(User[Target(t)][Destination(job[t].phase)])
             new == [job[t] EXCEPT !.pc = "updateTarget", !.trips = x]
  <2>1. x \in Text
    <3>1. Destination(job[t].phase) \in Columns
      BY DEF Destination, Columns
    <3>2. User[Target(t)][Destination(job[t].phase)] \in Column
      BY <1>1, <3>1 DEF TypeInv, TypeOK
    <3> QED  BY <3>2, TextOfType
  <2>2. job' = [job EXCEPT ![t] = new] /\ User' = User
    BY <1>4 DEF SelectTarget
  <2> HIDE DEF x
  <2>3. new \in Job /\ new.pc = "updateTarget" /\ new.to # <<>>
    BY <1>1, <2>1 DEF Job, Steps, StatusSteps
  <2>4. User' \in [Users -> [Columns -> Column]]
    BY <2>2 DEF TypeInv, TypeOK
  <2> QED  BY <1>2, <2>2, <2>3, <2>4, JobType
<1>5. CASE UpdateTarget(t)
  <2> DEFINE x == AddIds(job[t].trips, job[t].move)
  <2>1. x \in Column
    BY <1>1, AddIdsType DEF Job, Column
  <2>2. User' \in [Users -> [Columns -> Column]]
    <3>1. User' = [User EXCEPT ![Target(t)][Destination(job[t].phase)] = x]
      BY <1>5 DEF UpdateTarget
    <3> HIDE DEF x
    <3> QED  BY <2>1, <3>1 DEF TypeInv, TypeOK
  <2>3. job' = [job EXCEPT ![t] = NextBlock(job[t])]
    BY <1>5 DEF UpdateTarget
  <2> QED  BY <1>1, <1>2, <2>2, <2>3, NextBlockType, JobType
<1> QED  BY <1>3, <1>4, <1>5

LEMMA InitType == Init => TypeInv
<1> SUFFICES ASSUME Init PROVE TypeInv
  OBVIOUS
<1>1. TypeOK
  <2>1. User \in [Users -> [Columns -> Column]]
    BY DEF Init, Column
  <2>2. job \in [Threads -> Job] /\ \A t \in Threads : job[t].pc = "idle"
    BY IdleType DEF Init, Idle
  <2>3. Trip \in Seq(TripRow)
    BY DEF Init
  <2>4. Restaurant \in Nat /\ today \in Nat /\ requests \in Nat
    BY DEF Init
  <2>5. failed \in BOOLEAN
    BY DEF Init
  <2> QED  BY <2>1, <2>2, <2>3, <2>4, <2>5 DEF TypeOK
<1>2. StepsOK
  BY DEF Init, StepsOK, Idle
<1> QED  BY <1>1, <1>2 DEF TypeInv

\* The type invariant and StepsOK are kept by every step.
LEMMA NextType == TypeInv /\ [Next]_vars => TypeInv'
<1> SUFFICES ASSUME TypeInv, [Next]_vars PROVE TypeInv'
  OBVIOUS
<1>1. CASE UNCHANGED vars
  BY <1>1 DEF vars, TypeInv, TypeOK, StepsOK
<1>2. CASE Tick
  BY <1>2 DEF Tick, TypeInv, TypeOK, StepsOK
<1>3. ASSUME NEW t \in Threads, Step(t) PROVE TypeInv'
  BY <1>3, CreationType, DeletionType, ReadingType, WritingType DEF Step
<1>4. ASSUME NEW t \in Threads, Fail(t) PROVE TypeInv'
  <2>1. job' = [job EXCEPT ![t] = Idle] /\ Idle.pc = "idle"
    BY <1>4 DEF Fail, Idle
  <2>2. /\ User' \in [Users -> [Columns -> Column]] /\ Trip' \in Seq(TripRow)
        /\ Restaurant' \in Nat /\ today' \in Nat /\ requests' \in Nat
        /\ failed' \in BOOLEAN
    BY <1>4 DEF Fail, TypeInv, TypeOK
  <2> QED  BY <2>1, <2>2, IdleType, JobType
<1> QED  BY <1>1, <1>2, <1>3, <1>4, ArriveType DEF Next

\* Whatever clients call and however the threads interleave and fail, tables
\* and locals keep their types.
THEOREM TypeCorrect == Spec => []TypeOK
<1>1. TypeInv => TypeOK
  BY DEF TypeInv
<1> QED  BY <1>1, InitType, NextType, PTL DEF Spec

-----------------------------------------------------------------------------
(***************************************************************************)
(* HistoryOnlyPast.  The third block writes history_trip from two things   *)
(* it holds in locals: the trips it decided to move, and the history it    *)
(* read.  Both stay true while other threads run, because rows of Trip     *)
(* never change, the calendar never goes back, and the history it read was *)
(* itself written by a third block, which leaves a closed text (so that no *)
(* digits meet).                                                           *)
(***************************************************************************)

Past(id) == TripExists(id) /\ Trip[id].end < today

HistoryPast(column) ==
    TextOf(column).closed /\ \A id \in IdsIn(column) : Past(id)

\* What the locals j of a thread promise.
LocalsPast(j) ==
    /\ j.pc = "classify" => \A id \in ToSet(j.ids) : TripExists(id)
    /\ j.pc \in StatusSteps /\ j.phase = 3 => \A id \in ToSet(j.move) : Past(id)
    /\ j.pc = "updateTarget" /\ j.phase = 3 =>
           j.trips.closed /\ \A id \in ToSet(j.trips.ids) : Past(id)

HistoryInv ==
    /\ \A u \in Users : HistoryPast(User[u]["history_trip"])
    /\ \A t \in Threads : LocalsPast(job[t])

\* A thread leaves the calendar alone and adds at most one row to Trip.
LEMMA ThreadTables ==
    ASSUME TypeInv, NEW t \in Threads, Arrive(t) \/ Step(t) \/ Fail(t)
    PROVE  /\ today' = today
           /\ Trip' = Trip \/ \E row \in TripRow : Trip' = Append(Trip, row)
<1>1. CASE Arrive(t)
  <2>1. ASSUME NEW kind, NEW request, Accept(t, kind, request)
        PROVE  today' = today /\ Trip' = Trip
    BY <2>1 DEF Accept
  <2> QED
    BY <1>1, <2>1 DEF Arrive, NewTrip, NewTripWithRestaurants, DeleteTrip,
                      UpdateTripStatus
<1>2. CASE InsertTrip(t)
  <2> DEFINE row == [begin |-> job[t].begin, end |-> job[t].end,
                     rest |-> job[t].rID, to |-> job[t].to]
  <2>1. row \in TripRow
    BY DEF TypeInv, TypeOK, Job, TripRow
  <2>2. Trip' = Append(Trip, row) /\ today' = today
    BY <1>2 DEF InsertTrip
  <2> QED  BY <2>1, <2>2
<1>3. CASE \/ InsertRestaurant(t) \/ MaxRestaurant(t) \/ MaxTrip(t)
           \/ SelectUser(t) \/ UpdateUser(t) \/ SelectTrips(t) \/ UpdateTrips(t)
  BY <1>3 DEF InsertRestaurant, MaxRestaurant, MaxTrip, SelectUser, UpdateUser,
              SelectTrips, UpdateTrips
<1>4. CASE \/ SelectSource(t) \/ SelectDates(t) \/ Classify(t)
           \/ UpdateSource(t) \/ SelectTarget(t) \/ UpdateTarget(t)
  BY <1>4 DEF SelectSource, SelectDates, Classify, UpdateSource, SelectTarget,
              UpdateTarget
<1>5. CASE Fail(t)
  BY <1>5 DEF Fail
<1> QED  BY <1>1, <1>2, <1>3, <1>4, <1>5 DEF Step

\* A trip that exists and is over stays so.
LEMMA PastStable ==
    ASSUME TypeInv, TypeInv', [Next]_vars, NEW id
    PROVE  (TripExists(id) => TripExists(id)') /\ (Past(id) => Past(id)')
<1>1. today' = today \/ today' = today + 1
  BY ThreadTables DEF Next, vars, Tick
<1>2. Trip' = Trip \/ \E row \in TripRow : Trip' = Append(Trip, row)
  BY ThreadTables DEF Next, vars, Tick
<1>3. /\ Trip \in Seq(TripRow) /\ Len(Trip) \in Nat /\ today \in Nat
      /\ \A i \in 1..Len(Trip) : Trip[i] \in TripRow
  BY LenProperties, ElementOfSeq DEF TypeInv, TypeOK
<1>4. /\ Len(Trip') >= Len(Trip) /\ Len(Trip') \in Nat
      /\ \A i \in 1..Len(Trip) : Trip'[i] = Trip[i]
  <2>1. CASE Trip' = Trip
    BY <1>3, <2>1
  <2>2. CASE \E row \in TripRow : Trip' = Append(Trip, row)
    BY <1>3, <2>2, AppendProperties
  <2> QED  BY <1>2, <2>1, <2>2
<1>5. TripExists(id) => TripExists(id)'
  BY <1>3, <1>4 DEF TripExists
<1>6. ASSUME Past(id) PROVE Past(id)'
  <2>1. id \in 1..Len(Trip) /\ Trip[id].end \in Nat /\ Trip[id].end < today
    BY <1>3, <1>6 DEF Past, TripExists, TripRow
  <2>2. Trip'[id].end = Trip[id].end
    BY <1>4, <2>1
  <2> QED  BY <1>1, <1>3, <1>5, <2>1, <2>2 DEF Past, TripExists
<1> QED  BY <1>5, <1>6

\* What is left to show of a step of one thread.
LEMMA HistoryStep ==
    ASSUME TypeInv, TypeInv', HistoryInv, [Next]_vars,
           NEW t \in Threads, NEW new, job' = [job EXCEPT ![t] = new],
           \A u \in Users : \/ User'[u]["history_trip"] = User[u]["history_trip"]
                            \/ HistoryPast(User'[u]["history_trip"]),
           LocalsPast(new)
    PROVE  HistoryInv'
<1>1. \A id : (TripExists(id) => TripExists(id)') /\ (Past(id) => Past(id)')
  BY PastStable
<1>2. \A s \in Threads : job'[s] = IF s = t THEN new ELSE job[s]
  BY DEF TypeInv, TypeOK
<1>3. ASSUME NEW s \in Threads PROVE LocalsPast(job[s])'
  <2>1. LocalsPast(job'[s])
    BY <1>2 DEF HistoryInv
  <2> QED  BY <1>1, <2>1 DEF LocalsPast
<1>4. ASSUME NEW u \in Users PROVE HistoryPast(User[u]["history_trip"])'
  <2>1. HistoryPast(User'[u]["history_trip"])
    BY DEF HistoryInv
  <2> QED  BY <1>1, <2>1 DEF HistoryPast
<1> QED  BY <1>3, <1>4 DEF HistoryInv

\* A thread outside UpdateTripStatus, or at the start of a block, holds nothing.
LEMMA NothingHeld ==
    ASSUME NEW j, \/ j.pc \notin StatusSteps
                  \/ j.pc \in {"selectSource", "selectDates"} /\ j.move = <<>>
    PROVE  LocalsPast(j)
BY DEF LocalsPast, StatusSteps, ToSet

LEMMA ArriveHistory ==
    ASSUME TypeInv, TypeInv', HistoryInv, [Next]_vars, NEW t \in Threads, Arrive(t)
    PROVE  HistoryInv'
<1>1. ASSUME NEW kind, NEW request, Accept(t, kind, request), LocalsPast(request)
      PROVE  HistoryInv'
  BY <1>1, HistoryStep DEF Accept
<1>2. PICK u \in Users :
          \/ \E to \in Recipients, d \in TripDates :
               \/ NewTrip(t, u, to, d)
               \/ \E r \in 0..MaxRestaurants : NewTripWithRestaurants(t, u, to, d, r)
          \/ \E id \in 1..Len(Trip) : DeleteTrip(t, u, id)
          \/ UpdateTripStatus(t, u)
  BY DEF Arrive
<1>3. ASSUME NEW to \in Recipients, NEW d \in TripDates, NewTrip(t, u, to, d)
      PROVE  HistoryInv'
  <2> DEFINE r == [Idle EXCEPT !.pc = "insertTrip", !.to = Append(to, u),
                               !.begin = d[1], !.end = d[2]]
  <2>1. r.pc = "insertTrip"
    BY DEF Idle
  <2>2. LocalsPast(r)
    BY <2>1, NothingHeld DEF StatusSteps
  <2>3. Accept(t, "NewTrip", r)
    BY <1>3 DEF NewTrip
  <2> QED  BY <1>1, <2>2, <2>3
<1>4. ASSUME NEW to \in Recipients, NEW d \in TripDates, NEW n \in 0..MaxRestaurants,
             NewTripWithRestaurants(t, u, to, d, n)
      PROVE  HistoryInv'
  <2> DEFINE r == [Idle EXCEPT !.pc = IF n = 0 THEN "insertTrip" ELSE "insertRestaurant",
                               !.to = Append(to, u),
                               !.begin = d[1], !.end = d[2], !.rest = n]
  <2>1. r.pc \in {"insertTrip", "insertRestaurant"}
    BY DEF Idle
  <2>2. LocalsPast(r)
    BY <2>1, NothingHeld DEF StatusSteps
  <2>3. Accept(t, "NewTripWithRestaurants", r)
    BY <1>4 DEF NewTripWithRestaurants
  <2> QED  BY <1>1, <2>2, <2>3
<1>5. ASSUME NEW id \in 1..Len(Trip), DeleteTrip(t, u, id)
      PROVE  HistoryInv'
  <2> DEFINE r == [Idle EXCEPT !.pc = "selectTrips", !.to = <<u>>, !.tripID = id]
  <2>1. r.pc = "selectTrips"
    BY DEF Idle
  <2>2. LocalsPast(r)
    BY <2>1, NothingHeld DEF StatusSteps
  <2>3. Accept(t, "deleteTrip", r)
    BY <1>5 DEF DeleteTrip
  <2> QED  BY <1>1, <2>2, <2>3
<1>6. ASSUME UpdateTripStatus(t, u)
      PROVE  HistoryInv'
  <2> DEFINE r == [Idle EXCEPT !.pc = "selectSource", !.to = <<u>>, !.start = today]
  <2>1. r.pc = "selectSource" /\ r.move = <<>>
    BY DEF Idle
  <2>2. LocalsPast(r)
    BY <2>1, NothingHeld
  <2>3. Accept(t, "UpdateTripStatus", r)
    BY <1>6 DEF UpdateTripStatus
  <2> QED  BY <1>1, <2>2, <2>3
<1> QED  BY <1>2, <1>3, <1>4, <1>5, <1>6

\* Creations and deletions write current_trip only.
LEMMA OthersHistory ==
    ASSUME TypeInv, TypeInv', HistoryInv, [Next]_vars, NEW t \in Threads,
           \/ InsertRestaurant(t) \/ MaxRestaurant(t) \/ InsertTrip(t) \/ MaxTrip(t)
           \/ SelectUser(t) \/ UpdateUser(t) \/ SelectTrips(t) \/ UpdateTrips(t)
           \/ Fail(t)
    PROVE  HistoryInv'
<1>1. job[t] \in Job /\ job[t].pc # "idle"
  BY DEF TypeInv, TypeOK, InsertRestaurant, MaxRestaurant, InsertTrip, MaxTrip,
         SelectUser, UpdateUser, SelectTrips, UpdateTrips, Fail
<1>2. Target(t) \in Users
  BY <1>1, TargetType
<1>3. \A u \in Users : User'[u]["history_trip"] = User[u]["history_trip"]
  <2>1. \A x : LET new == [User EXCEPT ![Target(t)]["current_trip"] = x]
               IN  \A u \in Users : new[u]["history_trip"] = User[u]["history_trip"]
    BY DEF TypeInv, TypeOK, Columns
  <2>2. CASE UpdateUser(t)
    BY <2>1, <2>2 DEF UpdateUser
  <2>3. CASE UpdateTrips(t)
    BY <2>1, <2>3 DEF UpdateTrips
  <2>4. CASE \/ InsertRestaurant(t) \/ MaxRestaurant(t) \/ InsertTrip(t)
             \/ MaxTrip(t) \/ SelectUser(t) \/ SelectTrips(t) \/ Fail(t)
    BY <2>4 DEF InsertRestaurant, MaxRestaurant, InsertTrip, MaxTrip, SelectUser,
                SelectTrips, Fail
  <2> QED  BY <2>2, <2>3, <2>4
<1>4. LocalsPast(Idle)
  BY NothingHeld DEF Idle, StatusSteps
<1>5. ASSUME NEW new, job' = [job EXCEPT ![t] = new], new.pc \notin StatusSteps
      PROVE  HistoryInv'
  BY <1>3, <1>5, NothingHeld, HistoryStep
<1>6. job'[t].pc \notin StatusSteps
  <2>1. \A new : [job EXCEPT ![t] = new][t] = new
    BY DEF TypeInv, TypeOK
  <2>2. Idle.pc \notin StatusSteps
    BY DEF Idle, StatusSteps
  <2>3. CASE InsertRestaurant(t)
    BY <1>1, <2>3 DEF TypeInv, TypeOK, Job, InsertRestaurant, StatusSteps
  <2>4. CASE InsertTrip(t)
    BY <1>1, <2>4 DEF TypeInv, TypeOK, Job, InsertTrip, StatusSteps
  <2>5. CASE MaxTrip(t)
    BY <1>1, <2>5 DEF TypeInv, TypeOK, Job, MaxTrip, StatusSteps
  <2>6. CASE SelectUser(t)
    BY <1>1, <2>6 DEF TypeInv, TypeOK, Job, SelectUser, StatusSteps
  <2>7. CASE MaxRestaurant(t)
    <3> DEFINE rID == Append(job[t].rID, Restaurant)
               pc == IF Len(rID) < job[t].rest THEN "insertRestaurant" ELSE "insertTrip"
    <3>1. job' = [job EXCEPT ![t].rID = rID, ![t].pc = pc]
      BY <2>7 DEF MaxRestaurant
    <3>2. pc \notin StatusSteps
      BY DEF StatusSteps
    <3> HIDE DEF rID, pc
    <3> QED  BY <1>1, <3>1, <3>2 DEF TypeInv, TypeOK, Job
  <2>8. CASE UpdateUser(t)
    BY <1>1, <2>1, <2>2, <2>8 DEF Job, UpdateUser, StatusSteps
  <2>9. CASE SelectTrips(t)
    BY <1>1, <2>1, <2>2, <2>9 DEF Job, SelectTrips, StatusSteps
  <2>10. CASE UpdateTrips(t) \/ Fail(t)
    BY <2>1, <2>2, <2>10 DEF UpdateTrips, Fail
  <2> QED  BY <2>3, <2>4, <2>5, <2>6, <2>7, <2>8, <2>9, <2>10
<1>7. job' = [job EXCEPT ![t] = job'[t]]
  BY DEF TypeInv, TypeOK, InsertRestaurant, MaxRestaurant, InsertTrip, MaxTrip,
         SelectUser, UpdateUser, SelectTrips, UpdateTrips, Fail
<1> QED  BY <1>5, <1>6, <1>7

\* The first three statements of a block: only trips that are over are held
\* for history.
LEMMA ReadingHistory ==
    ASSUME TypeInv, TypeInv', HistoryInv, [Next]_vars, NEW t \in Threads,
           SelectSource(t) \/ SelectDates(t) \/ Classify(t)
    PROVE  HistoryInv'
<1>1. job[t] \in Job /\ job[t].pc # "idle" /\ LocalsPast(job[t])
  BY DEF TypeInv, TypeOK, SelectSource, SelectDates, Classify, HistoryInv
<1>2. \A u \in Users : User'[u]["history_trip"] = User[u]["history_trip"]
  BY DEF SelectSource, SelectDates, Classify
<1>3. LocalsPast(Idle)
  BY NothingHeld DEF Idle, StatusSteps
<1>4. LocalsPast(NextBlock(job[t]))
  BY <1>1, NextBlockType, NothingHeld DEF StatusSteps
<1>5. CASE SelectSource(t)
  <2> DEFINE x == TextOf(User[Target(t)][Source(job[t].phase)])
             new == [job[t] EXCEPT !.pc = "selectDates", !.ids = x.ids]
  <2>1. job' = [job EXCEPT ![t] = NextBlock(job[t])] \/ job' = [job EXCEPT ![t] = new]
    BY <1>5 DEF SelectSource
  <2>2. LocalsPast(new)
    <3> HIDE DEF x
    <3>1. new.pc = "selectDates" /\ new.phase = job[t].phase /\ new.move = job[t].move
      BY <1>1 DEF Job
    <3>2. job[t].pc \in StatusSteps
      BY <1>5 DEF SelectSource, StatusSteps
    <3> QED  BY <1>1, <3>1, <3>2 DEF LocalsPast
  <2> QED  BY <1>2, <1>4, <2>1, <2>2, HistoryStep
<1>6. CASE SelectDates(t)
  <2> DEFINE new == [job[t] EXCEPT !.pc = "classify"]
  <2>1. CASE \A i \in 1..Len(job[t].ids) : TripExists(job[t].ids[i])
    <3>1. job' = [job EXCEPT ![t] = new]
      BY <1>6, <2>1 DEF SelectDates
    <3>2. LocalsPast(new)
      <4>1. /\ new.pc = "classify" /\ new.phase = job[t].phase
            /\ new.move = job[t].move /\ new.ids = job[t].ids
        BY <1>1 DEF Job
      <4>2. job[t].pc \in StatusSteps
        BY <1>6 DEF SelectDates, StatusSteps
      <4>3. \A id \in ToSet(job[t].ids) : TripExists(id)
        <5>1. DOMAIN job[t].ids = 1..Len(job[t].ids)
          BY <1>1, LenProperties DEF Job
        <5> QED  BY <2>1, <5>1 DEF ToSet
      <4> QED  BY <1>1, <4>1, <4>2, <4>3 DEF LocalsPast
    <3> QED  BY <1>2, <3>1, <3>2, HistoryStep
  <2>2. CASE ~ \A i \in 1..Len(job[t].ids) : TripExists(job[t].ids[i])
    <3>1. job' = [job EXCEPT ![t] = Idle]
      BY <1>6, <2>2 DEF SelectDates
    <3> QED  BY <1>2, <1>3, <3>1, HistoryStep
  <2> QED  BY <2>1, <2>2
<1>7. CASE Classify(t)
  <2> DEFINE id == Head(job[t].ids)
             moves == Moves(job[t].phase, Trip[id])
             classified == IF moves
                           THEN [job[t] EXCEPT !.move = Append(@, id)]
                           ELSE [job[t] EXCEPT !.keep = Append(@, id)]
             pc == IF Len(job[t].ids) = 1 THEN "updateSource" ELSE "classify"
             new == [classified EXCEPT !.ids = Tail(job[t].ids), !.pc = pc]
  <2>1. job[t].ids \in Seq(Nat) /\ job[t].ids # <<>> /\ job[t].move \in Seq(Nat)
    BY <1>1, <1>7 DEF Classify, TypeInv, StepsOK, Job
  <2>2. /\ ToSet(Tail(job[t].ids)) \subseteq ToSet(job[t].ids)
        /\ id \in ToSet(job[t].ids) /\ id \in Nat
        /\ TripExists(id)
    BY <1>1, <1>7, <2>1, TailRange, HeadTailProperties DEF Classify, LocalsPast
  <2>3. moves /\ job[t].phase = 3 => Past(id)
    BY <2>2 DEF Moves, Past
  <2>4. ToSet(Append(job[t].move, id)) \subseteq ToSet(job[t].move) \union {id}
    BY <2>1, <2>2, AppendRange
  <2>5. pc \in {"updateSource", "classify"}
    OBVIOUS
  <2>6. job' = [job EXCEPT ![t] = new]
    BY <1>7 DEF Classify
  <2> HIDE DEF id, moves, pc
  <2>7. /\ new.pc = pc /\ new.ids = Tail(job[t].ids) /\ new.phase = job[t].phase
        /\ new.move = IF moves THEN Append(job[t].move, id) ELSE job[t].move
    <3>1. CASE moves
      BY <1>1, <3>1 DEF Job
    <3>2. CASE ~ moves
      BY <1>1, <3>2 DEF Job
    <3> QED  BY <3>1, <3>2
  <2>8. job[t].pc = "classify" /\ job[t].pc \in StatusSteps
    BY <1>7 DEF Classify, StatusSteps
  <2> HIDE DEF new
  <2>9. LocalsPast(new)
    BY <1>1, <2>2, <2>3, <2>4, <2>5, <2>7, <2>8 DEF LocalsPast
  <2> QED  BY <1>2, <2>6, <2>9, HistoryStep
<1> QED  BY <1>5, <1>6, <1>7

\* The last three statements of a block: the history written is the one read
\* and the trips held.
LEMMA WritingHistory ==
    ASSUME TypeInv, TypeInv', HistoryInv, [Next]_vars, NEW t \in Threads,
           UpdateSource(t) \/ SelectTarget(t) \/ UpdateTarget(t)
    PROVE  HistoryInv'
<1>1. /\ job[t] \in Job /\ job[t].pc # "idle" /\ LocalsPast(job[t])
      /\ job[t].pc \in StatusSteps /\ Target(t) \in Users
  BY TargetType
  DEF TypeInv, TypeOK, UpdateSource, SelectTarget, UpdateTarget, HistoryInv, StatusSteps
<1>2. CASE UpdateSource(t)
  <2> DEFINE new == [job[t] EXCEPT !.pc = "selectTarget", !.keep = <<>>]
             x == ListOf(job[t].keep)
  <2>1. job' = [job EXCEPT ![t] = new]
    BY <1>2 DEF UpdateSource
  <2>2. \A u \in Users : User'[u]["history_trip"] = User[u]["history_trip"]
    <3>1. User' = [User EXCEPT ![Target(t)][Source(job[t].phase)] = x]
      BY <1>2 DEF UpdateSource
    <3>2. Source(job[t].phase) # "history_trip" /\ Source(job[t].phase) \in Columns
      BY DEF Source, Columns
    <3> HIDE DEF x
    <3> QED  BY <1>1, <3>1, <3>2 DEF TypeInv, TypeOK, Columns
  <2>3. LocalsPast(new)
    <3>1. new.pc = "selectTarget" /\ new.phase = job[t].phase /\ new.move = job[t].move
      BY <1>1 DEF Job
    <3> QED  BY <1>1, <3>1 DEF LocalsPast
  <2> QED  BY <2>1, <2>2, <2>3, HistoryStep
<1>3. CASE SelectTarget(t)
  <2> DEFINE x == TextOf(User[Target(t)][Destination(job[t].phase)])
             new == [job[t] EXCEPT !.pc = "updateTarget", !.trips = x]
  <2>1. job' = [job EXCEPT ![t] = new] /\ User' = User
    BY <1>3 DEF SelectTarget
  <2>2. job[t].phase = 3 => x.closed /\ \A id \in ToSet(x.ids) : Past(id)
    BY <1>1 DEF Destination, HistoryInv, HistoryPast, IdsIn
  <2> HIDE DEF x
  <2>3. LocalsPast(new)
    <3>1. /\ new.pc = "updateTarget" /\ new.phase = job[t].phase
          /\ new.move = job[t].move /\ new.trips = x
      BY <1>1 DEF Job
    <3> QED  BY <1>1, <2>2, <3>1 DEF LocalsPast
  <2> QED  BY <2>1, <2>3, HistoryStep
<1>4. CASE UpdateTarget(t)
  <2> DEFINE x == AddIds(job[t].trips, job[t].move)
  <2>1. job' = [job EXCEPT ![t] = NextBlock(job[t])]
    BY <1>4 DEF UpdateTarget
  <2>2. LocalsPast(NextBlock(job[t]))
    BY <1>1, NextBlockType, NothingHeld DEF StatusSteps
  <2>3. job[t].phase = 3 => HistoryPast(x)
    <3>1. job[t].trips \in Text /\ job[t].move \in Seq(Nat)
      BY <1>1 DEF Job
    <3>2. x \in Text
      BY <3>1, AddIdsType
    <3>3. TextOf(x) = x
      BY <3>2, NullAssumption DEF TextOf
    <3>4. ASSUME job[t].phase = 3 PROVE HistoryPast(x)
      <4>1. /\ job[t].trips.closed
            /\ \A id \in ToSet(job[t].trips.ids) : Past(id)
            /\ \A id \in ToSet(job[t].move) : Past(id)
        BY <1>1, <1>4, <3>4 DEF UpdateTarget, LocalsPast
      <4>2. /\ x.closed
            /\ ToSet(x.ids) \subseteq ToSet(job[t].trips.ids) \union ToSet(job[t].move)
        BY <3>1, <4>1, AddIdsToClosed
      <4> QED  BY <3>3, <4>1, <4>2 DEF HistoryPast, IdsIn
    <3> QED  BY <3>4
  <2>4. \A u \in Users : \/ User'[u]["history_trip"] = User[u]["history_trip"]
                         \/ HistoryPast(User'[u]["history_trip"])
    <3>1. User' = [User EXCEPT ![Target(t)][Destination(job[t].phase)] = x]
      BY <1>4 DEF UpdateTarget
    <3>2. /\ Destination(job[t].phase) \in Columns
          /\ Destination(job[t].phase) = "history_trip" => job[t].phase = 3
      BY <1>1 DEF Destination, Columns, Job, Phases
    <3> HIDE DEF x
    <3>3. ASSUME NEW u \in Users
          PROVE  User'[u]["history_trip"] =
                     IF u = Target(t) /\ Destination(job[t].phase) = "history_trip"
                     THEN x ELSE User[u]["history_trip"]
      BY <1>1, <3>1, <3>2 DEF TypeInv, TypeOK, Columns
    <3> QED  BY <2>3, <3>2, <3>3
  <2> QED  BY <2>1, <2>2, <2>4, HistoryStep
<1> QED  BY <1>2, <1>3, <1>4

LEMMA InitHistory == Init => HistoryInv
<1> SUFFICES ASSUME Init PROVE HistoryInv
  OBVIOUS
<1>1. \A t \in Threads : LocalsPast(job[t])
  BY NothingHeld DEF Init, Idle, StatusSteps
<1>2. \A u \in Users : User[u]["history_trip"] = NULL
  BY DEF Init, Columns
<1>3. TextOf(NULL).closed /\ IdsIn(NULL) = {}
  BY DEF TextOf, Empty, IdsIn, ToSet
<1> QED  BY <1>1, <1>2, <1>3 DEF HistoryInv, HistoryPast

LEMMA NextHistory == TypeInv /\ TypeInv' /\ HistoryInv /\ [Next]_vars => HistoryInv'
<1> SUFFICES ASSUME TypeInv, TypeInv', HistoryInv, [Next]_vars PROVE HistoryInv'
  OBVIOUS
<1>1. CASE UNCHANGED vars
  BY <1>1 DEF vars, HistoryInv, HistoryPast, LocalsPast, Past, TripExists
<1>2. CASE Tick
  <2>1. \A id : (TripExists(id) => TripExists(id)') /\ (Past(id) => Past(id)')
    BY PastStable
  <2>2. User' = User /\ job' = job
    BY <1>2 DEF Tick
  <2> QED  BY <2>1, <2>2 DEF HistoryInv, HistoryPast, LocalsPast
<1>3. ASSUME NEW t \in Threads, Step(t) PROVE HistoryInv'
  BY <1>3, OthersHistory, ReadingHistory, WritingHistory DEF Step
<1>4. ASSUME NEW t \in Threads, Fail(t) PROVE HistoryInv'
  BY <1>4, OthersHistory
<1> QED  BY <1>1, <1>2, <1>3, <1>4, ArriveHistory DEF Next

\* No interleaving, failure or deletion puts a trip that is not over, or that
\* does not exist, into a user's history.
THEOREM HistoryCorrect == Spec => []HistoryOnlyPast
<1>1. HistoryInv => HistoryOnlyPast
  BY DEF HistoryInv, HistoryPast, HistoryOnlyPast, Past
<1> QED  BY <1>1, InitType, NextType, InitHistory, NextHistory, PTL DEF Spec

-----------------------------------------------------------------------------
(***************************************************************************)
(* With one thread, what the third block read of the history is what the   *)
(* column still holds when it writes, and it writes at the end of it.      *)
(***************************************************************************)

Alone == \A s, t \in Threads : s = t

WritesHistory(t) == job[t].pc = "updateTarget" /\ job[t].phase = 3

ReadIsFresh ==
    \A t \in Threads :
        WritesHistory(t) => job[t].trips = TextOf(User[Target(t)]["history_trip"])

\* A request that arrives writes nothing.
LEMMA Arriving ==
    ASSUME TypeInv, NEW t \in Threads, Arrive(t)
    PROVE  /\ job[t].pc = "idle" /\ UNCHANGED <<User, Trip, today, failed>>
           /\ \/ job'[t].pc \in {"insertRestaurant", "insertTrip"}
              \/ job'[t].pc = "selectTrips" /\ "deleteTrip" \in Kinds
              \/ \E u \in Users : job'[t] = [Idle EXCEPT !.pc = "selectSource",
                                                         !.to = <<u>>, !.start = today]
<1>1. ASSUME NEW kind, NEW request, Accept(t, kind, request)
      PROVE  /\ job[t].pc = "idle" /\ UNCHANGED <<User, Trip, today, failed>>
             /\ job'[t] = request /\ kind \in Kinds
  BY <1>1 DEF Accept, TypeInv, TypeOK
<1>2. PICK u \in Users :
          \/ \E to \in Recipients, d \in TripDates :
               \/ NewTrip(t, u, to, d)
               \/ \E r \in 0..MaxRestaurants : NewTripWithRestaurants(t, u, to, d, r)
          \/ \E id \in 1..Len(Trip) : DeleteTrip(t, u, id)
          \/ UpdateTripStatus(t, u)
  BY DEF Arrive
<1>3. ASSUME NEW to \in Recipients, NEW d \in TripDates, NewTrip(t, u, to, d)
      PROVE  /\ job[t].pc = "idle" /\ UNCHANGED <<User, Trip, today, failed>>
             /\ job'[t].pc = "insertTrip"
  <2> DEFINE r == [Idle EXCEPT !.pc = "insertTrip", !.to = Append(to, u),
                               !.begin = d[1], !.end = d[2]]
  <2>1. r.pc = "insertTrip"
    BY DEF Idle
  <2>2. Accept(t, "NewTrip", r)
    BY <1>3 DEF NewTrip
  <2> QED  BY <1>1, <2>1, <2>2
<1>4. ASSUME NEW to \in Recipients, NEW d \in TripDates, NEW n \in 0..MaxRestaurants,
             NewTripWithRestaurants(t, u, to, d, n)
      PROVE  /\ job[t].pc = "idle" /\ UNCHANGED <<User, Trip, today, failed>>
             /\ job'[t].pc \in {"insertTrip", "insertRestaurant"}
  <2> DEFINE r == [Idle EXCEPT !.pc = IF n = 0 THEN "insertTrip" ELSE "insertRestaurant",
                               !.to = Append(to, u),
                               !.begin = d[1], !.end = d[2], !.rest = n]
  <2>1. r.pc \in {"insertTrip", "insertRestaurant"}
    BY DEF Idle
  <2>2. Accept(t, "NewTripWithRestaurants", r)
    BY <1>4 DEF NewTripWithRestaurants
  <2> QED  BY <1>1, <2>1, <2>2
<1>5. ASSUME NEW id \in 1..Len(Trip), DeleteTrip(t, u, id)
      PROVE  /\ job[t].pc = "idle" /\ UNCHANGED <<User, Trip, today, failed>>
             /\ job'[t].pc = "selectTrips" /\ "deleteTrip" \in Kinds
  <2> DEFINE r == [Idle EXCEPT !.pc = "selectTrips", !.to = <<u>>, !.tripID = id]
  <2>1. r.pc = "selectTrips"
    BY DEF Idle
  <2>2. Accept(t, "deleteTrip", r)
    BY <1>5 DEF DeleteTrip
  <2> QED  BY <1>1, <2>1, <2>2
<1>6. CASE UpdateTripStatus(t, u)
  <2> DEFINE r == [Idle EXCEPT !.pc = "selectSource", !.to = <<u>>, !.start = today]
  <2>1. Accept(t, "UpdateTripStatus", r)
    BY <1>6 DEF UpdateTripStatus
  <2>2. job[t].pc = "idle" /\ job'[t] = r /\ UNCHANGED <<User, Trip, today, failed>>
    BY <1>1, <2>1
  <2> QED  BY <2>2
<1> QED  BY <1>2, <1>3, <1>4, <1>5, <1>6

\* Creations and deletions write current_trip only.
LEMMA OtherServlets ==
    ASSUME TypeInv, NEW t \in Threads,
           \/ InsertRestaurant(t) \/ MaxRestaurant(t) \/ InsertTrip(t) \/ MaxTrip(t)
           \/ SelectUser(t) \/ UpdateUser(t) \/ SelectTrips(t) \/ UpdateTrips(t)
           \/ Fail(t)
    PROVE  /\ job'[t].pc \notin StatusSteps
           /\ today' = today
           /\ \A u \in Users, c \in Columns \ {"current_trip"} : User'[u][c] = User[u][c]
<1>1. job[t] \in Job /\ \A r : [job EXCEPT ![t] = r][t] = r
  BY DEF TypeInv, TypeOK
<1>2. Idle.pc \notin StatusSteps
  BY DEF Idle, StatusSteps
<1>3. ASSUME NEW x, Target(t) \in Users, User' = [User EXCEPT ![Target(t)]["current_trip"] = x]
      PROVE  \A u \in Users, c \in Columns \ {"current_trip"} : User'[u][c] = User[u][c]
  BY <1>3 DEF TypeInv, TypeOK, Columns
<1>4. CASE InsertRestaurant(t) \/ MaxRestaurant(t) \/ InsertTrip(t) \/ MaxTrip(t)
           \/ SelectUser(t)
  <2>1. User' = User /\ today' = today
    BY <1>4 DEF InsertRestaurant, MaxRestaurant, InsertTrip, MaxTrip, SelectUser
  <2>2. job \in [Threads -> Job]
    BY DEF TypeInv, TypeOK
  <2>3. /\ InsertRestaurant(t) => job'[t].pc = "maxRestaurant"
        /\ SelectUser(t) => job'[t].pc = "updateUser"
    BY <2>2 DEF InsertRestaurant, SelectUser, Job
  <2>4. MaxRestaurant(t) => job'[t].pc \in {"insertRestaurant", "insertTrip"}
    BY <2>2 DEF MaxRestaurant, Job
  <2>5. InsertTrip(t) => job'[t].pc = "maxTrip"
    BY <2>2 DEF InsertTrip, Job
  <2>6. MaxTrip(t) => job'[t].pc = "selectUser"
    BY <2>2 DEF MaxTrip, Job
  <2> QED  BY <1>4, <2>1, <2>2, <2>3, <2>4, <2>5, <2>6 DEF StatusSteps
<1>6. CASE UpdateUser(t)
  <2>1. job'[t] = Idle \/ job'[t].pc = "selectUser"
    BY <1>1, <1>6 DEF UpdateUser, Job
  <2>2. today' = today /\ Target(t) \in Users
    BY <1>6, TargetType DEF UpdateUser
  <2>3. PICK x : User' = [User EXCEPT ![Target(t)]["current_trip"] = x]
    BY <1>6 DEF UpdateUser
  <2> QED  BY <1>2, <1>3, <2>1, <2>2, <2>3 DEF StatusSteps
<1>7. CASE SelectTrips(t)
  <2>1. job'[t] = Idle \/ job'[t].pc = "updateTrips"
    BY <1>1, <1>7 DEF SelectTrips, Job
  <2> QED  BY <1>2, <1>7, <2>1 DEF SelectTrips, StatusSteps
<1>8. CASE UpdateTrips(t)
  <2>1. job'[t] = Idle /\ today' = today /\ Target(t) \in Users
    BY <1>1, <1>8, TargetType DEF UpdateTrips
  <2>2. PICK x : User' = [User EXCEPT ![Target(t)]["current_trip"] = x]
    BY <1>8 DEF UpdateTrips
  <2> QED  BY <1>2, <1>3, <2>1, <2>2
<1>9. CASE Fail(t)
  BY <1>1, <1>2, <1>9 DEF Fail
<1> QED  BY <1>4, <1>6, <1>7, <1>8, <1>9

\* A statement of UpdateTripStatus writes at most one column of one row.
LEMMA ColumnWritten ==
    ASSUME TypeInv, NEW v \in Users, NEW c \in Columns, NEW x,
           User' = [User EXCEPT ![v][c] = x], NEW u \in Users, NEW d \in Columns
    PROVE  User'[u][d] = IF u = v /\ d = c THEN x ELSE User[u][d]
BY DEF TypeInv, TypeOK

\* Only the last statement of the third block writes history_trip.
LEMMA HistoryUntouched ==
    ASSUME TypeInv, NEW t \in Threads, Arrive(t) \/ Step(t) \/ Fail(t),
           ~ (UpdateTarget(t) /\ job[t].phase = 3), NEW u \in Users
    PROVE  User'[u]["history_trip"] = User[u]["history_trip"]
<1>1. "history_trip" \in Columns \ {"current_trip"}
  BY DEF Columns
<1>2. CASE SelectSource(t) \/ SelectDates(t) \/ Classify(t) \/ SelectTarget(t)
  BY <1>2 DEF SelectSource, SelectDates, Classify, SelectTarget
<1>3. CASE UpdateSource(t)
  <2>1. Target(t) \in Users
    BY <1>3, TargetType DEF UpdateSource
  <2>2. PICK x : User' = [User EXCEPT ![Target(t)][Source(job[t].phase)] = x]
    BY <1>3 DEF UpdateSource
  <2>3. Source(job[t].phase) \in Columns \ {"history_trip"}
    BY DEF Source, Columns
  <2> QED  BY <1>1, <2>1, <2>2, <2>3, ColumnWritten
<1>4. CASE UpdateTarget(t)
  <2>1. Target(t) \in Users
    BY <1>4, TargetType DEF UpdateTarget
  <2>2. PICK x : User' = [User EXCEPT ![Target(t)][Destination(job[t].phase)] = x]
    BY <1>4 DEF UpdateTarget
  <2>3. Destination(job[t].phase) \in Columns \ {"history_trip"}
    BY <1>4 DEF Destination, Columns, TypeInv, TypeOK, Job, Phases
  <2> QED  BY <1>1, <2>1, <2>2, <2>3, ColumnWritten
<1> QED  BY <1>1, <1>2, <1>3, <1>4, Arriving, OtherServlets DEF Step

\* Only the read of the destination leads to its rewriting.
LEMMA StepsElsewhere ==
    ASSUME TypeInv, NEW t \in Threads, Arrive(t) \/ Step(t) \/ Fail(t), ~ SelectTarget(t)
    PROVE  job'[t].pc # "updateTarget"
<1>1. job[t] \in Job /\ \A r : [job EXCEPT ![t] = r][t] = r
  BY DEF TypeInv, TypeOK
<1>2. Idle.pc = "idle" /\ NextBlock(job[t]).pc \in {"idle", "selectSource"}
  BY DEF Idle, NextBlock
<1>3. CASE Arrive(t)
  BY <1>3, Arriving DEF Idle, StatusSteps
<1>4. CASE SelectSource(t)
  <2>1. job'[t] = NextBlock(job[t]) \/ job'[t].pc = "selectDates"
    BY <1>1, <1>4 DEF SelectSource, Job
  <2> QED  BY <1>2, <2>1
<1>5. CASE SelectDates(t)
  <2>1. job'[t] = Idle \/ job'[t].pc = "classify"
    BY <1>1, <1>5 DEF SelectDates, Job
  <2> QED  BY <1>2, <2>1
<1>6. CASE Classify(t)
  <2> DEFINE id == Head(job[t].ids)
             classified == IF Moves(job[t].phase, Trip[id])
                           THEN [job[t] EXCEPT !.move = Append(@, id)]
                           ELSE [job[t] EXCEPT !.keep = Append(@, id)]
             next == IF Len(job[t].ids) = 1 THEN "updateSource" ELSE "classify"
  <2>1. job'[t] = [classified EXCEPT !.ids = Tail(job[t].ids), !.pc = next]
    BY <1>1, <1>6 DEF Classify
  <2>2. "pc" \in DOMAIN classified
    BY <1>1 DEF Job
  <2> HIDE DEF classified
  <2> QED  BY <2>1, <2>2
<1>7. CASE UpdateSource(t)
  BY <1>1, <1>7 DEF UpdateSource, Job
<1>8. CASE UpdateTarget(t)
  BY <1>1, <1>2, <1>8 DEF UpdateTarget
<1> QED  BY <1>3, <1>4, <1>5, <1>6, <1>7, <1>8, OtherServlets DEF Step, StatusSteps

\* The read before the last statement sees what that statement extends.
LEMMA NextFresh ==
    ASSUME Alone, TypeInv, TypeInv', ReadIsFresh, [Next]_vars
    PROVE  ReadIsFresh'
<1>1. CASE UNCHANGED vars
  BY <1>1 DEF vars, ReadIsFresh, WritesHistory, Target
<1>2. CASE Tick
  BY <1>2 DEF Tick, ReadIsFresh, WritesHistory, Target
<1>3. ASSUME NEW t \in Threads, SelectTarget(t)
      PROVE  ReadIsFresh'
  <2> DEFINE x == TextOf(User[Target(t)][Destination(job[t].phase)])
  <2>1. /\ job'[t] = [job[t] EXCEPT !.pc = "updateTarget", !.trips = x]
        /\ User' = User
    BY <1>3 DEF SelectTarget, TypeInv, TypeOK
  <2>2. /\ job'[t].trips = x /\ job'[t].phase = job[t].phase
        /\ job'[t].to = job[t].to
    BY <2>1 DEF TypeInv, TypeOK, Job
  <2>3. job[t].phase = 3 => x = TextOf(User[Target(t)]["history_trip"])
    BY DEF Destination
  <2> HIDE DEF x
  <2> QED  BY <2>1, <2>2, <2>3 DEF Alone, ReadIsFresh, WritesHistory, Target
<1>4. ASSUME NEW t \in Threads, Arrive(t) \/ Step(t) \/ Fail(t), ~ SelectTarget(t)
      PROVE  ReadIsFresh'
  <2>1. job'[t].pc # "updateTarget"
    BY <1>4, StepsElsewhere
  <2> QED  BY <2>1 DEF Alone, ReadIsFresh, WritesHistory
<1> QED  BY <1>1, <1>2, <1>3, <1>4 DEF Next

\* What a third block writes begins with what history_trip held.
LEMMA AppendsHistory ==
    ASSUME TypeInv, HistoryInv, ReadIsFresh, NEW t \in Threads, UpdateTarget(t),
           job[t].phase = 3, NEW u \in Users
    PROVE  IsPrefix(TextOf(User[u]["history_trip"]).ids,
                    TextOf(User'[u]["history_trip"]).ids)
<1> DEFINE x == AddIds(job[t].trips, job[t].move)
<1>1. /\ job[t].trips \in Text /\ job[t].move \in Seq(Nat) /\ Target(t) \in Users
  BY TargetType DEF UpdateTarget, TypeInv, TypeOK, Job
<1>2. job[t].trips.closed /\ job[t].trips = TextOf(User[Target(t)]["history_trip"])
  BY DEF HistoryInv, LocalsPast, ReadIsFresh, WritesHistory, UpdateTarget
<1>3. x \in Text /\ TextOf(x) = x
  BY <1>1, AddIdsType, NullAssumption DEF TextOf
<1>4. IsPrefix(job[t].trips.ids, x.ids)
  BY <1>1, <1>2, AddIdsExtends
<1>5. User' = [User EXCEPT ![Target(t)]["history_trip"] = x]
  BY DEF UpdateTarget, Destination
<1> HIDE DEF x
<1>6. User'[u]["history_trip"] = IF u = Target(t) THEN x ELSE User[u]["history_trip"]
  BY <1>1, <1>5 DEF TypeInv, TypeOK, Columns
<1>7. CASE u = Target(t)
  BY <1>2, <1>3, <1>4, <1>6, <1>7
<1>8. CASE u # Target(t)
  BY <1>6, <1>8 DEF IsPrefix
<1> QED  BY <1>7, <1>8

\* HistoryIsAppended: if requests come one after another, then no sequence of
\* creations, deletions, failures and changes of the date makes UpdateTripStatus
\* drop or reorder a trip of a user's history.
THEOREM HistoryIsAppended ==
    ASSUME Alone
    PROVE  Spec => HistoryGrows
<1> DEFINE Grows == \A u \in Users : IsPrefix(TextOf(User[u]["history_trip"]).ids,
                                              TextOf(User'[u]["history_trip"]).ids)
<1>1. Init => ReadIsFresh
  BY DEF Init, Idle, ReadIsFresh, WritesHistory
<1>2. TypeInv /\ TypeInv' /\ ReadIsFresh /\ [Next]_vars => ReadIsFresh'
  BY NextFresh
<1>3. ASSUME TypeInv, HistoryInv, ReadIsFresh, [Next]_vars
      PROVE  [Grows]_vars
  <2> SUFFICES ASSUME Next, NEW u \in Users
               PROVE  IsPrefix(TextOf(User[u]["history_trip"]).ids,
                               TextOf(User'[u]["history_trip"]).ids)
    BY <1>3 DEF Next
  <2>1. CASE Tick
    BY <2>1 DEF Tick, IsPrefix
  <2>2. ASSUME NEW t \in Threads, Arrive(t) \/ Step(t) \/ Fail(t)
        PROVE  IsPrefix(TextOf(User[u]["history_trip"]).ids,
                        TextOf(User'[u]["history_trip"]).ids)
    <3>1. CASE UpdateTarget(t) /\ job[t].phase = 3
      BY <1>3, <3>1, AppendsHistory
    <3>2. CASE ~ (UpdateTarget(t) /\ job[t].phase = 3)
      BY <1>3, <2>2, <3>2, HistoryUntouched DEF IsPrefix
    <3> QED  BY <3>1, <3>2
  <2> QED  BY <2>1, <2>2 DEF Next
<1>4. TypeInv /\ HistoryInv /\ ReadIsFresh /\ [Next]_vars => [Grows]_vars
  BY <1>3
<1> QED  BY <1>1, <1>2, <1>4, InitType, NextType, InitHistory, NextHistory, PTL
         DEF Spec, HistoryGrows

-----------------------------------------------------------------------------
(***************************************************************************)
(* With one thread, and on one day, each block of UpdateTripStatus settles *)
(* a column for the blocks after it: the first leaves no pending trip that *)
(* has begun, the second no current trip that has not begun (it adds to    *)
(* pending_trip only trips to come), the third no current trip that is     *)
(* over.  deleteTrip may have left current_trip open, but what block 1     *)
(* joins there is read again by block 2, which ends the request if a       *)
(* number is no trip; pending_trip is always closed.                       *)
(***************************************************************************)

ToCome(ids)  == \A id \in ids : TripExists(id) /\ Trip[id].begin >= today
Begun(ids)   == \A id \in ids : TripExists(id) /\ Trip[id].begin <= today
NotOver(ids) == \A id \in ids : TripExists(id) /\ Trip[id].end >= today

\* Whether the thread has rewritten the source of this block.
Rewritten(j, phase) ==
    \/ j.phase > phase
    \/ j.phase = phase /\ j.pc \in {"selectTarget", "updateTarget"}

\* What the locals of a request that arrived today say of the trips they hold.
HeldSettled(j) ==
    /\ j.phase = 1 => ToCome(ToSet(j.keep))
    /\ j.phase = 2 => Begun(ToSet(j.keep)) /\ ToCome(ToSet(j.move))
    /\ j.phase = 3 => /\ Begun(ToSet(j.ids) \union ToSet(j.keep))
                      /\ NotOver(ToSet(j.keep))
    /\ j.pc = "updateTarget" /\ j.phase = 2 => ToCome(ToSet(j.trips.ids))

\* What its blocks have achieved in the row of its user.
RowSettled(j, row) ==
    /\ Rewritten(j, 1) => ToCome(IdsIn(row["pending_trip"]))
    /\ Rewritten(j, 2) => Begun(IdsIn(row["current_trip"]))
    /\ Rewritten(j, 3) => NotOver(IdsIn(row["current_trip"]))

StatusInv ==
    /\ \A u \in Users : TextOf(User[u]["pending_trip"]).closed
    /\ \A t \in Threads :
          /\ job[t].pc = "updateTarget" /\ job[t].phase = 2 => job[t].trips.closed
          /\ job[t].pc \in StatusSteps => job[t].start <= today
          /\ job[t].pc \in StatusSteps /\ job[t].start = today =>
                 HeldSettled(job[t]) /\ RowSettled(job[t], User[Target(t)])

LEMMA StatusStep ==
    ASSUME Alone, TypeInv, StatusInv, NEW t \in Threads, NEW new,
           job' = [job EXCEPT ![t] = new], Trip' = Trip, today' = today,
           \A u \in Users : TextOf(User'[u]["pending_trip"]).closed,
           new.pc = "updateTarget" /\ new.phase = 2 => new.trips.closed,
           new.pc \in StatusSteps => new.start <= today,
           new.pc \in StatusSteps /\ new.start = today =>
               HeldSettled(new) /\ RowSettled(new, User'[Head(new.to)])
    PROVE  StatusInv'
<1>1. job'[t] = new /\ \A s \in Threads : s = t
  BY DEF TypeInv, TypeOK, Alone
<1>2. new.pc \in StatusSteps /\ new.start = today =>
          HeldSettled(job[t])' /\ RowSettled(job[t], User[Target(t)])'
  BY <1>1 DEF HeldSettled, RowSettled, Target, ToCome, Begun, NotOver, TripExists, Rewritten
<1> QED  BY <1>1, <1>2 DEF StatusInv

\* A thread at the start of the first block, or outside UpdateTripStatus.
LEMMA QuietStatus ==
    ASSUME Alone, TypeInv, StatusInv, NEW t \in Threads,
           Arrive(t) \/ \/ InsertRestaurant(t) \/ MaxRestaurant(t) \/ InsertTrip(t)
                        \/ MaxTrip(t) \/ SelectUser(t) \/ UpdateUser(t)
                        \/ SelectTrips(t) \/ UpdateTrips(t) \/ Fail(t)
    PROVE  StatusInv'
<1>1. \A u \in Users : TextOf(User'[u]["pending_trip"]).closed
  BY Arriving, OtherServlets DEF StatusInv, Columns
<1>2. \A s \in Threads : s = t
  BY DEF Alone
<1>3. CASE job'[t].pc \notin StatusSteps
  BY <1>1, <1>2, <1>3 DEF StatusInv, StatusSteps
<1>4. CASE job'[t].pc \in StatusSteps
  <2>1. Arrive(t)
    BY <1>4, OtherServlets
  <2>2. PICK u \in Users : job'[t] = [Idle EXCEPT !.pc = "selectSource", !.to = <<u>>,
                                                  !.start = today]
    BY <1>4, <2>1, Arriving DEF StatusSteps
  <2>3. /\ job'[t].pc = "selectSource" /\ job'[t].phase = 1 /\ job'[t].start = today
        /\ job'[t].keep = <<>>
    BY <2>2 DEF Idle
  <2>4. today' = today /\ today \in Nat
    BY <2>1, Arriving DEF TypeInv, TypeOK
  <2>5. HeldSettled(job[t])'
    BY <2>3 DEF HeldSettled, ToCome, ToSet
  <2>6. RowSettled(job[t], User[Target(t)])'
    BY <2>3 DEF RowSettled, Rewritten
  <2> QED  BY <1>1, <1>2, <2>3, <2>4, <2>5, <2>6 DEF StatusInv
<1> QED  BY <1>3, <1>4

\* The locals at the start of the next block.
LEMMA NextBlockLocals ==
    ASSUME TypeInv, NEW t \in Threads, job[t].pc # "idle"
    PROVE  LET new == NextBlock(job[t])
           IN  /\ job[t].phase = 3 => new = Idle
               /\ job[t].phase # 3 =>
                      /\ new.pc = "selectSource" /\ new.phase = job[t].phase + 1
                      /\ new.to = job[t].to /\ new.start = job[t].start
                      /\ new.ids = <<>> /\ new.keep = <<>> /\ new.move = <<>>
BY DEF NextBlock, Idle

\* What a block leaves is what the next one needs.
LEMMA BlockEnds ==
    ASSUME Alone, TypeInv, StatusInv, NEW t \in Threads, job[t].pc \in StatusSteps,
           job' = [job EXCEPT ![t] = NextBlock(job[t])], Trip' = Trip, today' = today,
           \A u \in Users : TextOf(User'[u]["pending_trip"]).closed,
           job[t].start = today =>
               /\ job[t].phase \in {1, 2} => ToCome(IdsIn(User'[Target(t)]["pending_trip"]))
               /\ job[t].phase = 2 => Begun(IdsIn(User'[Target(t)]["current_trip"]))
    PROVE  StatusInv'
<1> DEFINE new == NextBlock(job[t])
<1>1. job[t].pc # "idle" /\ job[t].phase \in {1, 2, 3} /\ job[t].start <= today
  BY DEF StatusSteps, TypeInv, TypeOK, Job, Phases, StatusInv
<1>4. job' = [job EXCEPT ![t] = new]
  OBVIOUS
<1>2. CASE job[t].phase = 3
  <2>1. new.pc = "idle"
    BY <1>1, <1>2, NextBlockLocals DEF Idle
  <2> HIDE DEF new
  <2>2. new.pc \notin StatusSteps /\ new.pc # "updateTarget"
    BY <2>1 DEF StatusSteps
  <2> QED  BY <1>4, <2>2, StatusStep
<1>3. CASE job[t].phase # 3
  <2>1. /\ new.pc = "selectSource" /\ new.phase = job[t].phase + 1
        /\ new.to = job[t].to /\ new.start = job[t].start
        /\ new.ids = <<>> /\ new.keep = <<>> /\ new.move = <<>>
    BY <1>1, <1>3, NextBlockLocals
  <2> HIDE DEF new
  <2>2. HeldSettled(new)
    BY <2>1 DEF HeldSettled, ToCome, Begun, NotOver, ToSet
  <2>3. job[t].start = today => RowSettled(new, User'[Head(new.to)])
    BY <1>1, <1>3, <2>1 DEF RowSettled, Rewritten, Target
  <2>4. new.pc # "updateTarget" /\ new.start <= today
    BY <1>1, <2>1
  <2> QED  BY <1>4, <2>1, <2>2, <2>3, <2>4, StatusStep
<1> QED  BY <1>1, <1>2, <1>3

LEMMA SelectSourceStatus ==
    ASSUME Alone, TypeInv, StatusInv, NEW t \in Threads, SelectSource(t)
    PROVE  StatusInv'
<1> DEFINE x == TextOf(User[Target(t)][Source(job[t].phase)])
           new == [job[t] EXCEPT !.pc = "selectDates", !.ids = x.ids]
           row == User[Target(t)]
<1>1. /\ job[t] \in Job /\ job[t].pc = "selectSource" /\ job[t].pc \in StatusSteps
      /\ User' = User /\ Trip' = Trip /\ today' = today
  BY DEF TypeInv, TypeOK, SelectSource, StatusSteps
<1>2. /\ \A u \in Users : TextOf(User'[u]["pending_trip"]).closed
      /\ job[t].start <= today
      /\ job[t].start = today => HeldSettled(job[t]) /\ RowSettled(job[t], row)
  BY <1>1 DEF StatusInv
<1>3. CASE x.ids = <<>>
  <2>1. job' = [job EXCEPT ![t] = NextBlock(job[t])]
    BY <1>3 DEF SelectSource
  <2>2. IdsIn(row[Source(job[t].phase)]) = {}
    BY <1>3 DEF IdsIn, ToSet
  <2>3. job[t].start = today =>
            /\ job[t].phase \in {1, 2} => ToCome(IdsIn(row["pending_trip"]))
            /\ job[t].phase = 2 => Begun(IdsIn(row["current_trip"]))
    BY <1>2, <2>2 DEF Source, ToCome, Begun, RowSettled, Rewritten
  <2> QED  BY <1>1, <1>2, <2>1, <2>3, BlockEnds
<1>4. CASE x.ids # <<>>
  <2>1. job' = [job EXCEPT ![t] = new]
    BY <1>4 DEF SelectSource
  <2>2. job[t].start = today /\ job[t].phase = 3 => Begun(ToSet(x.ids))
    BY <1>2 DEF RowSettled, Rewritten, Source, IdsIn
  <2> HIDE DEF x
  <2>3. /\ new.pc = "selectDates" /\ new.ids = x.ids /\ new.phase = job[t].phase
        /\ new.to = job[t].to /\ new.start = job[t].start
        /\ new.keep = job[t].keep /\ new.move = job[t].move
    BY <1>1 DEF Job
  <2> HIDE DEF new
  <2>4. job[t].start = today => HeldSettled(new) /\ RowSettled(new, row)
    BY <1>1, <1>2, <2>2, <2>3 DEF HeldSettled, RowSettled, Rewritten, Begun
  <2> QED  BY <1>1, <1>2, <2>1, <2>3, <2>4, StatusStep DEF Target
<1> QED  BY <1>3, <1>4

LEMMA SelectDatesStatus ==
    ASSUME Alone, TypeInv, StatusInv, NEW t \in Threads, SelectDates(t)
    PROVE  StatusInv'
<1> DEFINE new == [job[t] EXCEPT !.pc = "classify"]
<1>1. /\ job[t] \in Job /\ job[t].pc = "selectDates" /\ job[t].pc \in StatusSteps
      /\ User' = User /\ Trip' = Trip /\ today' = today
  BY DEF TypeInv, TypeOK, SelectDates, StatusSteps
<1>2. /\ \A u \in Users : TextOf(User'[u]["pending_trip"]).closed
      /\ job[t].start <= today
      /\ job[t].start = today => HeldSettled(job[t]) /\ RowSettled(job[t], User[Target(t)])
  BY <1>1 DEF StatusInv
<1>3. CASE job' = [job EXCEPT ![t] = Idle]
  BY <1>1, <1>2, <1>3, StatusStep DEF Idle, StatusSteps
<1>4. CASE job' = [job EXCEPT ![t] = new]
  <2>1. /\ new.pc = "classify" /\ new.ids = job[t].ids /\ new.phase = job[t].phase
        /\ new.to = job[t].to /\ new.start = job[t].start
        /\ new.keep = job[t].keep /\ new.move = job[t].move
    BY <1>1 DEF Job
  <2> HIDE DEF new
  <2>2. job[t].start = today => HeldSettled(new) /\ RowSettled(new, User[Head(new.to)])
    BY <1>1, <1>2, <2>1 DEF HeldSettled, RowSettled, Rewritten, Target
  <2> QED  BY <1>1, <1>2, <1>4, <2>1, <2>2, StatusStep
<1> QED  BY <1>3, <1>4 DEF SelectDates

\* A trip goes where its dates and the block say.
LEMMA ClassifyStatus ==
    ASSUME Alone, TypeInv, HistoryInv, StatusInv, NEW t \in Threads, Classify(t)
    PROVE  StatusInv'
<1> DEFINE id == Head(job[t].ids)
           moves == Moves(job[t].phase, Trip[id])
           classified == IF moves
                         THEN [job[t] EXCEPT !.move = Append(@, id)]
                         ELSE [job[t] EXCEPT !.keep = Append(@, id)]
           pc == IF Len(job[t].ids) = 1 THEN "updateSource" ELSE "classify"
           new == [classified EXCEPT !.ids = Tail(job[t].ids), !.pc = pc]
<1>1. /\ job[t] \in Job /\ job[t].pc = "classify" /\ job[t].pc \in StatusSteps
      /\ User' = User /\ Trip' = Trip /\ today' = today
      /\ job' = [job EXCEPT ![t] = new]
  BY DEF TypeInv, TypeOK, Classify, StatusSteps
<1>2. /\ \A u \in Users : TextOf(User'[u]["pending_trip"]).closed
      /\ job[t].start <= today
      /\ job[t].start = today => HeldSettled(job[t]) /\ RowSettled(job[t], User[Target(t)])
  BY <1>1 DEF StatusInv
<1>3. /\ job[t].ids \in Seq(Nat) /\ job[t].ids # <<>>
      /\ job[t].move \in Seq(Nat) /\ job[t].keep \in Seq(Nat)
  BY <1>1 DEF TypeInv, StepsOK, Job
<1>4. /\ ToSet(Tail(job[t].ids)) \subseteq ToSet(job[t].ids)
      /\ id \in ToSet(job[t].ids) /\ id \in Nat /\ TripExists(id)
  BY <1>1, <1>3, TailRange, HeadTailProperties DEF HistoryInv, LocalsPast
<1>5. /\ ToSet(Append(job[t].move, id)) \subseteq ToSet(job[t].move) \union {id}
      /\ ToSet(Append(job[t].keep, id)) \subseteq ToSet(job[t].keep) \union {id}
  BY <1>3, <1>4, AppendRange
<1>6. /\ job[t].phase = 1 /\ ~ moves => ToCome({id})
      /\ job[t].phase = 2 /\ ~ moves => Begun({id})
      /\ job[t].phase = 2 /\ moves => ToCome({id})
      /\ job[t].phase = 3 /\ ~ moves => NotOver({id})
  <2>1. Trip \in Seq(TripRow) /\ today \in Nat /\ id \in 1..Len(Trip)
    BY <1>4 DEF TripExists, TypeInv, TypeOK
  <2>2. Trip[id] \in TripRow
    BY <2>1, ElementOfSeq
  <2>3. Trip[id].begin \in Nat /\ Trip[id].end \in Nat
    BY <2>2 DEF TripRow
  <2> QED  BY <1>4, <2>1, <2>3 DEF Moves, ToCome, Begun, NotOver
<1>7. pc \in {"updateSource", "classify"}
  OBVIOUS
<1> HIDE DEF id, moves, pc
<1>8. /\ new.pc = pc /\ new.ids = Tail(job[t].ids) /\ new.phase = job[t].phase
      /\ new.to = job[t].to /\ new.start = job[t].start
      /\ new.move = IF moves THEN Append(job[t].move, id) ELSE job[t].move
      /\ new.keep = IF moves THEN job[t].keep ELSE Append(job[t].keep, id)
  <2>1. CASE moves
    BY <1>1, <2>1 DEF Job
  <2>2. CASE ~ moves
    BY <1>1, <2>2 DEF Job
  <2> QED  BY <2>1, <2>2
<1> HIDE DEF new
<1>9. job[t].start = today => HeldSettled(new)
  BY <1>1, <1>2, <1>4, <1>5, <1>6, <1>7, <1>8 DEF HeldSettled, ToCome, Begun, NotOver
<1>10. job[t].start = today => RowSettled(new, User[Head(new.to)])
  BY <1>1, <1>2, <1>7, <1>8 DEF RowSettled, Rewritten, Target
<1> QED  BY <1>1, <1>2, <1>7, <1>8, <1>9, <1>10, StatusStep

\* The source is rewritten with the trips that stay.
LEMMA UpdateSourceStatus ==
    ASSUME Alone, TypeInv, StatusInv, NEW t \in Threads, UpdateSource(t)
    PROVE  StatusInv'
<1> DEFINE new == [job[t] EXCEPT !.pc = "selectTarget", !.keep = <<>>]
           x == ListOf(job[t].keep)
<1>1. /\ job[t] \in Job /\ job[t].pc = "updateSource" /\ job[t].pc \in StatusSteps
      /\ Trip' = Trip /\ today' = today
      /\ job' = [job EXCEPT ![t] = new]
      /\ User' = [User EXCEPT ![Target(t)][Source(job[t].phase)] = x]
      /\ Target(t) \in Users
  BY TargetType DEF TypeInv, TypeOK, UpdateSource, StatusSteps
<1>2. /\ \A u \in Users : TextOf(User[u]["pending_trip"]).closed
      /\ job[t].start <= today
      /\ job[t].start = today => HeldSettled(job[t]) /\ RowSettled(job[t], User[Target(t)])
  BY <1>1 DEF StatusInv
<1>3. /\ x \in Text /\ TextOf(x) = x /\ x.closed /\ x.ids = job[t].keep
  BY <1>1, ListOfType, NullAssumption DEF TextOf, ListOf, Job
<1> HIDE DEF x
<1>4. Source(job[t].phase) \in Columns
  BY DEF Source, Columns
<1>5. \A u \in Users, c \in Columns :
          User'[u][c] = IF u = Target(t) /\ c = Source(job[t].phase) THEN x ELSE User[u][c]
  <2> DEFINE s == Source(job[t].phase)
  <2>1. User \in [Users -> [Columns -> Column]]
    BY DEF TypeInv, TypeOK
  <2>2. User' = [User EXCEPT ![Target(t)][s] = x] /\ Target(t) \in Users /\ s \in Columns
    BY <1>1, <1>4
  <2> HIDE DEF s
  <2>3. \A u \in Users, c \in Columns :
            User'[u][c] = IF u = Target(t) /\ c = s THEN x ELSE User[u][c]
    BY <2>1, <2>2
  <2> QED  BY <2>3 DEF s
<1>6. \A u \in Users : TextOf(User'[u]["pending_trip"]).closed
  BY <1>2, <1>3, <1>5 DEF Columns
<1>7. /\ new.pc = "selectTarget" /\ new.ids = job[t].ids /\ new.phase = job[t].phase
      /\ new.to = job[t].to /\ new.start = job[t].start
      /\ new.keep = <<>> /\ new.move = job[t].move
  BY <1>1 DEF Job
<1> HIDE DEF new
<1>8. job[t].start = today => HeldSettled(new)
  BY <1>1, <1>2, <1>7 DEF HeldSettled, ToCome, Begun, NotOver, ToSet
<1>9. IdsIn(x) = ToSet(job[t].keep)
  BY <1>3 DEF IdsIn
<1>10. job[t].start = today => RowSettled(new, User'[Target(t)])
  <2> SUFFICES ASSUME job[t].start = today PROVE RowSettled(new, User'[Target(t)])
    OBVIOUS
  <2>1. job[t].phase \in {1, 2, 3}
    BY <1>1 DEF Job, Phases
  <2>2. CASE job[t].phase = 1
    <3>1. User'[Target(t)]["pending_trip"] = x
      BY <1>1, <1>5, <2>2 DEF Source, Columns
    <3> QED  BY <1>2, <1>7, <1>9, <2>2, <3>1 DEF RowSettled, Rewritten, HeldSettled
  <2>3. CASE job[t].phase \in {2, 3}
    <3>1. /\ User'[Target(t)]["current_trip"] = x
          /\ User'[Target(t)]["pending_trip"] = User[Target(t)]["pending_trip"]
      BY <1>1, <1>5, <2>3 DEF Source, Columns
    <3>2. Begun(ToSet(job[t].keep)) /\ (job[t].phase = 3 => NotOver(ToSet(job[t].keep)))
      BY <1>2, <2>3 DEF HeldSettled, Begun
    <3>3. ToCome(IdsIn(User[Target(t)]["pending_trip"]))
      BY <1>2, <2>3 DEF RowSettled, Rewritten
    <3> QED  BY <1>7, <1>9, <2>3, <3>1, <3>2, <3>3 DEF RowSettled, Rewritten
  <2> QED  BY <2>1, <2>2, <2>3
<1> QED  BY <1>1, <1>2, <1>6, <1>7, <1>8, <1>10, StatusStep DEF Target

LEMMA SelectTargetStatus ==
    ASSUME Alone, TypeInv, StatusInv, NEW t \in Threads, SelectTarget(t)
    PROVE  StatusInv'
<1> DEFINE x == TextOf(User[Target(t)][Destination(job[t].phase)])
           new == [job[t] EXCEPT !.pc = "updateTarget", !.trips = x]
<1>1. /\ job[t] \in Job /\ job[t].pc = "selectTarget" /\ job[t].pc \in StatusSteps
      /\ User' = User /\ Trip' = Trip /\ today' = today
      /\ job' = [job EXCEPT ![t] = new] /\ Target(t) \in Users
  BY TargetType DEF TypeInv, TypeOK, SelectTarget, StatusSteps
<1>2. /\ \A u \in Users : TextOf(User[u]["pending_trip"]).closed
      /\ job[t].start <= today
      /\ job[t].start = today => HeldSettled(job[t]) /\ RowSettled(job[t], User[Target(t)])
  BY <1>1 DEF StatusInv
<1>3. job[t].phase = 2 =>
          x.closed /\ (job[t].start = today => ToCome(ToSet(x.ids)))
  BY <1>1, <1>2 DEF Destination, RowSettled, Rewritten, IdsIn
<1> HIDE DEF x
<1>4. /\ new.pc = "updateTarget" /\ new.ids = job[t].ids /\ new.phase = job[t].phase
      /\ new.to = job[t].to /\ new.start = job[t].start /\ new.trips = x
      /\ new.keep = job[t].keep /\ new.move = job[t].move
  BY <1>1 DEF Job
<1> HIDE DEF new
<1>5. job[t].start = today => HeldSettled(new) /\ RowSettled(new, User[Head(new.to)])
  BY <1>1, <1>2, <1>3, <1>4 DEF HeldSettled, RowSettled, Rewritten, Target
<1> QED  BY <1>1, <1>2, <1>3, <1>4, <1>5, StatusStep

\* The trips that moved join those of the destination.
LEMMA UpdateTargetStatus ==
    ASSUME Alone, TypeInv, StatusInv, NEW t \in Threads, UpdateTarget(t)
    PROVE  StatusInv'
<1> DEFINE x == AddIds(job[t].trips, job[t].move)
           c == Destination(job[t].phase)
<1>1. /\ job[t] \in Job /\ job[t].pc = "updateTarget" /\ job[t].pc \in StatusSteps
      /\ Trip' = Trip /\ today' = today
      /\ job' = [job EXCEPT ![t] = NextBlock(job[t])]
      /\ User' = [User EXCEPT ![Target(t)][c] = x]
      /\ Target(t) \in Users
  BY TargetType DEF TypeInv, TypeOK, UpdateTarget, StatusSteps
<1>2. /\ \A u \in Users : TextOf(User[u]["pending_trip"]).closed
      /\ job[t].phase = 2 => job[t].trips.closed
      /\ job[t].start = today => HeldSettled(job[t]) /\ RowSettled(job[t], User[Target(t)])
  BY <1>1 DEF StatusInv
<1>3. x \in Text /\ TextOf(x) = x
  BY <1>1, AddIdsType, NullAssumption DEF TextOf, Job
<1>4. job[t].phase = 2 =>
          x.closed /\ IdsIn(x) \subseteq ToSet(job[t].trips.ids) \union ToSet(job[t].move)
  BY <1>1, <1>2, <1>3, AddIdsToClosed DEF IdsIn, Job
<1> HIDE DEF x
<1>5. \A u \in Users, d \in Columns :
          User'[u][d] = IF u = Target(t) /\ d = c THEN x ELSE User[u][d]
  <2>1. c \in Columns
    BY DEF Destination, Columns
  <2>2. User \in [Users -> [Columns -> Column]]
    BY DEF TypeInv, TypeOK
  <2>3. User' = [User EXCEPT ![Target(t)][c] = x] /\ Target(t) \in Users
    BY <1>1
  <2> HIDE DEF c
  <2> QED  BY <2>1, <2>2, <2>3
<1>6. c = "pending_trip" <=> job[t].phase = 2
  BY DEF Destination
<1>7. \A u \in Users : TextOf(User'[u]["pending_trip"]).closed
  BY <1>2, <1>3, <1>4, <1>5, <1>6 DEF Columns
<1>8. ASSUME job[t].start = today
      PROVE  /\ job[t].phase \in {1, 2} => ToCome(IdsIn(User'[Target(t)]["pending_trip"]))
             /\ job[t].phase = 2 => Begun(IdsIn(User'[Target(t)]["current_trip"]))
  <2>1. CASE job[t].phase = 1
    <3>1. User'[Target(t)]["pending_trip"] = User[Target(t)]["pending_trip"]
      BY <1>1, <1>5, <1>6, <2>1 DEF Columns
    <3> QED  BY <1>1, <1>2, <1>8, <2>1, <3>1 DEF RowSettled, Rewritten
  <2>2. CASE job[t].phase = 2
    <3>1. /\ User'[Target(t)]["pending_trip"] = x
          /\ User'[Target(t)]["current_trip"] = User[Target(t)]["current_trip"]
      BY <1>1, <1>5, <1>6, <2>2 DEF Columns
    <3>2. ToCome(ToSet(job[t].trips.ids) \union ToSet(job[t].move))
      BY <1>1, <1>2, <1>8, <2>2 DEF HeldSettled, ToCome
    <3>3. Begun(IdsIn(User[Target(t)]["current_trip"]))
      BY <1>1, <1>2, <1>8, <2>2 DEF RowSettled, Rewritten
    <3> QED  BY <1>4, <2>2, <3>1, <3>2, <3>3 DEF ToCome
  <2> QED  BY <2>1, <2>2
<1> QED  BY <1>1, <1>7, <1>8, BlockEnds

LEMMA NextStatus ==
    ASSUME Alone, TypeInv, HistoryInv, StatusInv, [Next]_vars
    PROVE  StatusInv'
<1>1. CASE UNCHANGED vars
  BY <1>1 DEF vars, StatusInv, HeldSettled, RowSettled, Rewritten, ToCome, Begun, NotOver,
              TripExists, Target
<1>2. CASE Tick
  <2>1. User' = User /\ job' = job /\ today' = today + 1 /\ today \in Nat
    BY <1>2 DEF Tick, TypeInv, TypeOK
  <2>2. \A t \in Threads : job[t].start \in Nat
    BY DEF TypeInv, TypeOK, Job
  <2>3. \A t \in Threads : job'[t].pc \in StatusSteps =>
            job'[t].start <= today' /\ job'[t].start # today'
    BY <2>1, <2>2 DEF StatusInv
  <2> QED  BY <2>1, <2>3 DEF StatusInv
<1>3. ASSUME NEW t \in Threads, Arrive(t) \/ Step(t) \/ Fail(t)
      PROVE  StatusInv'
  BY <1>3, QuietStatus, SelectSourceStatus, SelectDatesStatus, ClassifyStatus,
     UpdateSourceStatus, SelectTargetStatus, UpdateTargetStatus DEF Step
<1> QED  BY <1>1, <1>2, <1>3 DEF Next

\* When the third block ends on the day the request arrived, all is settled.
LEMMA EndSettled ==
    ASSUME TypeInv, HistoryInv, HistoryInv', StatusInv, NEW t \in Threads,
           SelectSource(t) \/ UpdateTarget(t), NEW u \in Users, u = Target(t),
           job'[t].pc = "idle", job[t].start = today
    PROVE  Settled(u)'
<1>1. /\ job[t] \in Job /\ job[t].pc \in StatusSteps
      /\ Trip' = Trip /\ today' = today /\ u \in Users
  BY TargetType DEF TypeInv, TypeOK, SelectSource, UpdateTarget, StatusSteps
<1>2. job[t].phase = 3
  <2>1. job[t].phase # 3 => NextBlock(job[t]).pc = "selectSource"
    BY <1>1, NextBlockLocals DEF StatusSteps
  <2>2. job'[t] = NextBlock(job[t]) \/ job'[t].pc = "selectDates"
    BY <1>1 DEF SelectSource, UpdateTarget, TypeInv, TypeOK, Job
  <2> QED  BY <2>1, <2>2
<1>3. HeldSettled(job[t]) /\ RowSettled(job[t], User[u])
  BY <1>1 DEF StatusInv
<1>4. \A id \in IdsIn(User'[u]["history_trip"]) : Trip'[id].end < today'
  BY <1>1 DEF HistoryInv, HistoryPast, Past
<1>5. /\ User'[u]["pending_trip"] = User[u]["pending_trip"]
      /\ User'[u]["current_trip"] = User[u]["current_trip"]
  <2>1. CASE SelectSource(t)
    BY <2>1 DEF SelectSource
  <2>2. CASE UpdateTarget(t)
    <3> DEFINE x == AddIds(job[t].trips, job[t].move)
    <3>1. User' = [User EXCEPT ![Target(t)]["history_trip"] = x]
      BY <1>2, <2>2 DEF UpdateTarget, Destination
    <3> HIDE DEF x
    <3>2. /\ "pending_trip" \in Columns /\ "current_trip" \in Columns
          /\ "history_trip" \in Columns
      BY DEF Columns
    <3> QED  BY <1>1, <3>1, <3>2, ColumnWritten
  <2> QED  BY <2>1, <2>2
<1>6. ToCome(IdsIn(User[u]["pending_trip"])) /\ Begun(IdsIn(User[u]["current_trip"]))
  BY <1>2, <1>3 DEF RowSettled, Rewritten
<1>7. NotOver(IdsIn(User[u]["current_trip"]))
  <2>1. CASE SelectSource(t)
    <3>1. TextOf(User[u]["current_trip"]).ids = <<>>
      <4>1. NextBlock(job[t]).pc = "idle"
        BY <1>1, <1>2, NextBlockLocals DEF StatusSteps, Idle
      <4>2. TextOf(User[u]["current_trip"]).ids # <<>> => job'[t].pc = "selectDates"
        BY <1>1, <1>2, <2>1 DEF SelectSource, Source, TypeInv, TypeOK, Job
      <4> QED  BY <4>2
    <3> QED  BY <3>1 DEF NotOver, IdsIn, ToSet
  <2>2. CASE UpdateTarget(t)
    BY <1>2, <1>3, <2>2 DEF UpdateTarget, RowSettled, Rewritten
  <2> QED  BY <2>1, <2>2
<1> QED  BY <1>1, <1>4, <1>5, <1>6, <1>7 DEF Settled, ToCome, Begun, NotOver

\* StatusIsSettled: if requests come one after another, then whatever trips were
\* created, deleted or moved before, and whichever requests failed half way, an
\* UpdateTripStatus that ends on its day leaves every trip where its dates say.
THEOREM StatusIsSettled ==
    ASSUME Alone
    PROVE  Spec => StatusSettled
<1> DEFINE Ends == \A t \in Threads, u \in Users :
                       (/\ SelectSource(t) \/ UpdateTarget(t)
                        /\ u = Target(t)
                        /\ job'[t].pc = "idle"
                        /\ job[t].start = today) => Settled(u)'
<1>1. Init => StatusInv
  BY DEF Init, StatusInv, Idle, StatusSteps, Columns, TextOf, Empty
<1>2. TypeInv /\ HistoryInv /\ StatusInv /\ [Next]_vars => StatusInv'
  BY NextStatus
<1>3. TypeInv /\ HistoryInv /\ HistoryInv' /\ StatusInv => [Ends]_vars
  BY EndSettled
<1> QED  BY <1>1, <1>2, <1>3, InitType, NextType, InitHistory, NextHistory, PTL
         DEF Spec, StatusSettled

=============================================================================
