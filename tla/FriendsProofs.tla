--------------------------- MODULE FriendsProofs ---------------------------
(***************************************************************************)
(* Theorems about Friends, for any users, names, devices, threads and      *)
(* bounds.                                                                 *)
(*                                                                         *)
(* Type correctness holds whatever overlaps.  The other theorems are about *)
(* users who wait for an answer before they send the next request: then    *)
(* the list a thread has read is still the list it extends, which is what  *)
(* everything else rests on.  Loads of pages may overlap as they like, and *)
(* answers may arrive at whatever login; what goes astray by that does not *)
(* happen on devices that only one user logs in on, which is a theorem of  *)
(* its own.                                                                *)
(***************************************************************************)
EXTENDS Friends, DataLemmas

-----------------------------------------------------------------------------
(* Type correctness *)

Request == [Sender : Users, Receiver : Users]

JobOK(j) == /\ j \in Job
            /\ j.pc = "idle" => j.me = Nobody
            /\ j.pc # "idle" => j.me \in Users
            /\ j.pc \notin {"idle", "selectFriend"} => j.other \in Users

ServerType == /\ friend \in [Users -> Seq(Users)]
              /\ BagToSet(FriendRequest) \subseteq Request
              /\ job \in [Threads -> Job]
              /\ \A t \in Threads : JobOK(job[t])
              /\ requests \in Nat
              /\ failed \in BOOLEAN

PageType == /\ LoggedInUser \in [Devices -> Users \union {Nobody}]
            /\ controller \in [Devices -> 0..sent]
            /\ RequestSet \in [Devices -> Seq(Request)]
            /\ cells \in [Devices -> Seq(Request)]
            /\ loads \subseteq Load
            /\ sent \in 0..MaxLoads
            /\ astray \subseteq Users \X Users
            /\ \A d \in Devices : /\ LoggedInUser[d] = Nobody => controller[d] = 0
                                  /\ controller[d] = 0 => cells[d] = <<>>

TypeInv == ServerType /\ PageType

LEMMA TypeFollows == TypeInv => TypeOK
<1> SUFFICES ASSUME TypeInv PROVE TypeOK
  OBVIOUS
<1>1. ASSUME NEW t \in Threads
      PROVE  CASE job[t].pc = "idle" -> job[t].me = Nobody
               [] job[t].pc = "selectFriend" -> job[t].me \in Users
               [] OTHER -> job[t].me \in Users /\ job[t].other \in Users
  BY <1>1 DEF TypeInv, ServerType, JobOK
<1> QED  BY <1>1 DEF TypeInv, ServerType, PageType, Request, TypeOK

\* What a step of one thread does to its job.
LEMMA JobsOK ==
    ASSUME ServerType, NEW t \in Threads, NEW j, JobOK(j), job' = [job EXCEPT ![t] = j]
    PROVE  job' \in [Threads -> Job] /\ \A x \in Threads : JobOK(job'[x])
BY DEF ServerType, JobOK

LEMMA IdleOK == JobOK(Idle)
BY DEF JobOK, Idle, Job, Steps

LEMMA InitType == Init => TypeInv
<1> SUFFICES ASSUME Init PROVE TypeInv
  OBVIOUS
<1>1. job \in [Threads -> Job] /\ \A t \in Threads : JobOK(job[t])
  BY IdleOK DEF Init, JobOK
<1>2. friend \in [Users -> Seq(Users)]
  BY DEF Init
<1>3. BagToSet(FriendRequest) \subseteq Request
  BY InEmptyBag DEF Init
<1>4. ServerType
  BY <1>1, <1>2, <1>3 DEF Init, ServerType
<1>5. PageType
  BY FriendBounds DEF Init, PageType
<1> QED  BY <1>4, <1>5 DEF TypeInv

LEMMA AcceptType ==
    ASSUME TypeInv, NEW t \in Threads, NEW u \in Users, NEW other \in Names,
           NEW first \in {"selectFriend", "deleteRequest"}, Accept(t, u, other, first),
           first = "deleteRequest" => other \in Users,
           requests' \in Nat
    PROVE  ServerType'
<1> DEFINE j == [Idle EXCEPT !.pc = first, !.me = u, !.other = other]
<1>1. j \in Job /\ j.pc = first /\ j.me = u /\ j.other = other
  <2>1. Idle \in Job
    BY IdleOK DEF JobOK
  <2>2. first \in Steps
    BY DEF Steps
  <2> QED  BY <2>1, <2>2 DEF Job
<1>2. job' = [job EXCEPT ![t] = j]
  BY DEF Accept
<1> HIDE DEF j
<1>3. JobOK(j)
  BY <1>1 DEF JobOK
<1> QED  BY <1>2, <1>3, JobsOK DEF Accept, TypeInv, ServerType

\* The list a thread extends, and what it extends it with.
LEMMA AppendType ==
    ASSUME ServerType, NEW t \in Threads, job[t].pc \in {"updateSender", "updateReceiver"}
    PROVE  /\ job[t].me \in Users /\ job[t].other \in Users
           /\ job[t].old_friend \in Seq(Users)
           /\ Append(job[t].old_friend, job[t].other) \in Seq(Users)
BY DEF ServerType, JobOK, Job

LEMMA StepType ==
    ASSUME ServerType, NEW t \in Threads, Step(t)
    PROVE  ServerType' /\ UNCHANGED pages
<1>0. JobOK(job[t])
  BY DEF ServerType
<1>1. CASE SelectFriend(t)
  <2>1. JobOK(IF job[t].other \in Users THEN [job[t] EXCEPT !.pc = "selectSender"] ELSE Idle)
    BY <1>0, <1>1, IdleOK DEF SelectFriend, JobOK, Job, Steps
  <2> QED  BY <1>1, <2>1, JobsOK DEF SelectFriend, ServerType
<1>2. CASE SelectSender(t)
  <2> DEFINE list == friend[job[t].me]
             read == [job[t] EXCEPT !.pc = "updateSender", !.old_friend = list]
  <2>1. list \in Seq(Users)
    BY <1>0, <1>2 DEF SelectSender, JobOK, ServerType
  <2>2. JobOK(read)
    BY <1>0, <1>2, <2>1 DEF SelectSender, JobOK, Job, Steps
  <2>3. PICK j \in {read, Idle} : job' = [job EXCEPT ![t] = j]
    BY <1>2 DEF SelectSender
  <2> HIDE DEF read
  <2> QED  BY <1>2, <2>2, <2>3, IdleOK, JobsOK DEF SelectSender, ServerType
<1>3. CASE UpdateSender(t)
  <2>1. JobOK([job[t] EXCEPT !.pc = "selectRequest"])
    BY <1>0, <1>3 DEF UpdateSender, JobOK, Job, Steps
  <2>2. friend' \in [Users -> Seq(Users)]
    BY <1>3, AppendType DEF UpdateSender, ServerType
  <2> QED  BY <1>3, <2>1, <2>2, JobsOK DEF UpdateSender, ServerType
<1>4. CASE SelectRequest(t)
  <2>1. JobOK([job[t] EXCEPT !.pc = "insertRequest"])
    BY <1>0, <1>4 DEF SelectRequest, JobOK, Job, Steps
  <2>2. PICK j \in {[job[t] EXCEPT !.pc = "insertRequest"], Idle} :
            job' = [job EXCEPT ![t] = j]
    BY <1>4 DEF SelectRequest
  <2> QED  BY <1>4, <2>1, <2>2, IdleOK, JobsOK DEF SelectRequest, ServerType
<1>5. CASE InsertRequest(t)
  <2>1. Row(job[t].me, job[t].other) \in Request
    BY <1>0, <1>5 DEF InsertRequest, JobOK, Row, Request
  <2>2. BagToSet(FriendRequest') \subseteq Request
    BY <1>5, <2>1, InBagAdd DEF InsertRequest, ServerType
  <2> QED  BY <1>5, <2>2, IdleOK, JobsOK DEF InsertRequest, ServerType
<1>6. CASE DeleteRequest(t)
  <2>1. JobOK([job[t] EXCEPT !.pc = "selectReceiver"])
    BY <1>0, <1>6 DEF DeleteRequest, JobOK, Job, Steps
  <2>2. BagToSet(FriendRequest') \subseteq BagToSet(FriendRequest)
    BY <1>6 DEF DeleteRequest, Without, BagToSet
  <2> QED  BY <1>6, <2>1, <2>2, JobsOK DEF DeleteRequest, ServerType
<1>7. CASE SelectReceiver(t)
  <2>1. friend[job[t].me] \in Seq(Users)
    BY <1>0, <1>7 DEF SelectReceiver, JobOK, ServerType
  <2> DEFINE j == [job[t] EXCEPT !.pc = "updateReceiver", !.old_friend = friend[job[t].me]]
  <2>2. JobOK(j)
    BY <1>0, <1>7, <2>1 DEF SelectReceiver, JobOK, Job, Steps
  <2>3. job' = [job EXCEPT ![t] = j]
    BY <1>7 DEF SelectReceiver
  <2> HIDE DEF j
  <2> QED  BY <1>7, <2>2, <2>3, JobsOK DEF SelectReceiver, ServerType
<1>8. CASE UpdateReceiver(t)
  <2>1. friend' \in [Users -> Seq(Users)]
    BY <1>8, AppendType DEF UpdateReceiver, ServerType
  <2> QED  BY <1>8, <2>1, IdleOK, JobsOK DEF UpdateReceiver, ServerType
<1> QED  BY <1>1, <1>2, <1>3, <1>4, <1>5, <1>6, <1>7, <1>8 DEF Step

LEMMA FailType ==
    ASSUME ServerType, NEW t \in Threads, Fail(t)
    PROVE  ServerType' /\ UNCHANGED pages
BY IdleOK, JobsOK DEF Fail, ServerType

-----------------------------------------------------------------------------
(* The pages.  Rows come from answers only, and answers from the table. *)

\* What an answer says was stored.
LEMMA AnswerRows ==
    ASSUME ServerType, NEW u \in Users, NEW rows \in Answers(u)
    PROVE  /\ rows \in Seq(Request) /\ ToSet(rows) \subseteq BagToSet(FriendRequest)
           /\ \A row \in ToSet(rows) : row.Receiver = u
<1> DEFINE stored == {row \in BagToSet(FriendRequest) : row.Receiver = u}
<1>1. rows \in SeqOf(stored, MaxRequests)
  BY DEF Answers
<1>2. PICK n \in 0..MaxRequests : rows \in [1..n -> stored]
  BY <1>1 DEF SeqOf
<1>3. n \in Nat
  BY FriendBounds
<1>4. /\ stored \subseteq Request /\ stored \subseteq BagToSet(FriendRequest)
      /\ \A row \in stored : row.Receiver = u
  BY DEF ServerType
<1> HIDE DEF stored
<1>5. rows \in [1..n -> Request] /\ \A i \in DOMAIN rows : rows[i] \in stored
  BY <1>2, <1>4
<1>6. rows \in Seq(Request)
  BY <1>3, <1>5
<1> QED  BY <1>4, <1>5, <1>6 DEF ToSet

\* What is on its way, in the models and on the pages, one by one.
LEMMA InRows ==
    ASSUME NEW row
    PROVE  row \in Rows <=> \/ \E load \in loads : row \in ToSet(load.rows)
                            \/ \E d \in Devices : row \in ToSet(RequestSet[d])
                            \/ \E d \in Devices : row \in ToSet(cells[d])
BY DEF Rows

\* What nobody sends, and what is drawn for whom.
LEMMA CellUser ==
    ASSUME PageType, NEW d \in Devices, NEW i \in DOMAIN cells[d]
    PROVE  /\ LoggedInUser[d] \in Users /\ controller[d] # 0
           /\ cells[d][i] \in Request /\ cells[d][i] \in Rows
<1>1. cells[d] \in Seq(Request) /\ cells[d] # <<>>
  BY DEF PageType
<1>2. LoggedInUser[d] \in Users /\ controller[d] # 0
  BY <1>1 DEF PageType
<1>3. cells[d][i] \in ToSet(cells[d]) /\ cells[d][i] \in Request
  BY <1>1, ElementOfSeq, LenProperties DEF ToSet
<1> QED  BY <1>2, <1>3, InRows

\* The rows that a device has.
DeviceRows(d) == ToSet(RequestSet[d]) \union ToSet(cells[d])

LEMMA RowsAre ==
    /\ \A load \in loads : ToSet(load.rows) \subseteq Rows
    /\ \A d \in Devices : DeviceRows(d) \subseteq Rows
BY DEF Rows, DeviceRows

LEMMA RowsIn ==
    ASSUME NEW S,
           \A load \in loads' : ToSet(load.rows) \subseteq S,
           \A d \in Devices : DeviceRows(d)' \subseteq S
    PROVE  Rows' \subseteq S
BY DEF Rows, DeviceRows

LEMMA NoRows == ToSet(<<>>) = {} /\ \A S : <<>> \in Seq(S)
BY DEF ToSet

\* A step that gives no device a new row, and at most sends a load.
FewerRows ==
    /\ \A d \in Devices : DeviceRows(d)' \subseteq DeviceRows(d)
    /\ \A load \in loads' : \/ load \in loads
                            \/ /\ load.rows = <<>>
                               /\ load.device \in Devices
                               /\ load.user \in Users
                               /\ load.user = LoggedInUser[load.device]

LEMMA RowsFewer == FewerRows => Rows' \subseteq Rows
BY NoRows, RowsAre, RowsIn DEF FewerRows

LEMMA LoginType ==
    ASSUME PageType, NEW d \in Devices, NEW u \in Users, Login(d, u)
    PROVE  PageType' /\ FewerRows
BY NamesAssumption DEF PageType, Login, FewerRows, DeviceRows

LEMMA LogoutType ==
    ASSUME PageType, NEW d \in Devices, Logout(d)
    PROVE  PageType' /\ FewerRows
<1>1. PageType'
  BY NoRows DEF PageType, Logout
<1>2. \A e \in Devices : ToSet(cells'[e]) \subseteq ToSet(cells[e])
  BY NoRows DEF PageType, Logout
<1> QED  BY <1>1, <1>2 DEF Logout, FewerRows, DeviceRows

LEMMA EndType ==
    ASSUME PageType, NEW d \in Devices, End(d), astray' \subseteq Users \X Users
    PROVE  PageType' /\ FewerRows
<1>1. PageType'
  BY NoRows DEF PageType, End
<1>2. \A e \in Devices : /\ ToSet(cells'[e]) \subseteq ToSet(cells[e])
                         /\ ToSet(RequestSet'[e]) \subseteq ToSet(RequestSet[e])
  BY NoRows DEF PageType, End
<1>3. loads' \subseteq loads
  BY DEF End
<1> QED  BY <1>1, <1>2, <1>3 DEF FewerRows, DeviceRows

\* A load that is sent has no rows yet.
LEMMA GetAllRequestType ==
    ASSUME PageType, NEW d \in Devices, NEW c \in 1..(sent + 1), GetAllRequest(d, c)
    PROVE  /\ loads' \subseteq Load /\ sent' \in 0..MaxLoads /\ sent' = sent + 1
           /\ RequestSet' \in [Devices -> Seq(Request)]
           /\ \A e \in Devices : ToSet(RequestSet'[e]) \subseteq ToSet(RequestSet[e])
           /\ \A load \in loads' : \/ load \in loads
                                    \/ /\ load.rows = <<>>
                                       /\ load.device \in Devices
                                       /\ load.user \in Users
                                       /\ load.user = LoggedInUser[load.device]
<1>1. sent' = sent + 1 /\ sent' \in 1..MaxLoads /\ c \in 1..MaxLoads
  BY FriendBounds DEF PageType, GetAllRequest
<1> DEFINE new == [n |-> sent', device |-> d, user |-> LoggedInUser[d],
                   controller |-> c, answered |-> FALSE, rows |-> <<>>]
<1>2. LoggedInUser[d] \in Users
  BY DEF PageType, GetAllRequest
<1>3. /\ new \in Load /\ new.rows = <<>>
      /\ new.device = d /\ new.user = LoggedInUser[d]
  BY <1>1, <1>2, NoRows DEF Load
<1>4. loads' = loads \union {new}
  BY DEF GetAllRequest
<1>5. RequestSet' = [RequestSet EXCEPT ![d] = <<>>]
  BY DEF GetAllRequest
<1> HIDE DEF new
<1>6. \A e \in Devices : ToSet(RequestSet'[e]) \subseteq ToSet(RequestSet[e])
  BY <1>5, NoRows DEF PageType
<1> QED  BY <1>1, <1>2, <1>3, <1>4, <1>5, <1>6, NoRows DEF PageType

LEMMA OpenRequestsType ==
    ASSUME PageType, NEW d \in Devices, OpenRequests(d)
    PROVE  PageType' /\ FewerRows
<1>1. sent \in Nat /\ sent + 1 \in 1..(sent + 1)
  BY FriendBounds DEF PageType
<1>2. /\ loads' \subseteq Load /\ sent' \in 0..MaxLoads /\ sent' = sent + 1
      /\ RequestSet' \in [Devices -> Seq(Request)]
      /\ \A e \in Devices : ToSet(RequestSet'[e]) \subseteq ToSet(RequestSet[e])
      /\ \A load \in loads' : \/ load \in loads
                               \/ /\ load.rows = <<>>
                                  /\ load.device \in Devices
                                  /\ load.user \in Users
                                  /\ load.user = LoggedInUser[load.device]
  BY <1>1, GetAllRequestType DEF OpenRequests
<1>3. LoggedInUser[d] # Nobody
  BY DEF OpenRequests, GetAllRequest
<1>4. controller' \in [Devices -> 0..sent'] /\ controller'[d] # 0
  BY <1>1, <1>2 DEF OpenRequests, PageType
<1>5. /\ cells' \in [Devices -> Seq(Request)]
      /\ \A e \in Devices : ToSet(cells'[e]) \subseteq ToSet(cells[e])
  BY NoRows DEF OpenRequests, PageType
<1>6. PageType'
  BY <1>2, <1>3, <1>4, <1>5 DEF OpenRequests, PageType
<1> QED  BY <1>2, <1>5, <1>6 DEF FewerRows, DeviceRows

LEMMA ReappearType ==
    ASSUME PageType, NEW d \in Devices, Reappear(d)
    PROVE  PageType' /\ FewerRows
<1>1. sent \in Nat /\ controller[d] \in 1..(sent + 1)
  BY FriendBounds DEF PageType, Reappear
<1>2. /\ loads' \subseteq Load /\ sent' \in 0..MaxLoads /\ sent' = sent + 1
      /\ RequestSet' \in [Devices -> Seq(Request)]
      /\ \A e \in Devices : ToSet(RequestSet'[e]) \subseteq ToSet(RequestSet[e])
      /\ \A load \in loads' : \/ load \in loads
                               \/ /\ load.rows = <<>>
                                  /\ load.device \in Devices
                                  /\ load.user \in Users
                                  /\ load.user = LoggedInUser[load.device]
  BY <1>1, GetAllRequestType DEF Reappear
<1>3. controller' \in [Devices -> 0..sent']
  BY <1>1, <1>2 DEF Reappear, PageType
<1>4. PageType'
  BY <1>2, <1>3 DEF Reappear, PageType
<1> QED  BY <1>2, <1>4 DEF Reappear, FewerRows, DeviceRows

LEMMA ScrollType ==
    ASSUME PageType, NEW d \in Devices, NEW i \in DOMAIN cells[d], Scroll(d, i)
    PROVE  PageType' /\ FewerRows
<1> DEFINE new == [cells[d] EXCEPT ![i] = RequestSet[d][i]]
<1>1. cells' = [cells EXCEPT ![d] = new]
  BY DEF Scroll
<1>2. cells[d] \in Seq(Request) /\ cells[d] # <<>> /\ RequestSet[d] \in Seq(Request)
  BY DEF PageType
<1>3. RequestSet[d][i] \in Request /\ RequestSet[d][i] \in ToSet(RequestSet[d])
  BY <1>2, ElementOfSeq, LenProperties DEF Scroll, ToSet
<1>4. new \in Seq(Request) /\ DOMAIN new = DOMAIN cells[d]
  BY <1>2, <1>3, ExceptSeq
<1>5. ToSet(new) \subseteq ToSet(cells[d]) \union ToSet(RequestSet[d])
  BY <1>3, <1>4 DEF ToSet
<1>6. controller[d] # 0
  BY <1>2 DEF PageType
<1> HIDE DEF new
<1>7. PageType'
  BY <1>1, <1>4, <1>6 DEF PageType, Scroll
<1>8. \A e \in Devices : ToSet(cells'[e]) \subseteq DeviceRows(e)
  BY <1>1, <1>5 DEF PageType, DeviceRows
<1> QED  BY <1>7, <1>8 DEF Scroll, FewerRows, DeviceRows

\* A tap on a row, which leaves the model and the page.
LEMMA TapType ==
    ASSUME PageType, NEW d \in Devices, NEW i \in DOMAIN cells[d], ButtonTapped(d, i),
           astray' \subseteq Users \X Users
    PROVE  PageType' /\ FewerRows
<1>1. CASE End(d)
  BY <1>1, EndType
<1>2. CASE ~End(d)
  <2>1. cells[d] \in Seq(Request) /\ RequestSet[d] \in Seq(Request) /\ controller[d] # 0
    BY DEF PageType
  <2>2. /\ Len(RequestSet[d]) = Len(cells[d])
        /\ RequestSet' = [RequestSet EXCEPT ![d] = RemoveAt(RequestSet[d], i)]
        /\ cells' = [cells EXCEPT ![d] = RemoveAt(cells[d], i)]
        /\ UNCHANGED <<LoggedInUser, controller, loads, sent>>
    BY <1>2 DEF ButtonTapped
  <2>3. i \in DOMAIN RequestSet[d]
    BY <2>1, <2>2, LenProperties
  <2>4. /\ RemoveAt(RequestSet[d], i) \in Seq(Request) /\ RemoveAt(cells[d], i) \in Seq(Request)
        /\ ToSet(RemoveAt(RequestSet[d], i)) \subseteq ToSet(RequestSet[d])
        /\ ToSet(RemoveAt(cells[d], i)) \subseteq ToSet(cells[d])
    BY <2>1, <2>3, RemoveAtElements, RemoveAtSet
  <2>5. PageType'
    BY <2>1, <2>2, <2>4 DEF PageType
  <2>6. \A e \in Devices : /\ ToSet(cells'[e]) \subseteq ToSet(cells[e])
                           /\ ToSet(RequestSet'[e]) \subseteq ToSet(RequestSet[e])
    BY <2>2, <2>4 DEF PageType
  <2> QED  BY <2>2, <2>5, <2>6 DEF FewerRows, DeviceRows
<1> QED  BY <1>1, <1>2

LEMMA MoveType ==
    ASSUME PageType, NEW d \in Devices, Move(d)
    PROVE  PageType' /\ FewerRows /\ UNCHANGED <<servers, astray>>
<1>1. CASE \E u \in Users : Login(d, u)
  BY <1>1, LoginType DEF Login
<1>2. CASE Logout(d)
  BY <1>2, LogoutType DEF Logout
<1>3. CASE OpenRequests(d)
  BY <1>3, OpenRequestsType DEF OpenRequests
<1>4. CASE Reappear(d)
  BY <1>4, ReappearType DEF Reappear
<1>5. ASSUME NEW i \in DOMAIN cells[d], Scroll(d, i)
      PROVE  PageType' /\ FewerRows /\ UNCHANGED <<servers, astray>>
  BY <1>5, ScrollType DEF Scroll
<1>6. ASSUME NEW i \in DOMAIN cells[d], Refuse(d, i)
      PROVE  PageType' /\ FewerRows /\ UNCHANGED <<servers, astray>>
  BY <1>6, TapType DEF Refuse, PageType
<1>7. CASE Restart(d)
  BY <1>7, EndType DEF Restart, PageType
<1> QED  BY <1>1, <1>2, <1>3, <1>4, <1>5, <1>6, <1>7 DEF Move

\* A load that is answered has the rows of an answer.
LEMMA PullType ==
    ASSUME TypeInv, NEW load \in loads, PullFriendRequest(load)
    PROVE  /\ PageType' /\ Rows' \subseteq Rows \union BagToSet(FriendRequest)
           /\ UNCHANGED <<servers, LoggedInUser, RequestSet, cells, astray>>
           /\ \A x \in loads' \ loads : /\ x.device = load.device /\ x.user = load.user
                                      /\ \A row \in ToSet(x.rows) : row.Receiver = x.user
<1>1. load \in Load
  BY DEF TypeInv, PageType
<1>2. PICK rows \in Answers(load.user) :
          loads' = (loads \ {load}) \union {[load EXCEPT !.answered = TRUE, !.rows = rows]}
  BY DEF PullFriendRequest
<1>3. /\ rows \in Seq(Request) /\ ToSet(rows) \subseteq BagToSet(FriendRequest)
      /\ \A row \in ToSet(rows) : row.Receiver = load.user
  BY <1>1, AnswerRows DEF Load, TypeInv
<1> DEFINE new == [load EXCEPT !.answered = TRUE, !.rows = rows]
<1>4. /\ new \in Load /\ new.rows = rows
      /\ new.device = load.device /\ new.user = load.user
  BY <1>1, <1>3 DEF Load, Request
<1> HIDE DEF new
<1>5. loads' = (loads \ {load}) \union {new}
  BY <1>2 DEF new
<1>6. PageType'
  BY <1>4, <1>5 DEF PullFriendRequest, TypeInv, PageType
<1>7. \A x \in loads' : ToSet(x.rows) \subseteq Rows \union BagToSet(FriendRequest)
  BY <1>3, <1>4, <1>5, RowsAre
<1>8. Rows' \subseteq Rows \union BagToSet(FriendRequest)
  BY <1>7, RowsAre, RowsIn DEF PullFriendRequest, DeviceRows
<1> QED  BY <1>3, <1>4, <1>5, <1>6, <1>8 DEF PullFriendRequest

\* An answer that arrives is appended, and drawn on the page it was asked for.
LEMMA ArriveType ==
    ASSUME PageType, NEW load \in loads, Arrive(load)
    PROVE  /\ PageType' /\ Rows' \subseteq Rows /\ loads' \subseteq loads
           /\ UNCHANGED <<servers, LoggedInUser, astray>>
           /\ \A e \in Devices :
                  DeviceRows(e)' \subseteq
                      DeviceRows(e) \union {row \in ToSet(load.rows) : e = load.device}
<1> DEFINE d == load.device
           list == RequestSet[d] \o load.rows
<1>1. /\ d \in Devices /\ load.rows \in Seq(Request) /\ RequestSet[d] \in Seq(Request)
      /\ load.controller \in 1..MaxLoads
  BY DEF PageType, Load, Request
<1>2. list \in Seq(Request) /\ ToSet(list) \subseteq ToSet(RequestSet[d]) \union ToSet(load.rows)
  BY <1>1, ConcatSet
<1>3. /\ loads' = loads \ {load}
      /\ RequestSet' = [RequestSet EXCEPT ![d] = list]
      /\ UNCHANGED <<servers, LoggedInUser, controller, sent, astray>>
  BY DEF Arrive
<1>4. \/ cells' = [cells EXCEPT ![d] = list] /\ controller[d] # 0
      \/ cells' = cells
  <2>1. RequestSet'[d] = list
    BY <1>1, <1>3 DEF PageType
  <2>2. load.controller # 0
    BY <1>1, FriendBounds
  <2>3. cells' = IF load.controller = controller[d] THEN [cells EXCEPT ![d] = RequestSet'[d]]
                                                    ELSE cells
    BY DEF Arrive
  <2> HIDE DEF list, d
  <2> QED  BY <2>1, <2>2, <2>3
<1> HIDE DEF list
<1>5. PageType'
  <2> HIDE DEF d
  <2> QED  BY <1>1, <1>2, <1>3, <1>4 DEF PageType
<1>6. ASSUME NEW e \in Devices
      PROVE  DeviceRows(e)' \subseteq
                 DeviceRows(e) \union {row \in ToSet(load.rows) : e = load.device}
  <2>1. CASE e = d
    <3>1. RequestSet'[e] = list /\ cells'[e] \in {list, cells[e]}
      BY <1>1, <1>3, <1>4, <2>1 DEF PageType
    <3> QED  BY <1>2, <2>1, <3>1 DEF DeviceRows
  <2>2. CASE e # d
    <3>1. RequestSet'[e] = RequestSet[e] /\ cells'[e] = cells[e]
      BY <1>1, <1>3, <1>4, <2>2 DEF PageType
    <3> QED  BY <3>1 DEF DeviceRows
  <2> QED  BY <2>1, <2>2
<1>7. Rows' \subseteq Rows
  BY <1>3, <1>6, RowsAre, RowsIn
<1> QED  BY <1>3, <1>5, <1>6, <1>7

\* What a device sends.
LEMMA ClickType ==
    ASSUME TypeInv, NEW t \in Threads, NEW d \in Devices, NEW name \in Names,
           AddFriendClick(t, d, name)
    PROVE  LoggedInUser[d] \in Users /\ ServerType' /\ UNCHANGED pages
<1>1. LoggedInUser[d] \in Users
  BY DEF AddFriendClick, TypeInv, PageType
<1>2. requests' \in Nat /\ Accept(t, LoggedInUser[d], name, "selectFriend")
  BY DEF AddFriendClick, TypeInv, ServerType
<1> QED  BY <1>1, <1>2, AcceptType DEF AddFriendClick

LEMMA AcceptRequestType ==
    ASSUME TypeInv, NEW t \in Threads, NEW d \in Devices, NEW i \in DOMAIN cells[d],
           AcceptRequest(t, d, i)
    PROVE  TypeInv' /\ FewerRows
<1>1. /\ LoggedInUser[d] \in Users /\ cells[d][i] \in Request
      /\ cells[d][i].Sender \in Users /\ cells[d][i].Sender \in Names
  BY CellUser, NamesAssumption DEF TypeInv, Request
<1>2. requests' \in Nat /\ Accept(t, LoggedInUser[d], cells[d][i].Sender, "deleteRequest")
  BY DEF AcceptRequest, TypeInv, ServerType
<1>3. ServerType'
  BY <1>1, <1>2, AcceptType
<1>4. astray' \subseteq Users \X Users
  BY <1>1 DEF AcceptRequest, TypeInv, PageType
<1>5. PageType' /\ FewerRows
  BY <1>4, TapType DEF AcceptRequest, TypeInv
<1> QED  BY <1>3, <1>5 DEF TypeInv

LEMMA NextType == TypeInv /\ [Next]_vars => TypeInv'
<1> SUFFICES ASSUME TypeInv, [Next]_vars PROVE TypeInv'
  OBVIOUS
<1>1. ASSUME NEW t \in Threads, Step(t) \/ Fail(t)
      PROVE  TypeInv'
  BY <1>1, StepType, FailType DEF TypeInv, PageType, pages, page
<1>2. ASSUME NEW t \in Threads, NEW d \in Devices, NEW name \in Names, AddFriendClick(t, d, name)
      PROVE  TypeInv'
  BY <1>2, ClickType DEF TypeInv, PageType, pages, page
<1>3. ASSUME NEW t \in Threads, NEW d \in Devices, NEW i \in DOMAIN cells[d],
             AcceptRequest(t, d, i)
      PROVE  TypeInv'
  BY <1>3, AcceptRequestType
<1>4. ASSUME NEW d \in Devices, Move(d)
      PROVE  TypeInv'
  BY <1>4, MoveType DEF TypeInv, ServerType, servers
<1>5. ASSUME NEW load \in loads, PullFriendRequest(load) \/ Arrive(load)
      PROVE  TypeInv'
  BY <1>5, PullType, ArriveType DEF TypeInv, ServerType, servers
<1>6. CASE UNCHANGED vars
  BY <1>6 DEF vars, servers, pages, page, TypeInv, ServerType, PageType
<1> QED  BY <1>1, <1>2, <1>3, <1>4, <1>5, <1>6 DEF Next, Send

\* TypeCorrect: whatever overlaps or fails, the tables, the pages and the locals of
\* the threads keep their types, and rows are drawn only on pages of somebody.
THEOREM TypeCorrect == Spec => []TypeOK
BY InitType, NextType, TypeFollows, PTL DEF Spec
-----------------------------------------------------------------------------
(* The inductive invariant, of users who send one request at a time *)

\* No two threads work for the same user.
Apart == \A t, x \in Threads : job[t].pc # "idle" /\ job[t].me = job[x].me => t = x

\* The list a thread is about to extend is still the list of its user.
ReadFresh ==
    \A t \in Threads :
        job[t].pc \in {"updateSender", "updateReceiver"} => job[t].old_friend = friend[job[t].me]

\* Past its UPDATE, add_friend's caller lists the other; confirm answers a user
\* who lists its caller, or one whose request strayed.
StepsListed ==
    \A t \in Threads :
        /\ job[t].pc \in {"selectRequest", "insertRequest"} => Lists(job[t].me, job[t].other)
        /\ job[t].pc \in {"deleteRequest", "selectReceiver", "updateReceiver"} =>
               Lists(job[t].other, job[t].me) \/ <<job[t].other, job[t].me>> \in astray

\* The request about to be stored is not stored.
Unsent ==
    \A t \in Threads : job[t].pc = "insertRequest" => ~Pending(job[t].me, job[t].other)

\* A job that is about to store the request of s to r, or to make r list s.
Settles(j, s, r) ==
    \/ j.pc \in {"selectRequest", "insertRequest"} /\ j.me = s /\ j.other = r
    \/ j.pc \in {"selectReceiver", "updateReceiver"} /\ j.me = r /\ j.other = s

\* OneSidedPending with the threads that are at work.
Settled ==
    ~failed => \A s, r \in Users :
                   Lists(s, r) => \/ Lists(r, s)
                                  \/ Pending(s, r)
                                  \/ <<r, s>> \in astray
                                  \/ \E t \in Threads : Settles(job[t], s, r)

Inv == /\ TypeInv
       /\ Apart
       /\ ReadFresh
       /\ RequestsListed
       /\ StepsListed
       /\ Unsent
       /\ RequestedOnce
       /\ Settled

LEMMA InitInv == Init => Inv
<1> SUFFICES ASSUME Init PROVE Inv
  OBVIOUS
<1>1. TypeInv
  BY InitType
<1>2. \A t \in Threads : job[t].pc = "idle"
  BY DEF Init, Idle
<1>3. \A s, r \in Users : ~Lists(s, r) /\ ~Pending(s, r)
  BY InEmptyBag DEF Init, Lists, Pending, ToSet
<1>5. Rows = {} /\ BagToSet(FriendRequest) = {}
  BY InEmptyBag, NoRows DEF Init, Rows
<1>4. RequestedOnce
  BY InEmptyBag DEF Init, RequestedOnce
<1> QED  BY <1>1, <1>2, <1>3, <1>4, <1>5
         DEF Inv, Apart, ReadFresh, RequestsListed, StepsListed, Unsent, Settled

\* Appending to a list adds one element.
LEMMA AppendSet ==
    ASSUME NEW S, NEW list \in Seq(S), NEW x \in S
    PROVE  ToSet(Append(list, x)) = ToSet(list) \union {x}
<1> DEFINE new == Append(list, x)
<1>1. /\ Len(new) = Len(list) + 1 /\ new[Len(list) + 1] = x
      /\ \A i \in 1..Len(list) : new[i] = list[i]
  BY AppendProperties
<1>2. /\ DOMAIN list = 1..Len(list) /\ Len(list) \in Nat
      /\ DOMAIN new = 1..(Len(list) + 1)
  BY <1>1, LenProperties, AppendProperties
<1> HIDE DEF new
<1>3. ToSet(new) \subseteq ToSet(list) \union {x}
  BY <1>1, <1>2 DEF ToSet
<1>4. \A y \in ToSet(list) : y \in ToSet(new)
  BY <1>1, <1>2 DEF ToSet
<1>5. x \in ToSet(new)
  BY <1>1, <1>2 DEF ToSet
<1> QED  BY <1>3, <1>4, <1>5 DEF new

\* What it does to who lists whom.
LEMMA AppendLists ==
    ASSUME ServerType, NEW u \in Users, NEW v \in Users,
           friend' = [friend EXCEPT ![u] = Append(friend[u], v)]
    PROVE  \A s, r \in Users : Lists(s, r)' <=> Lists(s, r) \/ (s = u /\ r = v)
<1>1. ToSet(Append(friend[u], v)) = ToSet(friend[u]) \union {v}
  BY AppendSet DEF ServerType
<1> QED  BY <1>1 DEF ServerType, Lists

\* A thread that goes on, stops or starts alone stays apart from the others.
LEMMA ApartKept ==
    ASSUME TypeInv, TypeInv', Apart, NEW t \in Threads, NEW j, job' = [job EXCEPT ![t] = j],
           j.pc # "idle" =>
               \/ job[t].pc # "idle" /\ j.me = job[t].me
               \/ \A x \in Threads : job[x].me # j.me
    PROVE  Apart'
<1>1. \A x \in Threads : job'[x] = IF x = t THEN j ELSE job[x]
  BY DEF TypeInv, ServerType
<1>2. \A x \in Threads : JobOK(job[x]) /\ JobOK(job'[x])
  BY DEF TypeInv, ServerType
<1>3. \A x \in Threads : job[x].pc # "idle" => job[x].me # Nobody
  BY <1>2, NamesAssumption DEF JobOK
<1> QED  BY <1>1, <1>2, <1>3, NamesAssumption DEF Apart, JobOK

\* A step that only changes the job of one thread.
LEMMA JobOnly ==
    ASSUME Inv, TypeInv', NEW t \in Threads, NEW j, job' = [job EXCEPT ![t] = j],
           UNCHANGED <<friend, FriendRequest>>,
           Rows' \subseteq Rows, astray \subseteq astray',
           j.pc # "idle" =>
               \/ job[t].pc # "idle" /\ j.me = job[t].me
               \/ \A x \in Threads : job[x].me # j.me,
           j.pc \in {"updateSender", "updateReceiver"} => j.old_friend = friend[j.me],
           j.pc \in {"selectRequest", "insertRequest"} => Lists(j.me, j.other),
           j.pc \in {"deleteRequest", "selectReceiver", "updateReceiver"} =>
               Lists(j.other, j.me) \/ <<j.other, j.me>> \in astray',
           j.pc = "insertRequest" => ~Pending(j.me, j.other),
           ~failed' => /\ ~failed
                       /\ \A s, r \in Users :
                              Settles(job[t], s, r) => Pending(s, r) \/ Settles(j, s, r)
    PROVE  Inv'
<1>1. \A x \in Threads : job'[x] = IF x = t THEN j ELSE job[x]
  BY DEF Inv, TypeInv, ServerType
<1>2. \A s, r : (Lists(s, r)' <=> Lists(s, r)) /\ (Pending(s, r)' <=> Pending(s, r))
  BY DEF Lists, Pending
<1>3. \A x \in Threads : JobOK(job[x]) /\ JobOK(job'[x])
  BY DEF Inv, TypeInv, ServerType
<1>4. Apart'
  BY ApartKept DEF Inv
<1>5. ReadFresh'
  BY <1>1 DEF Inv, ReadFresh
<1>6. RequestsListed'
  BY <1>2 DEF Inv, RequestsListed
<1>7. StepsListed'
  BY <1>1, <1>2, <1>3 DEF Inv, StepsListed, JobOK
<1>8. Unsent'
  BY <1>1, <1>2, <1>3 DEF Inv, Unsent, JobOK
<1>9. RequestedOnce'
  BY DEF Inv, RequestedOnce
<1>10. Settled'
  BY <1>1, <1>2 DEF Inv, Settled
<1> QED  BY <1>4, <1>5, <1>6, <1>7, <1>8, <1>9, <1>10 DEF Inv

\* A thread that starts works for somebody no other thread works for.
LEMMA AcceptInv ==
    ASSUME Overlap = FALSE, Inv, TypeInv', NEW t \in Threads, NEW u \in Users,
           NEW other, NEW first \in {"selectFriend", "deleteRequest"},
           Accept(t, u, other, first),
           first = "deleteRequest" => Lists(other, u) \/ <<other, u>> \in astray',
           Rows' \subseteq Rows, astray \subseteq astray'
    PROVE  Inv'
<1> DEFINE j == [Idle EXCEPT !.pc = first, !.me = u, !.other = other]
<1>1. j.pc = first /\ j.me = u /\ j.other = other
  BY DEF Idle
<1>2. job' = [job EXCEPT ![t] = j]
  BY DEF Accept
<1>3. \A x \in Threads : job[x].me # u
  BY DEF Accept, Busy
<1>4. \A s, r \in Users : ~Settles(job[t], s, r)
  BY DEF Accept, Settles
<1>5. UNCHANGED <<friend, FriendRequest, failed>>
  BY DEF Accept
<1> HIDE DEF j
<1> QED  BY <1>1, <1>2, <1>3, <1>4, <1>5, JobOnly

\* The rows are those of requests.
LEMMA RowsType == PageType => Rows \subseteq Request
<1> SUFFICES ASSUME PageType PROVE Rows \subseteq Request
  OBVIOUS
<1>1. ASSUME NEW list \in Seq(Request)
      PROVE  ToSet(list) \subseteq Request
  BY <1>1, ElementOfSeq, LenProperties DEF ToSet
<1>2. \A load \in loads : load.rows \in Seq(Request)
  BY DEF PageType, Load, Request
<1> QED  BY <1>1, <1>2 DEF PageType, Rows

\* A step that appends a friend to the list of the thread's user.
LEMMA UpdateInv ==
    ASSUME Inv, TypeInv', NEW t \in Threads, NEW j, job' = [job EXCEPT ![t] = j],
           job[t].pc \in {"updateSender", "updateReceiver"},
           friend' = [friend EXCEPT ![job[t].me] = Append(job[t].old_friend, job[t].other)],
           UNCHANGED <<FriendRequest, pages, failed>>,
           \/ j.pc = "idle"
           \/ j.pc = "selectRequest" /\ j.me = job[t].me /\ j.other = job[t].other,
           \/ j.pc = "selectRequest"
           \/ Lists(job[t].other, job[t].me) \/ <<job[t].other, job[t].me>> \in astray
    PROVE  Inv'
<1> DEFINE u == job[t].me
           v == job[t].other
<1>0. u \in Users /\ v \in Users
  BY AppendType DEF Inv, TypeInv
<1>1. \A x \in Threads : job'[x] = IF x = t THEN j ELSE job[x]
  BY DEF Inv, TypeInv, ServerType
<1>2. friend' = [friend EXCEPT ![u] = Append(friend[u], v)]
  BY DEF Inv, ReadFresh
<1>3. \A s, r \in Users : Lists(s, r)' <=> Lists(s, r) \/ (s = u /\ r = v)
  <2>1. TypeInv
    BY DEF Inv
  <2> HIDE DEF u, v
  <2> QED  BY <1>0, <1>2, <2>1, AppendLists DEF TypeInv
<1>4. \A s, r \in Users : Pending(s, r)' <=> Pending(s, r)
  BY DEF Pending
<1>5. \A x \in Threads : JobOK(job[x]) /\ JobOK(job'[x])
  BY DEF Inv, TypeInv, ServerType
<1>6. \A x \in Threads \ {t} : job[x].pc # "idle" => job[x].me # u
  BY DEF Inv, Apart
<1>14. Rows' = Rows /\ astray' = astray
  BY DEF pages, page, Rows
<1>7. Apart'
  BY ApartKept DEF Inv
<1>8. ReadFresh'
  <2>1. \A w \in Users \ {u} : friend'[w] = friend[w]
    BY <1>2 DEF Inv, TypeInv, ServerType
  <2> QED  BY <1>1, <1>5, <1>6, <2>1 DEF Inv, ReadFresh, JobOK
<1>9. RequestsListed'
  <2>1. BagToSet(FriendRequest) \union Rows \subseteq Request
    BY RowsType DEF Inv, TypeInv, ServerType
  <2> QED  BY <1>3, <1>14, <2>1 DEF Inv, RequestsListed, Request
<1>10. StepsListed'
  BY <1>0, <1>1, <1>3, <1>5, <1>14 DEF Inv, StepsListed, JobOK
<1>11. Unsent'
  BY <1>1, <1>4, <1>5 DEF Inv, Unsent, JobOK
<1>12. RequestedOnce'
  BY DEF Inv, RequestedOnce
<1>13. Settled'
  <2> SUFFICES ASSUME ~failed, NEW s \in Users, NEW r \in Users, Lists(s, r)'
               PROVE  \/ Lists(r, s)' \/ Pending(s, r)' \/ <<r, s>> \in astray
                      \/ \E x \in Threads : Settles(job'[x], s, r)
    BY <1>14 DEF Settled
  <2>1. CASE s = u /\ r = v
    BY <1>0, <1>1, <1>3, <2>1 DEF Settles
  <2>2. CASE Lists(s, r)
    <3>1. CASE Settles(job[t], s, r)
      BY <1>0, <1>3, <3>1 DEF Settles
    <3>2. CASE Lists(r, s) \/ Pending(s, r) \/ <<r, s>> \in astray
      BY <1>3, <1>4, <3>2
    <3>3. CASE \E x \in Threads \ {t} : Settles(job[x], s, r)
      BY <1>1, <3>3
    <3> QED  BY <2>2, <3>1, <3>2, <3>3 DEF Inv, Settled
  <2> QED  BY <1>3, <2>1, <2>2
<1> QED  BY <1>7, <1>8, <1>9, <1>10, <1>11, <1>12, <1>13 DEF Inv

LEMMA InsertRequestInv ==
    ASSUME Inv, TypeInv', NEW t \in Threads, InsertRequest(t)
    PROVE  Inv'
<1> DEFINE u == job[t].me
           v == job[t].other
<1>0. u \in Users /\ v \in Users /\ Lists(u, v) /\ ~Pending(u, v)
  BY DEF Inv, TypeInv, ServerType, JobOK, StepsListed, Unsent, InsertRequest
<1>1. \A x \in Threads : job'[x] = IF x = t THEN Idle ELSE job[x]
  BY DEF Inv, TypeInv, ServerType, InsertRequest
<1>2. BagToSet(FriendRequest') = BagToSet(FriendRequest) \union {Row(u, v)}
  BY InBagAdd DEF InsertRequest
<1>3. \A s, r \in Users : Pending(s, r)' <=> Pending(s, r) \/ (s = u /\ r = v)
  BY <1>0, <1>2 DEF Pending, Row
<1>4. \A s, r \in Users : Lists(s, r)' <=> Lists(s, r)
  BY DEF Lists, InsertRequest
<1>5. \A x \in Threads : JobOK(job[x]) /\ JobOK(job'[x])
  BY DEF Inv, TypeInv, ServerType
<1>6. \A x \in Threads \ {t} : job[x].pc # "idle" => job[x].me # u
  BY DEF Inv, Apart, InsertRequest
<1> HIDE DEF u, v
<1>14. Rows' = Rows /\ astray' = astray
  BY DEF InsertRequest, pages, page, Rows
<1>7. Apart'
  BY ApartKept DEF Inv, InsertRequest, Idle
<1>8. ReadFresh'
  BY <1>1 DEF Inv, ReadFresh, InsertRequest, Idle
<1>9. RequestsListed'
  <2>1. \A row \in BagToSet(FriendRequest) \union Rows : row.Sender \in Users /\ row.Receiver \in Users
    BY RowsType DEF Inv, TypeInv, ServerType, Request
  <2> QED  BY <1>0, <1>2, <1>4, <1>14, <2>1 DEF Inv, RequestsListed, Row
<1>10. StepsListed'
  BY <1>1, <1>4, <1>5, <1>14 DEF Inv, StepsListed, JobOK, Idle
<1>11. Unsent'
  BY <1>1, <1>3, <1>5, <1>6 DEF Inv, Unsent, JobOK, Idle
<1>12. RequestedOnce'
  <2>1. Row(u, v) \notin BagToSet(FriendRequest)
    BY <1>0 DEF Pending
  <2>2. /\ FriendRequest'[Row(u, v)] = 1
        /\ \A row \in BagToSet(FriendRequest) : FriendRequest'[row] = FriendRequest[row]
    BY <2>1, AddNew DEF InsertRequest, u, v
  <2> QED  BY <1>2, <2>2 DEF Inv, RequestedOnce
<1>13. Settled'
  <2>1. \A s, r \in Users : Settles(job[t], s, r) => Pending(s, r)'
    BY <1>3 DEF Settles, InsertRequest, u, v
  <2> QED  BY <1>1, <1>3, <1>4, <1>14, <2>1 DEF Inv, Settled, InsertRequest
<1> QED  BY <1>7, <1>8, <1>9, <1>10, <1>11, <1>12, <1>13 DEF Inv

LEMMA DeleteRequestInv ==
    ASSUME Inv, TypeInv', NEW t \in Threads, DeleteRequest(t)
    PROVE  Inv'
<1> DEFINE u == job[t].me
           v == job[t].other
           j == [job[t] EXCEPT !.pc = "selectReceiver"]
<1>0. u \in Users /\ v \in Users /\ (Lists(v, u) \/ <<v, u>> \in astray)
  BY DEF Inv, TypeInv, ServerType, JobOK, StepsListed, DeleteRequest
<1>1. \A x \in Threads : job'[x] = IF x = t THEN j ELSE job[x]
  BY DEF Inv, TypeInv, ServerType, DeleteRequest
<1>2. j.pc = "selectReceiver" /\ j.me = u /\ j.other = v
  BY DEF Inv, TypeInv, ServerType, JobOK, Job
<1>3. /\ BagToSet(FriendRequest') = BagToSet(FriendRequest) \ {Row(v, u)}
      /\ \A row \in BagToSet(FriendRequest') : FriendRequest'[row] = FriendRequest[row]
  BY DEF DeleteRequest, Without, BagToSet
<1>4. \A s, r \in Users : Pending(s, r)' <=> Pending(s, r) /\ ~(s = v /\ r = u)
  BY <1>0, <1>3 DEF Pending, Row
<1>5. \A s, r : Lists(s, r)' <=> Lists(s, r)
  BY DEF Lists, DeleteRequest
<1>6. \A x \in Threads : JobOK(job[x]) /\ JobOK(job'[x])
  BY DEF Inv, TypeInv, ServerType
<1>7. job' = [job EXCEPT ![t] = j] /\ job[t].pc = "deleteRequest"
  BY DEF DeleteRequest
<1> HIDE DEF j
<1>15. Rows' = Rows /\ astray' = astray
  BY DEF DeleteRequest, pages, page, Rows
<1>8. Apart'
  BY <1>2, <1>7, ApartKept DEF Inv
<1>9. ReadFresh'
  BY <1>1, <1>2 DEF Inv, ReadFresh, DeleteRequest
<1>10. RequestsListed'
  BY <1>3, <1>5, <1>15 DEF Inv, RequestsListed
<1>11. StepsListed'
  BY <1>0, <1>1, <1>2, <1>5, <1>6, <1>15 DEF Inv, StepsListed, JobOK
<1>12. Unsent'
  BY <1>1, <1>2, <1>4, <1>6 DEF Inv, Unsent, JobOK
<1>13. RequestedOnce'
  BY <1>3 DEF Inv, RequestedOnce
<1>14. Settled'
  <2>1. \A s, r \in Users : ~Settles(job[t], s, r)
    BY <1>7 DEF Settles
  <2>2. Settles(j, v, u)
    BY <1>2 DEF Settles
  <2> HIDE DEF u, v
  <2> QED  BY <1>0, <1>1, <1>4, <1>5, <1>15, <2>1, <2>2 DEF Inv, Settled, DeleteRequest
<1> QED  BY <1>8, <1>9, <1>10, <1>11, <1>12, <1>13, <1>14 DEF Inv

LEMMA StepInv ==
    ASSUME Overlap = FALSE, Inv, NEW t \in Threads, Step(t)
    PROVE  Inv'
<1>0. TypeInv' /\ JobOK(job[t])
  BY NextType DEF Inv, TypeInv, ServerType, Next
<1>9. UNCHANGED pages /\ Rows' = Rows /\ astray' = astray
  <2>1. UNCHANGED pages
    BY StepType DEF Inv, TypeInv
  <2> QED  BY <2>1 DEF pages, page, Rows
<1>1. CASE SelectFriend(t)
  <2> DEFINE j == IF job[t].other \in Users THEN [job[t] EXCEPT !.pc = "selectSender"]
                                            ELSE Idle
  <2>1. j.pc = "idle" \/ (j.pc = "selectSender" /\ j.me = job[t].me)
    BY <1>0 DEF Idle, JobOK, Job
  <2>2. job' = [job EXCEPT ![t] = j] /\ job[t].pc = "selectFriend"
    BY <1>1 DEF SelectFriend
  <2> HIDE DEF j
  <2> QED  BY <1>0, <1>1, <1>9, <2>1, <2>2, JobOnly DEF SelectFriend, Settles
<1>2. CASE SelectSender(t)
  <2> DEFINE j == IF job[t].other \in ToSet(friend[job[t].me])
                  THEN Idle
                  ELSE [job[t] EXCEPT !.pc = "updateSender",
                                      !.old_friend = friend[job[t].me]]
  <2>1. \/ j.pc = "idle"
        \/ j.pc = "updateSender" /\ j.me = job[t].me /\ j.old_friend = friend[j.me]
    BY <1>0 DEF Idle, JobOK, Job
  <2>2. job' = [job EXCEPT ![t] = j] /\ job[t].pc = "selectSender"
    BY <1>2 DEF SelectSender
  <2> HIDE DEF j
  <2> QED  BY <1>0, <1>2, <1>9, <2>1, <2>2, JobOnly DEF SelectSender, Settles
<1>3. CASE UpdateSender(t)
  <2> DEFINE j == [job[t] EXCEPT !.pc = "selectRequest"]
  <2>1. j.pc = "selectRequest" /\ j.me = job[t].me /\ j.other = job[t].other
    BY <1>0 DEF JobOK, Job
  <2>2. job' = [job EXCEPT ![t] = j] /\ job[t].pc = "updateSender"
    BY <1>3 DEF UpdateSender
  <2> HIDE DEF j
  <2> QED  BY <1>0, <1>3, <1>9, <2>1, <2>2, UpdateInv DEF UpdateSender
<1>4. CASE SelectRequest(t)
  <2> DEFINE j == IF Pending(job[t].me, job[t].other)
                  THEN Idle
                  ELSE [job[t] EXCEPT !.pc = "insertRequest"]
  <2>1. \/ j.pc = "idle" /\ Pending(job[t].me, job[t].other)
        \/ /\ j.pc = "insertRequest" /\ j.me = job[t].me /\ j.other = job[t].other
           /\ ~Pending(job[t].me, job[t].other)
    BY <1>0 DEF Idle, JobOK, Job
  <2>2. job' = [job EXCEPT ![t] = j] /\ job[t].pc = "selectRequest"
    BY <1>4 DEF SelectRequest
  <2>3. Lists(job[t].me, job[t].other)
    BY <2>2 DEF Inv, StepsListed
  <2> HIDE DEF j
  <2>4. \A s, r \in Users : Settles(job[t], s, r) => Pending(s, r) \/ Settles(j, s, r)
    BY <2>1, <2>2 DEF Settles
  <2> QED  BY <1>0, <1>4, <1>9, <2>1, <2>2, <2>3, <2>4, JobOnly DEF SelectRequest
<1>5. CASE InsertRequest(t)
  BY <1>0, <1>5, InsertRequestInv
<1>6. CASE DeleteRequest(t)
  BY <1>0, <1>6, DeleteRequestInv
<1>7. CASE SelectReceiver(t)
  <2> DEFINE j == [job[t] EXCEPT !.pc = "updateReceiver", !.old_friend = friend[job[t].me]]
  <2>1. /\ j.pc = "updateReceiver" /\ j.me = job[t].me /\ j.other = job[t].other
        /\ j.old_friend = friend[j.me]
    BY <1>0 DEF JobOK, Job
  <2>2. job' = [job EXCEPT ![t] = j] /\ job[t].pc = "selectReceiver"
    BY <1>7 DEF SelectReceiver
  <2>3. Lists(job[t].other, job[t].me) \/ <<job[t].other, job[t].me>> \in astray
    BY <2>2 DEF Inv, StepsListed
  <2> HIDE DEF j
  <2>4. \A s, r \in Users : Settles(job[t], s, r) => Settles(j, s, r)
    BY <2>1, <2>2 DEF Settles
  <2> QED  BY <1>0, <1>7, <1>9, <2>1, <2>2, <2>3, <2>4, JobOnly DEF SelectReceiver
<1>8. CASE UpdateReceiver(t)
  <2>1. Lists(job[t].other, job[t].me) \/ <<job[t].other, job[t].me>> \in astray
    BY <1>8 DEF Inv, StepsListed, UpdateReceiver
  <2> QED  BY <1>0, <1>8, <1>9, <2>1, UpdateInv DEF UpdateReceiver, Idle
<1> QED  BY <1>1, <1>2, <1>3, <1>4, <1>5, <1>6, <1>7, <1>8 DEF Step

LEMMA NextInv ==
    ASSUME Overlap = FALSE, Inv, [Next]_vars
    PROVE  Inv'
<1>0. TypeInv'
  BY NextType DEF Inv
<1>1. ASSUME NEW t \in Threads, Step(t)
      PROVE  Inv'
  BY <1>1, StepInv
<1>2. ASSUME NEW t \in Threads, Fail(t)
      PROVE  Inv'
  <2>1. UNCHANGED pages /\ Rows' = Rows /\ astray' = astray
    BY <1>2 DEF Fail, pages, page, Rows
  <2> QED  BY <1>0, <1>2, <2>1, JobOnly DEF Fail, Idle
<1>3. ASSUME NEW t \in Threads, NEW d \in Devices, NEW name \in Names, AddFriendClick(t, d, name)
      PROVE  Inv'
  <2>1. LoggedInUser[d] \in Users /\ UNCHANGED pages
    BY <1>3, ClickType DEF Inv
  <2>2. Rows' = Rows /\ astray' = astray
    BY <2>1 DEF pages, page, Rows
  <2> QED  BY <1>0, <1>3, <2>1, <2>2, AcceptInv DEF AddFriendClick
<1>4. ASSUME NEW t \in Threads, NEW d \in Devices, NEW i \in DOMAIN cells[d],
             AcceptRequest(t, d, i)
      PROVE  Inv'
  <2> DEFINE row  == cells[d][i]
             user == LoggedInUser[d]
  <2>1. user \in Users /\ row \in Rows /\ Rows' \subseteq Rows
    BY <1>4, CellUser, AcceptRequestType, RowsFewer DEF Inv, TypeInv
  <2>2. Lists(row.Sender, row.Receiver)
    BY <2>1 DEF Inv, RequestsListed
  <2>3. Accept(t, user, row.Sender, "deleteRequest")
    BY <1>4 DEF AcceptRequest
  <2>4. astray' = astray \union {p \in {<<row.Sender, user>>} : row.Receiver # user}
    BY <1>4 DEF AcceptRequest
  <2> HIDE DEF row, user
  <2>5. Lists(row.Sender, user) \/ <<row.Sender, user>> \in astray'
    BY <2>2, <2>4
  <2> QED  BY <1>0, <2>1, <2>3, <2>4, <2>5, AcceptInv
<1>5. ASSUME UNCHANGED <<servers, astray>>, Rows' \subseteq Rows \union BagToSet(FriendRequest)
      PROVE  Inv'
  <2>0. UNCHANGED <<friend, FriendRequest, job, failed, astray>>
    BY <1>5 DEF servers
  <2>1. \A s, r : (Lists(s, r)' <=> Lists(s, r)) /\ (Pending(s, r)' <=> Pending(s, r))
    BY <2>0 DEF Lists, Pending
  <2>2. RequestsListed'
    BY <1>5, <2>0, <2>1 DEF Inv, RequestsListed
  <2>3. StepsListed' /\ Unsent' /\ Apart' /\ ReadFresh' /\ RequestedOnce'
    BY <2>0, <2>1 DEF Inv, StepsListed, Unsent, Apart, ReadFresh, RequestedOnce
  <2>4. Settled'
    BY <2>0, <2>1 DEF Inv, Settled
  <2> QED  BY <1>0, <2>2, <2>3, <2>4 DEF Inv
<1>6. ASSUME NEW d \in Devices, Move(d)
      PROVE  Inv'
  BY <1>5, <1>6, MoveType, RowsFewer DEF Inv, TypeInv
<1>7. ASSUME NEW load \in loads, PullFriendRequest(load) \/ Arrive(load)
      PROVE  Inv'
  BY <1>5, <1>7, PullType, ArriveType DEF Inv, TypeInv
<1>8. CASE UNCHANGED vars
  <2>1. UNCHANGED <<servers, astray>> /\ Rows' = Rows
    BY <1>8 DEF vars, pages, page, Rows
  <2> QED  BY <1>5, <2>1
<1> QED  BY <1>1, <1>2, <1>3, <1>4, <1>6, <1>7, <1>8 DEF Next, Send

-----------------------------------------------------------------------------
(* What follows *)

LEMMA InvFollows == Inv => RequestsListed /\ RequestedOnce /\ OneSidedPending
<1> SUFFICES ASSUME Inv PROVE OneSidedPending
  BY DEF Inv
<1>1. ASSUME \A t \in Threads : job[t].pc = "idle"
      PROVE  \A t \in Threads, s, r \in Users : ~Settles(job[t], s, r)
  BY <1>1 DEF Settles
<1> QED  BY <1>1 DEF Inv, Settled, OneSidedPending

\* RequestsAreListed: if no two requests of one user overlap, then behind every
\* stored request and every row that was answered, on its way, in a device's model
\* or drawn at whatever login, the sender lists the user it was answered to.
THEOREM RequestsAreListed ==
    ASSUME Overlap = FALSE
    PROVE  Spec => []RequestsListed
<1>1. Inv /\ [Next]_vars => Inv'
  BY NextInv
<1> QED  BY <1>1, InitInv, InvFollows, PTL DEF Spec

\* RequestsAreStoredOnce: if no two requests of one user overlap, then no sequence
\* of adding, failing, confirming, refusing and adding again stores a request twice.
THEOREM RequestsAreStoredOnce ==
    ASSUME Overlap = FALSE
    PROVE  Spec => []RequestedOnce
<1>1. Inv /\ [Next]_vars => Inv'
  BY NextInv
<1> QED  BY <1>1, InitInv, InvFollows, PTL DEF Spec

\* OneSidedIsPending: if no two requests of one user overlap and none has failed,
\* a friendship that only one of two users lists still has its request stored
\* whenever the server is idle, unless it was accepted from another login's row.
THEOREM OneSidedIsPending ==
    ASSUME Overlap = FALSE
    PROVE  Spec => []OneSidedPending
<1>1. Inv /\ [Next]_vars => Inv'
  BY NextInv
<1> QED  BY <1>1, InitInv, InvFollows, PTL DEF Spec

LEMMA ConfirmStep ==
    ASSUME Inv, NEW t \in Threads, NEW u \in Users, NEW v \in Users,
           UpdateReceiver(t), u = job[t].me, v = job[t].other
    PROVE  Lists(u, v)' /\ (Lists(v, u)' \/ <<v, u>> \in astray)
<1>1. friend' = [friend EXCEPT ![u] = Append(friend[u], v)]
  BY DEF Inv, ReadFresh, UpdateReceiver
<1>2. Lists(v, u) \/ <<v, u>> \in astray
  BY DEF Inv, StepsListed, UpdateReceiver
<1>3. \A s, r \in Users : Lists(s, r)' <=> Lists(s, r) \/ (s = u /\ r = v)
  BY <1>1, AppendLists DEF Inv, TypeInv
<1> QED  BY <1>2, <1>3

\* ConfirmingGoesBothWays: if no two requests of one user overlap, a confirm that
\* reaches its last statement leaves two users who list each other, unless it
\* answers a row of another login.
THEOREM ConfirmingGoesBothWays ==
    ASSUME Overlap = FALSE
    PROVE  Spec => ConfirmedBothWays
<1> DEFINE Both == \A t \in Threads : \A u \in {job[t].me}, v \in {job[t].other} :
                       UpdateReceiver(t) =>
                           Lists(u, v)' /\ (Lists(v, u)' \/ <<v, u>> \in astray)
<1>1. Inv /\ [Next]_vars => Inv'
  BY NextInv
<1>2. Inv => [Both]_vars
  <2> SUFFICES ASSUME Inv, NEW t \in Threads, UpdateReceiver(t)
               PROVE  \A u \in {job[t].me}, v \in {job[t].other} :
                          Lists(u, v)' /\ (Lists(v, u)' \/ <<v, u>> \in astray)
    OBVIOUS
  <2>1. job[t].me \in Users /\ job[t].other \in Users
    BY AppendType DEF Inv, TypeInv, UpdateReceiver
  <2> QED  BY <2>1, ConfirmStep
<1> QED  BY <1>1, <1>2, InitInv, PTL DEF Spec, ConfirmedBothWays

LEMMA GrowStep ==
    ASSUME Inv, [Next]_vars, NEW u \in Users
    PROVE  IsPrefix(friend[u], friend'[u])
<1>1. friend[u] \in Seq(Users)
  BY DEF Inv, TypeInv, ServerType
<1>2. CASE friend' = friend
  BY <1>1, <1>2 DEF IsPrefix
<1>3. ASSUME NEW t \in Threads, UpdateSender(t) \/ UpdateReceiver(t)
      PROVE  IsPrefix(friend[u], friend'[u])
  <2> PICK v \in Users : v = job[t].other
    BY <1>3, AppendType DEF Inv, TypeInv, UpdateSender, UpdateReceiver
  <2>1. friend'[u] \in {friend[u], Append(friend[u], v)}
    BY <1>3 DEF Inv, TypeInv, ServerType, ReadFresh, UpdateSender, UpdateReceiver
  <2>2. IsPrefix(friend[u], Append(friend[u], v))
    BY <1>1 DEF IsPrefix
  <2> QED  BY <1>1, <2>1, <2>2 DEF IsPrefix
<1>4. ASSUME NEW t \in Threads, NEW d \in Devices, Send(t, d)
      PROVE  friend' = friend
  BY <1>4 DEF Send, AddFriendClick, AcceptRequest, Accept
<1>5. ASSUME NEW t \in Threads, Step(t), ~UpdateSender(t), ~UpdateReceiver(t)
      PROVE  friend' = friend
  BY <1>5 DEF Step, SelectFriend, SelectSender, SelectRequest, InsertRequest,
              DeleteRequest, SelectReceiver
<1>6. ASSUME \/ \E d \in Devices : Move(d)
             \/ \E load \in loads : PullFriendRequest(load) \/ Arrive(load)
      PROVE  friend' = friend
  BY <1>6, MoveType, PullType, ArriveType DEF Inv, TypeInv, servers
<1> QED  BY <1>2, <1>3, <1>4, <1>5, <1>6 DEF Next, Fail, vars, servers

\* FriendListsGrow: if no two requests of one user overlap, a friend list only
\* grows at its end, whatever fails.
THEOREM FriendListsGrow ==
    ASSUME Overlap = FALSE
    PROVE  Spec => FriendsGrow
<1>1. Inv /\ [Next]_vars => Inv'
  BY NextInv
<1>2. Inv /\ [Next]_vars => [\A u \in Users : IsPrefix(friend[u], friend'[u])]_vars
  BY GrowStep
<1> QED  BY <1>1, <1>2, InitInv, PTL DEF Spec, FriendsGrow

-----------------------------------------------------------------------------
(***************************************************************************)
(* Devices that only one user logs in on.  A late answer then always       *)
(* arrives at the user it is for, and nothing goes astray.                 *)
(***************************************************************************)

OwnDevices == \A d \in Devices : \A u, v \in Logins[d] : u = v

\* Every row that a device has, or that is on its way, is for a user of it.
OwnRows ==
    /\ \A d \in Devices : LoggedInUser[d] \in Logins[d] \union {Nobody}
    /\ \A load \in loads : /\ load.user \in Logins[load.device]
                           /\ \A row \in ToSet(load.rows) : row.Receiver = load.user
    /\ \A d \in Devices : \A row \in DeviceRows(d) : row.Receiver \in Logins[d]
    /\ astray = {}

LEMMA InitOwn == Init => OwnRows
BY NoRows DEF Init, OwnRows, DeviceRows

\* A step that brings no rows, and after which nobody new is logged in.
LEMMA FewerOwn ==
    ASSUME TypeInv, OwnRows, FewerRows, astray' = {},
           \A d \in Devices : LoggedInUser'[d] \in Logins[d] \union {LoggedInUser[d], Nobody}
    PROVE  OwnRows'
<1>1. \A d \in Devices : LoggedInUser'[d] \in Logins[d] \union {Nobody}
  BY DEF OwnRows
<1>2. ASSUME NEW load \in loads'
      PROVE  /\ load.user \in Logins[load.device]
             /\ \A row \in ToSet(load.rows) : row.Receiver = load.user
  <2>1. CASE load \in loads
    BY <2>1 DEF OwnRows
  <2>2. CASE load \notin loads
    <3>1. /\ load.rows = <<>> /\ load.device \in Devices /\ load.user \in Users
          /\ load.user = LoggedInUser[load.device]
      BY <1>2, <2>2 DEF FewerRows
    <3> QED  BY <3>1, NoRows, NamesAssumption DEF OwnRows
  <2> QED  BY <2>1, <2>2
<1>3. \A d \in Devices : \A row \in DeviceRows(d)' : row.Receiver \in Logins[d]
  BY DEF FewerRows, OwnRows
<1> QED  BY <1>1, <1>2, <1>3 DEF OwnRows

LEMMA NextOwn ==
    ASSUME OwnDevices, TypeInv, OwnRows, [Next]_vars
    PROVE  OwnRows'
<1>1. ASSUME UNCHANGED pages
      PROVE  OwnRows'
  BY <1>1 DEF pages, page, OwnRows, DeviceRows
<1>2. ASSUME NEW t \in Threads, Step(t) \/ Fail(t)
      PROVE  OwnRows'
  BY <1>1, <1>2, StepType, FailType DEF TypeInv
<1>3. ASSUME NEW t \in Threads, NEW d \in Devices, NEW name \in Names, AddFriendClick(t, d, name)
      PROVE  OwnRows'
  BY <1>1, <1>3, ClickType
<1>4. ASSUME NEW d \in Devices, NEW i \in DOMAIN cells[d], ButtonTapped(d, i)
      PROVE  \A e \in Devices : LoggedInUser'[e] \in {LoggedInUser[e], Nobody}
  BY <1>4 DEF ButtonTapped, End, TypeInv, PageType
<1>5. ASSUME NEW t \in Threads, NEW d \in Devices, NEW i \in DOMAIN cells[d],
             AcceptRequest(t, d, i)
      PROVE  OwnRows'
  <2>1. /\ LoggedInUser[d] \in Users /\ cells[d][i] \in ToSet(cells[d])
    BY CellUser, LenProperties DEF TypeInv, PageType, ToSet
  <2>2. cells[d][i].Receiver = LoggedInUser[d]
    BY <2>1, NamesAssumption DEF OwnDevices, OwnRows, DeviceRows
  <2>3. astray' = {}
    BY <1>5, <2>2 DEF AcceptRequest, OwnRows
  <2>4. ButtonTapped(d, i) /\ FewerRows
    BY <1>5, AcceptRequestType DEF AcceptRequest
  <2> QED  BY <1>4, <2>3, <2>4, FewerOwn
<1>6. ASSUME NEW d \in Devices, Move(d)
      PROVE  OwnRows'
  <2>1. FewerRows /\ astray' = {}
    BY <1>6, MoveType DEF TypeInv, OwnRows
  <2>2. ASSUME NEW i \in DOMAIN cells[d], Scroll(d, i) \/ Refuse(d, i)
        PROVE  \A e \in Devices : LoggedInUser'[e] \in {LoggedInUser[e], Nobody}
    BY <1>4, <2>2 DEF Scroll, Refuse
  <2>3. \A e \in Devices : LoggedInUser'[e] \in Logins[e] \union {LoggedInUser[e], Nobody}
    BY <1>6, <2>2 DEF Move, Login, Logout, OpenRequests, Reappear, Restart, End,
                      TypeInv, PageType
  <2> QED  BY <2>1, <2>3, FewerOwn
<1>7. ASSUME NEW load \in loads, PullFriendRequest(load)
      PROVE  OwnRows'
  <2>1. /\ UNCHANGED <<LoggedInUser, RequestSet, cells, astray>>
        /\ \A x \in loads' \ loads : /\ x.device = load.device /\ x.user = load.user
                                   /\ \A row \in ToSet(x.rows) : row.Receiver = x.user
    BY <1>7, PullType
  <2> QED  BY <2>1 DEF OwnRows, DeviceRows
<1>8. ASSUME NEW load \in loads, Arrive(load)
      PROVE  OwnRows'
  <2>1. /\ loads' \subseteq loads /\ UNCHANGED <<LoggedInUser, astray>>
        /\ \A e \in Devices :
               DeviceRows(e)' \subseteq
                   DeviceRows(e) \union {row \in ToSet(load.rows) : e = load.device}
    BY <1>8, ArriveType DEF TypeInv
  <2>2. \A e \in Devices : \A row \in DeviceRows(e)' : row.Receiver \in Logins[e]
    BY <2>1 DEF OwnRows
  <2> QED  BY <2>1, <2>2 DEF OwnRows
<1> QED  BY <1>1, <1>2, <1>3, <1>5, <1>6, <1>7, <1>8 DEF Next, Send, vars

\* NothingGoesAstray: where each device has one user, no confirm ever answers a
\* row that was answered to another one, however loads overlap and answers are
\* late: what the theorems here except does not happen there.
THEOREM NothingGoesAstray ==
    ASSUME OwnDevices
    PROVE  Spec => [](astray = {})
<1>1. TypeInv /\ OwnRows /\ [Next]_vars => OwnRows'
  BY NextOwn
<1>2. OwnRows => astray = {}
  BY DEF OwnRows
<1> QED  BY <1>1, <1>2, InitOwn, InitType, NextType, PTL DEF Spec

-----------------------------------------------------------------------------
(***************************************************************************)
(* "Friend Request Sent!" is true when requests come one after another, no *)
(* statement fails and each device has one user.                           *)
(***************************************************************************)

\* A friend who is listed when add_friend looks has the request stored or has
\* confirmed it: with one thread nothing is half done.
LEMMA SentStep ==
    ASSUME \A x, y \in Threads : x = y, Inv, ~failed, astray = {}, NEW t \in Threads,
           SelectSender(t), job'[t].pc = "idle"
    PROVE  Pending(job[t].me, job[t].other) \/ Lists(job[t].other, job[t].me)
<1>1. job[t].pc = "selectSender" /\ job[t].me \in Users /\ job[t].other \in Users
  BY DEF Inv, TypeInv, ServerType, JobOK, SelectSender
<1>2. Lists(job[t].me, job[t].other)
  <2> SUFFICES ASSUME job[t].other \notin ToSet(friend[job[t].me])
               PROVE  FALSE
    BY DEF Lists
  <2> DEFINE read == [job[t] EXCEPT !.pc = "updateSender", !.old_friend = friend[job[t].me]]
  <2>1. job' = [job EXCEPT ![t] = read]
    BY DEF SelectSender
  <2>2. job[t] \in Job /\ job \in [Threads -> Job]
    BY DEF Inv, TypeInv, ServerType
  <2>3. read.pc = "updateSender"
    BY <2>2 DEF Job
  <2> HIDE DEF read
  <2> QED  BY <2>1, <2>2, <2>3
<1>3. \A x \in Threads : ~Settles(job[x], job[t].me, job[t].other)
  BY <1>1 DEF Settles
<1> QED  BY <1>1, <1>2, <1>3 DEF Inv, Settled

\* SentIsSent: with one thread, no failing statement and devices of one user, a
\* user who is told that the request was sent has one stored, or is listed by the
\* other user.
THEOREM SentIsSent ==
    ASSUME Overlap = FALSE, MayFail = FALSE, \A x, y \in Threads : x = y, OwnDevices
    PROVE  Spec => SentMeansSent
<1> DEFINE Sent == \A t \in Threads :
                       (SelectSender(t) /\ job'[t].pc = "idle") =>
                           \/ Pending(job[t].me, job[t].other)
                           \/ Lists(job[t].other, job[t].me)
<1>1. Inv /\ [Next]_vars => Inv'
  BY NextInv
<1>2. Init => ~failed
  BY DEF Init
<1>3. Inv /\ ~failed /\ [Next]_vars => ~failed'
  <2> SUFFICES ASSUME Inv, ~failed, [Next]_vars PROVE ~failed'
    OBVIOUS
  <2>1. ASSUME NEW t \in Threads, Step(t)
        PROVE  ~failed'
    BY <2>1 DEF Step, SelectFriend, SelectSender, UpdateSender, SelectRequest,
                InsertRequest, DeleteRequest, SelectReceiver, UpdateReceiver
  <2>2. ASSUME NEW t \in Threads, NEW d \in Devices, Send(t, d)
        PROVE  ~failed'
    BY <2>2 DEF Send, AddFriendClick, AcceptRequest, Accept
  <2>3. ASSUME \/ \E d \in Devices : Move(d)
               \/ \E load \in loads : PullFriendRequest(load) \/ Arrive(load)
        PROVE  ~failed'
    BY <2>3, MoveType, PullType, ArriveType DEF Inv, TypeInv, servers
  <2> QED  BY <2>1, <2>2, <2>3 DEF Next, Fail, vars, servers
<1>4. TypeInv /\ OwnRows /\ [Next]_vars => OwnRows'
  BY NextOwn
<1>5. Inv => TypeInv
  BY DEF Inv
<1>6. Inv /\ ~failed /\ OwnRows => [Sent]_vars
  BY SentStep DEF OwnRows
<1> QED  BY <1>1, <1>2, <1>3, <1>4, <1>5, <1>6, InitInv, InitOwn, PTL DEF Spec, SentMeansSent

-----------------------------------------------------------------------------
(***************************************************************************)
(* Asking and accepting are what Friendships promises.  What maps to one   *)
(* of its steps is the UPDATE of either servlet and the tap that accepts;  *)
(* the other statements and the pages change nothing it sees.              *)
(***************************************************************************)

\* A job that makes the request of s to r wait, or answers it.
Asking(j, s, r)    == j.pc \in {"selectRequest", "insertRequest"} /\ j.me = s /\ j.other = r
Accepting(j, s, r) == /\ j.pc \in {"deleteRequest", "selectReceiver", "updateReceiver"}
                      /\ j.me = r /\ j.other = s

Accepted(s, r) == \E t \in Threads : Accepting(job[t], s, r)
Asked(s, r)    == \/ Pending(s, r)
                  \/ \E t \in Threads : Asking(job[t], s, r)
                  \/ Accepted(s, r)

AskedPairs    == {p \in Users \X Users : Asked(p[1], p[2])}
AcceptedPairs == {p \in Users \X Users : Accepted(p[1], p[2])}

LEMMA PairSets == TypeInv => AllAsked = AskedPairs /\ AllAccepted = AcceptedPairs
<1> SUFFICES ASSUME TypeInv PROVE AllAsked = AskedPairs /\ AllAccepted = AcceptedPairs
  OBVIOUS
<1>1. \A t \in Threads : JobOK(job[t])
  BY DEF TypeInv, ServerType
<1>2. AllAccepted = AcceptedPairs
  <2>1. AllAccepted \subseteq AcceptedPairs
    BY <1>1 DEF AllAccepted, Acceptors, AcceptedPairs, Accepted, Accepting, JobOK
  <2>2. AcceptedPairs \subseteq AllAccepted
    BY DEF AllAccepted, Acceptors, AcceptedPairs, Accepted, Accepting
  <2> QED  BY <2>1, <2>2
<1>3. {<<job[t].me, job[t].other>> : t \in Askers} =
          {p \in Users \X Users : \E t \in Threads : Asking(job[t], p[1], p[2])}
  BY <1>1 DEF Askers, Asking, JobOK
<1>4. {<<row.Sender, row.Receiver>> : row \in BagToSet(FriendRequest)} =
          {p \in Users \X Users : Pending(p[1], p[2])}
  <2>1. ASSUME NEW row \in BagToSet(FriendRequest)
        PROVE  /\ <<row.Sender, row.Receiver>> \in Users \X Users
               /\ row = Row(row.Sender, row.Receiver)
    BY DEF TypeInv, ServerType, Request, Row
  <2>2. ASSUME NEW s \in Users, NEW r \in Users, Pending(s, r)
        PROVE  <<s, r>> \in {<<row.Sender, row.Receiver>> : row \in BagToSet(FriendRequest)}
    <3>1. Row(s, r) \in BagToSet(FriendRequest) /\ Row(s, r).Sender = s /\ Row(s, r).Receiver = r
      BY <2>2 DEF Pending, Row
    <3> QED  BY <3>1
  <2> QED  BY <2>1, <2>2 DEF Pending
<1>5. AllAsked = AskedPairs
  BY <1>2, <1>3, <1>4 DEF AllAsked, AskedPairs, AcceptedPairs, Asked
<1> QED  BY <1>2, <1>5

\* How the two sets follow from who asks and who is accepted, pair by pair.
LEMMA PairsChange ==
    ASSUME TypeInv',
           NEW asked \in SUBSET (Users \X Users), NEW accepted \in SUBSET (Users \X Users),
           \A s, r \in Users : Asked(s, r)' <=> <<s, r>> \in asked,
           \A s, r \in Users : Accepted(s, r)' <=> <<s, r>> \in accepted
    PROVE  AllAsked' = asked /\ AllAccepted' = accepted
<1>1. (AllAsked = AskedPairs /\ AllAccepted = AcceptedPairs)'
  BY PairSets, PTL
<1>2. \A p \in Users \X Users : p = <<p[1], p[2]>> /\ p[1] \in Users /\ p[2] \in Users
  OBVIOUS
<1>3. AskedPairs' = asked
  BY <1>2 DEF AskedPairs
<1>4. AcceptedPairs' = accepted
  BY <1>2 DEF AcceptedPairs
<1> QED  BY <1>1, <1>3, <1>4

LEMMA PairsAre ==
    ASSUME TypeInv
    PROVE  /\ AllAsked \subseteq Users \X Users /\ AllAccepted \subseteq Users \X Users
           /\ \A s, r \in Users : /\ Asked(s, r) <=> <<s, r>> \in AllAsked
                                  /\ Accepted(s, r) <=> <<s, r>> \in AllAccepted
BY PairSets DEF AskedPairs, AcceptedPairs

\* Who is about to be listed is not, and who has just been listed has never been
\* asked before: no request to that user is stored, shown or being answered, but
\* for one that strayed.
FirstAsked ==
    \A t \in Threads :
        /\ job[t].pc = "updateSender" => ~Lists(job[t].me, job[t].other)
        /\ job[t].pc \in {"selectRequest", "insertRequest"} =>
               /\ ~Pending(job[t].me, job[t].other)
               /\ Row(job[t].me, job[t].other) \notin Rows
               /\ Accepted(job[t].me, job[t].other) => <<job[t].me, job[t].other>> \in astray

\* Past its DELETE, confirm finds the request gone, or come after its own had strayed.
Deleted ==
    \A t \in Threads : job[t].pc \in {"selectReceiver", "updateReceiver"} =>
        ~Pending(job[t].other, job[t].me) \/ <<job[t].other, job[t].me>> \in astray

RefInv == Inv /\ FirstAsked /\ Deleted

LEMMA InitRef == Init => RefInv
<1> SUFFICES ASSUME Init PROVE RefInv
  OBVIOUS
<1>1. \A t \in Threads : job[t].pc = "idle"
  BY DEF Init, Idle
<1> QED  BY <1>1, InitInv DEF RefInv, FirstAsked, Deleted

\* A step of one thread after which nobody lists, stores or accepts more than
\* before, but for what its new job says of itself.
LEMMA RefStep ==
    ASSUME RefInv, Inv', NEW t \in Threads, NEW j, job' = [job EXCEPT ![t] = j],
           \A u \in Users, v \in Users :
               /\ Lists(u, v)' => Lists(u, v) \/ u = job[t].me
               /\ Pending(u, v)' => Pending(u, v) \/ Asking(job[t], u, v),
           Rows' \subseteq Rows, astray \subseteq astray',
           j.pc = "updateSender" => ~Lists(j.me, j.other)' /\ j.me \in Users,
           j.pc \in {"selectRequest", "insertRequest"} =>
               /\ ~Pending(j.me, j.other)'
               /\ Row(j.me, j.other) \notin Rows'
               /\ Accepted(j.me, j.other)' => <<j.me, j.other>> \in astray',
           j.pc \in {"selectReceiver", "updateReceiver"} =>
               ~Pending(j.other, j.me)' \/ <<j.other, j.me>> \in astray',
           \A s, r \in Users : Accepting(j, s, r) =>
               Accepting(job[t], s, r) \/ Row(s, r) \in Rows \/ <<s, r>> \in astray'
    PROVE  RefInv'
<1>1. \A x \in Threads : job'[x] = IF x = t THEN j ELSE job[x]
  BY DEF RefInv, Inv, TypeInv, ServerType
<1>2. \A x \in Threads : JobOK(job[x]) /\ JobOK(job'[x])
  BY DEF RefInv, Inv, TypeInv, ServerType
<1>3. \A x \in Threads \ {t} : job[x].pc # "idle" => job[x].me # job[t].me
  BY DEF RefInv, Inv, Apart
<1>4. \A s, r \in Users :
          Accepted(s, r)' => Accepted(s, r) \/ Row(s, r) \in Rows \/ <<s, r>> \in astray'
  BY <1>1 DEF Accepted
<1>5. FirstAsked'
  <2> SUFFICES ASSUME NEW x \in Threads \ {t}
               PROVE  /\ job[x].pc = "updateSender" => ~Lists(job[x].me, job[x].other)'
                      /\ job[x].pc \in {"selectRequest", "insertRequest"} =>
                             /\ ~Pending(job[x].me, job[x].other)'
                             /\ Row(job[x].me, job[x].other) \notin Rows'
                             /\ Accepted(job[x].me, job[x].other)' =>
                                    <<job[x].me, job[x].other>> \in astray'
    BY <1>1 DEF FirstAsked
  <2>1. ASSUME job[x].pc = "updateSender"
        PROVE  ~Lists(job[x].me, job[x].other)'
    <3>1. job[x].me \in Users /\ job[x].other \in Users
      BY <1>2, <2>1 DEF JobOK
    <3>2. job[x].me # job[t].me
      BY <1>3, <2>1
    <3>3. ~Lists(job[x].me, job[x].other)
      BY <2>1 DEF RefInv, FirstAsked
    <3> QED  BY <3>1, <3>2, <3>3
  <2>2. ASSUME job[x].pc \in {"selectRequest", "insertRequest"}
        PROVE  /\ ~Pending(job[x].me, job[x].other)'
               /\ Row(job[x].me, job[x].other) \notin Rows'
               /\ Accepted(job[x].me, job[x].other)' =>
                      <<job[x].me, job[x].other>> \in astray'
    <3>1. job[x].me \in Users /\ job[x].other \in Users
      BY <1>2, <2>2 DEF JobOK
    <3>2. ~Asking(job[t], job[x].me, job[x].other)
      BY <1>3, <2>2 DEF Asking
    <3> QED  BY <1>4, <2>2, <3>1, <3>2 DEF RefInv, FirstAsked
  <2> QED  BY <2>1, <2>2
<1>6. Deleted'
  <2> SUFFICES ASSUME NEW x \in Threads \ {t},
                      job[x].pc \in {"selectReceiver", "updateReceiver"},
                      Pending(job[x].other, job[x].me)'
               PROVE  <<job[x].other, job[x].me>> \in astray'
    BY <1>1 DEF Deleted
  <2>1. job[x].me \in Users /\ job[x].other \in Users
    BY <1>2 DEF JobOK
  <2>2. Accepted(job[x].other, job[x].me)
    BY DEF Accepted, Accepting
  <2>3. CASE Asking(job[t], job[x].other, job[x].me)
    BY <2>2, <2>3 DEF RefInv, FirstAsked, Asking
  <2>4. CASE Pending(job[x].other, job[x].me)
    BY <2>4 DEF RefInv, Deleted
  <2> QED  BY <2>1, <2>3, <2>4
<1> QED  BY <1>5, <1>6 DEF RefInv

\* The case in which only the job changes.
LEMMA RefQuiet ==
    ASSUME RefInv, Inv', NEW t \in Threads, NEW j, job' = [job EXCEPT ![t] = j],
           UNCHANGED <<friend, FriendRequest, pages>>,
           j.pc = "updateSender" => ~Lists(j.me, j.other) /\ j.me \in Users,
           j.pc \in {"selectRequest", "insertRequest"} =>
               /\ ~Pending(j.me, j.other)
               /\ Row(j.me, j.other) \notin Rows
               /\ Accepted(j.me, j.other) => <<j.me, j.other>> \in astray,
           j.pc \in {"selectReceiver", "updateReceiver"} =>
               ~Pending(j.other, j.me) \/ <<j.other, j.me>> \in astray,
           \A s, r : Accepting(j, s, r) => Accepting(job[t], s, r)
    PROVE  RefInv'
<1>1. \A u, v : (Lists(u, v)' <=> Lists(u, v)) /\ (Pending(u, v)' <=> Pending(u, v))
  BY DEF Lists, Pending
<1>2. \A x \in Threads : job'[x] = IF x = t THEN j ELSE job[x]
  BY DEF RefInv, Inv, TypeInv, ServerType
<1>3. \A s, r : Accepted(s, r)' => Accepted(s, r)
  BY <1>2 DEF Accepted
<1>4. Rows' = Rows /\ astray' = astray
  BY DEF pages, page, Rows
<1> QED  BY <1>1, <1>3, <1>4, RefStep

LEMMA StepRef ==
    ASSUME Overlap = FALSE, RefInv, NEW t \in Threads, Step(t)
    PROVE  RefInv'
<1>0. Inv' /\ TypeInv /\ JobOK(job[t]) /\ job[t] \in Job
  BY StepInv DEF RefInv, Inv, TypeInv, ServerType
<1>9. UNCHANGED pages /\ Rows' = Rows /\ astray' = astray
  <2>1. UNCHANGED pages
    BY <1>0, StepType DEF TypeInv
  <2> QED  BY <2>1 DEF pages, page, Rows
<1>1. CASE SelectFriend(t)
  <2> DEFINE j == IF job[t].other \in Users THEN [job[t] EXCEPT !.pc = "selectSender"]
                                            ELSE Idle
  <2>1. j.pc \in {"idle", "selectSender"}
    BY <1>0 DEF Idle, Job
  <2>2. job' = [job EXCEPT ![t] = j] /\ UNCHANGED <<friend, FriendRequest, pages>>
    BY <1>1 DEF SelectFriend
  <2> HIDE DEF j
  <2> QED  BY <1>0, <2>1, <2>2, RefQuiet DEF Accepting
<1>2. CASE SelectSender(t)
  <2> DEFINE j == IF job[t].other \in ToSet(friend[job[t].me])
                  THEN Idle
                  ELSE [job[t] EXCEPT !.pc = "updateSender",
                                      !.old_friend = friend[job[t].me]]
  <2>1. \/ j.pc = "idle"
        \/ /\ j.pc = "updateSender" /\ j.me = job[t].me /\ j.other = job[t].other
           /\ ~Lists(job[t].me, job[t].other)
    BY <1>0 DEF Idle, Job, Lists
  <2>2. job' = [job EXCEPT ![t] = j] /\ UNCHANGED <<friend, FriendRequest, pages>>
    BY <1>2 DEF SelectSender
  <2>3. job[t].me \in Users
    BY <1>0, <1>2 DEF JobOK, SelectSender
  <2> HIDE DEF j
  <2> QED  BY <1>0, <2>1, <2>2, <2>3, RefQuiet DEF Accepting
<1>3. CASE UpdateSender(t)
  <2> PICK u, v : u = job[t].me /\ v = job[t].other
    OBVIOUS
  <2> DEFINE j == [job[t] EXCEPT !.pc = "selectRequest"]
  <2>1. j.pc = "selectRequest" /\ j.me = u /\ j.other = v
    BY <1>0 DEF Job
  <2>2. /\ job' = [job EXCEPT ![t] = j] /\ job[t].pc = "updateSender"
        /\ UNCHANGED FriendRequest
    BY <1>3 DEF UpdateSender
  <2>3. u \in Users /\ v \in Users /\ ~Lists(u, v)
    BY <1>0, <2>2 DEF JobOK, RefInv, FirstAsked
  <2>4. ~Pending(u, v) /\ Row(u, v) \notin Rows
    BY <2>3 DEF RefInv, Inv, RequestsListed, Pending, Row
  <2>5. Accepted(u, v)' => <<u, v>> \in astray
    <3>1. \A x \in Threads : Accepting(job[x], u, v) => <<u, v>> \in astray
      BY <2>3 DEF RefInv, Inv, StepsListed, Accepting
    <3>2. \A x \in Threads : job'[x] = IF x = t THEN j ELSE job[x]
      BY <1>0, <2>2 DEF TypeInv, ServerType
    <3> HIDE DEF j
    <3>3. ~Accepting(j, u, v)
      BY <2>1 DEF Accepting
    <3> QED  BY <3>1, <3>2, <3>3 DEF Accepted
  <2>6. \A a \in Users, b \in Users : /\ Lists(a, b)' => Lists(a, b) \/ a = u
                                      /\ Pending(a, b)' <=> Pending(a, b)
    BY <1>0, <1>3 DEF UpdateSender, TypeInv, ServerType, Lists, Pending
  <2>7. ~Pending(u, v)'
    BY <2>3, <2>4, <2>6
  <2> HIDE DEF j
  <2> QED  BY <1>0, <1>9, <2>1, <2>2, <2>4, <2>5, <2>6, <2>7, RefStep DEF Accepting
<1>4. CASE SelectRequest(t)
  <2> DEFINE j == IF Pending(job[t].me, job[t].other)
                  THEN Idle
                  ELSE [job[t] EXCEPT !.pc = "insertRequest"]
  <2>1. \/ j.pc = "idle"
        \/ j.pc = "insertRequest" /\ j.me = job[t].me /\ j.other = job[t].other
    BY <1>0 DEF Idle, Job
  <2>2. /\ job' = [job EXCEPT ![t] = j] /\ job[t].pc = "selectRequest"
        /\ UNCHANGED <<friend, FriendRequest, pages>>
    BY <1>4 DEF SelectRequest
  <2> HIDE DEF j
  <2> QED  BY <1>0, <2>1, <2>2, RefQuiet DEF RefInv, FirstAsked, Accepting
<1>5. CASE InsertRequest(t)
  <2>1. /\ job' = [job EXCEPT ![t] = Idle] /\ job[t].pc = "insertRequest" /\ Idle.pc = "idle"
        /\ UNCHANGED friend
    BY <1>5 DEF InsertRequest, Idle
  <2>2. BagToSet(FriendRequest') = BagToSet(FriendRequest) \union {Row(job[t].me, job[t].other)}
    BY <1>5, InBagAdd DEF InsertRequest
  <2>3. \A u \in Users, v \in Users : Pending(u, v)' => Pending(u, v) \/ Asking(job[t], u, v)
    BY <2>1, <2>2 DEF Pending, Row, Asking
  <2>4. \A u \in Users, v \in Users : Lists(u, v)' <=> Lists(u, v)
    BY <2>1 DEF Lists
  <2> QED  BY <1>0, <1>9, <2>1, <2>3, <2>4, RefStep DEF Accepting
<1>6. CASE DeleteRequest(t)
  <2> PICK u, v : u = job[t].me /\ v = job[t].other
    OBVIOUS
  <2> DEFINE j == [job[t] EXCEPT !.pc = "selectReceiver"]
  <2>1. j.pc = "selectReceiver" /\ j.me = u /\ j.other = v
    BY <1>0 DEF Job
  <2>2. /\ job' = [job EXCEPT ![t] = j] /\ job[t].pc = "deleteRequest"
        /\ UNCHANGED friend
    BY <1>6 DEF DeleteRequest
  <2>3. BagToSet(FriendRequest') = BagToSet(FriendRequest) \ {Row(v, u)}
    BY <1>6 DEF DeleteRequest, Without, BagToSet
  <2>4. /\ \A a \in Users, b \in Users : /\ Pending(a, b)' => Pending(a, b)
                                         /\ Lists(a, b)' <=> Lists(a, b)
        /\ ~Pending(v, u)'
    BY <2>2, <2>3 DEF Pending, Lists
  <2> HIDE DEF j
  <2>5. \A a, b \in Users : Accepting(j, a, b) => Accepting(job[t], a, b)
    BY <2>1, <2>2 DEF Accepting
  <2> QED  BY <1>0, <1>9, <2>1, <2>2, <2>4, <2>5, RefStep
<1>7. CASE SelectReceiver(t)
  <2> DEFINE j == [job[t] EXCEPT !.pc = "updateReceiver", !.old_friend = friend[job[t].me]]
  <2>1. j.pc = "updateReceiver" /\ j.me = job[t].me /\ j.other = job[t].other
    BY <1>0 DEF Job
  <2>2. /\ job' = [job EXCEPT ![t] = j] /\ job[t].pc = "selectReceiver"
        /\ UNCHANGED <<friend, FriendRequest, pages>>
    BY <1>7 DEF SelectReceiver
  <2> HIDE DEF j
  <2> QED  BY <1>0, <2>1, <2>2, RefQuiet DEF RefInv, Deleted, Accepting
<1>8. CASE UpdateReceiver(t)
  <2>1. /\ job' = [job EXCEPT ![t] = Idle] /\ Idle.pc = "idle"
        /\ UNCHANGED FriendRequest
    BY <1>8 DEF UpdateReceiver, Idle
  <2>2. \A a \in Users, b \in Users : /\ Lists(a, b)' => Lists(a, b) \/ a = job[t].me
                                      /\ Pending(a, b)' <=> Pending(a, b)
    BY <1>0, <1>8 DEF UpdateReceiver, TypeInv, ServerType, Lists, Pending
  <2> QED  BY <1>0, <1>9, <2>1, <2>2, RefStep DEF Accepting
<1> QED  BY <1>1, <1>2, <1>3, <1>4, <1>5, <1>6, <1>7, <1>8 DEF Step

LEMMA NextRef ==
    ASSUME Overlap = FALSE, RefInv, [Next]_vars
    PROVE  RefInv'
<1>0. Inv' /\ Inv /\ TypeInv
  BY NextInv DEF RefInv, Inv
<1>1. ASSUME NEW t \in Threads, Step(t)
      PROVE  RefInv'
  BY <1>1, StepRef
<1>2. ASSUME NEW t \in Threads, Fail(t)
      PROVE  RefInv'
  BY <1>0, <1>2, RefQuiet DEF Fail, Idle, Accepting
<1>3. ASSUME NEW t \in Threads, NEW d \in Devices, NEW name \in Names, AddFriendClick(t, d, name)
      PROVE  RefInv'
  <2> DEFINE j == [Idle EXCEPT !.pc = "selectFriend", !.me = LoggedInUser[d], !.other = name]
  <2>1. j.pc = "selectFriend"
    BY DEF Idle
  <2>2. job' = [job EXCEPT ![t] = j] /\ UNCHANGED <<friend, FriendRequest, pages>>
    BY <1>3 DEF AddFriendClick, Accept
  <2> HIDE DEF j
  <2> QED  BY <1>0, <2>1, <2>2, RefQuiet DEF Accepting
<1>4. ASSUME NEW t \in Threads, NEW d \in Devices, NEW i \in DOMAIN cells[d],
             AcceptRequest(t, d, i)
      PROVE  RefInv'
  <2> PICK row, user : row = cells[d][i] /\ user = LoggedInUser[d]
    OBVIOUS
  <2> DEFINE j == [Idle EXCEPT !.pc = "deleteRequest", !.me = user, !.other = row.Sender]
  <2>1. j.pc = "deleteRequest" /\ j.me = user /\ j.other = row.Sender
    BY DEF Idle
  <2>2. /\ job' = [job EXCEPT ![t] = j] /\ UNCHANGED <<friend, FriendRequest>>
        /\ astray' = astray \union {p \in {<<row.Sender, user>>} : row.Receiver # user}
    BY <1>4 DEF AcceptRequest, Accept
  <2>3. /\ Rows' \subseteq Rows /\ row \in Rows
        /\ row = Row(row.Sender, row.Receiver)
    BY <1>0, <1>4, CellUser, AcceptRequestType, RowsFewer DEF TypeInv, Request, Row
  <2>4. \A a, b : (Lists(a, b)' <=> Lists(a, b)) /\ (Pending(a, b)' <=> Pending(a, b))
    BY <2>2 DEF Lists, Pending
  <2> HIDE DEF j
  <2>5. ASSUME NEW a \in Users, NEW b \in Users, Accepting(j, a, b)
        PROVE  Row(a, b) \in Rows \/ <<a, b>> \in astray'
    BY <2>1, <2>2, <2>3, <2>5 DEF Accepting
  <2>6. astray \subseteq astray'
    BY <2>2
  <2>7. \A a \in Users, b \in Users : /\ Lists(a, b)' => Lists(a, b) \/ a = job[t].me
                                      /\ Pending(a, b)' => Pending(a, b) \/ Asking(job[t], a, b)
    BY <2>4
  <2>8. \A a, b \in Users :
            Accepting(j, a, b) =>
                Accepting(job[t], a, b) \/ Row(a, b) \in Rows \/ <<a, b>> \in astray'
    BY <2>5
  <2>9. job' = [job EXCEPT ![t] = j] /\ Rows' \subseteq Rows
    BY <2>2, <2>3
  <2> QED  BY <1>0, <2>1, <2>6, <2>7, <2>8, <2>9, RefStep
<1>5. ASSUME UNCHANGED <<servers, astray>>, Rows' \subseteq Rows \union BagToSet(FriendRequest)
      PROVE  RefInv'
  <2>0. UNCHANGED <<friend, FriendRequest, job, astray>>
    BY <1>5 DEF servers
  <2>1. \A u, v : /\ Lists(u, v)' <=> Lists(u, v)
                  /\ Pending(u, v)' <=> Pending(u, v)
                  /\ Accepted(u, v)' <=> Accepted(u, v)
    BY <2>0 DEF Lists, Pending, Accepted
  <2>2. \A u, v : ~Pending(u, v) /\ Row(u, v) \notin Rows => Row(u, v) \notin Rows'
    BY <1>5 DEF Pending
  <2>3. FirstAsked'
    BY <2>0, <2>1, <2>2 DEF RefInv, FirstAsked
  <2>4. Deleted'
    BY <2>0, <2>1 DEF RefInv, Deleted
  <2> QED  BY <1>0, <2>3, <2>4 DEF RefInv
<1>6. ASSUME NEW d \in Devices, Move(d)
      PROVE  RefInv'
  BY <1>0, <1>5, <1>6, MoveType, RowsFewer DEF TypeInv
<1>7. ASSUME NEW load \in loads, PullFriendRequest(load) \/ Arrive(load)
      PROVE  RefInv'
  BY <1>0, <1>5, <1>7, PullType, ArriveType DEF TypeInv
<1>8. CASE UNCHANGED vars
  <2>1. UNCHANGED <<servers, astray>> /\ Rows' = Rows
    BY <1>8 DEF vars, pages, page, Rows
  <2> QED  BY <1>5, <2>1
<1> QED  BY <1>1, <1>2, <1>3, <1>4, <1>6, <1>7, <1>8 DEF Next, Send

\* What Friendships sees of a job: the request it makes wait.
LEMMA PairsStep ==
    ASSUME TypeInv, TypeInv', NEW t \in Threads, NEW j, job' = [job EXCEPT ![t] = j],
           \A s, r \in Users :
               /\ Accepting(j, s, r) <=> Accepting(job[t], s, r)
               /\ (Pending(s, r)' \/ Asking(j, s, r) \/ Accepting(j, s, r)) <=>
                      (Pending(s, r) \/ Asking(job[t], s, r) \/ Accepting(job[t], s, r))
    PROVE  AllAsked' = AllAsked /\ AllAccepted' = AllAccepted
<1>1. \A x \in Threads : job'[x] = IF x = t THEN j ELSE job[x]
  BY DEF TypeInv, ServerType
<1>2. \A s, r \in Users : Accepted(s, r)' <=> Accepted(s, r)
  BY <1>1 DEF Accepted
<1>3. ASSUME NEW s \in Users, NEW r \in Users
      PROVE  Asked(s, r)' <=> Asked(s, r)
  <2>1. Asked(s, r)' <=> \/ Pending(s, r)' \/ Asking(j, s, r) \/ Accepting(j, s, r)
                         \/ \E x \in Threads \ {t} : Asking(job[x], s, r) \/ Accepting(job[x], s, r)
    BY <1>1 DEF Asked, Accepted
  <2>2. Asked(s, r) <=> \/ Pending(s, r) \/ Asking(job[t], s, r) \/ Accepting(job[t], s, r)
                        \/ \E x \in Threads \ {t} : Asking(job[x], s, r) \/ Accepting(job[x], s, r)
    BY DEF Asked, Accepted
  <2> QED  BY <2>1, <2>2
<1> DEFINE asked    == AllAsked
           accepted == AllAccepted
<1>4. /\ asked \in SUBSET (Users \X Users) /\ accepted \in SUBSET (Users \X Users)
      /\ \A s, r \in Users : Asked(s, r)' <=> <<s, r>> \in asked
      /\ \A s, r \in Users : Accepted(s, r)' <=> <<s, r>> \in accepted
  BY <1>2, <1>3, PairsAre
<1> HIDE DEF asked, accepted
<1>5. AllAsked' = asked /\ AllAccepted' = accepted
  BY <1>4, PairsChange
<1> QED  BY <1>5 DEF asked, accepted

LEMMA QuietStep ==
    ASSUME TypeInv, TypeInv', NEW t \in Threads, NEW j, job' = [job EXCEPT ![t] = j],
           UNCHANGED <<friend, pages, failed>>,
           \A s, r \in Users :
               /\ Accepting(j, s, r) <=> Accepting(job[t], s, r)
               /\ (Pending(s, r)' \/ Asking(j, s, r) \/ Accepting(j, s, r)) <=>
                      (Pending(s, r) \/ Asking(job[t], s, r) \/ Accepting(job[t], s, r))
    PROVE  UNCHANGED Abstract!vars
<1>1. AllAsked' = AllAsked /\ AllAccepted' = AllAccepted
  BY PairsStep
<1> QED  BY <1>1 DEF Abstract!vars, pages

\* The statements that Friendships does not see.
LEMMA StatementsQuiet ==
    ASSUME RefInv, TypeInv', NEW t \in Threads,
           \/ SelectFriend(t) \/ SelectSender(t) \/ SelectRequest(t)
           \/ InsertRequest(t) \/ DeleteRequest(t) \/ SelectReceiver(t)
    PROVE  UNCHANGED Abstract!vars
<1>0. TypeInv /\ JobOK(job[t]) /\ job[t] \in Job
  BY DEF RefInv, Inv, TypeInv, ServerType
<1>1. CASE SelectFriend(t)
  <2> DEFINE j == IF job[t].other \in Users THEN [job[t] EXCEPT !.pc = "selectSender"]
                                            ELSE Idle
  <2>1. j.pc \in {"idle", "selectSender"} /\ job[t].pc = "selectFriend"
    BY <1>0, <1>1 DEF Idle, Job, SelectFriend
  <2>2. /\ job' = [job EXCEPT ![t] = j]
        /\ UNCHANGED <<friend, FriendRequest, pages, failed>>
    BY <1>1 DEF SelectFriend
  <2> HIDE DEF j
  <2> QED  BY <1>0, <2>1, <2>2, QuietStep DEF Asking, Accepting, Pending
<1>2. CASE SelectSender(t)
  <2> DEFINE j == IF job[t].other \in ToSet(friend[job[t].me])
                  THEN Idle
                  ELSE [job[t] EXCEPT !.pc = "updateSender",
                                      !.old_friend = friend[job[t].me]]
  <2>1. j.pc \in {"idle", "updateSender"} /\ job[t].pc = "selectSender"
    BY <1>0, <1>2 DEF Idle, Job, SelectSender
  <2>2. /\ job' = [job EXCEPT ![t] = j]
        /\ UNCHANGED <<friend, FriendRequest, pages, failed>>
    BY <1>2 DEF SelectSender
  <2> HIDE DEF j
  <2> QED  BY <1>0, <2>1, <2>2, QuietStep DEF Asking, Accepting, Pending
<1>3. CASE SelectRequest(t)
  <2> DEFINE j == IF Pending(job[t].me, job[t].other)
                  THEN Idle
                  ELSE [job[t] EXCEPT !.pc = "insertRequest"]
  <2>1. /\ job[t].pc = "selectRequest" /\ j.pc = "insertRequest"
        /\ j.me = job[t].me /\ j.other = job[t].other
    BY <1>0, <1>3 DEF Job, SelectRequest, RefInv, FirstAsked
  <2>2. /\ job' = [job EXCEPT ![t] = j]
        /\ UNCHANGED <<friend, FriendRequest, pages, failed>>
    BY <1>3 DEF SelectRequest
  <2> HIDE DEF j
  <2> QED  BY <1>0, <2>1, <2>2, QuietStep DEF Asking, Accepting, Pending
<1>4. CASE InsertRequest(t)
  <2>1. /\ job' = [job EXCEPT ![t] = Idle] /\ job[t].pc = "insertRequest" /\ Idle.pc = "idle"
        /\ UNCHANGED <<friend, pages, failed>>
    BY <1>4 DEF InsertRequest, Idle
  <2>2. BagToSet(FriendRequest') = BagToSet(FriendRequest) \union {Row(job[t].me, job[t].other)}
    BY <1>4, InBagAdd DEF InsertRequest
  <2>3. \A s, r \in Users : Pending(s, r)' <=> Pending(s, r) \/ Asking(job[t], s, r)
    BY <2>1, <2>2 DEF Pending, Row, Asking
  <2>4. \A s, r \in Users : /\ ~Asking(Idle, s, r) /\ ~Accepting(Idle, s, r)
                            /\ ~Accepting(job[t], s, r)
    BY <2>1 DEF Asking, Accepting
  <2> QED  BY <1>0, <2>1, <2>3, <2>4, QuietStep
<1>5. CASE DeleteRequest(t)
  <2> DEFINE j == [job[t] EXCEPT !.pc = "selectReceiver"]
  <2>1. /\ j.pc = "selectReceiver" /\ j.me = job[t].me /\ j.other = job[t].other
        /\ job[t].pc = "deleteRequest"
    BY <1>0, <1>5 DEF Job, DeleteRequest
  <2>2. /\ job' = [job EXCEPT ![t] = j]
        /\ UNCHANGED <<friend, pages, failed>>
    BY <1>5 DEF DeleteRequest
  <2>3. BagToSet(FriendRequest') = BagToSet(FriendRequest) \ {Row(job[t].other, job[t].me)}
    BY <1>5 DEF DeleteRequest, Without, BagToSet
  <2> HIDE DEF j
  <2>4. \A s, r \in Users : /\ Pending(s, r)' <=> Pending(s, r) /\ ~Accepting(job[t], s, r)
                            /\ Accepting(j, s, r) <=> Accepting(job[t], s, r)
                            /\ ~Asking(j, s, r) /\ ~Asking(job[t], s, r)
    BY <2>1, <2>3 DEF Pending, Row, Accepting, Asking
  <2> QED  BY <1>0, <2>2, <2>4, QuietStep
<1>6. CASE SelectReceiver(t)
  <2> DEFINE j == [job[t] EXCEPT !.pc = "updateReceiver", !.old_friend = friend[job[t].me]]
  <2>1. /\ j.pc = "updateReceiver" /\ j.me = job[t].me /\ j.other = job[t].other
        /\ job[t].pc = "selectReceiver"
    BY <1>0, <1>6 DEF Job, SelectReceiver
  <2>2. /\ job' = [job EXCEPT ![t] = j]
        /\ UNCHANGED <<friend, FriendRequest, pages, failed>>
    BY <1>6 DEF SelectReceiver
  <2> HIDE DEF j
  <2>3. \A s, r \in Users : /\ Accepting(j, s, r) <=> Accepting(job[t], s, r)
                            /\ ~Asking(j, s, r) /\ ~Asking(job[t], s, r)
                            /\ Pending(s, r)' <=> Pending(s, r)
    BY <2>1, <2>2 DEF Asking, Accepting, Pending
  <2> QED  BY <1>0, <2>2, <2>3, QuietStep
<1> QED  BY <1>1, <1>2, <1>3, <1>4, <1>5, <1>6

\* A thread that ends, and what it made wait.
LEMMA EndStep ==
    ASSUME RefInv, TypeInv', NEW t \in Threads, job' = [job EXCEPT ![t] = Idle],
           UNCHANGED FriendRequest, NEW s \in Users, NEW r \in Users,
           Asking(job[t], s, r) \/ Accepting(job[t], s, r)
    PROVE  /\ <<s, r>> \in AllAsked
           /\ AllAccepted' = IF Accepted(s, r)' THEN AllAccepted ELSE AllAccepted \ {<<s, r>>}
           /\ AllAsked' = IF Asked(s, r)' THEN AllAsked ELSE AllAsked \ {<<s, r>>}
<1>1. \A x \in Threads : job'[x] = IF x = t THEN Idle ELSE job[x]
  BY DEF RefInv, Inv, TypeInv, ServerType
<1>2. \A a, b \in Users : ~Asking(Idle, a, b) /\ ~Accepting(Idle, a, b)
  BY DEF Asking, Accepting, Idle
<1>3. \A a, b \in Users : (Asking(job[t], a, b) \/ Accepting(job[t], a, b)) => a = s /\ b = r
  BY DEF Asking, Accepting
<1>4. \A a, b \in Users : Pending(a, b)' <=> Pending(a, b)
  BY DEF Pending
<1>5. Asked(s, r)
  BY DEF Asked, Accepted
<1>6. Accepted(s, r)' => Accepted(s, r)
  BY <1>1, <1>2 DEF Accepted
<1>7. \A a, b \in Users : ~(a = s /\ b = r) => (Accepted(a, b)' <=> Accepted(a, b))
  BY <1>1, <1>2, <1>3 DEF Accepted
<1>8. \A a, b \in Users : ~(a = s /\ b = r) => (Asked(a, b)' <=> Asked(a, b))
  <2>1. \A a, b \in Users : ~(a = s /\ b = r) =>
            ((\E x \in Threads : Asking(job'[x], a, b)) <=>
             (\E x \in Threads : Asking(job[x], a, b)))
    BY <1>1, <1>2, <1>3
  <2> QED  BY <1>4, <1>7, <2>1 DEF Asked
<1> DEFINE asked    == IF Asked(s, r)' THEN AllAsked ELSE AllAsked \ {<<s, r>>}
           accepted == IF Accepted(s, r)' THEN AllAccepted ELSE AllAccepted \ {<<s, r>>}
<1>9. /\ AllAsked \subseteq Users \X Users /\ AllAccepted \subseteq Users \X Users
      /\ \A a, b \in Users : /\ Asked(a, b) <=> <<a, b>> \in AllAsked
                             /\ Accepted(a, b) <=> <<a, b>> \in AllAccepted
  BY PairsAre DEF RefInv, Inv
<1>10. \A a, b \in Users : Asked(a, b)' <=> <<a, b>> \in asked
  BY <1>5, <1>8, <1>9
<1>11. \A a, b \in Users : Accepted(a, b)' <=> <<a, b>> \in accepted
  BY <1>6, <1>7, <1>9
<1>12. asked \in SUBSET (Users \X Users) /\ accepted \in SUBSET (Users \X Users)
  BY <1>9
<1> HIDE DEF asked, accepted
<1>13. AllAsked' = asked /\ AllAccepted' = accepted
  BY <1>10, <1>11, <1>12, PairsChange DEF RefInv, Inv
<1> QED  BY <1>5, <1>9, <1>13 DEF asked, accepted

LEMMA AskStep ==
    ASSUME RefInv, TypeInv', NEW t \in Threads, UpdateSender(t)
    PROVE  \E u, v \in Users : Abstract!Ask(u, v)
<1> PICK u, v : u = job[t].me /\ v = job[t].other
  OBVIOUS
<1> DEFINE j == [job[t] EXCEPT !.pc = "selectRequest"]
<1>1. TypeInv /\ JobOK(job[t]) /\ job[t] \in Job
  BY DEF RefInv, Inv, TypeInv, ServerType
<1>2. /\ job[t].pc = "updateSender" /\ job' = [job EXCEPT ![t] = j]
      /\ UNCHANGED <<FriendRequest, astray, failed>>
  BY DEF UpdateSender, pages
<1>3. j.pc = "selectRequest" /\ j.me = u /\ j.other = v
  BY <1>1 DEF Job
<1>4. u \in Users /\ v \in Users /\ ~Lists(u, v)
  BY <1>1, <1>2 DEF JobOK, RefInv, FirstAsked
<1>5. friend' = [friend EXCEPT ![u] = Append(friend[u], v)]
  BY <1>2 DEF UpdateSender, RefInv, Inv, ReadFresh
<1>6. \A x \in Threads : job'[x] = IF x = t THEN j ELSE job[x]
  BY <1>1, <1>2 DEF TypeInv, ServerType
<1> HIDE DEF j
<1>7. \A s, r \in Users : /\ Asking(j, s, r) <=> s = u /\ r = v
                          /\ ~Asking(job[t], s, r)
                          /\ ~Accepting(j, s, r) /\ ~Accepting(job[t], s, r)
                          /\ Pending(s, r)' <=> Pending(s, r)
  BY <1>2, <1>3 DEF Asking, Accepting, Pending
<1>8. \A s, r \in Users : Accepted(s, r)' <=> Accepted(s, r)
  BY <1>6, <1>7 DEF Accepted
<1>9. \A s, r \in Users : Asked(s, r)' <=> Asked(s, r) \/ (s = u /\ r = v)
  <2>1. \A s, r \in Users : (\E x \in Threads : Asking(job'[x], s, r)) <=>
                            (\E x \in Threads : Asking(job[x], s, r)) \/ (s = u /\ r = v)
    BY <1>6, <1>7
  <2> QED  BY <1>7, <1>8, <2>1 DEF Asked
<1>10. AllAsked' = AllAsked \union {<<u, v>>} /\ AllAccepted' = AllAccepted
  <2> DEFINE asked    == AllAsked \union {<<u, v>>}
             accepted == AllAccepted
  <2>1. /\ asked \in SUBSET (Users \X Users) /\ accepted \in SUBSET (Users \X Users)
        /\ \A s, r \in Users : Asked(s, r)' <=> <<s, r>> \in asked
        /\ \A s, r \in Users : Accepted(s, r)' <=> <<s, r>> \in accepted
    BY <1>1, <1>4, <1>8, <1>9, PairsAre
  <2> HIDE DEF asked, accepted
  <2>2. AllAsked' = asked /\ AllAccepted' = accepted
    BY <1>1, <2>1, PairsChange
  <2> QED  BY <2>2 DEF asked, accepted
<1>11. Abstract!Ask(u, v)
  BY <1>2, <1>4, <1>5, <1>10 DEF Abstract!Ask, Abstract!ToSet, Lists, ToSet
<1> QED  BY <1>4, <1>11

\* A confirm of a request that strayed may find its sender asking just then.
LEMMA ConfirmAbstract ==
    ASSUME RefInv, TypeInv', NEW t \in Threads, UpdateReceiver(t)
    PROVE  \E p \in AllAccepted : Abstract!Confirm(p[2], p[1])
<1> PICK u \in Users, v \in Users : u = job[t].me /\ v = job[t].other
  BY DEF RefInv, Inv, TypeInv, ServerType, JobOK, UpdateReceiver
<1>1. /\ job[t].pc = "updateReceiver" /\ job' = [job EXCEPT ![t] = Idle]
      /\ UNCHANGED <<FriendRequest, astray, failed>>
  BY DEF UpdateReceiver, pages
<1>2. TypeInv
  BY DEF RefInv, Inv
<1>3. friend' = [friend EXCEPT ![u] = Append(friend[u], v)]
  BY <1>1 DEF UpdateReceiver, RefInv, Inv, ReadFresh
<1>4. Accepting(job[t], v, u) /\ Accepted(v, u)
  BY <1>1 DEF Accepting, Accepted
<1>5. /\ <<v, u>> \in AllAsked
      /\ AllAccepted' = IF Accepted(v, u)' THEN AllAccepted ELSE AllAccepted \ {<<v, u>>}
      /\ AllAsked' = IF Asked(v, u)' THEN AllAsked ELSE AllAsked \ {<<v, u>>}
  <2>1. Asking(job[t], v, u) \/ Accepting(job[t], v, u)
    BY <1>4
  <2>2. ASSUME NEW s \in Users, NEW r \in Users, Asking(job[t], s, r) \/ Accepting(job[t], s, r)
        PROVE  /\ <<s, r>> \in AllAsked
               /\ AllAccepted' = IF Accepted(s, r)' THEN AllAccepted ELSE AllAccepted \ {<<s, r>>}
               /\ AllAsked' = IF Asked(s, r)' THEN AllAsked ELSE AllAsked \ {<<s, r>>}
    BY <1>1, <2>2, EndStep
  <2> QED  BY <2>1, <2>2
<1>6. \A x \in Threads : job'[x] = IF x = t THEN Idle ELSE job[x]
  BY <1>1, <1>2 DEF TypeInv, ServerType
<1>7. ~Asking(Idle, v, u) /\ ~Accepting(Idle, v, u)
  BY DEF Asking, Accepting, Idle
<1>8. ~Accepted(v, u)'
  <2>1. \A x \in Threads \ {t} : ~Accepting(job[x], v, u)
    BY <1>1 DEF RefInv, Inv, Apart, Accepting
  <2> QED  BY <1>6, <1>7, <2>1 DEF Accepted
<1>9. Asked(v, u)' => <<v, u>> \in astray
  <2>1. CASE Pending(v, u)'
    BY <1>1, <2>1 DEF Pending, RefInv, Deleted
  <2>2. CASE \E x \in Threads : Asking(job'[x], v, u)
    BY <1>4, <1>6, <1>7, <2>2 DEF Asking, RefInv, FirstAsked
  <2> QED  BY <1>8, <2>1, <2>2 DEF Asked
<1>10. <<v, u>> \in AllAccepted
  BY <1>2, <1>4, PairsAre
<1>11. Abstract!Confirm(u, v)
  BY <1>1, <1>3, <1>5, <1>8, <1>9 DEF Abstract!Confirm
<1> QED  BY <1>10, <1>11

LEMMA AcceptAbstract ==
    ASSUME RefInv, NEW t \in Threads, NEW d \in Devices, NEW i \in DOMAIN cells[d],
           AcceptRequest(t, d, i)
    PROVE  \E s, r \in Users : \E v \in ToSet(friend[s]) : Abstract!Accept(r, s, v)
<1> PICK row, user : row = cells[d][i] /\ user = LoggedInUser[d]
  OBVIOUS
<1> PICK s, v : s = row.Sender /\ v = row.Receiver
  OBVIOUS
<1> DEFINE j == [Idle EXCEPT !.pc = "deleteRequest", !.me = user, !.other = s]
<1>1. TypeInv /\ TypeInv'
  BY AcceptRequestType DEF RefInv, Inv
<1>2. row \in Rows /\ s \in Users /\ user \in Users
  BY <1>1, CellUser DEF TypeInv, Request
<1>3. v \in ToSet(friend[s])
  BY <1>2 DEF RefInv, Inv, RequestsListed, Lists
<1>4. /\ job[t].pc = "idle" /\ job' = [job EXCEPT ![t] = j]
      /\ UNCHANGED <<friend, FriendRequest, failed>>
      /\ astray' = astray \union {p \in {<<s, user>>} : v # user}
  BY DEF AcceptRequest, Accept
<1>5. j.pc = "deleteRequest" /\ j.me = user /\ j.other = s
  BY DEF Idle
<1>6. \A x \in Threads : job'[x] = IF x = t THEN j ELSE job[x]
  BY <1>1, <1>4 DEF TypeInv, ServerType
<1> HIDE DEF j
<1>7. \A a, b \in Users : /\ Accepting(j, a, b) <=> a = s /\ b = user
                          /\ ~Accepting(job[t], a, b)
                          /\ ~Asking(j, a, b) /\ ~Asking(job[t], a, b)
                          /\ Pending(a, b)' <=> Pending(a, b)
  BY <1>4, <1>5 DEF Asking, Accepting, Pending
<1>8. \A a, b \in Users : Accepted(a, b)' <=> Accepted(a, b) \/ (a = s /\ b = user)
  BY <1>6, <1>7 DEF Accepted
<1>9. \A a, b \in Users : Asked(a, b)' <=> Asked(a, b) \/ (a = s /\ b = user)
  <2>1. \A a, b \in Users : (\E x \in Threads : Asking(job'[x], a, b)) <=>
                            (\E x \in Threads : Asking(job[x], a, b))
    BY <1>6, <1>7
  <2> QED  BY <1>7, <1>8, <2>1 DEF Asked
<1>10. /\ AllAsked' = AllAsked \union {<<s, user>>}
       /\ AllAccepted' = AllAccepted \union {<<s, user>>}
  <2> DEFINE asked    == AllAsked \union {<<s, user>>}
             accepted == AllAccepted \union {<<s, user>>}
  <2>1. /\ asked \in SUBSET (Users \X Users) /\ accepted \in SUBSET (Users \X Users)
        /\ \A a, b \in Users : Asked(a, b)' <=> <<a, b>> \in asked
        /\ \A a, b \in Users : Accepted(a, b)' <=> <<a, b>> \in accepted
    BY <1>1, <1>2, <1>8, <1>9, PairsAre
  <2> HIDE DEF asked, accepted
  <2>2. AllAsked' = asked /\ AllAccepted' = accepted
    BY <1>1, <2>1, PairsChange
  <2> QED  BY <2>2 DEF asked, accepted
<1>11. Abstract!Accept(user, s, v)
  BY <1>4, <1>10 DEF Abstract!Accept
<1> QED  BY <1>2, <1>3, <1>11

\* A statement that fails loses what only its thread made wait.
LEMMA FailAbstract ==
    ASSUME RefInv, TypeInv', NEW t \in Threads, Fail(t)
    PROVE  Abstract!Fail
<1>1. /\ MayFail /\ failed' = TRUE /\ job' = [job EXCEPT ![t] = Idle]
      /\ UNCHANGED <<friend, FriendRequest, astray>>
  BY DEF Fail, pages
<1>2. SUFFICES \E lost \in {{}} \union {{p} : p \in AllAsked} :
                   /\ AllAsked' \in {AllAsked, AllAsked \ lost}
                   /\ AllAccepted' = AllAccepted \ lost
  BY <1>1 DEF Abstract!Fail
<1>3. CASE \E s, r \in Users : Asking(job[t], s, r) \/ Accepting(job[t], s, r)
  <2> PICK s \in Users, r \in Users : Asking(job[t], s, r) \/ Accepting(job[t], s, r)
    BY <1>3
  <2>1. /\ <<s, r>> \in AllAsked
        /\ AllAccepted' = IF Accepted(s, r)' THEN AllAccepted ELSE AllAccepted \ {<<s, r>>}
        /\ AllAsked' = IF Asked(s, r)' THEN AllAsked ELSE AllAsked \ {<<s, r>>}
    BY <1>1, EndStep
  <2>2. CASE Accepted(s, r)'
    <3>1. AllAccepted' = AllAccepted \ {} /\ AllAsked' = AllAsked
      BY <2>1, <2>2 DEF Asked
    <3> QED  BY <3>1
  <2>3. CASE ~Accepted(s, r)'
    <3>1. {<<s, r>>} \in {{p} : p \in AllAsked}
      BY <2>1
    <3>2. AllAsked' \in {AllAsked, AllAsked \ {<<s, r>>}}
      BY <2>1
    <3> QED  BY <2>1, <2>3, <3>1, <3>2
  <2> QED  BY <2>2, <2>3
<1>4. CASE ~\E s, r \in Users : Asking(job[t], s, r) \/ Accepting(job[t], s, r)
  <2>1. \A s, r \in Users : /\ ~Asking(Idle, s, r) /\ ~Accepting(Idle, s, r)
                            /\ ~Asking(job[t], s, r) /\ ~Accepting(job[t], s, r)
                            /\ Pending(s, r)' <=> Pending(s, r)
    BY <1>1, <1>4 DEF Asking, Accepting, Idle, Pending
  <2>2. AllAsked' = AllAsked /\ AllAccepted' = AllAccepted \ {}
    BY <1>1, <2>1, PairsStep DEF RefInv, Inv
  <2> QED  BY <2>2
<1> QED  BY <1>3, <1>4

LEMMA ClickQuiet ==
    ASSUME RefInv, TypeInv', NEW t \in Threads, NEW d \in Devices, NEW name \in Names,
           AddFriendClick(t, d, name)
    PROVE  UNCHANGED Abstract!vars
<1> DEFINE j == [Idle EXCEPT !.pc = "selectFriend", !.me = LoggedInUser[d], !.other = name]
<1>1. /\ job[t].pc = "idle" /\ job' = [job EXCEPT ![t] = j]
      /\ UNCHANGED <<friend, FriendRequest, pages, failed>>
  BY DEF AddFriendClick, Accept
<1>2. j.pc = "selectFriend"
  BY DEF Idle
<1> HIDE DEF j
<1>3. \A s, r \in Users : /\ ~Asking(j, s, r) /\ ~Accepting(j, s, r)
                          /\ ~Asking(job[t], s, r) /\ ~Accepting(job[t], s, r)
                          /\ Pending(s, r)' <=> Pending(s, r)
  BY <1>1, <1>2 DEF Asking, Accepting, Pending
<1> QED  BY <1>1, <1>3, QuietStep DEF RefInv, Inv

LEMMA InitAbstract == Init => Abstract!Init
<1> SUFFICES ASSUME Init PROVE Abstract!Init
  OBVIOUS
<1>1. BagToSet(FriendRequest) = {}
  BY InEmptyBag DEF Init
<1>2. \A t \in Threads : job[t].pc = "idle"
  BY DEF Init, Idle
<1>3. AllAsked = {} /\ AllAccepted = {}
  BY <1>1, <1>2 DEF AllAsked, AllAccepted, Askers, Acceptors
<1> QED  BY <1>3 DEF Init, Abstract!Init

\* Every step is a step of Friendships, or one it does not see.
LEMMA NextAbstract == RefInv /\ [Next]_vars => [Abstract!Next]_(Abstract!vars)
<1> SUFFICES ASSUME RefInv, [Next]_vars
             PROVE  Abstract!Next \/ UNCHANGED Abstract!vars
  OBVIOUS
<1>0. TypeInv /\ TypeInv'
  BY NextType DEF RefInv, Inv
<1>1. ASSUME NEW t \in Threads, Step(t)
      PROVE  Abstract!Next \/ UNCHANGED Abstract!vars
  <2>1. CASE UpdateSender(t)
    BY <1>0, <2>1, AskStep DEF Abstract!Next
  <2>2. CASE UpdateReceiver(t)
    BY <1>0, <2>2, ConfirmAbstract DEF Abstract!Next
  <2> QED  BY <1>0, <1>1, <2>1, <2>2, StatementsQuiet DEF Step
<1>2. ASSUME NEW t \in Threads, Fail(t)
      PROVE  Abstract!Next
  BY <1>0, <1>2, FailAbstract DEF Abstract!Next
<1>3. ASSUME NEW t \in Threads, NEW d \in Devices, Send(t, d)
      PROVE  Abstract!Next \/ UNCHANGED Abstract!vars
  BY <1>0, <1>3, ClickQuiet, AcceptAbstract DEF Send, Abstract!Next, Abstract!ToSet, ToSet
<1>4. ASSUME UNCHANGED <<servers, astray>>
      PROVE  UNCHANGED Abstract!vars
  BY <1>4 DEF servers, Abstract!vars, AllAsked, AllAccepted, Askers, Acceptors
<1>5. ASSUME \/ \E d \in Devices : Move(d)
             \/ \E load \in loads : PullFriendRequest(load) \/ Arrive(load)
             \/ UNCHANGED vars
      PROVE  UNCHANGED Abstract!vars
  BY <1>0, <1>4, <1>5, MoveType, PullType, ArriveType DEF TypeInv, vars, pages
<1> QED  BY <1>1, <1>2, <1>3, <1>5 DEF Next

\* RefinesFriendships: as long as no two requests of one user overlap, asking and
\* accepting are what Friendships promises, as if each were one statement, for
\* any users, devices and threads, with failures, refusals, overlapping loads and
\* answers that arrive at another login.
THEOREM RefinesFriendships ==
    ASSUME Overlap = FALSE
    PROVE  Spec => ImplementsFriendships
<1>1. RefInv /\ [Next]_vars => RefInv'
  BY NextRef
<1> QED  BY <1>1, InitRef, InitAbstract, NextAbstract, PTL
         DEF Spec, ImplementsFriendships, Abstract!Spec

=============================================================================
