--------------------------- MODULE AccountsProofs ---------------------------
(***************************************************************************)
(* Theorems about Accounts, for any devices, names, passwords and bounds.  *)
(***************************************************************************)
EXTENDS Accounts, DataLemmas

-----------------------------------------------------------------------------
(* Type correctness *)

TypeInv == /\ TypeOK
           /\ DOMAIN requests = Devices
           /\ DOMAIN answers = Devices

LEMMA NewPageType ==
    ASSUME NEW kind \in {"Login", "Register", "Guest", "main"},
           NEW number \in Nat, NEW first \in Nat
    PROVE  NewPage(kind, number, first) \in Page
BY DEF NewPage, Page

LEMMA PresentType ==
    ASSUME page \in [Devices -> Page], NEW d \in Devices,
           NEW kind \in {"Login", "Register", "Guest", "main"}, Present(d, kind)
    PROVE  page' \in [Devices -> Page]
<1>1. page[d].number + 1 \in Nat /\ page[d].first \in Nat
  BY DEF Page
<1>2. NewPage(kind, page[d].number + 1, page[d].first) \in Page
  BY <1>1, NewPageType
<1> QED  BY <1>2 DEF Present

\* Putting a request or an answer into the bag of one device, or taking it out.
LEMMA PutType ==
    ASSUME NEW bags, DOMAIN bags = Devices, NEW S, NEW d \in Devices, NEW bag,
           \A e \in Devices : BagToSet(bags[e]) \subseteq S,
           BagToSet(bag) \subseteq S
    PROVE  LET new == [bags EXCEPT ![d] = bag]
           IN  /\ DOMAIN new = Devices
               /\ \A e \in Devices : BagToSet(new[e]) \subseteq S
OBVIOUS

LEMMA ClickType ==
    ASSUME TypeInv, NEW d \in Devices, NEW user \in userInfo,
           NEW first \in {"verify", "select"}, Click(d, user, first)
    PROVE  TypeInv'
<1> DEFINE r == [user |-> user, page |-> page[d].number, pc |-> first, seen |-> 0]
<1>1. r \in Request
  BY DEF TypeInv, TypeOK, Page, Request
<1>2. BagToSet(BagAdd(requests[d], r)) \subseteq Request
  BY <1>1, InBagAdd DEF TypeInv, TypeOK
<1>3. /\ DOMAIN requests' = Devices
      /\ \A e \in Devices : BagToSet(requests'[e]) \subseteq Request
  BY <1>2, PutType DEF Click, TypeInv, TypeOK
<1>4. clicks' \in 0..MaxClicks
  BY AccountBounds DEF Click, TypeInv, TypeOK
<1>5. typed' \in [Devices -> SUBSET userInfo]
  BY DEF Click, TypeInv, TypeOK
<1>6. overlap' \in [Devices -> BOOLEAN]
  <2>1. (overlap[d] \/ UnderWay(d)) \in BOOLEAN
    OBVIOUS
  <2> QED  BY <2>1 DEF Click, TypeInv, TypeOK
<1> QED  BY <1>3, <1>4, <1>5, <1>6 DEF Click, TypeInv, TypeOK

LEMMA ReplyType ==
    ASSUME TypeInv, NEW d \in Devices, NEW r \in BagToSet(requests[d]),
           NEW info \in Info, Reply(d, r, info), User' \in Seq(Row)
    PROVE  TypeInv'
<1> DEFINE a == [username |-> r.user.username, page |-> r.page, info |-> info]
<1>1. r \in Request
  BY DEF TypeInv, TypeOK
<1>2. a \in Answer
  BY <1>1 DEF Request, userInfo, Answer
<1>3. /\ DOMAIN requests' = Devices
      /\ \A e \in Devices : BagToSet(requests'[e]) \subseteq Request
  <2>1. BagToSet(BagRemove(requests[d], r)) \subseteq Request
    BY InBagRemove DEF TypeInv, TypeOK
  <2> QED  BY <2>1, PutType DEF Reply, EndRequest, TypeInv, TypeOK
<1>4. /\ DOMAIN answers' = Devices
      /\ \A e \in Devices : BagToSet(answers'[e]) \subseteq Answer
  <2>1. BagToSet(BagAdd(answers[d], a)) \subseteq Answer
    BY <1>2, InBagAdd DEF TypeInv, TypeOK
  <2> QED  BY <2>1, PutType DEF Reply, TypeInv, TypeOK
<1> QED  BY <1>3, <1>4 DEF Reply, TypeInv, TypeOK

LEMMA HandleType ==
    ASSUME TypeInv, NEW d \in Devices, NEW a \in BagToSet(answers[d]), Handle(d, a),
           LoggedInUser' \in [Devices -> Names \union {NULL}],
           page' \in [Devices -> Page]
    PROVE  TypeInv'
<1>1. BagToSet(BagRemove(answers[d], a)) \subseteq Answer
  BY InBagRemove DEF TypeInv, TypeOK
<1>2. /\ DOMAIN answers' = Devices
      /\ \A e \in Devices : BagToSet(answers'[e]) \subseteq Answer
  BY <1>1, PutType DEF Handle, TypeInv, TypeOK
<1> QED  BY <1>2 DEF Handle, TypeInv, TypeOK

LEMMA InsertType ==
    ASSUME TypeInv, NEW d \in Devices, NEW r \in BagToSet(requests[d]), InsertUser(d, r)
    PROVE  TypeInv'
<1> DEFINE row == [username |-> r.user.username, password |-> r.user.password,
                   seen |-> r.seen]
<1>1. r \in Request
  BY DEF TypeInv, TypeOK
<1>2. row \in Row
  BY <1>1 DEF Request, userInfo, Row
<1>3. User' \in Seq(Row)
  <2>1. User' = Append(User, row) /\ User \in Seq(Row)
    BY DEF InsertUser, TypeInv, TypeOK
  <2> HIDE DEF row
  <2> QED  BY <1>2, <2>1
<1> QED  BY <1>3, ReplyType DEF InsertUser, Info, Welcome

LEMMA SelectType ==
    ASSUME TypeInv, NEW d \in Devices, NEW r \in BagToSet(requests[d]), SelectUser(d, r)
    PROVE  TypeInv'
<1> DEFINE next == [r EXCEPT !.pc = "insert", !.seen = Len(User)]
<1>1. CASE RowsOf(r.user.username) # {}
  <2>1. Reply(d, r, "This username is already taken") /\ UNCHANGED User
    BY <1>1 DEF SelectUser
  <2> QED  BY <2>1, ReplyType DEF TypeInv, TypeOK, Info
<1>2. CASE RowsOf(r.user.username) = {}
  <2>1. r \in Request /\ Len(User) \in Nat
    BY DEF TypeInv, TypeOK
  <2>2. next \in Request
    BY <2>1 DEF Request
  <2>3. BagToSet(BagAdd(BagRemove(requests[d], r), next)) \subseteq Request
    BY <2>2, InBagAdd, InBagRemove DEF TypeInv, TypeOK
  <2>4. requests' = [requests EXCEPT ![d] = BagAdd(BagRemove(requests[d], r), next)]
    BY <1>2 DEF SelectUser
  <2>5. /\ DOMAIN requests' = Devices
        /\ \A e \in Devices : BagToSet(requests'[e]) \subseteq Request
    <3> HIDE DEF next
    <3> QED  BY <2>3, <2>4, PutType DEF TypeInv, TypeOK
  <2> QED  BY <1>2, <2>5 DEF SelectUser, TypeInv, TypeOK
<1> QED  BY <1>1, <1>2

LEMMA ServerType ==
    ASSUME TypeInv, NEW d \in Devices, Server(d)
    PROVE  TypeInv'
<1> PICK r \in BagToSet(requests[d]) : \/ verify_password(d, r)
                                       \/ SelectUser(d, r)
                                       \/ InsertUser(d, r)
                                       \/ Fail(d, r)
                                       \/ LoseRequest(d, r)
  BY DEF Server
<1>1. CASE verify_password(d, r)
  <2>1. \A i : Verified(i, r) \in Info
    BY DEF Verified, Info, Welcome, Refusal
  <2>2. PICK info \in Info : Reply(d, r, info) /\ UNCHANGED User
    BY <1>1, <2>1 DEF verify_password, Info, Refusal
  <2> QED  BY <2>2, ReplyType DEF TypeInv, TypeOK
<1>2. CASE SelectUser(d, r)
  BY <1>2, SelectType
<1>3. CASE InsertUser(d, r)
  BY <1>3, InsertType
<1>4. CASE Fail(d, r)
  <2>1. PICK info \in Info : Reply(d, r, info) /\ UNCHANGED User
    BY <1>4 DEF Fail, Info
  <2> QED  BY <2>1, ReplyType DEF TypeInv, TypeOK
<1>5. CASE LoseRequest(d, r)
  <2>1. requests' = [requests EXCEPT ![d] = BagRemove(@, r)]
    BY <1>5 DEF LoseRequest, EndRequest
  <2>2. BagToSet(BagRemove(requests[d], r)) \subseteq Request
    BY InBagRemove DEF TypeInv, TypeOK
  <2>3. /\ DOMAIN requests' = Devices
        /\ \A e \in Devices : BagToSet(requests'[e]) \subseteq Request
    BY <2>1, <2>2, PutType DEF TypeInv, TypeOK
  <2> QED  BY <1>5, <2>3 DEF LoseRequest, TypeInv, TypeOK
<1> QED  BY <1>1, <1>2, <1>3, <1>4, <1>5

LEMMA CrashType ==
    ASSUME TypeInv, NEW d \in Devices, NEW a \in BagToSet(answers[d]), Crash(d, a)
    PROVE  TypeInv'
<1>1. page' \in [Devices -> Page]
  <2>1. page[d].number + 1 \in Nat
    BY DEF TypeInv, TypeOK, Page
  <2>2. NewPage("Login", page[d].number + 1, page[d].number + 1) \in Page
    BY <2>1, NewPageType
  <2> QED  BY <2>2 DEF Crash, TypeInv, TypeOK
<1>2. /\ DOMAIN answers' = Devices
      /\ \A e \in Devices : BagToSet(answers'[e]) \subseteq Answer
  BY InEmptyBag, PutType DEF Crash, TypeInv, TypeOK
<1> QED  BY <1>1, <1>2 DEF Crash, TypeInv, TypeOK

LEMMA MainQueueType ==
    ASSUME TypeInv, NEW d \in Devices, MainQueue(d)
    PROVE  TypeInv'
<1> PICK a \in BagToSet(answers[d]) : \/ LogIn(d, a)
                                      \/ Refuse(d, a)
                                      \/ Ignore(d, a)
                                      \/ Crash(d, a)
                                      \/ LoseAnswer(d, a)
  BY DEF MainQueue
<1>1. CASE LogIn(d, a)
  <2>1. a.username \in Names
    BY DEF TypeInv, TypeOK, Answer
  <2>2. LoggedInUser' \in [Devices -> Names \union {NULL}]
    BY <1>1, <2>1 DEF LogIn, TypeInv, TypeOK
  <2>3. page' \in [Devices -> Page]
    BY <1>1, PresentType DEF LogIn, TypeInv, TypeOK
  <2> QED  BY <1>1, <2>2, <2>3, HandleType DEF LogIn
<1>2. CASE Refuse(d, a)
  <2>1. page' \in [Devices -> Page]
    BY <1>2 DEF Refuse, TypeInv, TypeOK, Page
  <2> QED  BY <1>2, <2>1, HandleType DEF Refuse, TypeInv, TypeOK
<1>3. CASE Ignore(d, a)
  BY <1>3, HandleType DEF Ignore, TypeInv, TypeOK
<1>4. CASE Crash(d, a)
  BY <1>4, CrashType
<1>5. CASE LoseAnswer(d, a)
  BY <1>5, HandleType DEF LoseAnswer, TypeInv, TypeOK
<1> QED  BY <1>1, <1>2, <1>3, <1>4, <1>5

LEMMA MovesType ==
    ASSUME TypeInv, NEW d \in Devices, Moves(d)
    PROVE  TypeInv'
<1>1. page' \in [Devices -> Page]
  <2>1. CASE \E kind \in {"Login", "Register", "Guest", "main"} : Go(d, kind)
    <3>1. PICK kind \in {"Login", "Register", "Guest", "main"} : Go(d, kind)
      BY <2>1
    <3> QED  BY <3>1, PresentType DEF Go, TypeInv, TypeOK
  <2>2. CASE CloseAlert(d)
    BY <2>2 DEF CloseAlert, TypeInv, TypeOK, Page
  <2>3. CASE OpenProfile(d)
    <3>1. LoggedInUser[d] \in Names \union {NULL} /\ page[d] \in Page
      BY DEF TypeInv, TypeOK
    <3>2. [page[d] EXCEPT !.Name = LoggedInUser[d]] \in Page
      BY <3>1 DEF Page
    <3> QED  BY <2>3, <3>2 DEF OpenProfile, TypeInv, TypeOK
  <2>4. CASE Logout(d)
    BY <2>4, PresentType DEF Logout, TypeInv, TypeOK
  <2> QED  BY <2>1, <2>2, <2>3, <2>4 DEF Moves
<1>2. LoggedInUser' \in [Devices -> Names \union {NULL}]
  BY DEF Moves, Go, CloseAlert, OpenProfile, Logout, TypeInv, TypeOK
<1> QED  BY <1>1, <1>2 DEF Moves, Go, CloseAlert, OpenProfile, Logout, TypeInv, TypeOK

LEMMA InitType == Init => TypeInv
<1> SUFFICES ASSUME Init PROVE TypeInv
  OBVIOUS
<1>1. NewPage("Login", 1, 1) \in Page
  BY NewPageType
<1>2. 0 \in 0..MaxClicks
  BY AccountBounds
<1> QED  BY <1>1, <1>2, InEmptyBag DEF Init, TypeInv, TypeOK

LEMMA NextType == TypeInv /\ [Next]_vars => TypeInv'
<1> SUFFICES ASSUME TypeInv, [Next]_vars PROVE TypeInv'
  OBVIOUS
<1>1. CASE UNCHANGED vars
  BY <1>1 DEF vars, TypeInv, TypeOK
<1>2. CASE Next
  <2>1. PICK d \in Devices : Clicks(d) \/ Moves(d) \/ Server(d) \/ MainQueue(d)
    BY <1>2 DEF Next
  <2>2. CASE Clicks(d)
    BY <2>2, ClickType DEF Clicks, LoginButtonClick, Register_Click
  <2> QED  BY <2>1, <2>2, MovesType, ServerType, MainQueueType
<1> QED  BY <1>1, <1>2

\* TypeCorrect: the table, the pages, the requests and the answers always have their
\* types, however requests fail and whenever answers arrive.
THEOREM TypeCorrect == Spec => []TypeOK
<1>1. TypeInv => TypeOK
  BY DEF TypeInv
<1> QED  BY <1>1, InitType, NextType, PTL DEF Spec
-----------------------------------------------------------------------------
(* What a step does *)

\* An account is inserted by a thread that has looked for its name.
Inserts == \E d \in Devices : \E r \in BagToSet(requests[d]) :
    /\ r.pc = "insert"
    /\ User' = Append(User, [username |-> r.user.username, password |-> r.user.password,
                             seen |-> r.seen])

LEMMA UserStep ==
    ASSUME TypeInv, [Next]_vars
    PROVE  User' = User \/ Inserts
<1>1. CASE UNCHANGED vars
  BY <1>1 DEF vars
<1>2. ASSUME NEW d \in Devices, Clicks(d) \/ Moves(d) \/ MainQueue(d)
      PROVE  User' = User
  BY <1>2 DEF Clicks, LoginButtonClick, Register_Click, Click, Moves, Go, CloseAlert,
              OpenProfile, Logout, MainQueue, LogIn, Refuse, Ignore, Crash, LoseAnswer, Handle
<1>3. ASSUME NEW d \in Devices, Server(d)
      PROVE  User' = User \/ Inserts
  BY <1>3 DEF Server, verify_password, SelectUser, InsertUser, Fail, LoseRequest, Inserts
<1> QED  BY <1>1, <1>2, <1>3 DEF Next

\* So the accounts that are there stay as they are.
LEMMA UserGrows ==
    ASSUME TypeInv, [Next]_vars
    PROVE  /\ DOMAIN User \subseteq DOMAIN User'
           /\ \A i \in DOMAIN User : User'[i] = User[i]
<1>1. CASE User' = User
  BY <1>1
<1>2. ASSUME NEW row, User' = Append(User, row)
      PROVE  /\ DOMAIN User \subseteq DOMAIN User'
             /\ \A i \in DOMAIN User : User'[i] = User[i]
  BY <1>2 DEF TypeInv, TypeOK
<1> QED  BY <1>1, <1>2, UserStep DEF Inserts

LEMMA TypedGrows ==
    ASSUME TypeInv, [Next]_vars, NEW e \in Devices
    PROVE  typed[e] \subseteq typed'[e]
<1>1. CASE typed' = typed
  BY <1>1
<1>2. ASSUME NEW d \in Devices, Clicks(d)
      PROVE  typed[e] \subseteq typed'[e]
  <2>1. PICK user \in userInfo : typed' = [typed EXCEPT ![d] = @ \union {user}]
    BY <1>2 DEF Clicks, LoginButtonClick, Register_Click, Click
  <2> QED  BY <2>1 DEF TypeInv, TypeOK
<1>3. ASSUME NEW d \in Devices, Moves(d) \/ Server(d) \/ MainQueue(d)
      PROVE  typed' = typed
  <2>1. CASE Moves(d)
    BY <2>1 DEF Moves, Go, CloseAlert, OpenProfile, Logout
  <2>2. CASE Server(d)
    BY <2>2 DEF Server, verify_password, SelectUser, InsertUser, Fail, LoseRequest, Reply
  <2>3. CASE MainQueue(d)
    BY <2>3 DEF MainQueue, LogIn, Refuse, Ignore, Crash, LoseAnswer, Handle
  <2> QED  BY <1>3, <2>1, <2>2, <2>3
<1> QED  BY <1>1, <1>2, <1>3 DEF Next, vars

\* Where a request under way after the step comes from.
Found(r, e) == /\ r \in BagToSet(requests[e])
               /\ RowsOf(r.user.username) = {}
               /\ User' = User

RequestFrom(q, e) ==
    \/ q \in BagToSet(requests[e])
    \/ q.pc # "insert" /\ q.user \in typed'[e]
    \/ \E r : Found(r, e) /\ q = [r EXCEPT !.pc = "insert", !.seen = Len(User)]

LEMMA RequestStep ==
    ASSUME TypeInv, [Next]_vars, NEW e \in Devices, NEW q \in BagToSet(requests'[e])
    PROVE  RequestFrom(q, e)
<1>1. CASE requests' = requests
  BY <1>1 DEF RequestFrom
<1>2. ASSUME NEW d \in Devices, Clicks(d)
      PROVE  RequestFrom(q, e)
  <2>1. PICK user \in userInfo, first \in {"verify", "select"} : Click(d, user, first)
    BY <1>2 DEF Clicks, LoginButtonClick, Register_Click
  <2> DEFINE r == [user |-> user, page |-> page[d].number, pc |-> first, seen |-> 0]
  <2>2. requests' = [requests EXCEPT ![d] = BagAdd(requests[d], r)]
    BY <2>1 DEF Click
  <2>3. r.pc # "insert" /\ r.user \in typed'[d]
    BY <2>1 DEF Click, TypeInv, TypeOK
  <2> HIDE DEF r
  <2>4. CASE e = d
    <3>1. q \in BagToSet(requests[d]) \union {r}
      BY <2>2, <2>4, InBagAdd DEF TypeInv
    <3> QED  BY <3>1, <2>3, <2>4 DEF RequestFrom
  <2>5. CASE e # d
    BY <2>2, <2>5 DEF RequestFrom, TypeInv
  <2> QED  BY <2>4, <2>5
<1>3. ASSUME NEW d \in Devices, NEW r \in BagToSet(requests[d]), EndRequest(d, r)
      PROVE  RequestFrom(q, e)
  <2>1. requests' = [requests EXCEPT ![d] = BagRemove(requests[d], r)]
    BY <1>3 DEF EndRequest
  <2>2. CASE e = d
    <3>1. q \in BagToSet(BagRemove(requests[d], r))
      BY <2>1, <2>2 DEF TypeInv
    <3> QED  BY <3>1, <2>2, InBagRemove DEF RequestFrom
  <2>3. CASE e # d
    BY <2>1, <2>3 DEF RequestFrom, TypeInv
  <2> QED  BY <2>2, <2>3
<1>4. ASSUME NEW d \in Devices, NEW r \in BagToSet(requests[d]), SelectUser(d, r)
      PROVE  RequestFrom(q, e)
  <2>1. CASE RowsOf(r.user.username) # {}
    BY <1>3, <1>4, <2>1 DEF SelectUser, Reply
  <2>2. CASE RowsOf(r.user.username) = {}
    <3> DEFINE next == [r EXCEPT !.pc = "insert", !.seen = Len(User)]
    <3>1. requests' = [requests EXCEPT ![d] = BagAdd(BagRemove(requests[d], r), next)]
      BY <1>4, <2>2 DEF SelectUser
    <3>2. Found(r, d)
      BY <1>4, <2>2 DEF SelectUser, Found
    <3>3. CASE e # d
      BY <3>1, <3>3 DEF RequestFrom, TypeInv
    <3>4. CASE e = d /\ q = next
      BY <3>2, <3>4 DEF RequestFrom
    <3>5. CASE e = d /\ q # next
      <4> HIDE DEF next
      <4>1. q \in BagToSet(BagRemove(requests[d], r)) \union {next}
        BY <3>1, <3>5, InBagAdd DEF TypeInv
      <4> QED  BY <4>1, <3>5, InBagRemove DEF RequestFrom
    <3> QED  BY <3>3, <3>4, <3>5
  <2> QED  BY <2>1, <2>2
<1>5. ASSUME NEW d \in Devices, Server(d)
      PROVE  RequestFrom(q, e)
  BY <1>3, <1>4, <1>5 DEF Server, verify_password, InsertUser, Fail, LoseRequest, Reply
<1>6. ASSUME NEW d \in Devices, Moves(d) \/ MainQueue(d)
      PROVE  requests' = requests
  BY <1>6 DEF Moves, Go, CloseAlert, OpenProfile, Logout,
              MainQueue, LogIn, Refuse, Ignore, Crash, LoseAnswer, Handle
<1> QED  BY <1>1, <1>2, <1>5, <1>6 DEF Next, vars

\* Where an answer not handled yet comes from: a welcome goes to a request with the
\* password of an account of its name.
HasAccount(user) == \E i \in RowsOf(user.username) : User[i].password = user.password

Welcomes(b, r) ==
    b.info \in Welcome => b.username = r.user.username /\ HasAccount(r.user)'

AnswerFrom(b, e) == \/ b \in BagToSet(answers[e])
                    \/ \E r \in BagToSet(requests[e]) : Welcomes(b, r)

LEMMA ServerAnswers ==
    ASSUME TypeInv, NEW d \in Devices, Server(d),
           NEW e \in Devices, NEW b \in BagToSet(answers'[e])
    PROVE  AnswerFrom(b, e)
<1>1. CASE answers' = answers
  BY <1>1 DEF AnswerFrom
<1>2. ASSUME NEW r \in BagToSet(requests[d]), NEW info, Reply(d, r, info),
             info \in Welcome => HasAccount(r.user)'
      PROVE  AnswerFrom(b, e)
  <2> DEFINE a == [username |-> r.user.username, page |-> r.page, info |-> info]
  <2>1. CASE answers' = [answers EXCEPT ![d] = BagAdd(answers[d], a)]
    <3>1. CASE e # d
      BY <2>1, <3>1 DEF AnswerFrom, TypeInv
    <3>2. CASE e = d /\ b = a
      BY <1>2, <3>2 DEF AnswerFrom, Welcomes
    <3>3. CASE e = d /\ b # a
      <4> HIDE DEF a
      <4>1. b \in BagToSet(answers[d]) \union {a}
        BY <2>1, <3>3, InBagAdd DEF TypeInv
      <4> QED  BY <3>3, <4>1 DEF AnswerFrom
    <3> QED  BY <3>1, <3>2, <3>3
  <2> QED  BY <1>1, <1>2, <2>1 DEF Reply
<1>3. PICK r \in BagToSet(requests[d]) : \/ verify_password(d, r)
                                         \/ SelectUser(d, r)
                                         \/ InsertUser(d, r)
                                         \/ Fail(d, r)
                                         \/ LoseRequest(d, r)
  BY DEF Server
<1>4. CASE verify_password(d, r)
  <2>1. CASE Reply(d, r, "username doesn't exist")
    BY <1>2, <2>1 DEF Welcome
  <2>2. ASSUME NEW i \in RowsOf(r.user.username), Reply(d, r, Verified(i, r))
        PROVE  AnswerFrom(b, e)
    <3>1. Verified(i, r) \in Welcome => User[i].password = r.user.password
      BY DEF Verified, Welcome
    <3>2. User' = User
      BY <1>4 DEF verify_password
    <3>3. Verified(i, r) \in Welcome => HasAccount(r.user)'
      BY <3>1, <3>2 DEF HasAccount, RowsOf
    <3> QED  BY <1>2, <2>2, <3>3
  <2> QED  BY <1>4, <2>1, <2>2 DEF verify_password
<1>5. CASE SelectUser(d, r)
  BY <1>1, <1>2, <1>5 DEF SelectUser, Welcome
<1>6. CASE InsertUser(d, r)
  <2>1. r \in Request /\ User \in Seq(Row)
    BY DEF TypeInv, TypeOK
  <2>2. HasAccount(r.user)'
    <3>1. User' = Append(User, [username |-> r.user.username, password |-> r.user.password,
                                seen |-> r.seen])
      BY <1>6 DEF InsertUser
    <3>2. /\ Len(User) + 1 \in DOMAIN User'
          /\ User'[Len(User) + 1].username = r.user.username
          /\ User'[Len(User) + 1].password = r.user.password
      BY <2>1, <3>1
    <3> QED  BY <3>2 DEF HasAccount, RowsOf
  <2> QED  BY <1>2, <1>6, <2>2 DEF InsertUser
<1>7. CASE Fail(d, r)
  BY <1>2, <1>7 DEF Fail, Welcome
<1>8. CASE LoseRequest(d, r)
  BY <1>1, <1>8 DEF LoseRequest
<1> QED  BY <1>3, <1>4, <1>5, <1>6, <1>7, <1>8

LEMMA AnswerStep ==
    ASSUME TypeInv, [Next]_vars, NEW e \in Devices, NEW b \in BagToSet(answers'[e])
    PROVE  AnswerFrom(b, e)
<1>1. CASE answers' = answers
  BY <1>1 DEF AnswerFrom
<1>2. ASSUME NEW d \in Devices, MainQueue(d)
      PROVE  AnswerFrom(b, e)
  <2>1. PICK a : \/ answers' = [answers EXCEPT ![d] = BagRemove(answers[d], a)]
                  \/ answers' = [answers EXCEPT ![d] = EmptyBag]
    BY <1>2 DEF MainQueue, LogIn, Refuse, Ignore, Crash, LoseAnswer, Handle
  <2>2. \/ BagToSet(answers'[e]) \subseteq BagToSet(answers[e])
        \/ BagToSet(answers'[e]) = {}
    BY <2>1, InBagRemove, InEmptyBag DEF TypeInv
  <2> QED  BY <2>2 DEF AnswerFrom
<1>3. ASSUME NEW d \in Devices, Clicks(d) \/ Moves(d)
      PROVE  answers' = answers
  BY <1>3 DEF Clicks, LoginButtonClick, Register_Click, Click,
              Moves, Go, CloseAlert, OpenProfile, Logout
<1> QED  BY <1>1, <1>2, <1>3, ServerAnswers DEF Next, vars

\* Who is logged in after the step.
LEMMA LoggedInStep ==
    ASSUME TypeInv, [Next]_vars, NEW e \in Devices
    PROVE  \/ LoggedInUser'[e] \in {LoggedInUser[e], NULL}
           \/ \E a \in BagToSet(answers[e]) :
                 a.info \in Welcome /\ LoggedInUser'[e] = a.username
<1>1. CASE LoggedInUser' = LoggedInUser
  BY <1>1
<1>2. ASSUME NEW d \in Devices, Clicks(d) \/ Server(d)
      PROVE  LoggedInUser' = LoggedInUser
  BY <1>2 DEF Clicks, LoginButtonClick, Register_Click, Click, Server, verify_password,
              SelectUser, InsertUser, Fail, LoseRequest, Reply
<1>3. ASSUME NEW d \in Devices, Moves(d)
      PROVE  LoggedInUser'[e] \in {LoggedInUser[e], NULL}
  BY <1>3 DEF Moves, Go, CloseAlert, OpenProfile, Logout, TypeInv, TypeOK
<1>4. ASSUME NEW d \in Devices, MainQueue(d)
      PROVE  \/ LoggedInUser'[e] \in {LoggedInUser[e], NULL}
             \/ \E a \in BagToSet(answers[e]) :
                   a.info \in Welcome /\ LoggedInUser'[e] = a.username
  BY <1>4 DEF MainQueue, LogIn, Refuse, Ignore, Crash, LoseAnswer, TypeInv, TypeOK
<1> QED  BY <1>1, <1>2, <1>3, <1>4 DEF Next, vars
-----------------------------------------------------------------------------
(* Who is logged in knows a password                                       *)

\* The users of the requests under way were typed, and the welcomes under way are
\* for users that the device knows.
RequestsTyped == \A d \in Devices : \A r \in BagToSet(requests[d]) : r.user \in typed[d]

AnswersKnown == \A d \in Devices : \A a \in BagToSet(answers[d]) :
    a.info \in Welcome => Knows(d, a.username)

KnowsInv == TypeInv /\ KnowsPassword /\ RequestsTyped /\ AnswersKnown

\* What a device knows, it knows forever.
LEMMA KnowsStays ==
    ASSUME TypeInv, [Next]_vars, NEW d \in Devices, NEW name, Knows(d, name)
    PROVE  Knows(d, name)'
<1>1. PICK i \in RowsOf(name) : [username |-> name, password |-> User[i].password] \in typed[d]
  BY DEF Knows
<1>2. i \in DOMAIN User' /\ User'[i] = User[i]
  BY UserGrows DEF RowsOf
<1>3. i \in RowsOf(name)'
  BY <1>2 DEF RowsOf
<1>4. [username |-> name, password |-> User'[i].password] \in typed'[d]
  BY <1>1, <1>2, TypedGrows
<1> QED  BY <1>3, <1>4 DEF Knows

LEMMA NextKnows == KnowsInv /\ [Next]_vars => KnowsInv'
<1> SUFFICES ASSUME KnowsInv, [Next]_vars PROVE KnowsInv'
  OBVIOUS
<1>0. TypeInv
  BY DEF KnowsInv
<1>1. TypeInv'
  BY NextType DEF KnowsInv
<1>2. KnowsPassword'
  <2> SUFFICES ASSUME NEW d \in Devices, LoggedInUser'[d] # NULL
               PROVE  Knows(d, LoggedInUser[d])'
    BY DEF KnowsPassword
  <2>1. CASE LoggedInUser'[d] \in {LoggedInUser[d], NULL}
    <3>1. LoggedInUser'[d] = LoggedInUser[d] /\ Knows(d, LoggedInUser[d])
      BY <2>1 DEF KnowsInv, KnowsPassword
    <3>2. \A name : Knows(d, name) => Knows(d, name)'
      BY <1>0, KnowsStays
    <3> QED  BY <3>1, <3>2 DEF Knows
  <2>2. ASSUME NEW a \in BagToSet(answers[d]), a.info \in Welcome,
               LoggedInUser'[d] = a.username
        PROVE  Knows(d, LoggedInUser[d])'
    <3>1. Knows(d, a.username)'
      BY <1>0, <2>2, KnowsStays DEF KnowsInv, AnswersKnown
    <3> QED  BY <2>2, <3>1 DEF Knows
  <2> QED  BY <1>0, <2>1, <2>2, LoggedInStep
<1>3. RequestsTyped'
  <2> SUFFICES ASSUME NEW d \in Devices, NEW q \in BagToSet(requests'[d])
               PROVE  q.user \in typed'[d]
    BY DEF RequestsTyped
  <2>1. CASE q \in BagToSet(requests[d])
    BY <1>0, <2>1, TypedGrows DEF KnowsInv, RequestsTyped
  <2>2. ASSUME NEW r, Found(r, d), q = [r EXCEPT !.pc = "insert", !.seen = Len(User)]
        PROVE  q.user \in typed'[d]
    <3>1. r \in Request /\ r.user \in typed[d]
      BY <2>2 DEF Found, KnowsInv, RequestsTyped, TypeInv, TypeOK
    <3>2. q.user = r.user
      BY <2>2, <3>1 DEF Request
    <3> QED  BY <1>0, <3>1, <3>2, TypedGrows
  <2> QED  BY <1>0, <2>1, <2>2, RequestStep DEF RequestFrom
<1>4. AnswersKnown'
  <2> SUFFICES ASSUME NEW d \in Devices, NEW b \in BagToSet(answers'[d]), b.info \in Welcome
               PROVE  Knows(d, b.username)'
    BY DEF AnswersKnown
  <2>1. CASE b \in BagToSet(answers[d])
    BY <1>0, <2>1, KnowsStays DEF KnowsInv, AnswersKnown
  <2>2. ASSUME NEW r \in BagToSet(requests[d]), Welcomes(b, r)
        PROVE  Knows(d, b.username)'
    <3>1. b.username = r.user.username /\ HasAccount(r.user)'
      BY <2>2 DEF Welcomes
    <3>2. r \in Request /\ r.user \in typed'[d]
      BY <1>0, TypedGrows DEF KnowsInv, RequestsTyped, TypeInv, TypeOK
    <3>3. r.user = [username |-> r.user.username, password |-> r.user.password]
      BY <3>2 DEF Request, userInfo
    <3>4. PICK i \in RowsOf(r.user.username)' : User'[i].password = r.user.password
      BY <3>1 DEF HasAccount
    <3> QED  BY <3>1, <3>2, <3>3, <3>4 DEF Knows
  <2> QED  BY <1>0, <2>1, <2>2, AnswerStep DEF AnswerFrom
<1> QED  BY <1>1, <1>2, <1>3, <1>4 DEF KnowsInv

LEMMA InitKnows == Init => KnowsInv
<1> SUFFICES ASSUME Init PROVE KnowsInv
  OBVIOUS
<1>1. TypeInv
  BY InitType
<1>2. KnowsPassword
  BY DEF Init, KnowsPassword
<1>3. RequestsTyped /\ AnswersKnown
  BY InEmptyBag DEF Init, RequestsTyped, AnswersKnown
<1> QED  BY <1>1, <1>2, <1>3 DEF KnowsInv

\* KnowsCorrect: whichever answers arrive, and however late, whoever is logged in on
\* a device has an account with a password that was typed on this device.
THEOREM KnowsCorrect == Spec => []KnowsPassword
<1>1. KnowsInv => KnowsPassword
  BY DEF KnowsInv
<1> QED  BY <1>1, InitKnows, NextKnows, PTL DEF Spec

-----------------------------------------------------------------------------
(* One account of a name                                                   *)

\* None of the first k accounts has the name.
Unused(name, k) == k <= Len(User) /\ \A i \in 1..k : User[i].username # name

\* What a registration has found out stays true until it inserts, and is kept in
\* the account it inserts.
InsertsChecked == \A d \in Devices : \A r \in BagToSet(requests[d]) :
    r.pc = "insert" => Unused(r.user.username, r.seen)

RowsChecked == \A j \in DOMAIN User : Unused(User[j].username, User[j].seen)

OnceInv == TypeInv /\ InsertsChecked /\ RowsChecked

LEMMA UnusedStays ==
    ASSUME TypeInv, TypeInv', [Next]_vars, NEW name, NEW k \in Nat, Unused(name, k)
    PROVE  Unused(name, k)'
<1>1. User \in Seq(Row) /\ User' \in Seq(Row)
  BY DEF TypeInv, TypeOK
<1>2. Len(User) <= Len(User')
  BY <1>1, UserGrows
<1> QED  BY <1>1, <1>2, UserGrows DEF Unused

LEMMA NextOnce == OnceInv /\ [Next]_vars => OnceInv'
<1> SUFFICES ASSUME OnceInv, [Next]_vars PROVE OnceInv'
  OBVIOUS
<1>1. TypeInv /\ TypeInv'
  BY NextType DEF OnceInv
<1>2. User \in Seq(Row) /\ User' \in Seq(Row)
  BY <1>1 DEF TypeInv, TypeOK
<1>3. InsertsChecked'
  <2> SUFFICES ASSUME NEW d \in Devices, NEW q \in BagToSet(requests'[d]), q.pc = "insert"
               PROVE  Unused(q.user.username, q.seen)'
    BY DEF InsertsChecked
  <2>1. CASE q \in BagToSet(requests[d])
    <3>1. Unused(q.user.username, q.seen) /\ q.seen \in Nat
      BY <2>1 DEF OnceInv, InsertsChecked, TypeInv, TypeOK, Request
    <3> QED  BY <1>1, <3>1, UnusedStays
  <2>2. ASSUME NEW r, Found(r, d), q = [r EXCEPT !.pc = "insert", !.seen = Len(User)]
        PROVE  Unused(q.user.username, q.seen)'
    <3>1. r \in Request
      BY <2>2 DEF Found, OnceInv, TypeInv, TypeOK
    <3>2. q.user = r.user /\ q.seen = Len(User)
      BY <2>2, <3>1 DEF Request
    <3>3. User' = User /\ \A i \in 1..Len(User) : User[i].username # r.user.username
      BY <1>2, <2>2 DEF Found, RowsOf
    <3> QED  BY <1>2, <3>2, <3>3 DEF Unused
  <2> QED  BY <1>1, <2>1, <2>2, RequestStep DEF RequestFrom
<1>4. RowsChecked'
  <2> SUFFICES ASSUME NEW j \in DOMAIN User'
               PROVE  Unused(User[j].username, User[j].seen)'
    BY DEF RowsChecked
  <2>1. CASE j \in DOMAIN User
    <3>1. User[j] \in Row
      BY <1>2, <2>1
    <3>2. Unused(User[j].username, User[j].seen) /\ User[j].seen \in Nat
      BY <2>1, <3>1 DEF OnceInv, RowsChecked, Row
    <3>3. User'[j] = User[j]
      BY <1>1, <2>1, UserGrows
    <3>4. Len(User) <= Len(User') /\ \A i \in 1..Len(User) : User'[i] = User[i]
      BY <1>1, <1>2, UserGrows
    <3> QED  BY <1>2, <3>2, <3>3, <3>4 DEF Unused
  <2>2. CASE j \notin DOMAIN User
    <3>1. Inserts
      BY <1>1, <2>2, UserStep
    <3>2. PICK d \in Devices : \E r \in BagToSet(requests[d]) :
             /\ r.pc = "insert"
             /\ User' = Append(User, [username |-> r.user.username,
                                      password |-> r.user.password, seen |-> r.seen])
      BY <3>1 DEF Inserts
    <3>3. PICK r \in BagToSet(requests[d]) :
             /\ r.pc = "insert"
             /\ User' = Append(User, [username |-> r.user.username,
                                      password |-> r.user.password, seen |-> r.seen])
      BY <3>2
    <3>4. r \in Request /\ Unused(r.user.username, r.seen)
      BY <3>3 DEF OnceInv, InsertsChecked, TypeInv, TypeOK
    <3>5. User'[j].username = r.user.username /\ User'[j].seen = r.seen
      BY <1>2, <2>2, <3>3
    <3>6. Len(User') = Len(User) + 1 /\ \A i \in 1..Len(User) : User'[i] = User[i]
      BY <1>2, <3>3
    <3> QED  BY <1>2, <3>4, <3>5, <3>6 DEF Unused, Request
  <2> QED  BY <2>1, <2>2
<1> QED  BY <1>1, <1>3, <1>4 DEF OnceInv

LEMMA InitOnce == Init => OnceInv
<1> SUFFICES ASSUME Init PROVE OnceInv
  OBVIOUS
<1>1. TypeInv
  BY InitType
<1>2. InsertsChecked /\ RowsChecked
  BY InEmptyBag DEF Init, InsertsChecked, RowsChecked
<1> QED  BY <1>1, <1>2 DEF OnceInv

LEMMA OnceFollows == OnceInv => RegisteredOnce
<1> SUFFICES ASSUME OnceInv, NEW i \in DOMAIN User, NEW j \in DOMAIN User,
                    i < j, User[i].username = User[j].username
             PROVE  User[j].seen < i
  BY DEF RegisteredOnce
<1>1. User \in Seq(Row) /\ User[j] \in Row
  BY DEF OnceInv, TypeInv, TypeOK
<1>2. Unused(User[j].username, User[j].seen)
  BY DEF OnceInv, RowsChecked
<1> QED  BY <1>1, <1>2 DEF Unused, Row

\* OnceCorrect: only a registration that looked for its name before the other was
\* inserted makes a second account of the name.
THEOREM OnceCorrect == Spec => []RegisteredOnce
BY InitOnce, NextOnce, OnceFollows, PTL DEF Spec

-----------------------------------------------------------------------------
(* What the main pages show                                                *)

Nothing(d) == BagToSet(requests[d]) = {} /\ BagToSet(answers[d]) = {}

Single(B) == \E x : BagToSet(B) = {x} /\ B[x] = 1

\* A device whose clicks wait has at most one request or answer under way, and
\* none once it shows the main pages.
OneUnderWay(d) ==
    /\ \/ Nothing(d)
       \/ Single(requests[d]) /\ BagToSet(answers[d]) = {}
       \/ BagToSet(requests[d]) = {} /\ Single(answers[d])
    /\ page[d].kind = "main" => Nothing(d)

MainInv == /\ TypeInv
           /\ MainShowsUser
           /\ \A d \in Devices : overlap[d] \/ OneUnderWay(d)

LEMMA SingleAdd ==
    ASSUME NEW B, BagToSet(B) = {}, NEW x
    PROVE  Single(BagAdd(B, x))
<1>1. BagToSet(BagAdd(B, x)) = {x} /\ BagAdd(B, x)[x] = 1
  BY DEF BagToSet, BagAdd
<1> QED  BY <1>1 DEF Single

LEMMA SingleRemove ==
    ASSUME NEW B, Single(B), NEW x \in BagToSet(B)
    PROVE  BagToSet(BagRemove(B, x)) = {}
BY DEF Single, BagToSet, BagRemove

\* Whoever handles a request or an answer of a device whose clicks wait handles
\* the only one, and the pages are not the main pages.
LEMMA TheOnlyOne ==
    ASSUME MainInv, NEW d \in Devices, ~overlap[d]
    PROVE  /\ \A r \in BagToSet(requests[d]) :
                  Single(requests[d]) /\ BagToSet(answers[d]) = {} /\ page[d].kind # "main"
           /\ \A a \in BagToSet(answers[d]) :
                  Single(answers[d]) /\ BagToSet(requests[d]) = {} /\ page[d].kind # "main"
BY DEF MainInv, OneUnderWay, Nothing

\* A step that leaves the other devices alone has to be looked at on one device.
Untouched(d) ==
    \A e \in Devices \ {d} : /\ requests'[e] = requests[e] /\ answers'[e] = answers[e]
                             /\ page'[e] = page[e] /\ LoggedInUser'[e] = LoggedInUser[e]
                             /\ overlap'[e] = overlap[e]

Here(d) == /\ page'[d].kind = "main" =>
                  /\ LoggedInUser'[d] # NULL
                  /\ ~overlap'[d] => page'[d].Name \in {NULL, LoggedInUser'[d]}
           /\ overlap'[d] \/ OneUnderWay(d)'

LEMMA OneDevice ==
    ASSUME MainInv, TypeInv', NEW d \in Devices, Untouched(d), Here(d)
    PROVE  MainInv'
<1>1. ASSUME NEW e \in Devices \ {d}
      PROVE  Here(e)
  BY <1>1 DEF MainInv, MainShowsUser, Untouched, Here, OneUnderWay, Nothing
<1>2. \A e \in Devices : Here(e)
  BY <1>1
<1> QED  BY <1>2 DEF Here, MainInv, MainShowsUser

LEMMA ClicksMain ==
    ASSUME MainInv, TypeInv', NEW d \in Devices, Clicks(d)
    PROVE  MainInv'
<1>1. PICK user \in userInfo, first \in {"verify", "select"} :
          page[d].kind # "main" /\ Click(d, user, first)
  BY DEF Clicks, LoginButtonClick, Register_Click
<1> DEFINE r == [user |-> user, page |-> page[d].number, pc |-> first, seen |-> 0]
<1>2. /\ requests' = [requests EXCEPT ![d] = BagAdd(@, r)]
      /\ overlap' = [overlap EXCEPT ![d] = @ \/ UnderWay(d)]
      /\ UNCHANGED <<answers, LoggedInUser, page>>
  BY <1>1 DEF Click
<1>3. Untouched(d)
  BY <1>2 DEF Untouched, MainInv, TypeInv, TypeOK
<1>4. overlap'[d] \/ OneUnderWay(d)'
  <2>1. CASE overlap[d] \/ UnderWay(d)
    BY <1>2, <2>1 DEF MainInv, TypeInv, TypeOK
  <2>2. CASE ~UnderWay(d)
    <3>1. BagToSet(requests[d]) = {} /\ BagToSet(answers[d]) = {}
      BY <2>2 DEF UnderWay
    <3>2. Single(requests'[d])
      BY <1>2, <3>1, SingleAdd DEF MainInv, TypeInv, TypeOK
    <3> QED  BY <1>1, <1>2, <3>1, <3>2 DEF OneUnderWay
  <2> QED  BY <2>1, <2>2
<1>5. Here(d)
  BY <1>1, <1>2, <1>4 DEF Here
<1> QED  BY <1>3, <1>5, OneDevice

LEMMA MovesMain ==
    ASSUME MainInv, TypeInv', NEW d \in Devices, Moves(d)
    PROVE  MainInv'
<1>1. UNCHANGED <<requests, answers, overlap>>
  BY DEF Moves, Go, CloseAlert, OpenProfile, Logout
<1>2. page \in [Devices -> Page] /\ LoggedInUser \in [Devices -> Names \union {NULL}]
  BY DEF MainInv, TypeInv, TypeOK
<1>3. page[d].kind = "main" => LoggedInUser[d] # NULL
  BY DEF MainInv, MainShowsUser
<1>4. Untouched(d) /\ Here(d)
  <2>1. CASE \E kind \in {"Login", "Register", "Guest", "main"} : Go(d, kind)
    <3>1. PICK kind \in {"Login", "Register", "Guest", "main"} : Go(d, kind)
      BY <2>1
    <3>2. /\ page'[d].kind = kind /\ page'[d].Name = NULL
          /\ kind = "main" => page[d].kind = "main"
          /\ \A e \in Devices \ {d} : page'[e] = page[e]
          /\ LoggedInUser' = LoggedInUser
      BY <1>2, <3>1 DEF Go, Segues, Present, NewPage
    <3> QED  BY <1>1, <1>3, <3>2 DEF Untouched, Here, MainInv, OneUnderWay, Nothing
  <2>2. CASE CloseAlert(d)
    <3>1. /\ page'[d].kind = page[d].kind /\ page'[d].Name = page[d].Name
          /\ \A e \in Devices \ {d} : page'[e] = page[e]
          /\ LoggedInUser' = LoggedInUser
      BY <1>2, <2>2 DEF CloseAlert, Page
    <3> QED  BY <1>1, <3>1 DEF Untouched, Here, MainInv, MainShowsUser, OneUnderWay, Nothing
  <2>3. CASE OpenProfile(d)
    <3>1. /\ page'[d].kind = page[d].kind /\ page'[d].Name = LoggedInUser[d]
          /\ \A e \in Devices \ {d} : page'[e] = page[e]
          /\ LoggedInUser' = LoggedInUser
      BY <1>2, <2>3 DEF OpenProfile, Page
    <3> QED  BY <1>1, <1>3, <3>1 DEF Untouched, Here, MainInv, OneUnderWay, Nothing
  <2>4. CASE Logout(d)
    <3>1. /\ page'[d].kind = "Login" /\ page[d].kind = "main"
          /\ \A e \in Devices \ {d} : page'[e] = page[e] /\ LoggedInUser'[e] = LoggedInUser[e]
      BY <1>2, <2>4 DEF Logout, Present, NewPage
    <3> QED  BY <1>1, <3>1 DEF Untouched, Here, MainInv, OneUnderWay, Nothing
  <2> QED  BY <2>1, <2>2, <2>3, <2>4 DEF Moves
<1> QED  BY <1>4, OneDevice

LEMMA ServerMain ==
    ASSUME MainInv, TypeInv', NEW d \in Devices, Server(d)
    PROVE  MainInv'
<1>1. UNCHANGED <<LoggedInUser, page, overlap>>
  BY DEF Server, verify_password, SelectUser, InsertUser, Fail, LoseRequest, Reply
<1>2. PICK r \in BagToSet(requests[d]) :
          \/ /\ requests' = [requests EXCEPT ![d] = BagRemove(@, r)]
             /\ \/ answers' = answers
                \/ \E a : answers' = [answers EXCEPT ![d] = BagAdd(@, a)]
          \/ /\ \E q : requests' = [requests EXCEPT ![d] = BagAdd(BagRemove(@, r), q)]
             /\ answers' = answers
  <2>1. ASSUME NEW r \in BagToSet(requests[d]), NEW info, Reply(d, r, info)
        PROVE  /\ requests' = [requests EXCEPT ![d] = BagRemove(@, r)]
               /\ \/ answers' = answers
                  \/ \E a : answers' = [answers EXCEPT ![d] = BagAdd(@, a)]
    BY <2>1 DEF Reply, EndRequest
  <2>2. PICK r \in BagToSet(requests[d]) : \/ \E info : Reply(d, r, info)
                                           \/ SelectUser(d, r) /\ RowsOf(r.user.username) = {}
                                           \/ LoseRequest(d, r)
    BY DEF Server, verify_password, SelectUser, InsertUser, Fail
  <2> QED  BY <2>1, <2>2 DEF SelectUser, LoseRequest, EndRequest
<1>3. DOMAIN requests = Devices /\ DOMAIN answers = Devices
  BY DEF MainInv, TypeInv, TypeOK
<1>4. Untouched(d)
  BY <1>1, <1>2, <1>3 DEF Untouched
<1>5. ASSUME ~overlap[d]
      PROVE  OneUnderWay(d)'
  <2>1. Single(requests[d]) /\ BagToSet(answers[d]) = {} /\ page[d].kind # "main"
    BY <1>5, TheOnlyOne
  <2>2. BagToSet(BagRemove(requests[d], r)) = {}
    BY <2>1, SingleRemove
  <2>3. \A x : Single(BagAdd(BagRemove(requests[d], r), x)) /\ Single(BagAdd(answers[d], x))
    BY <2>1, <2>2, SingleAdd
  <2> QED  BY <1>1, <1>2, <1>3, <2>1, <2>2, <2>3 DEF OneUnderWay, Nothing
<1>6. Here(d)
  BY <1>1, <1>5 DEF Here, MainInv, MainShowsUser
<1> QED  BY <1>4, <1>6, OneDevice

LEMMA MainQueueMain ==
    ASSUME MainInv, TypeInv', NEW d \in Devices, MainQueue(d)
    PROVE  MainInv'
<1>1. PICK a \in BagToSet(answers[d]) : \/ LogIn(d, a)
                                        \/ Refuse(d, a)
                                        \/ Ignore(d, a)
                                        \/ Crash(d, a)
                                        \/ LoseAnswer(d, a)
  BY DEF MainQueue
<1>2. UNCHANGED <<requests, overlap>>
  BY <1>1 DEF LogIn, Refuse, Ignore, Crash, LoseAnswer, Handle
<1>3. /\ page \in [Devices -> Page] /\ LoggedInUser \in [Devices -> Names \union {NULL}]
      /\ DOMAIN answers = Devices /\ a \in Answer
  BY DEF MainInv, TypeInv, TypeOK
<1>4. /\ \A e \in Devices \ {d} : answers'[e] = answers[e]
      /\ answers'[d] \in {BagRemove(answers[d], a), EmptyBag}
  BY <1>1, <1>3 DEF LogIn, Refuse, Ignore, Crash, LoseAnswer, Handle
<1>5. ASSUME ~overlap[d]
      PROVE  page[d].kind # "main" /\ OneUnderWay(d)'
  <2>1. Single(answers[d]) /\ BagToSet(requests[d]) = {} /\ page[d].kind # "main"
    BY <1>5, TheOnlyOne
  <2>2. BagToSet(answers'[d]) = {}
    BY <1>4, <2>1, SingleRemove, InEmptyBag
  <2> QED  BY <1>2, <2>1, <2>2 DEF OneUnderWay, Nothing
<1>6. /\ \A e \in Devices \ {d} : page'[e] = page[e] /\ LoggedInUser'[e] = LoggedInUser[e]
      /\ \/ page'[d].kind = "main" /\ page'[d].Name = NULL /\ LoggedInUser'[d] \in Names
         \/ page'[d].kind = "Login"
         \/ /\ page'[d].kind = page[d].kind
            /\ LoggedInUser'[d] \in Names \union {LoggedInUser[d]}
  <2>1. CASE LogIn(d, a)
    BY <1>3, <2>1 DEF LogIn, Present, NewPage, Answer
  <2>2. CASE Refuse(d, a)
    BY <1>3, <2>2 DEF Refuse, Page
  <2>3. CASE Ignore(d, a) \/ LoseAnswer(d, a)
    BY <2>3 DEF Ignore, LoseAnswer
  <2>4. CASE Crash(d, a)
    BY <1>3, <2>4 DEF Crash, NewPage
  <2> QED  BY <1>1, <2>1, <2>2, <2>3, <2>4
<1>7. Untouched(d)
  BY <1>2, <1>4, <1>6 DEF Untouched
<1>8. NULL \notin Names
  BY AccountNull
<1>9. Here(d)
  BY <1>2, <1>5, <1>6, <1>8 DEF Here, MainInv, MainShowsUser
<1> QED  BY <1>7, <1>9, OneDevice

LEMMA InitMain == Init => MainInv
<1> SUFFICES ASSUME Init PROVE MainInv
  OBVIOUS
<1>1. \A d \in Devices : page[d].kind = "Login" /\ OneUnderWay(d)
  BY InEmptyBag DEF Init, NewPage, OneUnderWay, Nothing
<1> QED  BY <1>1, InitType DEF MainInv, MainShowsUser

LEMMA NextMain == MainInv /\ [Next]_vars => MainInv'
<1> SUFFICES ASSUME MainInv, [Next]_vars PROVE MainInv'
  OBVIOUS
<1>1. TypeInv'
  BY NextType DEF MainInv
<1>2. CASE UNCHANGED vars
  BY <1>1, <1>2 DEF vars, MainInv, MainShowsUser, OneUnderWay, Nothing
<1>3. CASE Next
  BY <1>1, <1>3, ClicksMain, MovesMain, ServerMain, MainQueueMain DEF Next
<1> QED  BY <1>2, <1>3

\* MainShown: the main pages always have a user, and of a device whose clicks wait
\* for their answers the profile page shows this user, for any devices and bounds.
THEOREM MainShown == Spec => []MainShowsUser
<1>1. MainInv => MainShowsUser
  BY DEF MainInv
<1> QED  BY <1>1, InitMain, NextMain, PTL DEF Spec

-----------------------------------------------------------------------------
(* Accounts implements Sessions                                            *)

RegisteredAs(users) == {CredentialsOf(users[i]) : i \in DOMAIN users}

LEMMA InsertAbstract ==
    ASSUME KnowsInv, NEW d \in Devices, NEW r \in BagToSet(requests[d]), InsertUser(d, r)
    PROVE  Abstract!Register(d, r.user)
<1> DEFINE row == [username |-> r.user.username, password |-> r.user.password,
                   seen |-> r.seen]
<1>1. r \in Request /\ r.user \in typed[d]
  BY DEF KnowsInv, RequestsTyped, TypeInv, TypeOK
<1>2. CredentialsOf(row) = r.user
  BY <1>1 DEF Request, userInfo, CredentialsOf
<1>3. User' = Append(User, row) /\ User \in Seq(Row)
  BY DEF InsertUser, KnowsInv, TypeInv, TypeOK
<1>4. /\ DOMAIN User' = DOMAIN User \union {Len(User) + 1}
      /\ \A i \in DOMAIN User : User'[i] = User[i]
      /\ User'[Len(User) + 1] = row
  <2> HIDE DEF row
  <2> QED  BY <1>3
<1>5. RegisteredAs(User') = RegisteredAs(User) \union {r.user}
  <2>1. \A c : c \in RegisteredAs(User') <=>
               \/ \E i \in DOMAIN User : c = CredentialsOf(User'[i])
               \/ c = CredentialsOf(User'[Len(User) + 1])
    BY <1>4 DEF RegisteredAs
  <2>2. \A i \in DOMAIN User : CredentialsOf(User'[i]) = CredentialsOf(User[i])
    BY <1>4
  <2>3. CredentialsOf(User'[Len(User) + 1]) = r.user
    BY <1>2, <1>4
  <2>4. \A c : c \in RegisteredAs(User) <=> \E i \in DOMAIN User : c = CredentialsOf(User[i])
    BY DEF RegisteredAs
  <2>5. \A c : c \in RegisteredAs(User') <=> c \in RegisteredAs(User) \/ c = r.user
    BY <2>1, <2>2, <2>3, <2>4, Zenon
  <2> QED  BY <2>5
<1> QED  BY <1>1, <1>5 DEF Abstract!Register, RegisteredAs, InsertUser, Reply

LEMMA LogInAbstract ==
    ASSUME KnowsInv, NEW d \in Devices, NEW a \in BagToSet(answers[d]), LogIn(d, a)
    PROVE  \E credentials \in userInfo : Abstract!Begin(d, credentials)
<1>1. Knows(d, a.username)
  BY DEF LogIn, KnowsInv, AnswersKnown
<1>2. PICK i \in RowsOf(a.username) :
          [username |-> a.username, password |-> User[i].password] \in typed[d]
  BY <1>1 DEF Knows
<1> DEFINE credentials == [username |-> a.username, password |-> User[i].password]
<1>3. credentials \in userInfo
  BY <1>2 DEF KnowsInv, TypeInv, TypeOK
<1>4. i \in DOMAIN User /\ credentials = CredentialsOf(User[i])
  BY <1>2 DEF RowsOf, CredentialsOf
<1>5. credentials \in typed[d] \intersect {CredentialsOf(User[j]) : j \in DOMAIN User}
  BY <1>2, <1>4
<1>6. LoggedInUser' = [LoggedInUser EXCEPT ![d] = credentials.username]
  BY DEF LogIn
<1>7. UNCHANGED <<User, typed>>
  BY DEF LogIn, Handle
<1>8. Abstract!Begin(d, credentials)
  BY <1>5, <1>6, <1>7 DEF Abstract!Begin
<1> QED  BY <1>3, <1>8

\* Every step of Accounts is a step of Sessions, or changes none of its variables.
LEMMA NextAbstract == KnowsInv /\ [Next]_vars => [Abstract!Next]_(Abstract!vars)
<1> SUFFICES ASSUME KnowsInv, [Next]_vars PROVE [Abstract!Next]_(Abstract!vars)
  OBVIOUS
<1>1. ASSUME UNCHANGED <<User, typed, LoggedInUser>>
      PROVE  UNCHANGED Abstract!vars
  BY <1>1 DEF Abstract!vars
<1>2. ASSUME NEW d \in Devices, UNCHANGED <<User, typed>>,
             LoggedInUser' = [LoggedInUser EXCEPT ![d] = NULL]
      PROVE  Abstract!End(d)
  BY <1>2 DEF Abstract!End
<1>3. ASSUME NEW d \in Devices, Clicks(d)
      PROVE  \E credentials \in userInfo : Abstract!Enter(d, credentials)
  <2>1. PICK user \in userInfo : Click(d, user, "verify") \/ Click(d, user, "select")
    BY <1>3 DEF Clicks, LoginButtonClick, Register_Click
  <2> QED  BY <2>1 DEF Click, Abstract!Enter
<1>4. ASSUME NEW d \in Devices, Moves(d)
      PROVE  Abstract!End(d) \/ UNCHANGED Abstract!vars
  BY <1>1, <1>2, <1>4 DEF Moves, Go, CloseAlert, OpenProfile, Logout
<1>5. ASSUME NEW d \in Devices, Server(d)
      PROVE  \/ \E r \in BagToSet(requests[d]) : InsertUser(d, r)
             \/ UNCHANGED Abstract!vars
  BY <1>1, <1>5 DEF Server, verify_password, SelectUser, Fail, LoseRequest, Reply
<1>6. ASSUME NEW d \in Devices, MainQueue(d)
      PROVE  \/ \E a \in BagToSet(answers[d]) : LogIn(d, a)
             \/ Abstract!End(d)
             \/ UNCHANGED Abstract!vars
  BY <1>1, <1>2, <1>6 DEF MainQueue, Refuse, Ignore, Crash, LoseAnswer, Handle
<1>7. \A d \in Devices : \A r \in BagToSet(requests[d]) :
          InsertUser(d, r) => Abstract!Register(d, r.user) /\ r.user \in userInfo
  BY InsertAbstract DEF KnowsInv, RequestsTyped, TypeInv, TypeOK
<1>8. userInfo = Abstract!Credentials
  BY DEF userInfo, Abstract!Credentials
<1>9. CASE UNCHANGED vars
  BY <1>1, <1>9 DEF vars
<1> QED  BY <1>3, <1>4, <1>5, <1>6, <1>7, <1>8, <1>9, LogInAbstract DEF Next, Abstract!Next

LEMMA InitAbstract == Init => Abstract!Init
BY DEF Init, Abstract!Init

\* RefinesSessions: registrations and logins, with everything that overlaps, arrives
\* late or fails, implement Sessions: no account changes or goes, and nobody becomes
\* the user of a device but by a name and password entered on it.
THEOREM RefinesSessions == Spec => ImplementsSessions
BY InitAbstract, InitKnows, NextAbstract, NextKnows, PTL
   DEF Spec, ImplementsSessions, Abstract!Spec

=============================================================================
