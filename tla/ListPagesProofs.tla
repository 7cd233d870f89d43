-------------------------- MODULE ListPagesProofs --------------------------
(***************************************************************************)
(* Theorems about ListPages and ProfilePictures, for any users, items,     *)
(* answers and bounds.                                                     *)
(***************************************************************************)
EXTENDS ProfilePictures, DataLemmas

-----------------------------------------------------------------------------
(* Type correctness *)

ScreenOK == /\ LoggedInUser \in Users \union {NULL}
            /\ tab \in Tabs
            /\ top \in Pages
            /\ tab = "login" <=> LoggedInUser = NULL

ListsOK == /\ model \in [Lists -> Seq(Items)]
           /\ table \in [Lists -> Seq(Items)]
           /\ controller \in [Lists -> 0..MaxLoads]
           /\ sent \in 0..MaxLoads
           /\ loads \subseteq Load
           /\ handler \in Handler
           /\ watch \in [Lists -> Watch]

LEMMA TypeParts == TypeOK <=> ScreenOK /\ ListsOK
BY DEF TypeOK, ScreenOK, ListsOK

LEMMA UnseenType == Unseen \in Watch
BY ListAssumption DEF Unseen, Watch

LEMMA InitType == Init => TypeOK
<1> SUFFICES ASSUME Init PROVE TypeOK
  OBVIOUS
<1>1. ScreenOK
  BY DEF Init, ScreenOK, Tabs, Pages, Roots
<1>2. ListsOK
  BY ListAssumption, UnseenType DEF Init, ListsOK, Everywhere, None, Handler
<1> QED  BY <1>1, <1>2, TypeParts

LEMMA RestartType == TypeOK /\ Restart => TypeOK'
<1> SUFFICES ASSUME TypeOK, Restart PROVE TypeOK'
  OBVIOUS
<1>1. ScreenOK'
  BY DEF Restart, ScreenOK, Tabs, Pages, Roots
<1>2. ListsOK'
  BY ListAssumption, UnseenType DEF Restart, TypeOK, ListsOK, Everywhere, Handler
<1> QED  BY <1>1, <1>2 DEF TypeOK, ScreenOK, ListsOK

\* A running handler, and one that is not.
LEMMA HandlerType ==
    ASSUME handler \in Handler
    PROVE  /\ handler.running \in BOOLEAN
           /\ handler.running => /\ handler.load \in Load
                                 /\ handler.rest \in Seq(Items)
                                 /\ handler.items \in Seq(Items)
                                 /\ handler = [running |-> TRUE, load |-> handler.load,
                                               rest |-> handler.rest, items |-> handler.items]
<1>1. CASE handler = None
  BY <1>1 DEF None
<1>2. CASE handler \in [running : {TRUE}, load : Load, rest : Seq(Items), items : Seq(Items)]
  BY <1>2
<1> QED  BY <1>1, <1>2 DEF Handler

\* The page on the screen is one of its tab.
LEMMA PageTab ==
    ASSUME ScreenOK
    PROVE  /\ Page \in {"trips", "trip"} <=> tab = "trips"
           /\ Page \in {"friends", "requests", "friend"} <=> tab = "friends"
           /\ Page = "profile" <=> tab = "profile"
           /\ Page = "login" <=> tab = "login"
           /\ tab # "login" => LoggedInUser \in Users
BY DEF ScreenOK, Page, Tabs, Pages

LEMMA AppearType ==
    ASSUME ListsOK, NEW k \in Lists, NEW user \in Users,
           NEW rows \in [Lists -> Seq(Items)], NEW controllers \in [Lists -> 0..MaxLoads],
           viewWillAppear(k, user, rows, controllers)
    PROVE  ListsOK'
<1>1. sent' \in 1..MaxLoads /\ sent' \in 0..MaxLoads
  BY ListAssumption DEF viewWillAppear, ListsOK
<1>2. controller' \in [Lists -> 0..MaxLoads] /\ controller'[k] \in 1..MaxLoads
  BY <1>1, ListAssumption DEF viewWillAppear
<1>3. loads' \subseteq Load
  BY <1>1, <1>2 DEF viewWillAppear, ListsOK, Load
<1>4. model' \in [Lists -> Seq(Items)]
  BY DEF viewWillAppear, ListsOK, Emptied
<1>5. table' \in [Lists -> Seq(Items)]
  BY <1>4 DEF viewWillAppear
<1>6. watch' \in [Lists -> Watch]
  <2> DEFINE w == [Unseen EXCEPT !.latest = sent', !.overlap = UnderWay(k)]
  <2>1. UnderWay(k) \in BOOLEAN
    BY DEF UnderWay
  <2>2. w \in Watch
    BY <1>1, <2>1, UnseenType DEF Watch
  <2> HIDE DEF w
  <2>3. watch' = [watch EXCEPT ![k] = w]
    BY DEF viewWillAppear, w
  <2> QED  BY <2>2, <2>3 DEF ListsOK
<1> QED  BY <1>1, <1>2, <1>3, <1>4, <1>5, <1>6 DEF viewWillAppear, ListsOK

LEMMA MainType ==
    ASSUME ListsOK, NEW user \in Users, Main(user)
    PROVE  TypeOK'
<1>1. ScreenOK'
  BY ListAssumption DEF Main, ScreenOK, Tabs, Pages, Roots
<1>2. ListsOK'
  <2>1. /\ Everywhere(<<>>) \in [Lists -> Seq(Items)]
        /\ Everywhere(0) \in [Lists -> 0..MaxLoads]
        /\ "trips" \in Lists
    BY ListAssumption DEF Everywhere, Lists
  <2> QED  BY <2>1, AppearType DEF Main
<1> QED  BY <1>1, <1>2 DEF TypeOK, ScreenOK, ListsOK

LEMMA MoveType ==
    ASSUME TypeOK, Move \/ Logout
    PROVE  TypeOK'
<1>0. ScreenOK /\ ListsOK
  BY TypeParts
<1>1. ASSUME NEW user \in Users, Login(user)
      PROVE  TypeOK'
  BY <1>0, <1>1, MainType DEF Login
<1>2. CASE FinishWizard
  <2>1. LoggedInUser \in Users
    BY <1>0, <1>2, PageTab DEF FinishWizard
  <2> QED  BY <1>0, <1>2, <2>1, MainType DEF FinishWizard
<1>3. ASSUME NEW new \in Tabs \ {"login"}, OpenTab(new)
      PROVE  TypeOK'
  <2>1. ScreenOK' /\ LoggedInUser \in Users
    BY <1>0, <1>3 DEF OpenTab, ScreenOK, Tabs
  <2>2. CASE new \in DOMAIN top /\ top[new] \in Lists
    <3>1. viewWillAppear(top[new], LoggedInUser, table, controller)
      BY <1>3, <2>2 DEF OpenTab
    <3>2. ListsOK'
      BY <1>0, <2>1, <2>2, <3>1, AppearType DEF ListsOK
    <3> QED  BY <2>1, <3>2 DEF TypeOK, ScreenOK, ListsOK
  <2>3. CASE ~(new \in DOMAIN top /\ top[new] \in Lists)
    BY <1>0, <1>3, <2>1, <2>3 DEF OpenTab, TypeOK, ScreenOK, ListsOK
  <2> QED  BY <2>2, <2>3
<1>4. CASE OpenRequests
  <2>1. ScreenOK' /\ LoggedInUser \in Users
    BY <1>0, <1>4, PageTab DEF OpenRequests, ScreenOK, Pages
  <2>2. ListsOK'
    BY <1>0, <1>4, <2>1, AppearType DEF OpenRequests, ListsOK, Lists
  <2> QED  BY <2>1, <2>2 DEF TypeOK, ScreenOK, ListsOK
<1>5. CASE Back
  <2>1. LoggedInUser \in Users /\ tab \in {"trips", "friends"}
    BY <1>0, <1>5, PageTab DEF Back
  <2>2. ScreenOK'
    BY <1>0, <1>5, <2>1 DEF Back, ScreenOK, Pages
  <2> DEFINE left == IF Page = "requests" THEN [controller EXCEPT !["requests"] = 0]
                                          ELSE controller
  <2>3. left \in [Lists -> 0..MaxLoads]
    <3>1. 0 \in 0..MaxLoads /\ controller \in [Lists -> 0..MaxLoads]
      BY <1>0, ListAssumption DEF ListsOK
    <3>2. [controller EXCEPT !["requests"] = 0] \in [Lists -> 0..MaxLoads]
      BY <3>1
    <3> QED  BY <3>1, <3>2
  <2>4. viewWillAppear(tab, LoggedInUser, table, left)
    BY <1>5 DEF Back
  <2> HIDE DEF left
  <2>5. ListsOK'
    BY <1>0, <2>1, <2>3, <2>4, AppearType DEF ListsOK, Lists
  <2> QED  BY <2>2, <2>5 DEF TypeOK, ScreenOK, ListsOK
<1>6. CASE Logout
  BY <1>0, <1>6 DEF Logout, TypeOK, ScreenOK, ListsOK, Tabs
<1> QED  BY <1>1, <1>2, <1>3, <1>4, <1>5, <1>6 DEF Move

\* The items of a list are the elements of its sequence.
LEMMA ItemsOf ==
    ASSUME NEW S, NEW list \in Seq(S)
    PROVE  ToSet(list) \subseteq S
BY DEF ToSet

LEMMA RedrawType ==
    ASSUME ListsOK, model' \in [Lists -> Seq(Items)], NEW load \in Load, Redraw(load)
    PROVE  table' \in [Lists -> Seq(Items)]
BY DEF ListsOK, Redraw, Load

LEMMA AnsweredType ==
    ASSUME ListsOK, NEW load \in Load, NEW items \in Seq(Items), Answered(load, items)
    PROVE  watch' \in [Lists -> Watch]
<1> DEFINE w == [watch[load.list] EXCEPT !.answered = TRUE, !.expected = ToSet(items)]
<1>1. load.list \in Lists
  BY DEF Load
<1>2. w \in Watch
  BY <1>1, ItemsOf DEF ListsOK, Watch
<1>3. watch' \in {watch, [watch EXCEPT ![load.list] = w]}
  BY DEF Answered
<1> HIDE DEF w
<1> QED  BY <1>1, <1>2, <1>3 DEF ListsOK

LEMMA ArriveType ==
    ASSUME TypeOK, Arrive
    PROVE  TypeOK'
<1>0. ScreenOK /\ ListsOK
  BY TypeParts
<1> USE ListAssumption
<1>1. ASSUME NEW load \in loads, NEW items \in Answers[load.list][load.user]
      PROVE  load \in Load /\ load.list \in Lists /\ items \in Seq(Items)
  BY <1>0, <1>1 DEF ListsOK, Load
<1>2. ASSUME NEW load \in loads, NEW items \in Answers[load.list][load.user],
             Answer(load, items)
      PROVE  TypeOK'
  <2>1. handler' \in Handler
    BY <1>1, <1>2 DEF Answer, Handler
  <2>2. ListsOK'
    BY <1>0, <1>2, <2>1 DEF Answer, Take, ListsOK
  <2> QED  BY <1>0, <1>2, <2>2 DEF Answer, screen, TypeOK, ScreenOK, ListsOK
<1>3. ASSUME NEW load \in loads, NEW items \in Answers[load.list][load.user],
             AnswerTrips(load, items)
      PROVE  TypeOK'
  <2>1. model' \in [Lists -> Seq(Items)]
    BY <1>0, <1>1, <1>3 DEF AnswerTrips, ListsOK
  <2>2. table' \in [Lists -> Seq(Items)] /\ watch' \in [Lists -> Watch]
    BY <1>0, <1>1, <1>3, <2>1, RedrawType, AnsweredType DEF AnswerTrips
  <2>3. ListsOK'
    BY <1>0, <1>3, <2>1, <2>2 DEF AnswerTrips, Take, ListsOK
  <2> QED  BY <1>0, <1>3, <2>3 DEF AnswerTrips, screen, TypeOK, ScreenOK, ListsOK
<1>4. ASSUME NEW load \in loads, Lose(load)
      PROVE  TypeOK'
  BY <1>0, <1>4 DEF Lose, Take, screen, TypeOK, ScreenOK, ListsOK
<1>5. CASE AppendNext
  <2>1. /\ handler.load \in Load /\ handler.load.list \in Lists
        /\ handler.rest \in Seq(Items) /\ handler.rest # <<>>
        /\ handler.items \in Seq(Items)
        /\ handler = [running |-> TRUE, load |-> handler.load,
                      rest |-> handler.rest, items |-> handler.items]
    BY <1>0, <1>5, HandlerType DEF AppendNext, ListsOK, Load
  <2>2. Head(handler.rest) \in Items /\ Tail(handler.rest) \in Seq(Items)
    BY <2>1, HeadTailProperties
  <2>3. model' \in [Lists -> Seq(Items)]
    BY <1>0, <1>5, <2>1, <2>2 DEF AppendNext, ListsOK
  <2>4. handler' = [running |-> TRUE, load |-> handler.load,
                    rest |-> Tail(handler.rest), items |-> handler.items]
    BY <1>5, <2>1 DEF AppendNext
  <2>5. handler' \in Handler
    BY <2>1, <2>2, <2>4 DEF Handler
  <2>6. ListsOK'
    BY <1>0, <1>5, <2>3, <2>5 DEF AppendNext, ListsOK
  <2> QED  BY <1>0, <1>5, <2>6 DEF AppendNext, screen, TypeOK, ScreenOK, ListsOK
<1>6. CASE Callback
  <2>1. handler.load \in Load /\ handler.items \in Seq(Items)
    BY <1>0, <1>6, HandlerType DEF Callback, ListsOK
  <2>2. table' \in [Lists -> Seq(Items)] /\ watch' \in [Lists -> Watch]
    BY <1>0, <1>6, <2>1, RedrawType, AnsweredType DEF Callback, ListsOK
  <2>3. ListsOK'
    BY <1>0, <1>6, <2>2 DEF Callback, ListsOK, Handler
  <2> QED  BY <1>0, <1>6, <2>3 DEF Callback, screen, TypeOK, ScreenOK, ListsOK
<1> QED  BY <1>2, <1>3, <1>4, <1>5, <1>6 DEF Arrive

LEMMA TouchType ==
    ASSUME TypeOK, Touch
    PROVE  TypeOK'
<1>0. ScreenOK /\ ListsOK
  BY TypeParts
<1>1. PICK k \in Lists : \E i \in DOMAIN table[k] : Open(k, i) \/ Scroll(k, i) \/ ButtonTapped(i)
  BY DEF Touch
<1>2. PICK i \in DOMAIN table[k] : Open(k, i) \/ Scroll(k, i) \/ ButtonTapped(i)
  BY <1>1
<1>3. CASE Open(k, i)
  <2>1. ScreenOK'
    BY <1>0, <1>3, PageTab DEF Open, Row, ScreenOK, Pages, Lists
  <2>2. ListsOK'
    BY <1>0, <1>3 DEF Open, ListsOK
  <2> QED  BY <2>1, <2>2 DEF TypeOK, ScreenOK, ListsOK
<1>4. CASE Scroll(k, i)
  <2>1. model[k] \in Seq(Items) /\ table[k] \in Seq(Items) /\ i \in DOMAIN model[k]
    BY <1>0, <1>4 DEF ListsOK, Scroll, InModel
  <2>2. [table[k] EXCEPT ![i] = model[k][i]] \in Seq(Items)
    <3>1. model[k][i] \in Items
      BY <2>1
    <3> QED  BY <2>1, <3>1, ExceptSeq
  <2>3. table' \in [Lists -> Seq(Items)]
    BY <1>0, <1>4, <2>2 DEF ListsOK, Scroll
  <2> QED  BY <1>0, <1>4, <2>3 DEF Scroll, screen, TypeOK, ScreenOK, ListsOK
<1>5. CASE ButtonTapped(i)
  <2>1. /\ model["requests"] \in Seq(Items) /\ table["requests"] \in Seq(Items)
        /\ i \in DOMAIN model["requests"] /\ i \in DOMAIN table["requests"]
        /\ "requests" \in Lists
    BY <1>0, <1>5 DEF ListsOK, Lists, ButtonTapped, Deletable, InModel, Row
  <2>2. model' \in [Lists -> Seq(Items)] /\ table' \in [Lists -> Seq(Items)]
    BY <1>0, <1>5, <2>1, RemoveAtElements DEF ListsOK, ButtonTapped
  <2>3. watch' \in [Lists -> Watch]
    <3> DEFINE w == watch["requests"]
               e == w.expected \ {table["requests"][i]}
               h == w.hasty \/ UnderWay("requests")
               new == [w EXCEPT !.expected = e, !.hasty = h]
    <3>1. w \in Watch
      BY <1>0, <2>1 DEF ListsOK
    <3>2. e \subseteq Items
      BY <3>1 DEF Watch
    <3>3. h \in BOOLEAN
      OBVIOUS
    <3>4. watch' = [watch EXCEPT !["requests"] = new]
      BY <1>5 DEF ButtonTapped
    <3> HIDE DEF w, e, h
    <3>5. new \in Watch
      BY <3>1, <3>2, <3>3 DEF Watch
    <3> HIDE DEF new
    <3> QED  BY <1>0, <3>4, <3>5 DEF ListsOK
  <2> QED  BY <1>0, <1>5, <2>2, <2>3 DEF ButtonTapped, screen, TypeOK, ScreenOK, ListsOK
<1> QED  BY <1>2, <1>3, <1>4, <1>5

\* A step of the pages: one of Next, the end of the app, or none.
LEMMA NextType ==
    ASSUME TypeOK, [Next \/ Restart]_vars
    PROVE  TypeOK'
<1>1. CASE Crash \/ Restart
  BY <1>1, RestartType DEF Crash, TouchCrash, AnswerCrash
<1>2. CASE UNCHANGED vars
  BY <1>2 DEF vars, screen, TypeOK
<1> QED  BY <1>1, <1>2, MoveType, TouchType, ArriveType DEF Next

LEMMA DeviceStep == [DeviceNext]_deviceVars => [Next \/ Restart]_vars
BY DEF DeviceNext, deviceVars, Elsewhere, AppEnds, Crash, CancelPicker, TouchCrash,
       AnswerCrash, didSelect, registerimage, LoseUpload, Next

-----------------------------------------------------------------------------
(* What the pages show *)

\* The loads that still have an answer to come, or to be appended.
Waiting == loads \union IF handler.running THEN {handler.load} ELSE {}

\* Each has a number of its own.
Numbered ==
    /\ \A l \in Waiting : l.n <= sent
    /\ \A l, m \in Waiting : l.n = m.n => l = m
    /\ handler.running => handler.load \notin loads
    /\ \A k \in Lists : watch[k].latest <= sent

\* No answer is drawn twice, nor an older one after the last unless loads
\* overlapped, and the last is drawn by the controller on the screen.
Awaited ==
    \A k \in Lists : \A l \in Waiting :
        l.list = k =>
            /\ watch[k].answered => l.n # watch[k].latest
            /\ ~watch[k].overlap => l.n = watch[k].latest
            /\ (Page = k /\ l.n = watch[k].latest) => l.controller = controller[k]

\* What the last answer lists is in the model, or still to be appended.
AllThere ==
    \A k \in Lists \ {"trips"} :
        (Handles(k) /\ handler.load.n = watch[k].latest /\ ~watch[k].hasty) =>
            ToSet(handler.items) \subseteq ToSet(model[k]) \union ToSet(handler.rest)

Inv == /\ TypeOK
       /\ Numbered
       /\ Awaited
       /\ AllThere
       /\ ShowsModel
       /\ ShowsEverything

\* Nothing is loaded and no page that lists something is on the screen.
LEMMA NothingShown ==
    ASSUME TypeOK, loads = {}, handler = None, tab = "login", watch = Everywhere(Unseen)
    PROVE  Inv
<1>1. Waiting = {} /\ ~handler.running
  BY DEF Waiting, None
<1>2. Page \notin Lists
  BY PageTab, TypeParts DEF Lists
<1>3. \A k \in Lists : watch[k].latest = 0 /\ ~watch[k].answered
  BY DEF Everywhere, Unseen
<1>4. Numbered
  BY <1>1, <1>3 DEF Numbered, TypeOK
<1>5. Awaited /\ AllThere
  BY <1>1 DEF Awaited, AllThere, Handles
<1>6. ShowsModel /\ ShowsEverything
  BY <1>2 DEF ShowsModel, ShowsEverything
<1> QED  BY <1>4, <1>5, <1>6 DEF Inv

LEMMA WaitingType ==
    ASSUME TypeOK
    PROVE  /\ handler.running \in BOOLEAN
           /\ \A l \in Waiting : l \in Load /\ l.list \in Lists /\ l.n \in Int
           /\ sent \in Int
           /\ \A k \in Lists : watch[k] \in Watch /\ watch[k].latest \in Int
<1>1. handler.running \in BOOLEAN /\ (handler.running => handler.load \in Load)
  BY HandlerType DEF TypeOK
<1>2. \A l \in Waiting : l \in Load
  BY <1>1 DEF Waiting, TypeOK
<1>3. \A l \in Load : l.list \in Lists /\ l.n \in Int
  BY ListAssumption DEF Load
<1>4. \A w \in Watch : w.latest \in Int
  BY ListAssumption DEF Watch
<1> QED  BY <1>1, <1>2, <1>3, <1>4, ListAssumption DEF TypeOK

\* A page appears and loads its list.
LEMMA AppearInv ==
    ASSUME Inv, TypeOK', NEW k \in Lists, NEW user, NEW rows, NEW controllers,
           viewWillAppear(k, user, rows, controllers), Page' = k
    PROVE  Inv'
<1> DEFINE new == [n |-> sent', list |-> k, user |-> user, controller |-> controller'[k]]
<1>1. /\ new.n = sent' /\ new.list = k /\ new.controller = controller'[k]
      /\ sent' = sent + 1 /\ loads' = loads \union {new} /\ handler' = handler
  BY DEF viewWillAppear
<1> HIDE DEF new
<1>2. Waiting' = Waiting \union {new}
  BY <1>1 DEF Waiting
<1>3. /\ handler.running \in BOOLEAN
      /\ \A l \in Waiting : l.n \in Int /\ l.n <= sent
      /\ sent \in Int
      /\ \A j \in Lists : watch[j] \in Watch /\ watch[j].latest \in Int
  BY WaitingType DEF Inv, Numbered
<1>4. /\ watch'[k].latest = sent' /\ ~watch'[k].answered /\ ~watch'[k].hasty
      /\ watch'[k].expected = {} /\ (watch'[k].overlap <=> UnderWay(k))
      /\ \A j \in Lists \ {k} : watch'[j] = watch[j]
  BY <1>3 DEF viewWillAppear, Unseen, UnderWay, Inv, TypeOK
<1>5. UnderWay(k) <=> \E l \in Waiting : l.list = k
  BY <1>3 DEF UnderWay, Handles, Waiting
<1>6. Numbered'
  <2>1. new \notin Waiting /\ \A l \in Waiting : l.n # new.n
    BY <1>1, <1>3
  <2>2. handler.running => handler.load \in Waiting
    BY DEF Waiting
  <2>3. \A j \in Lists : watch'[j].latest <= sent'
    BY <1>1, <1>3, <1>4 DEF Inv, Numbered
  <2>4. \A l \in Waiting' : l.n <= sent'
    BY <1>1, <1>2, <1>3
  <2>5. \A l, m \in Waiting' : l.n = m.n => l = m
    BY <1>2, <2>1 DEF Inv, Numbered
  <2>6. handler.running => handler.load \notin loads'
    BY <1>1, <2>1, <2>2 DEF Inv, Numbered
  <2> QED  BY <1>1, <2>3, <2>4, <2>5, <2>6 DEF Numbered
<1>7. Awaited'
  <2> SUFFICES ASSUME NEW j \in Lists, NEW l \in Waiting', l.list = j
               PROVE  /\ watch'[j].answered => l.n # watch'[j].latest
                      /\ ~watch'[j].overlap => l.n = watch'[j].latest
                      /\ (Page' = j /\ l.n = watch'[j].latest) => l.controller = controller'[j]
    BY DEF Awaited
  <2>1. CASE l = new
    BY <1>1, <1>4, <2>1
  <2>2. CASE l \in Waiting /\ j = k
    BY <1>1, <1>3, <1>4, <1>5, <2>2
  <2>3. CASE l \in Waiting /\ j # k
    BY <1>4, <2>3 DEF Inv, Awaited
  <2> QED  BY <1>2, <2>1, <2>2, <2>3
<1>8. AllThere'
  <2> SUFFICES ASSUME NEW j \in Lists \ {"trips"}, Handles(j),
                      handler.load.n = watch'[j].latest, ~watch'[j].hasty
               PROVE  ToSet(handler.items) \subseteq ToSet(model'[j]) \union ToSet(handler.rest)
    BY <1>1 DEF AllThere, Handles
  <2>1. handler.load \in Waiting
    BY DEF Handles, Waiting
  <2>2. j # k
    BY <1>1, <1>3, <1>4, <2>1
  <2>3. model'[j] = model[j] /\ watch'[j] = watch[j]
    BY <1>4, <2>2 DEF viewWillAppear, Emptied, Inv, TypeOK
  <2> QED  BY <2>3 DEF Inv, AllThere
<1>9. ShowsModel' /\ ShowsEverything'
  BY <1>4 DEF ShowsModel, ShowsEverything
<1> QED  BY <1>6, <1>7, <1>8, <1>9 DEF Inv

\* The screen changes and no list appears on it.
LEMMA ScreenInv ==
    ASSUME Inv, TypeOK', Page' = Page \/ Page' \notin Lists,
           UNCHANGED <<model, table, controller, sent, loads, handler, watch>>
    PROVE  Inv'
<1>1. Waiting' = Waiting
  BY DEF Waiting
<1>2. Numbered' /\ AllThere'
  BY <1>1 DEF Inv, Numbered, AllThere, Handles
<1>3. Awaited'
  BY <1>1 DEF Inv, Awaited
<1>4. ShowsModel'
  BY DEF Inv, ShowsModel, InModel
<1>5. ShowsEverything'
  BY DEF Inv, ShowsEverything
<1> QED  BY <1>2, <1>3, <1>4, <1>5 DEF Inv

LEMMA MoveInv ==
    ASSUME Inv, Move \/ Logout
    PROVE  Inv'
<1>0. TypeOK' /\ ScreenOK /\ ScreenOK'
  BY MoveType DEF Inv, TypeOK, ScreenOK
<1>1. ASSUME NEW user, Main(user)
      PROVE  Inv'
  <2>1. Page' = "trips" /\ "trips" \in Lists
    BY <1>1 DEF Main, Page, Roots, Lists
  <2> QED  BY <1>0, <1>1, <2>1, AppearInv DEF Main
<1>2. ASSUME NEW new \in Tabs \ {"login"}, OpenTab(new)
      PROVE  Inv'
  <2>1. Page' = IF new \in DOMAIN top THEN top[new] ELSE new
    BY <1>2 DEF OpenTab, Page
  <2>2. CASE new \in DOMAIN top /\ top[new] \in Lists
    BY <1>0, <1>2, <2>1, <2>2, AppearInv DEF OpenTab
  <2>3. CASE ~(new \in DOMAIN top /\ top[new] \in Lists)
    <3>1. Page' \notin Lists
      BY <1>0, <2>1, <2>3 DEF ScreenOK, Pages, Tabs, Lists
    <3> QED  BY <1>0, <1>2, <2>3, <3>1, ScreenInv DEF OpenTab
  <2> QED  BY <2>2, <2>3
<1>3. CASE OpenRequests
  <2>1. tab = "friends"
    BY <1>0, <1>3, PageTab DEF OpenRequests
  <2>2. Page' = "requests" /\ "requests" \in Lists
    BY <1>0, <1>3, <2>1 DEF OpenRequests, Page, ScreenOK, Pages, Lists
  <2> QED  BY <1>0, <1>3, <2>2, AppearInv DEF OpenRequests
<1>4. CASE Back
  <2>1. tab \in {"trips", "friends"}
    BY <1>0, <1>4, PageTab DEF Back
  <2>2. Page' = tab /\ tab \in Lists
    BY <1>0, <1>4, <2>1 DEF Back, Page, ScreenOK, Pages, Lists
  <2> QED  BY <1>0, <1>4, <2>2, AppearInv DEF Back
<1>5. CASE Logout
  <2>1. Page' \notin Lists
    BY <1>0, <1>5 DEF Logout, Page, ScreenOK, Pages, Lists
  <2> QED  BY <1>0, <1>5, <2>1, ScreenInv DEF Logout
<1> QED  BY <1>1, <1>2, <1>3, <1>4, <1>5 DEF Move, Login, FinishWizard

\* An answer has its effect on the model, is drawn if its controller is on the
\* screen, and noted.
LEMMA DrawnInv ==
    ASSUME Inv, TypeOK', NEW load \in Waiting, NEW items,
           Waiting' = Waiting \ {load}, loads' \subseteq loads,
           handler'.running => handler' = handler,
           UNCHANGED <<screen, controller, sent>>,
           Redraw(load), Answered(load, items),
           \A j \in Lists : j # load.list \/ j # "trips" => model'[j] = model[j],
           load.list # "trips" /\ load.n = watch[load.list].latest /\ ~watch[load.list].hasty =>
               ToSet(items) \subseteq ToSet(model[load.list])
    PROVE  Inv'
<1> DEFINE k == load.list
<1>0. k \in Lists /\ Page' = Page /\ \A j \in Lists : watch[j] \in Watch
  BY WaitingType DEF Inv, Page, screen
<1>1. \A j \in Lists : /\ watch'[j].latest = watch[j].latest
                       /\ watch'[j].overlap = watch[j].overlap
                       /\ watch'[j].hasty = watch[j].hasty
                       /\ j # k \/ load.n # watch[k].latest => watch'[j] = watch[j]
                       /\ j = k /\ load.n = watch[k].latest => watch'[j].expected = ToSet(items)
  BY <1>0 DEF Answered, Inv, TypeOK, Watch
<1>2. /\ \A j \in Lists \ {k} : table'[j] = table[j]
      /\ Page = k /\ load.controller = controller[k] => table'[k] = model'[k]
      /\ ~(Page = k /\ load.controller = controller[k]) => table' = table
  BY <1>0 DEF Redraw, Inv, TypeOK
<1>3. /\ Page = k /\ load.n = watch[k].latest => load.controller = controller[k]
      /\ ~watch[k].overlap => load.n = watch[k].latest
  BY <1>0 DEF Inv, Awaited
<1>4. Numbered'
  <2>1. handler'.running => handler' = handler /\ handler.running
    OBVIOUS
  <2> QED  BY <1>1, <2>1 DEF Inv, Numbered
<1>5. Awaited'
  <2> SUFFICES ASSUME NEW j \in Lists, NEW l \in Waiting', l.list = j
               PROVE  /\ watch'[j].answered => l.n # watch'[j].latest
                      /\ ~watch'[j].overlap => l.n = watch'[j].latest
                      /\ (Page' = j /\ l.n = watch'[j].latest) => l.controller = controller'[j]
    BY DEF Awaited
  <2>1. l.n # load.n
    BY DEF Inv, Numbered
  <2>2. CASE j = k /\ load.n = watch[k].latest
    BY <1>0, <1>1, <2>1, <2>2 DEF Inv, Awaited
  <2>3. CASE ~(j = k /\ load.n = watch[k].latest)
    BY <1>0, <1>1, <2>3 DEF Inv, Awaited
  <2> QED  BY <2>2, <2>3
<1>6. AllThere'
  <2> SUFFICES ASSUME NEW j \in Lists \ {"trips"}, Handles(j)',
                      handler'.load.n = watch'[j].latest, ~watch'[j].hasty
               PROVE  ToSet(handler'.items) \subseteq ToSet(model'[j]) \union ToSet(handler'.rest)
    BY DEF AllThere
  <2>1. handler' = handler /\ Handles(j)
    BY DEF Handles
  <2> QED  BY <1>1, <2>1 DEF Inv, AllThere
<1>7. ShowsModel'
  <2> SUFFICES ASSUME NEW j \in Lists, Page = j, watch'[j].answered,
                      j = "trips" => ~watch[j].overlap,
                      NEW i \in DOMAIN table'[j]
               PROVE  i \in DOMAIN model'[j] /\ table'[j][i] = model'[j][i]
    BY <1>0, <1>1 DEF ShowsModel, InModel
  <2>1. CASE j = k /\ load.controller = controller[k]
    BY <1>2, <2>1
  <2>2. CASE j = k /\ load.controller # controller[k]
    <3>1. load.n # watch[k].latest /\ j # "trips"
      BY <1>3, <2>2
    <3> QED  BY <1>1, <1>2, <2>2, <3>1 DEF Inv, ShowsModel, InModel
  <2>3. CASE j # k
    BY <1>1, <1>2, <2>3 DEF Inv, ShowsModel, InModel
  <2> QED  BY <2>1, <2>2, <2>3
<1>8. ShowsEverything'
  <2> SUFFICES ASSUME NEW j \in Lists \ {"trips"}, Page = j, watch'[j].answered, ~watch[j].hasty
               PROVE  watch'[j].expected \subseteq ToSet(table'[j])
    BY <1>0, <1>1 DEF ShowsEverything
  <2>1. CASE j = k /\ load.n = watch[k].latest
    BY <1>1, <1>2, <1>3, <2>1
  <2>2. CASE j = k /\ load.n # watch[k].latest /\ load.controller = controller[k]
    <3>1. watch[j].expected \subseteq ToSet(table[j])
      BY <1>1, <2>2 DEF Inv, ShowsEverything
    <3>2. \A i \in DOMAIN table[j] : i \in DOMAIN model[j] /\ table[j][i] = model[j][i]
      BY <1>1, <2>2 DEF Inv, ShowsModel, InModel
    <3>3. ToSet(table[j]) \subseteq ToSet(model[j])
      BY <3>2 DEF ToSet
    <3> QED  BY <1>1, <1>2, <2>2, <3>1, <3>3
  <2>3. CASE j # k \/ (load.n # watch[k].latest /\ load.controller # controller[k])
    BY <1>1, <1>2, <2>3 DEF Inv, ShowsEverything
  <2> QED  BY <2>1, <2>2, <2>3
<1> QED  BY <1>4, <1>5, <1>6, <1>7, <1>8 DEF Inv

LEMMA ArriveInv ==
    ASSUME Inv, Arrive
    PROVE  Inv'
<1>0. TypeOK' /\ handler.running \in BOOLEAN
  BY ArriveType, WaitingType DEF Inv
<1>1. ASSUME NEW load \in loads, NEW items, Answer(load, items)
      PROVE  Inv'
  <2>1. /\ handler'.running /\ handler'.load = load /\ handler'.rest = items
        /\ handler'.items = items /\ loads' = loads \ {load} /\ ~handler.running
        /\ UNCHANGED <<LoggedInUser, tab, top, model, table, controller, sent, watch>>
    BY <1>1 DEF Answer, Take, screen
  <2>2. Waiting' = Waiting /\ Page' = Page
    BY <2>1 DEF Waiting, Page
  <2>3. Numbered'
    BY <2>1, <2>2 DEF Inv, Numbered
  <2>4. Awaited' /\ AllThere'
    BY <2>1, <2>2 DEF Inv, Awaited, AllThere
  <2>5. ShowsModel' /\ ShowsEverything'
    BY <2>1, <2>2 DEF Inv, ShowsModel, ShowsEverything, InModel
  <2> QED  BY <1>0, <2>3, <2>4, <2>5 DEF Inv
<1>2. ASSUME NEW load \in loads, Lose(load)
      PROVE  Inv'
  <2>1. Waiting' \subseteq Waiting /\ loads' \subseteq loads
        /\ UNCHANGED <<LoggedInUser, tab, top, model, table, controller, sent, handler, watch>>
    BY <1>2 DEF Lose, Take, Waiting, screen
  <2>2. Page' = Page
    BY <2>1 DEF Page
  <2>3. Numbered'
    BY <2>1 DEF Inv, Numbered
  <2>4. Awaited' /\ AllThere'
    BY <2>1, <2>2 DEF Inv, Awaited, AllThere, Handles
  <2>5. ShowsModel' /\ ShowsEverything'
    BY <2>1, <2>2 DEF Inv, ShowsModel, ShowsEverything, InModel
  <2> QED  BY <1>0, <2>3, <2>4, <2>5 DEF Inv
<1>3. ASSUME NEW load \in loads, NEW items, AnswerTrips(load, items)
      PROVE  Inv'
  <2>1. load \in Waiting /\ Waiting' = Waiting \ {load} /\ loads' \subseteq loads
    BY <1>3 DEF AnswerTrips, Take, Waiting
  <2>2. \A j \in Lists \ {"trips"} : model'[j] = model[j]
    BY <1>3 DEF AnswerTrips, Inv, TypeOK
  <2> QED  BY <1>0, <1>3, <2>1, <2>2, DrawnInv DEF AnswerTrips, screen
<1>4. CASE AppendNext
  <2> DEFINE k == handler.load.list
             x == Head(handler.rest)
  <2>1. /\ k \in Lists /\ handler.rest \in Seq(Items) /\ handler.rest # <<>>
        /\ model \in [Lists -> Seq(Items)]
        /\ handler = [running |-> TRUE, load |-> handler.load,
                      rest |-> handler.rest, items |-> handler.items]
    BY <1>4, HandlerType DEF AppendNext, Inv, TypeOK, Load
  <2>2. /\ handler'.running /\ handler'.load = handler.load
        /\ handler'.items = handler.items /\ handler'.rest = Tail(handler.rest)
        /\ UNCHANGED <<LoggedInUser, tab, top, table, controller, sent, loads, watch>>
    BY <1>4, <2>1 DEF AppendNext, screen
  <2>3. /\ x \in Items /\ ToSet(handler.rest) \subseteq {x} \union ToSet(Tail(handler.rest))
    <3>1. /\ x \in Items /\ x = handler.rest[1]
          /\ Tail(handler.rest) \in Seq(Items) /\ Len(handler.rest) \in Nat \ {0}
          /\ Len(Tail(handler.rest)) = Len(handler.rest) - 1
          /\ \A i \in 1..Len(Tail(handler.rest)) : Tail(handler.rest)[i] = handler.rest[i + 1]
      BY <2>1, HeadTailProperties
    <3>2. /\ DOMAIN handler.rest = 1..Len(handler.rest)
          /\ DOMAIN Tail(handler.rest) = 1..(Len(handler.rest) - 1)
      BY <2>1, <3>1, LenProperties
    <3>3. ASSUME NEW i \in 1..Len(handler.rest), i # 1
          PROVE  handler.rest[i] \in ToSet(Tail(handler.rest))
      <4>1. i - 1 \in DOMAIN Tail(handler.rest) /\ Tail(handler.rest)[i - 1] = handler.rest[i]
        BY <3>1, <3>2, <3>3
      <4> QED  BY <4>1 DEF ToSet
    <3> QED  BY <3>1, <3>2, <3>3 DEF ToSet
  <2>4. /\ \A j \in Lists \ {k} : model'[j] = model[j]
        /\ model'[k] = Append(model[k], x)
    BY <1>4, <2>1 DEF AppendNext
  <2>5. /\ \A i \in DOMAIN model[k] : i \in DOMAIN model'[k] /\ model'[k][i] = model[k][i]
        /\ x \in ToSet(model'[k])
    <3>1. /\ model[k] \in Seq(Items) /\ Len(model'[k]) = Len(model[k]) + 1
          /\ model'[k] \in Seq(Items)
          /\ \A i \in 1..Len(model[k]) : model'[k][i] = model[k][i]
          /\ model'[k][Len(model[k]) + 1] = x
      BY <2>1, <2>3, <2>4, AppendProperties
    <3>2. /\ DOMAIN model[k] = 1..Len(model[k]) /\ Len(model[k]) \in Nat
          /\ DOMAIN model'[k] = 1..(Len(model[k]) + 1)
      BY <3>1, LenProperties
    <3>3. Len(model[k]) + 1 \in DOMAIN model'[k]
      BY <3>2
    <3>4. x \in ToSet(model'[k])
      BY <3>1, <3>3 DEF ToSet
    <3> HIDE DEF k, x
    <3> QED  BY <3>1, <3>2, <3>4
  <2>6. ToSet(model[k]) \subseteq ToSet(model'[k])
    BY <2>5 DEF ToSet
  <2>7. Waiting' = Waiting /\ Page' = Page
    BY <2>1, <2>2 DEF Waiting, Page
  <2>8. Numbered' /\ Awaited'
    BY <2>1, <2>2, <2>7 DEF Inv, Numbered, Awaited
  <2>9. AllThere'
    <3> SUFFICES ASSUME k # "trips", handler.load.n = watch[k].latest, ~watch[k].hasty
                 PROVE  ToSet(handler.items) \subseteq
                            ToSet(model'[k]) \union ToSet(Tail(handler.rest))
      BY <2>1, <2>2 DEF AllThere, Handles
    <3>1. ToSet(handler.items) \subseteq ToSet(model[k]) \union ToSet(handler.rest)
      BY <2>1 DEF Inv, AllThere, Handles
    <3> QED  BY <2>3, <2>5, <2>6, <3>1
  <2>10. ShowsModel'
    <3> HIDE DEF k
    <3> QED  BY <2>2, <2>4, <2>5, <2>7 DEF Inv, ShowsModel, InModel
  <2>11. ShowsEverything'
    BY <2>2, <2>7 DEF Inv, ShowsEverything
  <2> QED  BY <1>0, <2>8, <2>9, <2>10, <2>11 DEF Inv
<1>5. CASE Callback
  <2>1. handler.running /\ handler.rest = <<>> /\ ~handler'.running
        /\ handler.load.list \in Lists
    BY <1>5, HandlerType DEF Callback, None, Inv, TypeOK, Load
  <2>2. handler.load \in Waiting /\ handler.load \notin loads
    BY <2>1 DEF Waiting, Inv, Numbered
  <2>3. Waiting' = Waiting \ {handler.load}
    BY <1>5, <2>1, <2>2 DEF Callback, Waiting
  <2>4. ToSet(handler.rest) = {}
    BY <2>1 DEF ToSet
  <2>5. handler.load.list # "trips" /\ handler.load.n = watch[handler.load.list].latest
            /\ ~watch[handler.load.list].hasty =>
            ToSet(handler.items) \subseteq ToSet(model[handler.load.list])
    BY <2>1, <2>4 DEF Inv, AllThere, Handles
  <2> QED  BY <1>0, <1>5, <2>1, <2>2, <2>3, <2>5, DrawnInv DEF Callback, screen
<1> QED  BY <1>1, <1>2, <1>3, <1>4, <1>5 DEF Arrive

LEMMA ScrollInv ==
    ASSUME Inv, TypeOK', NEW k \in Lists, NEW i \in DOMAIN table[k], Scroll(k, i)
    PROVE  Inv'
<1>1. /\ UNCHANGED <<LoggedInUser, tab, top, model, controller, sent, loads, handler, watch>>
      /\ Page = k /\ table' = [table EXCEPT ![k][i] = model[k][i]]
  BY DEF Scroll, Row, screen
<1>2. Waiting' = Waiting /\ Page' = Page
  BY <1>1 DEF Waiting, Page
<1>3. Numbered' /\ Awaited' /\ AllThere'
  BY <1>1, <1>2 DEF Inv, Numbered, Awaited, AllThere, Handles
<1>4. ASSUME watch[k].answered, k = "trips" => ~watch[k].overlap
      PROVE  table' = table
  <2>1. table[k][i] = model[k][i]
    BY <1>1, <1>4 DEF Inv, ShowsModel
  <2>2. table[k] \in Seq(Items) /\ table \in [Lists -> Seq(Items)]
    BY DEF Inv, TypeOK
  <2>3. [table[k] EXCEPT ![i] = model[k][i]] = table[k]
    BY <2>1, <2>2
  <2> QED  BY <1>1, <2>2, <2>3
<1>5. ShowsModel'
  BY <1>1, <1>2, <1>4 DEF Inv, ShowsModel, InModel
<1>6. ShowsEverything'
  BY <1>1, <1>2, <1>4 DEF Inv, ShowsEverything
<1> QED  BY <1>3, <1>5, <1>6 DEF Inv

LEMMA ButtonInv ==
    ASSUME Inv, TypeOK', NEW i, ButtonTapped(i)
    PROVE  Inv'
<1> DEFINE k == "requests"
<1>1. /\ UNCHANGED <<LoggedInUser, tab, top, controller, sent, loads, handler>>
      /\ Page = k /\ i \in DOMAIN table[k] /\ i \in DOMAIN model[k]
      /\ Len(model[k]) = Len(table[k])
      /\ k \in Lists
  BY DEF ButtonTapped, Row, Deletable, InModel, screen, Lists
<1>2. Waiting' = Waiting /\ Page' = Page
  BY <1>1 DEF Waiting, Page
<1>3. /\ model' = [model EXCEPT ![k] = RemoveAt(model[k], i)]
      /\ table' = [table EXCEPT ![k] = RemoveAt(table[k], i)]
  BY DEF ButtonTapped
<1>4. /\ model[k] \in Seq(Items) /\ table[k] \in Seq(Items) /\ watch[k] \in Watch
      /\ model \in [Lists -> Seq(Items)] /\ table \in [Lists -> Seq(Items)]
  BY <1>1 DEF Inv, TypeOK
<1>5. /\ \A j \in Lists : /\ watch'[j].latest = watch[j].latest
                          /\ watch'[j].overlap = watch[j].overlap
                          /\ watch'[j].answered = watch[j].answered
                          /\ j # k => watch'[j] = watch[j]
      /\ watch'[k].expected = watch[k].expected \ {table[k][i]}
      /\ watch'[k].hasty <=> watch[k].hasty \/ UnderWay(k)
  <2>1. UnderWay(k) \in BOOLEAN /\ watch[k].hasty \in BOOLEAN
    BY <1>4 DEF UnderWay, Watch
  <2> HIDE DEF k
  <2>2. watch' = [watch EXCEPT ![k].expected = @ \ {table[k][i]},
                               ![k].hasty = @ \/ UnderWay(k)]
    BY DEF ButtonTapped, k
  <2> QED  BY <1>1, <1>4, <2>1, <2>2 DEF Inv, TypeOK, Watch
<1>6. Numbered'
  BY <1>1, <1>2, <1>5 DEF Inv, Numbered
<1>7. Awaited'
  BY <1>1, <1>2, <1>5 DEF Inv, Awaited
<1>8. AllThere'
  <2>1. ASSUME NEW j \in Lists \ {k}
        PROVE  model'[j] = model[j] /\ watch'[j] = watch[j]
    BY <1>3, <1>4, <1>5
  <2>2. Handles(k)' => watch'[k].hasty
    BY <1>1, <1>5 DEF Handles, UnderWay
  <2> QED  BY <1>1, <2>1, <2>2 DEF Inv, AllThere, Handles
<1>9. ASSUME watch[k].answered
      PROVE  table[k] = model[k]
  <2>1. \A j \in DOMAIN table[k] : table[k][j] = model[k][j]
    BY <1>1, <1>9 DEF Inv, ShowsModel
  <2>2. /\ DOMAIN table[k] = 1..Len(table[k])
        /\ DOMAIN model[k] = 1..Len(model[k])
    BY <1>4, LenProperties
  <2> QED  BY <1>1, <1>4, <2>1, <2>2, SeqEqual
<1>10. ShowsModel'
  BY <1>1, <1>2, <1>3, <1>4, <1>5, <1>9 DEF ShowsModel, InModel
<1>11. ShowsEverything'
  <2> SUFFICES ASSUME watch[k].answered, ~watch'[k].hasty
               PROVE  watch'[k].expected \subseteq ToSet(table'[k])
    BY <1>1, <1>2, <1>5 DEF ShowsEverything
  <2>1. watch[k].expected \subseteq ToSet(table[k])
    BY <1>1, <1>5 DEF Inv, ShowsEverything
  <2>2. ToSet(table[k]) \ {table[k][i]} \subseteq ToSet(RemoveAt(table[k], i))
    BY <1>1, <1>4, RemoveAtSet
  <2> QED  BY <1>1, <1>3, <1>4, <1>5, <2>1, <2>2
<1> QED  BY <1>6, <1>7, <1>8, <1>10, <1>11 DEF Inv

\* The page of a trip or a friend lists nothing.
LEMMA OpenLeaves ==
    ASSUME TypeOK, NEW k \in Lists, NEW i, Open(k, i)
    PROVE  Page' \notin Lists
<1>1. k \in {"trips", "friends"} /\ Page = k
  BY DEF Open, Row, Lists
<1>2. tab = k /\ top \in Pages
  BY <1>1, PageTab, TypeParts DEF TypeOK
<1>3. tab' = k /\ top'[k] \in {"trip", "friend"} /\ k \in DOMAIN top'
  BY <1>1, <1>2 DEF Open, Pages
<1> QED  BY <1>3 DEF Page, Lists

LEMMA TouchInv ==
    ASSUME Inv, Touch
    PROVE  Inv'
<1>1. TypeOK'
  BY TouchType DEF Inv
<1>2. ASSUME NEW k \in Lists, NEW i \in DOMAIN table[k], Open(k, i)
      PROVE  Inv'
  <2>1. Page' \notin Lists
    BY <1>2, OpenLeaves DEF Inv
  <2> QED  BY <1>1, <1>2, <2>1, ScreenInv DEF Open
<1> QED  BY <1>1, <1>2, ScrollInv, ButtonInv DEF Touch

LEMMA RestartInv ==
    ASSUME Inv, Restart
    PROVE  Inv'
<1>0. TypeOK'
  BY RestartType DEF Inv
<1>1. Waiting' = {} /\ ~handler'.running
  BY DEF Restart, Waiting, None
<1>2. Page' \notin Lists
  BY DEF Restart, Page, Roots, Lists
<1>3. \A k \in Lists : watch'[k].latest = 0
  BY DEF Restart, Everywhere, Unseen
<1>4. Numbered'
  BY <1>1, <1>3 DEF Restart, Numbered, Inv, TypeOK
<1>5. Awaited' /\ AllThere'
  BY <1>1 DEF Awaited, AllThere, Handles
<1>6. ShowsModel' /\ ShowsEverything'
  BY <1>2 DEF ShowsModel, ShowsEverything
<1> QED  BY <1>0, <1>4, <1>5, <1>6 DEF Inv

LEMMA InitInv == DeviceInit => Inv
BY InitType, NothingShown DEF DeviceInit, Init

LEMMA NextInv == Inv /\ [DeviceNext]_deviceVars => Inv'
<1> SUFFICES ASSUME Inv, [Next \/ Restart]_vars PROVE Inv'
  BY DeviceStep
<1>1. TypeOK'
  BY NextType DEF Inv
<1>2. CASE Crash \/ Restart
  BY <1>2, RestartInv DEF Crash, TouchCrash, AnswerCrash
<1>3. CASE UNCHANGED vars
  BY <1>1, <1>3, ScreenInv DEF vars, screen, Page
<1> QED  BY <1>2, <1>3, MoveInv, TouchInv, ArriveInv DEF Next

\* TypeCorrect: whatever users do and whichever answers arrive, the models, the
\* tables and the loads under way keep their types.
THEOREM TypeCorrect == DeviceSpec => []TypeOK
<1>1. Inv => TypeOK
  BY DEF Inv
<1> QED  BY <1>1, InitInv, NextInv, PTL DEF DeviceSpec

\* RowsShowModel: once the last load of a list is answered and drawn, every row
\* on the screen shows the model's entry of its number, for any users and loads.
THEOREM RowsShowModel == DeviceSpec => []ShowsModel
<1>1. Inv => ShowsModel
  BY DEF Inv
<1> QED  BY <1>1, InitInv, NextInv, PTL DEF DeviceSpec

\* RowsShowEverything: and every item of that answer has a row, unless its button
\* was tapped, or some button while loads were under way.
THEOREM RowsShowEverything == DeviceSpec => []ShowsEverything
<1>1. Inv => ShowsEverything
  BY DEF Inv
<1> QED  BY <1>1, InitInv, NextInv, PTL DEF DeviceSpec

-----------------------------------------------------------------------------
(* Whose items the pages show *)

\* The entries shown are a part of the first n of an answer.
PartOfFirst(shown, items, n) ==
    \E at \in [DOMAIN shown -> 1..n] :
        /\ \A a, b \in DOMAIN shown : a < b => at[a] < at[b]
        /\ \A a \in DOMAIN shown : shown[a] = items[at[a]]

\* The rest to be appended is what comes after those.
Shares(shown, rest, items) ==
    \E n \in 0..Len(items) :
        /\ Len(rest) = Len(items) - n
        /\ \A j \in 1..Len(rest) : rest[j] = items[n + j]
        /\ PartOfFirst(shown, items, n)

\* A list whose load found no other under way is empty while it waits, and then
\* made of the user's own answer.
OwnOf(k) ==
    /\ \A load \in loads : load.list = k => /\ load.user = LoggedInUser
                                            /\ k # "trips" => model[k] = <<>>
    /\ Handles(k) => /\ handler.items \in Answers[k][LoggedInUser]
                     /\ Shares(model[k], handler.rest, handler.items)
    /\ watch[k].answered =>
           \E items \in Answers[k][LoggedInUser] : Shares(model[k], <<>>, items)

OwnInv == \A k \in Lists : Page = k /\ ~watch[k].overlap => OwnOf(k)

LEMMA SharesEnds ==
    ASSUME NEW items \in Seq(Items)
    PROVE  Shares(<<>>, items, items) /\ Shares(items, <<>>, items)
<1>1. /\ Len(items) \in Nat /\ DOMAIN items = 1..Len(items)
      /\ DOMAIN <<>> = {} /\ Len(<<>>) = 0
  BY LenProperties
<1>2. PartOfFirst(<<>>, items, 0)
  <2> DEFINE at == [a \in {} |-> 0]
  <2>1. at \in [DOMAIN <<>> -> 1..0]
    BY <1>1
  <2> QED  BY <1>1, <2>1 DEF PartOfFirst
<1>3. PartOfFirst(items, items, Len(items))
  <2> DEFINE at == [a \in 1..Len(items) |-> a]
  <2>1. at \in [DOMAIN items -> 1..Len(items)] /\ \A a \in DOMAIN items : at[a] = a
    BY <1>1
  <2> HIDE DEF at
  <2> QED  BY <2>1 DEF PartOfFirst
<1>4. Shares(<<>>, items, items)
  <2>1. \A j \in 1..Len(items) : 0 + j = j
    BY <1>1
  <2>2. 0 \in 0..Len(items) /\ Len(items) = Len(items) - 0
    BY <1>1
  <2> QED  BY <1>2, <2>1, <2>2 DEF Shares
<1>5. Shares(items, <<>>, items)
  <2> DEFINE nothing == <<>>
  <2>1. Len(nothing) = 0 /\ 1..0 = {}
    BY <1>1
  <2> HIDE DEF nothing
  <2>2. Len(items) \in 0..Len(items) /\ Len(nothing) = Len(items) - Len(items)
    BY <1>1, <2>1
  <2>3. Shares(items, nothing, items)
    BY <1>3, <2>1, <2>2 DEF Shares
  <2> QED  BY <2>3 DEF nothing
<1> QED  BY <1>4, <1>5

LEMMA SharesNext ==
    ASSUME NEW shown \in Seq(Items), NEW rest \in Seq(Items), rest # <<>>,
           NEW items \in Seq(Items), Shares(shown, rest, items)
    PROVE  Shares(Append(shown, Head(rest)), Tail(rest), items)
<1> DEFINE more == Append(shown, Head(rest))
           less == Tail(rest)
<1>1. /\ Head(rest) \in Items /\ Head(rest) = rest[1]
      /\ less \in Seq(Items) /\ Len(rest) \in Nat \ {0} /\ Len(less) = Len(rest) - 1
      /\ \A i \in 1..Len(less) : less[i] = rest[i + 1]
  BY HeadTailProperties
<1>2. /\ more \in Seq(Items) /\ Len(more) = Len(shown) + 1
      /\ \A i \in 1..Len(shown) : more[i] = shown[i]
      /\ more[Len(shown) + 1] = Head(rest)
  BY <1>1, AppendProperties
<1> HIDE DEF more, less
<1>3. /\ DOMAIN shown = 1..Len(shown) /\ DOMAIN more = 1..(Len(shown) + 1)
      /\ Len(shown) \in Nat /\ Len(items) \in Nat
  BY <1>2, LenProperties
<1>4. PICK n \in 0..Len(items) : /\ Len(rest) = Len(items) - n
                                 /\ \A j \in 1..Len(rest) : rest[j] = items[n + j]
                                 /\ PartOfFirst(shown, items, n)
  BY DEF Shares
<1>5. PICK at \in [DOMAIN shown -> 1..n] :
          /\ \A a, b \in DOMAIN shown : a < b => at[a] < at[b]
          /\ \A a \in DOMAIN shown : shown[a] = items[at[a]]
  BY <1>4 DEF PartOfFirst
<1> DEFINE to == [a \in 1..(Len(shown) + 1) |-> IF a = Len(shown) + 1 THEN n + 1 ELSE at[a]]
<1>6. \A a \in DOMAIN more : \/ a = Len(shown) + 1 /\ to[a] = n + 1
                             \/ a \in DOMAIN shown /\ to[a] = at[a] /\ at[a] \in 1..n
  BY <1>3, <1>5
<1>7. to \in [DOMAIN more -> 1..(n + 1)]
  BY <1>3, <1>4, <1>5
<1> HIDE DEF to
<1>8. \A a, b \in DOMAIN more : a < b => to[a] < to[b]
  BY <1>3, <1>4, <1>5, <1>6
<1>9. n + 1 \in 0..Len(items) /\ rest[1] = items[n + 1]
  BY <1>1, <1>3, <1>4
<1>10. \A a \in DOMAIN more : more[a] = items[to[a]]
  BY <1>1, <1>2, <1>3, <1>5, <1>6, <1>9
<1>11. PartOfFirst(more, items, n + 1)
  BY <1>7, <1>8, <1>10 DEF PartOfFirst
<1>12. ASSUME NEW j \in 1..Len(less)
       PROVE  less[j] = items[(n + 1) + j]
  <2>1. less[j] = rest[j + 1] /\ j + 1 \in 1..Len(rest) /\ n + (j + 1) = (n + 1) + j
    BY <1>1, <1>4
  <2> QED  BY <1>4, <2>1
<1>13. Len(less) = Len(items) - (n + 1)
  BY <1>1, <1>3, <1>4
<1> QED  BY <1>9, <1>11, <1>12, <1>13 DEF Shares, more, less

LEMMA SharesFewer ==
    ASSUME NEW shown \in Seq(Items), NEW rest, NEW items, NEW i \in DOMAIN shown,
           Shares(shown, rest, items)
    PROVE  Shares(RemoveAt(shown, i), rest, items)
<1> DEFINE new == RemoveAt(shown, i)
<1>1. /\ Len(shown) \in Nat /\ i \in 1..Len(shown)
      /\ DOMAIN shown = 1..Len(shown) /\ DOMAIN new = 1..(Len(shown) - 1)
      /\ \A j \in 1..(i - 1) : new[j] = shown[j]
      /\ \A j \in i..(Len(shown) - 1) : new[j] = shown[j + 1]
  BY RemoveAtElements, LenProperties
<1> HIDE DEF new
<1>2. ASSUME NEW n, PartOfFirst(shown, items, n)
      PROVE  PartOfFirst(new, items, n)
  <2>1. PICK at \in [DOMAIN shown -> 1..n] :
            /\ \A a, b \in DOMAIN shown : a < b => at[a] < at[b]
            /\ \A a \in DOMAIN shown : shown[a] = items[at[a]]
    BY <1>2 DEF PartOfFirst
  <2> DEFINE to == [a \in 1..(Len(shown) - 1) |-> IF a < i THEN at[a] ELSE at[a + 1]]
  <2>2. ASSUME NEW a \in DOMAIN new
        PROVE  \E p \in DOMAIN shown : /\ to[a] = at[p] /\ new[a] = shown[p]
                                       /\ a < i => p = a
                                       /\ a >= i => p = a + 1
    <3>1. CASE a < i
      BY <1>1, <3>1
    <3>2. CASE a >= i
      BY <1>1, <3>2
    <3> QED  BY <1>1, <3>1, <3>2
  <2>3. to \in [DOMAIN new -> 1..n]
    BY <1>1, <2>1
  <2> HIDE DEF to
  <2>4. ASSUME NEW a \in DOMAIN new, NEW b \in DOMAIN new, a < b
        PROVE  to[a] < to[b]
    <3>1. PICK p \in DOMAIN shown : to[a] = at[p] /\ (a < i => p = a) /\ (a >= i => p = a + 1)
      BY <2>2
    <3>2. PICK q \in DOMAIN shown : to[b] = at[q] /\ (b < i => q = b) /\ (b >= i => q = b + 1)
      BY <2>2
    <3>3. p < q
      BY <1>1, <2>4, <3>1, <3>2
    <3> QED  BY <2>1, <3>1, <3>2, <3>3
  <2>5. \A a \in DOMAIN new : new[a] = items[to[a]]
    BY <2>1, <2>2
  <2> QED  BY <2>3, <2>4, <2>5 DEF PartOfFirst
<1> QED  BY <1>2 DEF Shares, new

\* With nothing left to be appended, the first entries of what is shown are a part
\* of the answer.
LEMMA SharesDone ==
    ASSUME NEW shown \in Seq(Items), NEW rows \in Seq(Items), NEW items \in Seq(Items),
           Shares(shown, <<>>, items),
           \A i \in DOMAIN rows : i \in DOMAIN shown /\ rows[i] = shown[i]
    PROVE  PartOf(rows, items)
<1>1. Len(items) \in Nat /\ DOMAIN items = 1..Len(items) /\ Len(<<>>) = 0
  BY LenProperties
<1>2. PartOfFirst(shown, items, Len(items))
  BY <1>1 DEF Shares
<1>3. PICK at \in [DOMAIN shown -> 1..Len(items)] :
          /\ \A a, b \in DOMAIN shown : a < b => at[a] < at[b]
          /\ \A a \in DOMAIN shown : shown[a] = items[at[a]]
  BY <1>2 DEF PartOfFirst
<1> DEFINE to == [a \in DOMAIN rows |-> at[a]]
<1>4. to \in [DOMAIN rows -> DOMAIN items]
  BY <1>1, <1>3
<1>5. /\ \A a, b \in DOMAIN rows : a < b => to[a] < to[b]
      /\ \A a \in DOMAIN rows : rows[a] = items[to[a]]
  BY <1>3
<1> HIDE DEF to
<1> QED  BY <1>4, <1>5 DEF PartOf

\* The load that waits, if the list was loaded without another under way.
LEMMA OneWaits ==
    ASSUME Inv, NEW k \in Lists, ~watch[k].overlap
    PROVE  /\ \A l, m \in Waiting : l.list = k /\ m.list = k => l = m
           /\ \A l \in Waiting : l.list = k => ~watch[k].answered
           /\ Handles(k) => \A l \in loads : l.list # k
BY DEF Inv, Awaited, Numbered, Waiting, Handles

LEMMA AppearOwn ==
    ASSUME TypeOK, NEW k \in Lists, NEW rows, NEW controllers,
           viewWillAppear(k, LoggedInUser', rows, controllers), Page' = k
    PROVE  OwnInv'
<1> SUFFICES ASSUME ~watch'[k].overlap PROVE OwnOf(k)'
  BY DEF OwnInv
<1> DEFINE new == [n |-> sent', list |-> k, user |-> LoggedInUser',
                   controller |-> controller'[k]]
<1>1. /\ new.list = k /\ new.user = LoggedInUser'
      /\ loads' = loads \union {new} /\ handler' = handler
  BY DEF viewWillAppear
<1> HIDE DEF new
<1>2. ~watch'[k].answered /\ (watch'[k].overlap <=> UnderWay(k))
  BY DEF viewWillAppear, Unseen, UnderWay, TypeOK
<1>3. k # "trips" => model'[k] = <<>>
  BY DEF viewWillAppear, Emptied, TypeOK
<1> QED  BY <1>1, <1>2, <1>3 DEF OwnOf, UnderWay, Handles

\* The screen stays, or shows no list any more.
LEMMA ScreenOwn ==
    ASSUME OwnInv, \/ Page' \notin Lists
                   \/ UNCHANGED <<Page, LoggedInUser, model, loads, handler, watch>>
    PROVE  OwnInv'
BY DEF OwnInv, OwnOf, Handles

LEMMA MoveOwn ==
    ASSUME Inv, OwnInv, Move \/ Logout
    PROVE  OwnInv'
<1>0. TypeOK /\ ScreenOK /\ ScreenOK'
  BY MoveType DEF Inv, TypeOK, ScreenOK
<1>1. ASSUME NEW user, Main(user)
      PROVE  OwnInv'
  <2>1. Page' = "trips" /\ "trips" \in Lists /\ LoggedInUser' = user
    BY <1>1 DEF Main, Page, Roots, Lists
  <2> QED  BY <1>0, <1>1, <2>1, AppearOwn DEF Main
<1>2. ASSUME NEW new \in Tabs \ {"login"}, OpenTab(new)
      PROVE  OwnInv'
  <2>1. Page' = IF new \in DOMAIN top THEN top[new] ELSE new
    BY <1>2 DEF OpenTab, Page
  <2>2. CASE new \in DOMAIN top /\ top[new] \in Lists
    BY <1>0, <1>2, <2>1, <2>2, AppearOwn DEF OpenTab
  <2>3. CASE ~(new \in DOMAIN top /\ top[new] \in Lists)
    <3>1. Page' \notin Lists
      BY <1>0, <2>1, <2>3 DEF ScreenOK, Pages, Tabs, Lists
    <3> QED  BY <3>1, ScreenOwn
  <2> QED  BY <2>2, <2>3
<1>3. CASE OpenRequests
  <2>1. tab = "friends"
    BY <1>0, <1>3, PageTab DEF OpenRequests
  <2>2. Page' = "requests" /\ "requests" \in Lists
    BY <1>0, <1>3, <2>1 DEF OpenRequests, Page, ScreenOK, Pages, Lists
  <2>3. LoggedInUser' = LoggedInUser
    BY <1>3 DEF OpenRequests
  <2> QED  BY <1>0, <1>3, <2>2, <2>3, AppearOwn DEF OpenRequests
<1>4. CASE Back
  <2>1. tab \in {"trips", "friends"}
    BY <1>0, <1>4, PageTab DEF Back
  <2>2. Page' = tab /\ tab \in Lists
    BY <1>0, <1>4, <2>1 DEF Back, Page, ScreenOK, Pages, Lists
  <2>3. LoggedInUser' = LoggedInUser
    BY <1>4 DEF Back
  <2> QED  BY <1>0, <1>4, <2>2, <2>3, AppearOwn DEF Back
<1>5. CASE Logout
  <2>1. Page' \notin Lists
    BY <1>0, <1>5 DEF Logout, Page, ScreenOK, Pages, Lists
  <2> QED  BY <2>1, ScreenOwn
<1> QED  BY <1>1, <1>2, <1>3, <1>4, <1>5 DEF Move, Login, FinishWizard

LEMMA ArriveOwn ==
    ASSUME Inv, OwnInv, Arrive
    PROVE  OwnInv'
<1> SUFFICES ASSUME NEW k \in Lists, Page' = k, ~watch'[k].overlap PROVE OwnOf(k)'
  BY DEF OwnInv
<1>0. Page' = Page /\ LoggedInUser' = LoggedInUser
  BY DEF Arrive, Answer, AnswerTrips, Lose, AppendNext, Callback, screen, Page
<1>1. /\ TypeOK
      /\ \A load \in loads : load.list \in Lists /\ load.user \in Users
      /\ handler.running => /\ handler.load.list \in Lists
                            /\ handler.rest \in Seq(Items)
  BY HandlerType, ListAssumption DEF Inv, TypeOK, Load
<1>2. ASSUME NEW load \in loads, NEW items \in Answers[load.list][load.user],
             Answer(load, items)
      PROVE  OwnOf(k)'
  <2>1. /\ handler'.running /\ handler'.load = load /\ handler'.rest = items
        /\ handler'.items = items /\ loads' = loads \ {load} /\ load.list # "trips"
        /\ UNCHANGED <<model, watch>>
    BY <1>2 DEF Answer, Take
  <2>2. OwnOf(k)
    BY <1>0, <2>1 DEF OwnInv
  <2>3. load.list = k => /\ load.user = LoggedInUser /\ model[k] = <<>>
                         /\ Shares(<<>>, items, items)
    <3>1. items \in Seq(Items)
      BY <1>1, ListAssumption
    <3> QED  BY <2>1, <2>2, <3>1, SharesEnds DEF OwnOf
  <2> QED  BY <1>0, <1>2, <2>1, <2>2, <2>3 DEF OwnOf, Handles
<1>3. ASSUME NEW load \in loads, NEW items \in Answers[load.list][load.user],
             AnswerTrips(load, items)
      PROVE  OwnOf(k)'
  <2>1. /\ load.list = "trips" /\ handler' = handler /\ ~handler.running
        /\ loads' = loads \ {load}
        /\ model' = [model EXCEPT !["trips"] = items]
    BY <1>3 DEF AnswerTrips, Take
  <2>2. /\ watch'[k].overlap = watch[k].overlap
        /\ k # "trips" => watch'[k] = watch[k] /\ model'[k] = model[k]
        /\ k = "trips" => model'[k] = items
    BY <1>1, <1>3, <2>1 DEF AnswerTrips, Answered, TypeOK, Watch
  <2>3. OwnOf(k)
    BY <1>0, <2>2 DEF OwnInv
  <2>4. Shares(items, <<>>, items)
    <3>1. items \in Seq(Items)
      BY <1>1, ListAssumption
    <3> QED  BY <3>1, SharesEnds
  <2>5. k = "trips" => load.user = LoggedInUser
    BY <2>1, <2>3 DEF OwnOf
  <2> QED  BY <1>0, <1>3, <2>1, <2>2, <2>3, <2>4, <2>5 DEF OwnOf, Handles
<1>4. ASSUME NEW load \in loads, Lose(load)
      PROVE  OwnOf(k)'
  BY <1>0, <1>4 DEF Lose, Take, OwnInv, OwnOf, Handles
<1>5. CASE AppendNext
  <2> DEFINE h == handler.load.list
  <2>1. /\ handler.running /\ handler.rest # <<>>
        /\ model' = [model EXCEPT ![h] = Append(model[h], Head(handler.rest))]
        /\ handler' = [handler EXCEPT !.rest = Tail(handler.rest)]
        /\ UNCHANGED <<loads, watch>>
    BY <1>5 DEF AppendNext
  <2>2. /\ handler'.running /\ handler'.load = handler.load
        /\ handler'.items = handler.items /\ handler'.rest = Tail(handler.rest)
    BY <1>1, <2>1, HandlerType DEF TypeOK
  <2>3. OwnOf(k) /\ ~watch[k].overlap
    BY <1>0, <2>1 DEF OwnInv
  <2>4. CASE k = h
    <3>1. /\ Handles(k) /\ model'[k] = Append(model[k], Head(handler.rest))
          /\ model[k] \in Seq(Items)
      BY <1>1, <2>1, <2>4 DEF Handles, TypeOK
    <3>2. Shares(model'[k], handler'.rest, handler.items)
      <4>1. handler.items \in Seq(Items)
        BY <1>1, <2>1, HandlerType DEF TypeOK
      <4> QED  BY <1>1, <2>1, <2>2, <2>3, <3>1, <4>1, SharesNext DEF OwnOf
    <3>3. ~watch[k].answered /\ \A l \in loads : l.list # k
      BY <2>3, <3>1, OneWaits DEF Waiting, Handles
    <3> QED  BY <1>0, <2>1, <2>2, <2>3, <3>1, <3>2, <3>3 DEF OwnOf
  <2>5. CASE k # h
    <3>1. model'[k] = model[k] /\ ~Handles(k)'
      BY <1>1, <2>1, <2>2, <2>5 DEF TypeOK, Handles
    <3> QED  BY <1>0, <2>1, <2>3, <3>1 DEF OwnOf
  <2> QED  BY <2>4, <2>5
<1>6. CASE Callback
  <2>1. /\ handler.running /\ handler.rest = <<>> /\ ~handler'.running
        /\ UNCHANGED <<model, loads>>
    BY <1>6 DEF Callback, None
  <2>2. /\ watch'[k].overlap = watch[k].overlap
        /\ k # handler.load.list => watch'[k] = watch[k]
    BY <1>1, <1>6, <2>1 DEF Callback, Answered, TypeOK, Watch
  <2>3. OwnOf(k)
    BY <1>0, <2>2 DEF OwnInv
  <2>4. k = handler.load.list =>
            \E items \in Answers[k][LoggedInUser] : Shares(model[k], <<>>, items)
    BY <2>1, <2>3 DEF OwnOf, Handles
  <2> QED  BY <1>0, <2>1, <2>2, <2>3, <2>4 DEF OwnOf, Handles
<1> QED  BY <1>2, <1>3, <1>4, <1>5, <1>6 DEF Arrive

LEMMA ButtonOwn ==
    ASSUME Inv, OwnInv, NEW i, ButtonTapped(i)
    PROVE  OwnInv'
<1> DEFINE r == "requests"
<1>1. /\ UNCHANGED <<LoggedInUser, tab, top, loads, handler>>
      /\ Page = r /\ i \in DOMAIN model[r]
  BY DEF ButtonTapped, Row, Deletable, InModel, screen
<1>2. Page' = Page /\ r \in Lists /\ model[r] \in Seq(Items) /\ watch[r] \in Watch
  BY <1>1 DEF Page, Lists, Inv, TypeOK
<1>3. /\ model'[r] = RemoveAt(model[r], i)
      /\ watch'[r].overlap = watch[r].overlap /\ watch'[r].answered = watch[r].answered
  <2>1. /\ model \in [Lists -> Seq(Items)] /\ watch \in [Lists -> Watch]
    BY DEF Inv, TypeOK
  <2> HIDE DEF r
  <2>2. /\ model' = [model EXCEPT ![r] = RemoveAt(model[r], i)]
        /\ watch' = [watch EXCEPT ![r].expected = @ \ {table[r][i]},
                                  ![r].hasty = @ \/ UnderWay(r)]
    BY DEF ButtonTapped, r
  <2> QED  BY <1>2, <2>1, <2>2 DEF Watch
<1> SUFFICES ASSUME ~watch[r].overlap PROVE OwnOf(r)'
  BY <1>1, <1>2, <1>3 DEF OwnInv
<1>4. OwnOf(r)
  BY <1>1, <1>2 DEF OwnInv
<1>5. model[r] # <<>>
  BY <1>1
<1> QED  BY <1>1, <1>2, <1>3, <1>4, <1>5, SharesFewer DEF OwnOf, Handles

LEMMA NextOwn ==
    ASSUME Inv, OwnInv, [DeviceNext]_deviceVars
    PROVE  OwnInv'
<1> SUFFICES ASSUME [Next \/ Restart]_vars PROVE OwnInv'
  BY DeviceStep
<1>1. CASE Crash \/ Restart
  <2>1. Page' \notin Lists
    BY <1>1 DEF Crash, TouchCrash, AnswerCrash, Restart, Page, Roots, Lists
  <2> QED  BY <2>1, ScreenOwn
<1>2. CASE UNCHANGED vars
  BY <1>2, ScreenOwn DEF vars, screen, Page
<1>3. ASSUME NEW k \in Lists, NEW i \in DOMAIN table[k], Open(k, i)
      PROVE  OwnInv'
  <2>1. Page' \notin Lists
    BY <1>3, OpenLeaves DEF Inv
  <2> QED  BY <2>1, ScreenOwn
<1>4. ASSUME NEW k \in Lists, NEW i \in DOMAIN table[k], Scroll(k, i)
      PROVE  OwnInv'
  BY <1>4, ScreenOwn DEF Scroll, screen, Page
<1>5. CASE Touch
  BY <1>3, <1>4, <1>5, ButtonOwn DEF Touch
<1> QED  BY <1>1, <1>2, <1>5, MoveOwn, ArriveOwn DEF Next

\* RowsAreOwn: a page whose load found no other under way shows a part of an answer
\* to its user, in its order and nothing more often than answered, for any users,
\* answers and loads, whoever was logged in before.
THEOREM RowsAreOwn == DeviceSpec => []ListsOwnAnswer
<1>1. Inv /\ OwnInv => ListsOwnAnswer
  <2> SUFFICES ASSUME Inv, OwnInv, NEW k \in Lists, Page = k, watch[k].answered,
                      ~watch[k].overlap
               PROVE  \E items \in Answers[k][LoggedInUser] : PartOf(table[k], items)
    BY DEF ListsOwnAnswer
  <2>1. \A i \in DOMAIN table[k] : i \in DOMAIN model[k] /\ table[k][i] = model[k][i]
    BY DEF Inv, ShowsModel, InModel
  <2>2. PICK items \in Answers[k][LoggedInUser] : Shares(model[k], <<>>, items)
    BY DEF OwnInv, OwnOf
  <2>3. model[k] \in Seq(Items) /\ table[k] \in Seq(Items)
    BY DEF Inv, TypeOK
  <2>4. items \in Seq(Items)
    <3>1. ScreenOK
      BY DEF Inv, TypeOK, ScreenOK
    <3>2. LoggedInUser \in Users
      BY <3>1, PageTab DEF Lists
    <3> QED  BY <3>2, ListAssumption
  <2> QED  BY <2>1, <2>2, <2>3, <2>4, SharesDone
<1>2. DeviceInit => OwnInv
  <2> SUFFICES ASSUME DeviceInit PROVE Page \notin Lists
    BY DEF OwnInv
  <2> QED  BY DEF DeviceInit, Init, Page, Roots, Lists
<1>3. Inv /\ OwnInv /\ [DeviceNext]_deviceVars => OwnInv'
  BY NextOwn
<1> QED  BY <1>1, <1>2, <1>3, InitInv, NextInv, PTL DEF DeviceSpec

-----------------------------------------------------------------------------
(* Pictures *)

\* An upload under way is its user's who is still there, or has strayed.
PictureInv ==
    /\ OwnPicture
    /\ DOMAIN url = Users \union {NULL}
    /\ \A upload \in uploads : upload.file \in {LoggedInUser} \union strayed

LEMMA InitPicture == DeviceInit => PictureInv
BY DEF DeviceInit, PictureInv, OwnPicture

LEMMA NextPicture ==
    ASSUME TypeOK, PictureInv, [DeviceNext]_deviceVars
    PROVE  PictureInv'
<1>1. CASE Elsewhere
  BY <1>1 DEF Elsewhere, PictureInv, OwnPicture
<1>2. CASE AppEnds
  BY <1>2 DEF AppEnds, PictureInv, OwnPicture
<1>3. CASE didSelect
  <2>1. /\ uploads' = uploads \union {[n |-> chosen + 1, file |-> LoggedInUser]}
        /\ UNCHANGED <<url, strayed, LoggedInUser>>
    BY <1>3 DEF didSelect, vars, screen
  <2> QED  BY <2>1 DEF PictureInv, OwnPicture
<1>4. ASSUME NEW upload \in uploads, registerimage(upload)
      PROVE  PictureInv'
  <2>1. UNCHANGED <<strayed, LoggedInUser>> /\ uploads' \subseteq uploads
    BY <1>4 DEF registerimage, vars, screen
  <2>2. url' = [url EXCEPT ![LoggedInUser] = upload.file]
        /\ upload.file \in {LoggedInUser} \union strayed
    BY <1>4 DEF registerimage, PictureInv
  <2> QED  BY <2>1, <2>2 DEF PictureInv, OwnPicture
<1>5. ASSUME NEW upload \in uploads, LoseUpload(upload)
      PROVE  PictureInv'
  BY <1>5 DEF LoseUpload, vars, screen, PictureInv, OwnPicture
<1>6. CASE UNCHANGED deviceVars
  BY <1>6 DEF deviceVars, vars, screen, pictures, PictureInv, OwnPicture
<1> QED  BY <1>1, <1>2, <1>3, <1>4, <1>5, <1>6 DEF DeviceNext

\* PicturesAreOwn: a user's entry points to the user's own file, or to one whose
\* upload outlasted a login or logout, for any users and uploads.
THEOREM PicturesAreOwn == DeviceSpec => []OwnPicture
<1>1. PictureInv => OwnPicture
  BY DEF PictureInv
<1>2. Inv => TypeOK
  BY DEF Inv
<1> QED  BY <1>1, <1>2, InitInv, NextInv, InitPicture, NextPicture, PTL DEF DeviceSpec

=============================================================================
