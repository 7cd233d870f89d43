----------------------------- MODULE ListPages -----------------------------
(***************************************************************************)
(* The pages of the app that list what the server answers: the user's      *)
(* trips, the user's friends, and the requests for friendship.  Each is a  *)
(* table over a model that all controllers of the app share.  A page loads *)
(* its list every time it appears.  LoadFriend and GetAllRequest empty the *)
(* model when the load starts and append to it when the answer arrives;    *)
(* getCurrentTrips leaves the model alone until the answer replaces it.    *)
(*                                                                         *)
(* Answers are handled one at a time, on the queue of the URLSession, while *)
(* the user goes on in the main queue: the loop that appends runs between  *)
(* steps of the main queue, and only the redrawing is synchronous with it. *)
(* Cells keep what they showed when they were drawn; taps, scrolling and   *)
(* deletions take a row's position to the model as it is by then.          *)
(*                                                                         *)
(* After a login, or at the end of the trip wizard, a new tab bar with new *)
(* controllers covers the old ones; their loads under way still arrive.    *)
(* What the server answers is modelled by Friends and TripListing.         *)
(***************************************************************************)
EXTENDS Integers, Sequences, SequencesExt

CONSTANTS Users,        \* usernames; LoggedInUser is one of them or
          NULL,         \*   the empty name, when nobody is logged in
          Items,        \* what can be listed: friends, senders, trips
          Answers,      \* what the server may answer about each list of each user
          MaxLoads      \* bound: loads in a behaviour

Lists == {"trips", "friends", "requests"}

ASSUME ListAssumption == /\ NULL \notin Users
                         /\ Answers \in [Lists -> [Users -> SUBSET Seq(Items)]]
                         /\ MaxLoads \in Nat

VARIABLES LoggedInUser,
          tab,          \* the tab on the screen, or the login page
          top,          \* the page on top of the tabs that have several
          model,        \* currentTrips, FriendList and RequestSet
          table,        \* the rows drawn on the current controller of each list
          controller,   \* its number: that of its first load, or 0
          sent,         \* number of loads so far
          loads,        \* requests that wait for their answer
          handler,      \* the completion handler that is appending, if any
          watch         \* history: what happened since a list was last loaded

screen == <<LoggedInUser, tab, top>>
vars == <<screen, model, table, controller, sent, loads, handler, watch>>

Tabs == {"login", "trips", "friends", "profile"}
Pages == [trips : {"trips", "trip"}, friends : {"friends", "requests", "friend"}]
Roots == [trips |-> "trips", friends |-> "friends"]

Load == [n : 1..MaxLoads, list : Lists, user : Users, controller : 1..MaxLoads]

None == [running |-> FALSE]
Handler == {None} \union [running : {TRUE}, load : Load,
                          rest : Seq(Items), items : Seq(Items)]

\* latest: the last load of the list; answered: whether its answer is drawn;
\* overlap: whether another load of the list was under way when it began;
\* hasty: whether a button was tapped while one was; expected: the items of its
\* answer that no button was tapped for.
Watch == [latest : 0..MaxLoads, answered : BOOLEAN, overlap : BOOLEAN,
          hasty : BOOLEAN, expected : SUBSET Items]

Unseen == [latest |-> 0, answered |-> FALSE, overlap |-> FALSE,
           hasty |-> FALSE, expected |-> {}]

Everywhere(x) == [k \in Lists |-> x]

Init == /\ LoggedInUser = NULL
        /\ tab = "login"
        /\ top = Roots
        /\ model = Everywhere(<<>>)
        /\ table = Everywhere(<<>>)
        /\ controller = Everywhere(0)
        /\ sent = 0
        /\ loads = {}
        /\ handler = None
        /\ watch = Everywhere(Unseen)

\* The page on the screen.
Page == IF tab \in DOMAIN top THEN top[tab] ELSE tab

Handles(k) == handler.running /\ handler.load.list = k

UnderWay(k) == Handles(k) \/ \E load \in loads : load.list = k

-----------------------------------------------------------------------------
(* Pages appear                                                            *)

\* Mutant: the model keeps what it listed.
NeverEmptied(k) == model

\* The models once the page of list k has started its load.
Emptied(k) == IF k = "trips" THEN model ELSE [model EXCEPT ![k] = <<>>]

\* The page of list k appears for user.  rows and controllers are those of the
\* tab bar it is on.  A new controller draws its table after the load has begun;
\* another one keeps the rows it had, unless it had been told to draw them anew.
viewWillAppear(k, user, rows, controllers) ==
    /\ sent < MaxLoads
    /\ sent' = sent + 1
    /\ controller' = [controllers EXCEPT ![k] = IF @ = 0 THEN sent' ELSE @]
    /\ loads' = loads \union {[n |-> sent', list |-> k, user |-> user,
                               controller |-> controller'[k]]}
    /\ model' = Emptied(k)
    /\ \E drawn \in {model'[k]} \union IF controllers[k] = 0 THEN {} ELSE {rows[k]} :
           table' = [rows EXCEPT ![k] = drawn]
    /\ watch' = [watch EXCEPT ![k] = [Unseen EXCEPT !.latest = sent',
                                                    !.overlap = UnderWay(k)]]
    /\ UNCHANGED handler

\* A new tab bar, whose first tab lists the trips.
Main(user) == /\ LoggedInUser' = user
              /\ tab' = "trips"
              /\ top' = Roots
              /\ viewWillAppear("trips", user, Everywhere(<<>>), Everywhere(0))

Login(user) == tab = "login" /\ Main(user)

\* The wizard, pushed over the list of trips, ends or is cancelled.
FinishWizard == Page = "trips" /\ Main(LoggedInUser)

\* The page on top of a tab appears; the requests stay over the friend list.
OpenTab(new) ==
    /\ tab \notin {"login", new}
    /\ tab' = new
    /\ UNCHANGED <<LoggedInUser, top>>
    /\ IF new \in DOMAIN top /\ top[new] \in Lists
       THEN viewWillAppear(top[new], LoggedInUser, table, controller)
       ELSE UNCHANGED <<model, table, controller, sent, loads, handler, watch>>

\* Each time with a new controller.
OpenRequests ==
    /\ Page = "friends"
    /\ top' = [top EXCEPT !["friends"] = "requests"]
    /\ viewWillAppear("requests", LoggedInUser, table, controller)
    /\ UNCHANGED <<LoggedInUser, tab>>

Back ==
    /\ Page \in {"trip", "requests", "friend"}
    /\ top' = [top EXCEPT ![tab] = tab]
    /\ viewWillAppear(tab, LoggedInUser, table,
                      IF Page = "requests" THEN [controller EXCEPT !["requests"] = 0]
                                           ELSE controller)
    /\ UNCHANGED <<LoggedInUser, tab>>

\* Mutant: the name stays set.
LogoutKeepingName ==
    /\ tab = "profile"
    /\ tab' = "login"
    /\ UNCHANGED <<LoggedInUser, top, model, table, controller, sent, loads, handler,
                   watch>>

Logout == /\ tab = "profile"
          /\ LoggedInUser' = NULL
          /\ tab' = "login"
          /\ UNCHANGED <<top, model, table, controller, sent, loads, handler, watch>>

-----------------------------------------------------------------------------
(* Answers                                                                 *)

Take(load) == /\ load \in loads
              /\ ~handler.running
              /\ loads' = loads \ {load}

\* The controller on the screen draws its rows from the model.  One that is off
\* the screen draws them when it appears; one that was replaced never does.
Redraw(load) ==
    LET k == load.list
    IN  table' = IF Page = k /\ load.controller = controller[k]
                 THEN [table EXCEPT ![k] = model'[k]]
                 ELSE table

Answered(load, items) ==
    watch' = IF load.n # watch[load.list].latest THEN watch
             ELSE [watch EXCEPT ![load.list].answered = TRUE,
                                ![load.list].expected = ToSet(items)]

\* Mutant: the model is emptied when the answer arrives.
AnswerEmptying(load, items) ==
    /\ load.list # "trips"
    /\ Take(load)
    /\ handler' = [running |-> TRUE, load |-> load, rest |-> items, items |-> items]
    /\ model' = [model EXCEPT ![load.list] = <<>>]
    /\ UNCHANGED <<screen, table, controller, sent, watch>>

\* LoadFriend and GetAllRequest: the completion handler begins.  An empty answer
\* of friendlist lists nobody.
Answer(load, items) ==
    /\ load.list # "trips"
    /\ Take(load)
    /\ handler' = [running |-> TRUE, load |-> load, rest |-> items, items |-> items]
    /\ UNCHANGED <<screen, model, table, controller, sent, watch>>

AppendNext ==
    /\ handler.running /\ handler.rest # <<>>
    /\ model' = [model EXCEPT ![handler.load.list] = Append(@, Head(handler.rest))]
    /\ handler' = [handler EXCEPT !.rest = Tail(@)]
    /\ UNCHANGED <<screen, table, controller, sent, loads, watch>>

\* Mutant: the table is redrawn before the last item is appended.
CallbackEarly ==
    /\ handler.running /\ Len(handler.rest) <= 1
    /\ handler' = None
    /\ UNCHANGED <<screen, model, controller, sent, loads>>
    /\ Redraw(handler.load)
    /\ Answered(handler.load, handler.items)

Callback ==
    /\ handler.running /\ handler.rest = <<>>
    /\ handler' = None
    /\ UNCHANGED <<screen, model, controller, sent, loads>>
    /\ Redraw(handler.load)
    /\ Answered(handler.load, handler.items)

\* getCurrentTrips: the answer replaces the model, whoever asked for it.
AnswerTrips(load, items) ==
    /\ load.list = "trips"
    /\ Take(load)
    /\ model' = [model EXCEPT !["trips"] = items]
    /\ UNCHANGED <<screen, controller, sent, handler>>
    /\ Redraw(load)
    /\ Answered(load, items)

\* No answer, or one of userCheck that is no list of trips.
Lose(load) == /\ Take(load)
              /\ UNCHANGED <<screen, model, table, controller, sent, handler, watch>>

-----------------------------------------------------------------------------
(* The user touches row i of the page on the screen                        *)

Row(k, i) == Page = k /\ i \in DOMAIN table[k]

\* Whether the model still has a row i.
InModel(k, i) == i \in DOMAIN model[k]

\* The page of a trip or a friend: that of the model's entry i.
Open(k, i) ==
    /\ k # "requests" /\ Row(k, i) /\ InModel(k, i)
    /\ top' = [top EXCEPT ![k] = IF k = "trips" THEN "trip" ELSE "friend"]
    /\ UNCHANGED <<LoggedInUser, tab, model, table, controller, sent, loads, handler,
                   watch>>

\* The row was scrolled off the screen and comes back: its cell is drawn anew.
Scroll(k, i) ==
    /\ Row(k, i) /\ InModel(k, i)
    /\ table' = [table EXCEPT ![k][i] = model[k][i]]
    /\ UNCHANGED <<screen, model, controller, sent, loads, handler, watch>>

\* Accept or Refuse.  Accept first sends confirm with what the cell shows.  The
\* entry leaves the model, and the row the table, which insists that the model
\* has as many entries as it has rows.
Deletable(i) == InModel("requests", i) /\ Len(model["requests"]) = Len(table["requests"])

ButtonTapped(i) ==
    /\ Row("requests", i) /\ Deletable(i)
    /\ model' = [model EXCEPT !["requests"] = RemoveAt(@, i)]
    /\ table' = [table EXCEPT !["requests"] = RemoveAt(@, i)]
    /\ watch' = [watch EXCEPT !["requests"].expected = @ \ {table["requests"][i]},
                              !["requests"].hasty = @ \/ UnderWay("requests")]
    /\ UNCHANGED <<screen, controller, sent, loads, handler>>

\* The app ends and is started again.
Restart ==
    /\ LoggedInUser' = NULL
    /\ tab' = "login"
    /\ top' = Roots
    /\ model' = Everywhere(<<>>)
    /\ table' = Everywhere(<<>>)
    /\ controller' = Everywhere(0)
    /\ loads' = {}
    /\ handler' = None
    /\ watch' = Everywhere(Unseen)
    /\ UNCHANGED sent

\* Index out of range, or an invalid number of sections.
TouchCrash(k, i) == /\ Row(k, i)
                    /\ \/ ~InModel(k, i)
                       \/ k = "requests" /\ ~Deletable(i)
                    /\ Restart

\* An answer to GetAllRequest without the JSON array it insists on.
AnswerCrash(load) == load.list = "requests" /\ Take(load) /\ Restart

-----------------------------------------------------------------------------

Crash == \/ \E k \in Lists : \E i \in DOMAIN table[k] : TouchCrash(k, i)
         \/ \E load \in loads : AnswerCrash(load)

Touch == \E k \in Lists : \E i \in DOMAIN table[k] : \/ Open(k, i)
                                                     \/ Scroll(k, i)
                                                     \/ ButtonTapped(i)

Arrive == \/ \E load \in loads :
              \/ \E items \in Answers[load.list][load.user] :
                     Answer(load, items) \/ AnswerTrips(load, items)
              \/ Lose(load)
          \/ AppendNext
          \/ Callback

Move == \/ \E user \in Users : Login(user)
        \/ FinishWizard
        \/ \E new \in Tabs \ {"login"} : OpenTab(new)
        \/ OpenRequests
        \/ Back

Next == Move \/ Logout \/ Touch \/ Arrive \/ Crash

Spec == Init /\ [][Next]_vars

-----------------------------------------------------------------------------
(* Properties *)

\* TypeOK: the models, the tables and the loads keep their types; a page of the
\* main part is only on the screen while somebody is logged in.
TypeOK ==
    /\ LoggedInUser \in Users \union {NULL}
    /\ tab \in Tabs
    /\ top \in Pages
    /\ model \in [Lists -> Seq(Items)]
    /\ table \in [Lists -> Seq(Items)]
    /\ controller \in [Lists -> 0..MaxLoads]
    /\ sent \in 0..MaxLoads
    /\ loads \subseteq Load
    /\ handler \in Handler
    /\ watch \in [Lists -> Watch]
    /\ tab = "login" <=> LoggedInUser = NULL

\* ShowsModel: once the answer to the last load of a list is drawn, and until the
\* list is loaded again, every row shows the model's entry of its number, so that
\* a tap opens what it shows and scrolling changes nothing, whatever older
\* answers are appended meanwhile and whatever rows are deleted.  For trips, only
\* if no other load was under way: an older answer replaces the model
\* (ListController.swift 87, TripListTableViewController.swift 38-42, 181).
ShowsModel ==
    \A k \in Lists :
        (Page = k /\ watch[k].answered /\ (k = "trips" => ~watch[k].overlap)) =>
            \A i \in DOMAIN table[k] : InModel(k, i) /\ table[k][i] = model[k][i]

\* ShowsEverything: once that answer is drawn on the page on the screen, every
\* item of it has a row or had its button tapped, also when loads overlapped; only
\* a button tapped during a load can make another item disappear
\* (RequestModel.swift 34-78, Friend_Request_PageController.swift 22-24).
ShowsEverything ==
    \A k \in Lists \ {"trips"} :
        (Page = k /\ watch[k].answered /\ ~watch[k].hasty) =>
            watch[k].expected \subseteq ToSet(table[k])

\* What is shown are items of the answer, in its order.
PartOf(shown, items) ==
    \E at \in [DOMAIN shown -> DOMAIN items] :
        /\ \A a, b \in DOMAIN shown : a < b => at[a] < at[b]
        /\ \A a \in DOMAIN shown : shown[a] = items[at[a]]

\* ListsOwnAnswer: if no other load of a list was under way when its page loaded
\* it, the page shows a part of one answer to this user, in its order and nothing
\* more often than answered, whoever was logged in before
\* (FriendModel.swift 37, 66-73).  An answer may name a friend twice: confirm
\* stores one again (confirm.java 110).
ListsOwnAnswer ==
    \A k \in Lists :
        (Page = k /\ watch[k].answered /\ ~watch[k].overlap) =>
            \E items \in Answers[k][LoggedInUser] : PartOf(table[k], items)

=============================================================================
