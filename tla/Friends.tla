------------------------------ MODULE Friends ------------------------------
(***************************************************************************)
(* Friendship: the servlets add_friend and confirm of Backend/src/Friend,  *)
(* statement by statement, and the pages of the app that call them.        *)
(*                                                                         *)
(* A user adds a friend by typing a name.  add_friend appends the friend   *)
(* to the sender's own list and then stores a request; the receiver's      *)
(* request page lists the stored requests, and confirm deletes the request *)
(* and appends the sender to the receiver's list.  Refusing only removes   *)
(* the row from the page.  So each servlet writes the list of the user who *)
(* called it, with a SELECT and an UPDATE that other threads can separate. *)
(*                                                                         *)
(* A device has one RequestSet.  A load empties it, and every answer is    *)
(* appended to it, also that of an overlapping load or of one begun by     *)
(* another login; a tap answers for whoever is logged in by then.          *)
(*                                                                         *)
(* Statements are in autocommit mode.  Fail is the SQLException that any   *)
(* of them can raise, or a crash of the server.                            *)
(***************************************************************************)
EXTENDS Integers, FiniteSets, SequencesExt, BagsExt

CONSTANTS Users,        \* usernames with a row in User; also their userIDs
          Names,        \* what can be typed into the search field
          Nobody,       \* whom an idle thread works for; an unused device's user
          Devices,      \* phones
          Logins,       \* who logs in on each of them
          Threads,      \* Tomcat's worker threads
          MaxRequests,  \* bound: requests to add_friend in a behaviour
          MaxLoads,     \* bound: loads of request pages in a behaviour
          Overlap,      \* whether a user may send a request before the last ended
          MayFail       \* whether statements may raise SQLException

ASSUME NamesAssumption == Users \subseteq Names /\ Nobody \notin Users
ASSUME LoginsAssumption == Logins \in [Devices -> SUBSET Users]
ASSUME FriendBounds == /\ MaxRequests \in Nat /\ MaxLoads \in Nat
                       /\ Overlap \in BOOLEAN /\ MayFail \in BOOLEAN

VARIABLES friend,         \* column friend of User; NULL is the empty list
          FriendRequest,  \* the rows of table FriendRequest, a bag
          job,            \* what each thread is doing
          requests,       \* number of requests to add_friend so far (for the bound)
          failed,         \* history: whether a request has failed so far
          LoggedInUser,   \* the user of each device
          controller,     \* its request page: the number of its first load, or 0
          RequestSet,     \* the model of its request pages
          cells,          \* the rows drawn on its request page
          loads,          \* loads whose answer has not arrived
          sent,           \* number of loads so far
          astray          \* history: who was accepted from a row answered to another login

servers == <<friend, FriendRequest, job, requests, failed>>
page    == <<LoggedInUser, controller, RequestSet, cells, loads, sent>>
pages   == <<page, astray>>
vars    == <<servers, pages>>

Steps == {"idle", "selectFriend", "selectSender", "updateSender", "selectRequest",
          "insertRequest", "deleteRequest", "selectReceiver", "updateReceiver"}

\* A thread's next statement, the caller, the other user, and the list it read.
Job == [pc : Steps, me : Users \union {Nobody}, other : Names \union {Nobody},
        old_friend : Seq(Users)]

Idle == [pc |-> "idle", me |-> Nobody, other |-> Nobody, old_friend |-> <<>>]

Row(s, r) == [Sender |-> s, Receiver |-> r]

\* The rows of a load carry the user they were answered to, which the app does
\* not keep; what reads it is history.
Load == [n : 1..MaxLoads, device : Devices, user : Users, controller : 1..MaxLoads,
         answered : BOOLEAN, rows : Seq([Sender : Users, Receiver : Users])]

Pending(s, r) == Row(s, r) \in BagToSet(FriendRequest)

Init == /\ friend = [u \in Users |-> <<>>]
        /\ FriendRequest = EmptyBag
        /\ job = [t \in Threads |-> Idle]
        /\ requests = 0
        /\ failed = FALSE
        /\ LoggedInUser = [d \in Devices |-> Nobody]
        /\ controller = [d \in Devices |-> 0]
        /\ RequestSet = [d \in Devices |-> <<>>]
        /\ cells = [d \in Devices |-> <<>>]
        /\ loads = {}
        /\ sent = 0
        /\ astray = {}

Busy(u) == \E t \in Threads : job[t].me = u

Accept(t, u, other, first) ==
    /\ job[t].pc = "idle"
    /\ Overlap \/ ~Busy(u)
    /\ job' = [job EXCEPT ![t] = [Idle EXCEPT !.pc = first, !.me = u, !.other = other]]
    /\ UNCHANGED <<friend, FriendRequest, failed>>

-----------------------------------------------------------------------------
(* add_friend                                                              *)

AddFriendClick(t, d, find_friend) ==
    /\ LoggedInUser[d] # Nobody
    /\ requests < MaxRequests
    /\ requests' = requests + 1
    /\ Accept(t, LoggedInUser[d], find_friend, "selectFriend")
    /\ UNCHANGED pages

\* Mutant: the name is not looked up.
SelectFriendUnchecked(t) ==
    /\ job[t].pc = "selectFriend"
    /\ job' = [job EXCEPT ![t].pc = "selectSender"]
    /\ UNCHANGED <<friend, FriendRequest, pages, requests, failed>>

\* "Username doesn't exist!" ends the request.
SelectFriend(t) ==
    /\ job[t].pc = "selectFriend"
    /\ job' = [job EXCEPT ![t] = IF job[t].other \in Users
                                 THEN [@ EXCEPT !.pc = "selectSender"]
                                 ELSE Idle]
    /\ UNCHANGED <<friend, FriendRequest, pages, requests, failed>>

\* Mutant: a friend already listed is sent the request again.
SelectSenderResending(t) ==
    /\ job[t].pc = "selectSender"
    /\ LET list == friend[job[t].me]
       IN  job' = [job EXCEPT ![t] = IF job[t].other \in ToSet(list)
                                     THEN [@ EXCEPT !.pc = "insertRequest"]
                                     ELSE [@ EXCEPT !.pc = "updateSender",
                                                    !.old_friend = list]]
    /\ UNCHANGED <<friend, FriendRequest, pages, requests, failed>>

\* A friend already listed is answered "Friend Request Sent!" and nothing is done.
SelectSender(t) ==
    /\ job[t].pc = "selectSender"
    /\ LET list == friend[job[t].me]
       IN  job' = [job EXCEPT ![t] = IF job[t].other \in ToSet(list)
                                     THEN Idle
                                     ELSE [@ EXCEPT !.pc = "updateSender",
                                                    !.old_friend = list]]
    /\ UNCHANGED <<friend, FriendRequest, pages, requests, failed>>

\* Mutant: the friend is written in front of the list.
UpdateSenderFirst(t) ==
    /\ job[t].pc = "updateSender"
    /\ friend' = [friend EXCEPT ![job[t].me] = <<job[t].other>> \o job[t].old_friend]
    /\ job' = [job EXCEPT ![t].pc = "selectRequest"]
    /\ UNCHANGED <<FriendRequest, pages, requests, failed>>

\* Mutant: the list read is forgotten.
UpdateSenderFresh(t) ==
    /\ job[t].pc = "updateSender"
    /\ friend' = [friend EXCEPT ![job[t].me] = <<job[t].other>>]
    /\ job' = [job EXCEPT ![t].pc = "selectRequest"]
    /\ UNCHANGED <<FriendRequest, pages, requests, failed>>

UpdateSender(t) ==
    /\ job[t].pc = "updateSender"
    /\ friend' = [friend EXCEPT ![job[t].me] = Append(job[t].old_friend, job[t].other)]
    /\ job' = [job EXCEPT ![t].pc = "selectRequest"]
    /\ UNCHANGED <<FriendRequest, pages, requests, failed>>

SelectRequest(t) ==
    /\ job[t].pc = "selectRequest"
    /\ job' = [job EXCEPT ![t] = IF Pending(job[t].me, job[t].other)
                                 THEN Idle
                                 ELSE [@ EXCEPT !.pc = "insertRequest"]]
    /\ UNCHANGED <<friend, FriendRequest, pages, requests, failed>>

InsertRequest(t) ==
    /\ job[t].pc = "insertRequest"
    /\ FriendRequest' = BagAdd(FriendRequest, Row(job[t].me, job[t].other))
    /\ job' = [job EXCEPT ![t] = Idle]
    /\ UNCHANGED <<friend, pages, requests, failed>>

-----------------------------------------------------------------------------
(* The devices and their request pages.  What a tap finds while an answer  *)
(* is appended row by row is modelled in ListPages.                        *)

Login(d, u) ==
    /\ LoggedInUser[d] = Nobody
    /\ u \in Logins[d]
    /\ LoggedInUser' = [LoggedInUser EXCEPT ![d] = u]
    /\ UNCHANGED <<servers, controller, RequestSet, cells, loads, sent, astray>>

\* Mutant: the request page stays.
LogoutOnPage(d) ==
    /\ LoggedInUser[d] # Nobody
    /\ LoggedInUser' = [LoggedInUser EXCEPT ![d] = Nobody]
    /\ UNCHANGED <<servers, controller, RequestSet, cells, loads, sent, astray>>

\* The pages go; the model and the loads under way stay.
Logout(d) ==
    /\ LoggedInUser[d] # Nobody
    /\ LoggedInUser' = [LoggedInUser EXCEPT ![d] = Nobody]
    /\ controller' = [controller EXCEPT ![d] = 0]
    /\ cells' = [cells EXCEPT ![d] = <<>>]
    /\ UNCHANGED <<servers, RequestSet, loads, sent, astray>>

\* A load for page number c.
GetAllRequest(d, c) ==
    /\ LoggedInUser[d] # Nobody
    /\ sent < MaxLoads
    /\ sent' = sent + 1
    /\ RequestSet' = [RequestSet EXCEPT ![d] = <<>>]
    /\ loads' = loads \union {[n |-> sent', device |-> d, user |-> LoggedInUser[d],
                               controller |-> c, answered |-> FALSE, rows |-> <<>>]}

\* Each time with a new controller.  A page that is left without that is one
\* on which nobody taps.
OpenRequests(d) ==
    /\ GetAllRequest(d, sent + 1)
    /\ controller' = [controller EXCEPT ![d] = sent + 1]
    /\ cells' = [cells EXCEPT ![d] = <<>>]
    /\ UNCHANGED <<servers, LoggedInUser, astray>>

\* The user comes back from another tab.
Reappear(d) ==
    /\ controller[d] # 0
    /\ GetAllRequest(d, controller[d])
    /\ UNCHANGED <<servers, LoggedInUser, controller, cells, astray>>

\* The stored requests to a user, in any order; each add_friend stores one at most.
Answers(u) ==
    LET stored == {row \in BagToSet(FriendRequest) : row.Receiver = u}
    IN  {rows \in SeqOf(stored, MaxRequests) :
            \A row \in stored :
                Cardinality({i \in DOMAIN rows : rows[i] = row}) = FriendRequest[row]}

PullFriendRequest(load) ==
    /\ ~load.answered
    /\ \E rows \in Answers(load.user) :
           loads' = (loads \ {load}) \union {[load EXCEPT !.answered = TRUE, !.rows = rows]}
    /\ UNCHANGED <<servers, LoggedInUser, controller, RequestSet, cells, sent, astray>>

\* The answer is appended whoever is logged in, and drawn if its page is still there.
\* One that is lost stays under way for ever.
Arrive(load) ==
    LET d == load.device
    IN  /\ load.answered
        /\ loads' = loads \ {load}
        /\ RequestSet' = [RequestSet EXCEPT ![d] = @ \o load.rows]
        /\ cells' = IF load.controller = controller[d]
                    THEN [cells EXCEPT ![d] = RequestSet'[d]]
                    ELSE cells
        /\ UNCHANGED <<servers, LoggedInUser, controller, sent, astray>>

\* A cell that was scrolled off the screen is drawn anew.
Scroll(d, i) ==
    /\ i \in DOMAIN RequestSet[d]
    /\ cells' = [cells EXCEPT ![d][i] = RequestSet[d][i]]
    /\ UNCHANGED <<servers, LoggedInUser, controller, RequestSet, loads, sent, astray>>

\* The app ends, or crashes.
End(d) ==
    /\ LoggedInUser' = [LoggedInUser EXCEPT ![d] = Nobody]
    /\ controller' = [controller EXCEPT ![d] = 0]
    /\ RequestSet' = [RequestSet EXCEPT ![d] = <<>>]
    /\ cells' = [cells EXCEPT ![d] = <<>>]
    /\ loads' = {load \in loads : load.device # d}
    /\ UNCHANGED sent

Restart(d) == End(d) /\ UNCHANGED <<servers, astray>>

\* Row i leaves the model and the table, which insists that they have equally many.
ButtonTapped(d, i) ==
    \/ /\ Len(RequestSet[d]) = Len(cells[d])
       /\ RequestSet' = [RequestSet EXCEPT ![d] = RemoveAt(@, i)]
       /\ cells' = [cells EXCEPT ![d] = RemoveAt(@, i)]
       /\ UNCHANGED <<LoggedInUser, controller, loads, sent>>
    \/ /\ Len(RequestSet[d]) # Len(cells[d])
       /\ End(d)

\* The request in FriendRequest stays.
Refuse(d, i) == ButtonTapped(d, i) /\ UNCHANGED <<servers, astray>>

\* Sends confirm with what the cell shows, for the user who is logged in.
AcceptRequest(t, d, i) ==
    LET row  == cells[d][i]
        user == LoggedInUser[d]
    IN  /\ Accept(t, user, row.Sender, "deleteRequest")
        /\ ButtonTapped(d, i)
        /\ UNCHANGED requests
        /\ astray' = astray \union
               {p \in {<<row.Sender, user>>} : row.Receiver # user}

-----------------------------------------------------------------------------
(* confirm                                                                 *)

\* The table without some of its rows.
Without(rows) == [row \in BagToSet(FriendRequest) \ rows |-> FriendRequest[row]]

\* Mutant: the request is not told apart by its sender.
DeleteRequestsOfReceiver(t) ==
    /\ job[t].pc = "deleteRequest"
    /\ FriendRequest' = Without({Row(s, job[t].me) : s \in Users})
    /\ job' = [job EXCEPT ![t].pc = "selectReceiver"]
    /\ UNCHANGED <<friend, pages, requests, failed>>

DeleteRequest(t) ==
    /\ job[t].pc = "deleteRequest"
    /\ FriendRequest' = Without({Row(job[t].other, job[t].me)})
    /\ job' = [job EXCEPT ![t].pc = "selectReceiver"]
    /\ UNCHANGED <<friend, pages, requests, failed>>

\* Reads the own list; the second SELECT, for the id of the sender, reads
\* nothing that ever changes.
SelectReceiver(t) ==
    /\ job[t].pc = "selectReceiver"
    /\ job' = [job EXCEPT ![t].pc = "updateReceiver",
                          ![t].old_friend = friend[job[t].me]]
    /\ UNCHANGED <<friend, FriendRequest, pages, requests, failed>>

\* Mutant: the list read is forgotten.
UpdateReceiverFresh(t) ==
    /\ job[t].pc = "updateReceiver"
    /\ friend' = [friend EXCEPT ![job[t].me] = <<job[t].other>>]
    /\ job' = [job EXCEPT ![t] = Idle]
    /\ UNCHANGED <<FriendRequest, pages, requests, failed>>

\* Appends whether or not the sender is listed already.
UpdateReceiver(t) ==
    /\ job[t].pc = "updateReceiver"
    /\ friend' = [friend EXCEPT ![job[t].me] = Append(job[t].old_friend, job[t].other)]
    /\ job' = [job EXCEPT ![t] = Idle]
    /\ UNCHANGED <<FriendRequest, pages, requests, failed>>

-----------------------------------------------------------------------------

Fail(t) ==
    /\ MayFail
    /\ job[t].pc # "idle"
    /\ job' = [job EXCEPT ![t] = Idle]
    /\ failed' = TRUE
    /\ UNCHANGED <<friend, FriendRequest, pages, requests>>

Step(t) == \/ SelectFriend(t) \/ SelectSender(t) \/ UpdateSender(t)
           \/ SelectRequest(t) \/ InsertRequest(t)
           \/ DeleteRequest(t) \/ SelectReceiver(t) \/ UpdateReceiver(t)

Move(d) == \/ \E u \in Users : Login(d, u)
           \/ Logout(d)
           \/ OpenRequests(d)
           \/ Reappear(d)
           \/ \E i \in DOMAIN cells[d] : Scroll(d, i) \/ Refuse(d, i)
           \/ Restart(d)

Send(t, d) == \/ \E name \in Names : AddFriendClick(t, d, name)
              \/ \E i \in DOMAIN cells[d] : AcceptRequest(t, d, i)

Next == \/ \E t \in Threads : \/ Step(t)
                              \/ Fail(t)
                              \/ \E d \in Devices : Send(t, d)
        \/ \E d \in Devices : Move(d)
        \/ \E load \in loads : PullFriendRequest(load) \/ Arrive(load)

Spec == Init /\ [][Next]_vars

-----------------------------------------------------------------------------
(* Properties *)

\* TypeOK: the tables, the pages and the locals of the threads keep their
\* types; a name that is no user gets no further than the first SELECT, and
\* rows are drawn only on a page of somebody who is logged in.
TypeOK ==
    /\ friend \in [Users -> Seq(Users)]
    /\ BagToSet(FriendRequest) \subseteq [Sender : Users, Receiver : Users]
    /\ job \in [Threads -> Job]
    /\ requests \in Nat
    /\ failed \in BOOLEAN
    /\ LoggedInUser \in [Devices -> Users \union {Nobody}]
    /\ controller \in [Devices -> 0..sent]
    /\ RequestSet \in [Devices -> Seq([Sender : Users, Receiver : Users])]
    /\ cells \in [Devices -> Seq([Sender : Users, Receiver : Users])]
    /\ loads \subseteq Load
    /\ sent \in 0..MaxLoads
    /\ astray \subseteq Users \X Users
    /\ \A t \in Threads :
           CASE job[t].pc = "idle" -> job[t].me = Nobody
             [] job[t].pc = "selectFriend" -> job[t].me \in Users
             [] OTHER -> job[t].me \in Users /\ job[t].other \in Users
    /\ \A d \in Devices : /\ LoggedInUser[d] = Nobody => controller[d] = 0
                          /\ controller[d] = 0 => cells[d] = <<>>

Lists(u, v) == v \in ToSet(friend[u])

\* The rows on their way to a device, in its model, or drawn on its page.
Rows == UNION ({ToSet(load.rows) : load \in loads}
               \union {ToSet(RequestSet[d]) : d \in Devices}
               \union {ToSet(cells[d]) : d \in Devices})

\* RequestsListed: as long as no two requests of one user overlap, whoever has
\* asked lists the other: behind every stored request and behind every row that
\* was answered, however late it arrives and whoever is logged in by then, the
\* sender lists the user it was answered to.  add_friend updates the list before
\* it stores the request (add_friend.java 131-152), and nothing takes a friend
\* off a list.
RequestsListed ==
    \A row \in BagToSet(FriendRequest) \union Rows : Lists(row.Sender, row.Receiver)

\* RequestedOnce: as long as no two requests of one user overlap, a request is
\* stored at most once, although add_friend looks for it and inserts it in two
\* statements and the table has no key for it (add_friend.java 137-152): asking
\* again, after an answer that got lost, a failure or a refusal, stores no second.
RequestedOnce ==
    \A row \in BagToSet(FriendRequest) : FriendRequest[row] = 1

\* OneSidedPending: as long as no two requests of one user overlap and none has
\* failed, then whenever the server is idle, a friend who does not list
\* the user back still has the request stored, to be answered: no order of
\* adding, confirming and refusing loses it.  The only others were accepted from
\* a row that was answered to an earlier login of the device
\* (RequestModel.swift 71-75, FriendRequestCell.swift 97).
OneSidedPending ==
    (~failed /\ \A t \in Threads : job[t].pc = "idle") =>
        \A s, r \in Users :
            Lists(s, r) => Lists(r, s) \/ Pending(s, r) \/ <<r, s>> \in astray

\* ConfirmedBothWays: as long as no two requests of one user overlap, a confirm
\* that reaches its last statement leaves two users who list each other, also
\* when the page it was sent from is out of date (confirm.java 69-117); only one
\* of a row that was answered to an earlier login of the device may not.
ConfirmedBothWays ==
    [][\A t \in Threads : \A u \in {job[t].me}, v \in {job[t].other} :
          UpdateReceiver(t) => Lists(u, v)' /\ (Lists(v, u)' \/ <<v, u>> \in astray)]_vars

\* FriendsGrow: as long as no two requests of one user overlap, a friend list
\* only grows at its end, even when statements fail: no friend is dropped.
FriendsGrow ==
    [][\A u \in Users : IsPrefix(friend[u], friend'[u])]_vars

-----------------------------------------------------------------------------
(* What asking and accepting promise *)

\* Threads past the UPDATE of add_friend, and those that answer a request.
Askers    == {t \in Threads : job[t].pc \in {"selectRequest", "insertRequest"}}
Acceptors == {t \in Threads : job[t].pc \in {"deleteRequest", "selectReceiver",
                                             "updateReceiver"}}

AllAccepted == {<<job[t].other, job[t].me>> : t \in Acceptors}
AllAsked    == {<<row.Sender, row.Receiver>> : row \in BagToSet(FriendRequest)}
                   \union {<<job[t].me, job[t].other>> : t \in Askers}
                   \union AllAccepted

Abstract == INSTANCE Friendships WITH asked <- AllAsked, accepted <- AllAccepted

\* ImplementsFriendships: as long as no two requests of one user overlap, asking
\* and accepting are what Friendships promises, as if each were one statement:
\* requests of other users, failures, refusals, loads that overlap, answers that
\* are late and logins in between change nothing about that
\* (add_friend.java 91-152, confirm.java 67-117, RequestModel.swift 33-83).
ImplementsFriendships == Abstract!Spec

-----------------------------------------------------------------------------
(* What the code says of itself and does not do.                           *)

\* SentMeansSent: a user who is told "Friend Request Sent!" (add_friend.java 113)
\* has sent one: it is stored, or the other user has confirmed it.
SentMeansSent ==
    [][\A t \in Threads :
          (SelectSender(t) /\ job'[t].pc = "idle") =>
              \/ Pending(job[t].me, job[t].other)
              \/ Lists(job[t].other, job[t].me)]_vars

=============================================================================
