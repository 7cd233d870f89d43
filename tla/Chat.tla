-------------------------------- MODULE Chat --------------------------------
(***************************************************************************)
(* The chat: table Chat, the servlets send_chat and pull_chat, and the     *)
(* page NotificationViewController, which shows one conversation.          *)
(*                                                                         *)
(* The page sends a message and forgets it; it shows only what it pulls.   *)
(* It pulls twice when it opens and then on timers, every pull asks for    *)
(* the whole conversation, and answers arrive in any order.  A row of an   *)
(* answer is appended unless a bubble with its date and its text is there. *)
(* Dates are in minutes.                                                   *)
(*                                                                         *)
(* send_chat is one INSERT and pull_chat one SELECT.  The SELECT has no    *)
(* ORDER BY; rows are taken to come in the order of insertion.             *)
(***************************************************************************)
EXTENDS Integers, FiniteSetsExt, SequencesExt, BagsExt

CONSTANTS Users,        \* usernames, each logged in on one device
          FriendsOf,    \* for each user, those whose chat page can be opened
          Bodies,       \* texts that can be typed
          NoOne,        \* the chat_user of a user with no chat page open
          MaxSends,     \* bound: messages sent in a behaviour
          MaxViews,     \* bound: chat pages opened in a behaviour
          MaxPulls,     \* bound: pulls of one user under way at a time
          LastMinute,   \* bound: the clock stops at this minute
          MayLose       \* whether requests and answers can be lost

ASSUME NoOneAssumption == NoOne \notin Users
ASSUME FriendsAssumption == FriendsOf \in [Users -> SUBSET Users]
ASSUME ChatBounds == /\ {MaxSends, MaxViews, MaxPulls, LastMinute} \subseteq Nat
                     /\ MayLose \in BOOLEAN

VARIABLES table,    \* table Chat, in the order of insertion
          now,      \* Date(), in minutes
          sends,    \* bag of send_chat requests under way
          sent,     \* number of messages sent so far (for the bound)
          view,     \* the chat page of each user
          pulls     \* for each user, bag of pull_chat requests under way

vars == <<table, now, sends, sent, view, pulls>>

Row == [Sender : Users, Receiver : Users, Date : Nat, Body : Bodies]

ChatMessage == [text : Bodies, isIncoming : BOOLEAN, date : Nat]

\* A chat page: which one it is, the other user, and its bubbles.
View == [id : Nat, chat_user : Users \union {NoOne}, chatMessages : Seq(ChatMessage)]

Unanswered == -1

\* A pull: the page that waits for it, its Aim, and the number of rows the
\* table had when it was answered.  Rows are only ever appended, so that number
\* determines the answer.
Request == [view : Nat, Aim : Users, read : Nat \union {Unanswered}]

IsOpen(u) == view[u].chat_user # NoOne

ViewsOpened == MapThenSumSet(LAMBDA u : view[u].id, Users)

Init == /\ table = <<>>
        /\ now = 0
        /\ sends = EmptyBag
        /\ sent = 0
        /\ view = [u \in Users |-> [id |-> 0, chat_user |-> NoOne, chatMessages |-> <<>>]]
        /\ pulls = [u \in Users |-> EmptyBag]

-----------------------------------------------------------------------------
(* Sending *)

PerformAction(u, body) ==
    /\ IsOpen(u)
    /\ sent < MaxSends
    /\ sends' = BagAdd(sends, [Sender |-> u, Receiver |-> view[u].chat_user,
                               Date |-> now, Body |-> body])
    /\ sent' = sent + 1
    /\ UNCHANGED <<table, now, view, pulls>>

\* Mutant: the parameters of the INSERT are mixed up.
SendChatMixed(row) ==
    /\ table' = Append(table, [row EXCEPT !.Receiver = row.Body])
    /\ sends' = BagRemove(sends, row)
    /\ UNCHANGED <<now, sent, view, pulls>>

SendChat(row) ==
    /\ table' = Append(table, row)
    /\ sends' = BagRemove(sends, row)
    /\ UNCHANGED <<now, sent, view, pulls>>

\* The request never arrives, or the INSERT raises SQLException: nobody is told.
LoseSend(row) ==
    /\ MayLose
    /\ sends' = BagRemove(sends, row)
    /\ UNCHANGED <<table, now, sent, view, pulls>>

-----------------------------------------------------------------------------
(* Opening and pulling *)

NewPull(v) == [view |-> v.id, Aim |-> v.chat_user, read |-> Unanswered]

\* A new page starts empty; viewDidLoad and viewWillAppear both pull.
Open(u, friend) ==
    /\ ViewsOpened < MaxViews
    /\ BagCardinality(pulls[u]) + 2 <= MaxPulls
    /\ LET new == [id |-> view[u].id + 1, chat_user |-> friend, chatMessages |-> <<>>]
       IN  /\ view' = [view EXCEPT ![u] = new]
           /\ pulls' = [pulls EXCEPT ![u] = BagAdd(BagAdd(@, NewPull(new)), NewPull(new))]
    /\ UNCHANGED <<table, now, sends, sent>>

\* The page is left.  Its timers are never invalidated and keep it pulling, for
\* bubbles that nobody will see: such a page, and what it goes on pulling, is left
\* out, and a page that is opened later is another one.
Close(u) ==
    /\ IsOpen(u)
    /\ view' = [view EXCEPT ![u].chat_user = NoOne, ![u].chatMessages = <<>>]
    /\ UNCHANGED <<table, now, sends, sent, pulls>>

\* Mutant: the timer stops at the first bubble.
PullChatIfEmpty(u) ==
    /\ IsOpen(u)
    /\ view[u].chatMessages = <<>>
    /\ BagCardinality(pulls[u]) < MaxPulls
    /\ pulls' = [pulls EXCEPT ![u] = BagAdd(@, NewPull(view[u]))]
    /\ UNCHANGED <<table, now, sends, sent, view>>

\* A timer fires, or the page appears again.
PullChat(u) ==
    /\ IsOpen(u)
    /\ BagCardinality(pulls[u]) < MaxPulls
    /\ pulls' = [pulls EXCEPT ![u] = BagAdd(@, NewPull(view[u]))]
    /\ UNCHANGED <<table, now, sends, sent, view>>

Answer(u, pull) ==
    /\ pull.read = Unanswered
    /\ pulls' = [pulls EXCEPT ![u] = BagAdd(BagRemove(@, pull),
                                            [pull EXCEPT !.read = Len(table)])]
    /\ UNCHANGED <<table, now, sends, sent, view>>

\* No connection, or the SELECT raises SQLException and the answer is empty.
LosePull(u, pull) ==
    /\ MayLose
    /\ pulls' = [pulls EXCEPT ![u] = BagRemove(@, pull)]
    /\ UNCHANGED <<table, now, sends, sent, view>>

-----------------------------------------------------------------------------
(* Showing an answer *)

\* The WHERE of pull_chat.
InConversation(me, Aim, row) ==
    \/ row.Sender = me /\ row.Receiver = Aim
    \/ row.Sender = Aim /\ row.Receiver = me

Bubble(me, row) == [text |-> row.Body, isIncoming |-> row.Sender # me, date |-> row.Date]

\* Mutant: a text that was shown before is not shown again.
InsertNewText(chatMessages, message) ==
    IF \E i \in DOMAIN chatMessages : chatMessages[i].text = message.text
    THEN chatMessages
    ELSE Append(chatMessages, message)

\* Mutant: the newest bubble is put first.
InsertMessageFirst(chatMessages, message) ==
    IF \E i \in DOMAIN chatMessages : /\ chatMessages[i].date = message.date
                                      /\ chatMessages[i].text = message.text
    THEN chatMessages
    ELSE <<message>> \o chatMessages

InsertMessage(chatMessages, message) ==
    IF \E i \in DOMAIN chatMessages : /\ chatMessages[i].date = message.date
                                      /\ chatMessages[i].text = message.text
    THEN chatMessages
    ELSE Append(chatMessages, message)

\* The page after one row of the table: another conversation's row is not there
\* for it.
ShowRow(shown, me, Aim, row) ==
    IF InConversation(me, Aim, row) THEN InsertMessage(shown, Bubble(me, row)) ELSE shown

\* The page after an answer to a SELECT on rows, inserted one by one.
ShowRows(shown, me, Aim, rows) ==
    LET page[k \in 0..Len(rows)] ==
            IF k = 0 THEN shown ELSE ShowRow(page[k - 1], me, Aim, rows[k])
    IN  page[Len(rows)]

\* The table as it was when it had n rows.
TableAt(n) == SubSeq(table, 1, n)

\* Mutant: the answer goes to whichever page is open.
DeliverToOpen(u, pull) ==
    /\ pull.read # Unanswered
    /\ pulls' = [pulls EXCEPT ![u] = BagRemove(@, pull)]
    /\ view' = [view EXCEPT ![u].chatMessages =
                    IF IsOpen(u) THEN ShowRows(@, u, pull.Aim, TableAt(pull.read)) ELSE @]
    /\ UNCHANGED <<table, now, sends, sent>>

\* Mutant: chatMessages = [] before the rows are inserted, as a line that is
\* commented out in the timers has it.
DeliverAfresh(u, pull) ==
    /\ pull.read # Unanswered
    /\ pulls' = [pulls EXCEPT ![u] = BagRemove(@, pull)]
    /\ view' = [view EXCEPT ![u].chatMessages =
                    IF IsOpen(u) /\ view[u].id = pull.view
                    THEN ShowRows(<<>>, u, pull.Aim, TableAt(pull.read))
                    ELSE @]
    /\ UNCHANGED <<table, now, sends, sent>>

\* The main queue runs the closure of one answer: every row is inserted into
\* the page that sent the pull.
Deliver(u, pull) ==
    /\ pull.read # Unanswered
    /\ pulls' = [pulls EXCEPT ![u] = BagRemove(@, pull)]
    /\ view' = [view EXCEPT ![u].chatMessages =
                    IF IsOpen(u) /\ view[u].id = pull.view
                    THEN ShowRows(@, u, pull.Aim, TableAt(pull.read))
                    ELSE @]
    /\ UNCHANGED <<table, now, sends, sent>>

Clock == /\ now < LastMinute
         /\ now' = now + 1
         /\ UNCHANGED <<table, sends, sent, view, pulls>>

-----------------------------------------------------------------------------

Next ==
    \/ Clock
    \/ \E row \in BagToSet(sends) : SendChat(row) \/ LoseSend(row)
    \/ \E u \in Users :
           \/ \E body \in Bodies : PerformAction(u, body)
           \/ \E friend \in FriendsOf[u] : Open(u, friend)
           \/ Close(u)
           \/ PullChat(u)
           \/ \E pull \in BagToSet(pulls[u]) :
                  Answer(u, pull) \/ LosePull(u, pull) \/ Deliver(u, pull)

Spec == Init /\ [][Next]_vars

\* The timers repeat, the server answers, and the main queue is served.
FairSpec ==
    /\ Spec
    /\ \A u \in Users :
           /\ WF_vars(PullChat(u))
           /\ WF_vars(\E pull \in BagToSet(pulls[u]) : Answer(u, pull))
           /\ WF_vars(\E pull \in BagToSet(pulls[u]) : Deliver(u, pull))

-----------------------------------------------------------------------------
(* Properties *)

\* TypeOK: the table, the pages and what is under way keep their types.
TypeOK ==
    /\ table \in Seq(Row)
    /\ now \in Nat
    /\ sent \in Nat
    /\ IsABag(sends) /\ BagToSet(sends) \subseteq Row
    /\ view \in [Users -> View]
    /\ DOMAIN pulls = Users
    /\ \A u \in Users : IsABag(pulls[u]) /\ BagToSet(pulls[u]) \subseteq Request

\* Of all rows of a conversation with the same date and text, the oldest.
Oldest(me, Aim, rows) ==
    {i \in DOMAIN rows :
        /\ InConversation(me, Aim, rows[i])
        /\ \A j \in 1..(i - 1) : InConversation(me, Aim, rows[j]) =>
               \/ rows[j].Date # rows[i].Date
               \/ rows[j].Body # rows[i].Body}

\* The bubbles are those of the oldest rows: each once, in the order of rows.
Lists(chatMessages, me, Aim, rows) ==
    \E order \in [DOMAIN chatMessages -> Oldest(me, Aim, rows)] :
        /\ \A i \in Oldest(me, Aim, rows) : \E k \in DOMAIN chatMessages : order[k] = i
        /\ \A j, k \in DOMAIN chatMessages : j < k => order[j] < order[k]
        /\ \A k \in DOMAIN chatMessages : chatMessages[k] = Bubble(me, rows[order[k]])

\* ShowsConversation: whatever answers overtake each other, get lost or belong
\* to a page that was left, an open page shows the conversation with its user as
\* it was at some moment: from its start, in order, nothing twice and nothing of
\* another conversation (NotificationViewController.swift 248-334).
ShowsConversation ==
    \A u \in Users : IsOpen(u) =>
        \E n \in 0..Len(table) :
            Lists(view[u].chatMessages, u, view[u].chat_user, TableAt(n))

\* BubblesStay: as long as a page is open its bubbles stay where they are, also
\* when an older answer arrives after a newer one.
BubblesStay ==
    [][\A u \in Users :
          (IsOpen(u) /\ view'[u].id = view[u].id /\ view'[u].chat_user # NoOne) =>
              IsPrefix(view[u].chatMessages, view'[u].chatMessages)]_vars

\* ViewsAgree: two users who look at their conversation see the same bubbles, up
\* to the point where the slower page is, and each bubble on one side only: what
\* is incoming for one is outgoing for the other.
ViewsAgree ==
    \A u, v \in Users :
        (u # v /\ view[u].chat_user = v /\ view[v].chat_user = u) =>
            \A i \in DOMAIN view[u].chatMessages \intersect DOMAIN view[v].chatMessages :
                LET mine == view[u].chatMessages[i]
                    other == view[v].chatMessages[i]
                IN  mine = [other EXCEPT !.isIncoming = ~@]

\* The i-th row stored belongs on the page of u and is not there.
Misses(u, i) ==
    /\ i <= Len(table)
    /\ InConversation(u, view[u].chat_user, table[i])
    /\ ~ \E k \in DOMAIN view[u].chatMessages :
           /\ view[u].chatMessages[k].text = table[i].Body
           /\ view[u].chatMessages[k].date = table[i].Date

\* AnswersShown: whatever answers came before, once one has been shown by the page
\* that asked for it, every row it brought has its bubble there, its own or that of
\* an equal message of the same minute (NotificationViewController.swift 274-334).
AnswersShown ==
    [][\A u \in Users : \A pull \in BagToSet(pulls[u]) :
          (Deliver(u, pull) /\ IsOpen(u) /\ view[u].id = pull.view) =>
              \A i \in 1..pull.read : ~Misses(u, i)']_vars

\* EveryMessageShown: a message that was stored gets its bubble on every page
\* that shows the conversation and stays open, also when it was stored after the
\* page opened and whatever pulls overlap: the timers go on pulling.
EveryMessageShown ==
    \A u \in Users, i \in 1..MaxSends :
        (IsOpen(u) /\ Misses(u, i)) ~> (~IsOpen(u) \/ ~Misses(u, i))

=============================================================================
