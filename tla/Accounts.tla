------------------------------ MODULE Accounts ------------------------------
(***************************************************************************)
(* Accounts: the servlets Register and verify_password of                  *)
(* Backend/src/Account, and the pages of the app that call them.           *)
(*                                                                         *)
(* Register looks a name up and then inserts it, in two statements.  The   *)
(* app keeps who is logged in in one global, LoggedInUser.  It is set by   *)
(* whatever answer says success, whenever that arrives, to the name the    *)
(* request was sent with.  The answer then shows the main pages, but only  *)
(* from a page that is still on top: UIKit ignores present() on a page     *)
(* that is already presenting another, an alert included.  No page is      *)
(* ever taken away: Logout too puts a new login page on top.               *)
(***************************************************************************)
EXTENDS Integers, Sequences, Bags, BagsExt

CONSTANTS Devices,      \* phones that run the app
          Names,        \* usernames that are typed
          Passwords,    \* passwords that are typed
          NULL,         \* the empty text
          MaxClicks,    \* bound: requests sent in a behaviour
          MaxPages      \* bound: pages on top of each other, on a device

ASSUME AccountNull == NULL \notin Names
ASSUME AccountBounds == {MaxClicks, MaxPages} \subseteq Nat

VARIABLES User,          \* the rows of table User, oldest first
          requests,      \* bag of requests without an answer, of each device
          answers,       \* bag of answers not handled yet, of each device
          LoggedInUser,  \* the global of the app, on each device
          page,          \* the page on top, on each device
          clicks,        \* number of requests sent so far (for the bound)
          typed,         \* history: what was sent from each device
          overlap        \* history: whether a click did not wait for an answer

vars == <<User, requests, answers, LoggedInUser, page, clicks, typed, overlap>>

userInfo == [username : Names, password : Passwords]

\* `seen` is history: the number of rows when Register looked for the name.
Row == [username : Names, password : Passwords, seen : Nat]

\* The page on top: its number, the number of the page the app started with, if
\* an alert is on it, and the name on the profile page, once that was opened.
Page == [kind   : {"Login", "Register", "Guest", "main"},
         number : Nat,
         first  : Nat,
         alert  : BOOLEAN,
         Name   : Names \union {NULL}]

\* A request: what it carries, the page that waits for it, its next statement.
Request == [user : userInfo, page : Nat, pc : {"verify", "select", "insert"}, seen : Nat]

Welcome == {"login success", "Register Succeed!"}

Refusal == {"username doesn't exist", "wrong password"}

Info == Welcome \union Refusal \union {"null", "This username is already taken", ""}

Answer == [username : Names, page : Nat, info : Info]

NewPage(kind, number, first) ==
    [kind |-> kind, number |-> number, first |-> first, alert |-> FALSE, Name |-> NULL]

Init == /\ User = <<>>
        /\ requests = [d \in Devices |-> EmptyBag]
        /\ answers = [d \in Devices |-> EmptyBag]
        /\ LoggedInUser = [d \in Devices |-> NULL]
        /\ page = [d \in Devices |-> NewPage("Login", 1, 1)]
        /\ clicks = 0
        /\ typed = [d \in Devices |-> {}]
        /\ overlap = [d \in Devices |-> FALSE]

UnderWay(d) == BagToSet(requests[d]) \union BagToSet(answers[d]) # {}

-----------------------------------------------------------------------------
(* What the user does *)

Click(d, user, first) ==
    /\ ~page[d].alert
    /\ clicks < MaxClicks
    /\ clicks' = clicks + 1
    /\ requests' = [requests EXCEPT ![d] =
           BagAdd(@, [user |-> user, page |-> page[d].number, pc |-> first, seen |-> 0])]
    /\ typed' = [typed EXCEPT ![d] = @ \union {user}]
    /\ overlap' = [overlap EXCEPT ![d] = @ \/ UnderWay(d)]
    /\ UNCHANGED <<User, answers, LoggedInUser, page>>

\* Blank fields are refused with a message on the page.
LoginButtonClick(d, user) == page[d].kind = "Login" /\ Click(d, user, "verify")

\* So are two passwords that differ.
Register_Click(d, user) == page[d].kind = "Register" /\ Click(d, user, "select")

Present(d, kind) ==
    /\ page[d].number < MaxPages
    /\ page' = [page EXCEPT ![d] = NewPage(kind, @.number + 1, @.first)]

\* The buttons that lead to another page; the trip pages show the main pages
\* anew when a trip is cancelled or sent.
Segues == {<<"Login", "Register">>, <<"Register", "Login">>, <<"Login", "Guest">>,
           <<"Guest", "Login">>, <<"main", "main">>}

Go(d, kind) ==
    /\ <<page[d].kind, kind>> \in Segues
    /\ ~page[d].alert
    /\ Present(d, kind)
    /\ UNCHANGED <<User, requests, answers, LoggedInUser, clicks, typed, overlap>>

CloseAlert(d) ==
    /\ page[d].alert
    /\ page' = [page EXCEPT ![d].alert = FALSE]
    /\ UNCHANGED <<User, requests, answers, LoggedInUser, clicks, typed, overlap>>

\* viewDidLoad, when the tab of the profile page is opened for the first time.
OpenProfile(d) ==
    /\ page[d].kind = "main"
    /\ page[d].Name = NULL
    /\ page' = [page EXCEPT ![d].Name = LoggedInUser[d]]
    /\ UNCHANGED <<User, requests, answers, LoggedInUser, clicks, typed, overlap>>

\* Mutant: no login page is shown.
LogoutStays(d) ==
    /\ page[d].kind = "main"
    /\ page[d].Name # NULL
    /\ LoggedInUser' = [LoggedInUser EXCEPT ![d] = NULL]
    /\ UNCHANGED <<User, requests, answers, page, clicks, typed, overlap>>

\* The button is on the profile page.
Logout(d) ==
    /\ page[d].kind = "main"
    /\ page[d].Name # NULL
    /\ LoggedInUser' = [LoggedInUser EXCEPT ![d] = NULL]
    /\ Present(d, "Login")
    /\ UNCHANGED <<User, requests, answers, clicks, typed, overlap>>

-----------------------------------------------------------------------------
(* What the server does *)

EndRequest(d, r) == requests' = [requests EXCEPT ![d] = BagRemove(@, r)]

\* An answer finds no app if that has crashed since.
Reply(d, r, info) ==
    /\ EndRequest(d, r)
    /\ answers' = IF r.page >= page[d].first
                  THEN [answers EXCEPT ![d] = BagAdd(@, [username |-> r.user.username,
                                                         page |-> r.page, info |-> info])]
                  ELSE answers
    /\ UNCHANGED <<LoggedInUser, page, clicks, typed, overlap>>

RowsOf(name) == {i \in DOMAIN User : User[i].username = name}

Verified(i, r) ==
    IF User[i].password = r.user.password THEN "login success" ELSE "wrong password"

\* Mutant: the query has no WHERE.
VerifyAnyRow(d, r) ==
    /\ r.pc = "verify"
    /\ Reply(d, r, IF User = <<>> THEN "username doesn't exist" ELSE Verified(Len(User), r))
    /\ UNCHANGED User

\* The loop over the rows of a name keeps the password of the last one.
verify_password(d, r) ==
    /\ r.pc = "verify"
    /\ LET rows == RowsOf(r.user.username)
       IN  \/ rows = {} /\ Reply(d, r, "username doesn't exist")
           \/ \E i \in rows : (\A j \in rows : j <= i) /\ Reply(d, r, Verified(i, r))
    /\ UNCHANGED User

\* Mutant: the query asks for the name and the password.
SelectBoth(d, r) ==
    /\ r.pc = "select"
    /\ IF \E i \in RowsOf(r.user.username) : User[i].password = r.user.password
       THEN Reply(d, r, "This username is already taken")
       ELSE /\ requests' = [requests EXCEPT ![d] =
                   BagAdd(BagRemove(@, r), [r EXCEPT !.pc = "insert", !.seen = Len(User)])]
            /\ UNCHANGED <<answers, LoggedInUser, page, clicks, typed, overlap>>
    /\ UNCHANGED User

SelectUser(d, r) ==
    /\ r.pc = "select"
    /\ IF RowsOf(r.user.username) # {}
       THEN Reply(d, r, "This username is already taken")
       ELSE /\ requests' = [requests EXCEPT ![d] =
                   BagAdd(BagRemove(@, r), [r EXCEPT !.pc = "insert", !.seen = Len(User)])]
            /\ UNCHANGED <<answers, LoggedInUser, page, clicks, typed, overlap>>
    /\ UNCHANGED User

\* Mutant: the password is not inserted.
InsertName(d, r) ==
    /\ r.pc = "insert"
    /\ User' = Append(User, [username |-> r.user.username, password |-> NULL, seen |-> r.seen])
    /\ Reply(d, r, "Register Succeed!")

\* Mutant: REPLACE INTO, and the name is unique: the older row goes.
ReplaceUser(d, r) ==
    /\ r.pc = "insert"
    /\ User' = Append(SelectSeq(User, LAMBDA row : row.username # r.user.username),
                      [username |-> r.user.username, password |-> r.user.password,
                       seen |-> r.seen])
    /\ Reply(d, r, "Register Succeed!")

InsertUser(d, r) ==
    /\ r.pc = "insert"
    /\ User' = Append(User, [username |-> r.user.username, password |-> r.user.password,
                             seen |-> r.seen])
    /\ Reply(d, r, "Register Succeed!")

\* SQLException: verify_password prints null, Register prints nothing.
Fail(d, r) ==
    /\ Reply(d, r, IF r.pc = "verify" THEN "null" ELSE "")
    /\ UNCHANGED User

\* The request does not arrive, or the server stops.
LoseRequest(d, r) ==
    /\ EndRequest(d, r)
    /\ UNCHANGED <<User, answers, LoggedInUser, page, clicks, typed, overlap>>

-----------------------------------------------------------------------------
(* What the main queue does with an answer *)

OnTop(d, a) == a.page = page[d].number /\ ~page[d].alert

Handle(d, a) == /\ answers' = [answers EXCEPT ![d] = BagRemove(@, a)]
                /\ UNCHANGED <<User, requests, clicks, typed, overlap>>

LogIn(d, a) ==
    /\ a.info \in Welcome
    /\ LoggedInUser' = [LoggedInUser EXCEPT ![d] = a.username]
    /\ IF OnTop(d, a) THEN Present(d, "main") ELSE UNCHANGED page
    /\ Handle(d, a)

Refuse(d, a) ==
    /\ a.info \in Refusal
    /\ page' = IF OnTop(d, a) THEN [page EXCEPT ![d].alert = TRUE] ELSE page
    /\ UNCHANGED LoggedInUser
    /\ Handle(d, a)

\* The name is taken, or there is no answer: at most a message on the page.
Ignore(d, a) ==
    /\ a.info \in {"This username is already taken", ""}
    /\ UNCHANGED <<LoggedInUser, page>>
    /\ Handle(d, a)

\* null is no JSON array, and information! fails: the app is started again, with
\* a number for its first page that no page had before.
Crash(d, a) ==
    /\ a.info = "null"
    /\ page[d].number < MaxPages
    /\ LoggedInUser' = [LoggedInUser EXCEPT ![d] = NULL]
    /\ page' = [page EXCEPT ![d] = NewPage("Login", @.number + 1, @.number + 1)]
    /\ answers' = [answers EXCEPT ![d] = EmptyBag]
    /\ UNCHANGED <<User, requests, clicks, typed, overlap>>

LoseAnswer(d, a) ==
    /\ UNCHANGED <<LoggedInUser, page>>
    /\ Handle(d, a)

-----------------------------------------------------------------------------

Clicks(d) == \E user \in userInfo : LoginButtonClick(d, user) \/ Register_Click(d, user)

Moves(d) == \/ \E kind \in {"Login", "Register", "Guest", "main"} : Go(d, kind)
            \/ CloseAlert(d)
            \/ OpenProfile(d)
            \/ Logout(d)

Server(d) == \E r \in BagToSet(requests[d]) : \/ verify_password(d, r)
                                              \/ SelectUser(d, r)
                                              \/ InsertUser(d, r)
                                              \/ Fail(d, r)
                                              \/ LoseRequest(d, r)

MainQueue(d) == \E a \in BagToSet(answers[d]) : \/ LogIn(d, a)
                                                \/ Refuse(d, a)
                                                \/ Ignore(d, a)
                                                \/ Crash(d, a)
                                                \/ LoseAnswer(d, a)

Next == \E d \in Devices : Clicks(d) \/ Moves(d) \/ Server(d) \/ MainQueue(d)

Spec == Init /\ [][Next]_vars

-----------------------------------------------------------------------------
(* Properties *)

\* TypeOK: the table, the pages, the requests and the answers keep their types.
TypeOK ==
    /\ User \in Seq(Row)
    /\ LoggedInUser \in [Devices -> Names \union {NULL}]
    /\ page \in [Devices -> Page]
    /\ clicks \in 0..MaxClicks
    /\ typed \in [Devices -> SUBSET userInfo]
    /\ overlap \in [Devices -> BOOLEAN]
    /\ \A d \in Devices : /\ BagToSet(requests[d]) \subseteq Request
                          /\ BagToSet(answers[d]) \subseteq Answer

\* Whether a password of that account was sent from the device.
Knows(d, name) ==
    \E i \in RowsOf(name) : [username |-> name, password |-> User[i].password] \in typed[d]

\* KnowsPassword: whoever is logged in on a device, by whatever answer arrived
\* last, sent a password from this device that an account of that name has
\* (verify_password.java 75-93, LoginController.swift 146-149).
KnowsPassword ==
    \A d \in Devices : LoggedInUser[d] # NULL => Knows(d, LoggedInUser[d])

\* RegisteredOnce: a name has two accounts only if the registration of the second
\* looked for the name before the first was inserted (Register.java 71-87).
RegisteredOnce ==
    \A i, j \in DOMAIN User :
        i < j /\ User[i].username = User[j].username => User[j].seen < i

\* MainShowsUser: the main pages are never on top without a user, and as long as
\* each click waits for the answer to the last, the name on the profile page is
\* that of the user for whom the app sends its requests (ProfileController.swift
\* 31, 46-51).
MainShowsUser ==
    \A d \in Devices : page[d].kind = "main" =>
        /\ LoggedInUser[d] # NULL
        /\ ~overlap[d] => page[d].Name \in {NULL, LoggedInUser[d]}

\* A row without what only the history needs.
CredentialsOf(row) == [username |-> row.username, password |-> row.password]

Abstract == INSTANCE Sessions WITH
                Nobody   <- NULL,
                accounts <- {CredentialsOf(User[i]) : i \in DOMAIN User},
                entered  <- typed,
                user     <- LoggedInUser

\* ImplementsSessions: with requests and answers that overlap, get lost or arrive
\* on a page of somebody else, alerts, crashes and failing statements, accounts
\* and logins do what Sessions promises: no account changes or goes, and nobody
\* becomes the user of a device but by a name and password entered on it
\* (Register.java 71-99, verify_password.java 75-93, LoginController.swift 140-155).
ImplementsSessions == Abstract!Spec

=============================================================================
