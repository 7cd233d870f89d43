# We.Travel: a TLA+ verification project

We.Travel is an iOS app (`src/Frontend/Test`, Swift) for planning trips with
friends, and a server (`src/Backend/src`, Java servlets in Tomcat over one MySQL
database). The app keeps no copy of anything: every page asks the server over
HTTP and shows the answer. The server keeps nothing either: each request runs in
a Tomcat thread, opens its own MySQL connection in autocommit mode and sends one
statement after another. So all the state that lasts is in a few tables, and all
the behaviour that is hard is in how statements of different requests interleave,
in requests that stop half way, and in answers that reach the app late.

## Inventory

| Part | State | Operations | Interacts with |
|---|---|---|---|
| Trip servlets (`Backend/src/Trip`) | `User.pending_trip`, `current_trip`, `history_trip` (comma-separated trip numbers), `Trip`, `Restaurant` | NewTrip, NewTripWithRestaurants, deleteTrip, UpdateTripStatus; readers userCheck, GetPendingTripsInfo, GetHistoryTripsInfo | the rows of every traveller named in a request |
| Friend servlets (`Backend/src/Friend`) | `User.friend` (comma-separated user ids), `FriendRequest` | add_friend, confirm; readers PullFriendRequest, friendlist | the caller's row, and the receiver's page through `FriendRequest` |
| Chat servlets (`Backend/src/chat`) | `Chat` | send_chat, pull_chat | the chat pages of both users |
| Account servlets (`Backend/src/Account`) | `User.username`, `password`, `picture` | Register, verify_password, update_pic, pullProfilePic | every other servlet finds its rows by `username` |
| Yelp and restaurant servlets | none | YelpApiCall, YelpEventsCall, restaurantDB | an external service |
| Friend pages of the app | `RequestModel.RequestSet`, `FriendListing.FriendList`, the tables drawn from them | reload, scroll, open, accept, refuse, add | friend servlets |
| Chat page of the app | `chatMessages`, its timers, pulls under way | open, leave, send, pull, insert an answer | chat servlets |
| Trip pages and new-trip wizard of the app | `TripDataModel.currentTrips`, `TripData.shared`, `FriendsModel.shared`, `YelpDataModel.shared` | reload, choose place, dates, budget, restaurants, friends; send | trip servlets, friendlist, Yelp |
| Login and registration in the app | the global `LoggedInUser` | log in, register, log out | every request the app sends |
| Profile pictures | the file and the database entry of each user, in Firebase | choose, store, register the URL | `LoggedInUser` |

What is hard about each, and what makes it correct:

* **Trips.** An id is found with `SELECT MAX` after the `INSERT`; a column is
  read, edited and written back in two statements; a move between columns is two
  `UPDATE`s; the date is asked for again for every trip; `deleteTrip` writes a
  list in a form the other servlets do not expect. Correct means: history holds
  only what is over, no trip is listed twice or lost, a trip lists the
  restaurants in order, and a status update puts every trip where it belongs.
* **Friends.** Two tables say who is whose friend, and a request is spread over
  two servlets called by two users. Correct means: a request is never lost as
  long as it is unanswered, and an answered one makes the friendship mutual.
* **Chat.** Pulls overlap and overtake each other, and pages are left with pulls
  under way. Correct means: a page shows its conversation from the start, in
  order, and both users see the same one.
* **Accounts.** Registration is check-then-insert; answers to a login may arrive
  after another login. Correct means: one account per name.
* **Client lists and wizard.** Shared models are cleared when a reload starts and
  filled when its answer arrives, while rows, buttons and scrolling index them by
  position. Correct means: a row shows the entry its buttons act on, a list shows
  what was answered and misses none of it, and the request that is sent is what the
  review page showed.
* **Profile pictures.** A picture is stored first and registered later, for
  whoever is logged in then. Correct means: an entry points to its user's picture.

`PROJECT.json` lists every hazard at its line.

## The modules

| Module | What it models |
|---|---|
| `TripLists` | the text of a trip column: reading, appending, deleting an id |
| `Trips` | the four trip servlets that write, one action per SQL statement |
| `TripListing` | the three trip servlets that read, as functions of the tables of `Trips` |
| `MCTrips` | instances of `Trips` and `TripListing` for TLC |
| `TripsProofs`, `TripCreationProofs` | theorems about texts, `Trips` and `TripListing` |
| `Friends`, `MCFriends` | add_friend, confirm and PullFriendRequest, and the devices whose request pages call them |
| `Friendships` | abstract: what asking for a friendship and accepting it promise |
| `FriendsProofs` | theorems about `Friends`, the implementation of `Friendships` among them |
| `Chat`, `MCChat` | table Chat, its two servlets and the chat page |
| `ChatProofs` | theorems about `Chat` |
| `Accounts`, `MCAccounts` | registration and login: two servlets, the pages that call them, `LoggedInUser` |
| `Sessions` | abstract: what accounts and logins promise |
| `AccountsProofs` | theorems about `Accounts`, the implementation of `Sessions` among them |
| `TripPlanner`, `MCTripPlanner` | the pages that plan a trip, and the models they share |
| `TripPlannerProofs` | theorems about `TripPlanner` |
| `ListPages` | the pages that list trips, friends and requests, and the models behind them |
| `ProfilePictures` | choosing and storing pictures, on the device of `ListPages` |
| `MCListPages` | instances of both for TLC |
| `ListPagesProofs` | theorems about both |
| `DataLemmas` | facts about bags, lists and the least natural number that several proofs use |

The modules are stand-alone but for `Trips` over `TripLists`, `TripListing` over
`Trips`, `ProfilePictures` over `ListPages`, and `Accounts` and `Friends`, which
implement `Sessions` and `Friendships`. Where one part uses another, it sees what that promises: the
planner of the app sends a request and gets an answer, or none, and what the
server does meanwhile is `Trips`; the answers that `ListPages` shows are those
`Friends` and `TripListing` describe; every module but `Accounts` takes a login
as one step.

### Trips

`User[u][c]` is column `c` of the row of user `u`; `Trip` is the sequence of
inserted rows, so that the id of a row is its position, as MySQL's auto-increment
has it; `Restaurant` is the number of restaurant rows, of which only the ids
matter. `today` is the server's date in days. `job[t]` holds what thread `t` is
about to execute (`pc`) and the locals of its servlet under their own names.

A column is NULL or a text. A text is modelled as its numbers and whether its last
character is a comma, because that is all the servlets depend on: `split(",")`
gives the numbers of either form, and appending `"9,"` to `"4,7"` gives `"4,79,"`,
so `AddIds` joins the digits (`Glue`).

An arrival (`NewTrip`, `NewTripWithRestaurants`, `DeleteTrip`, `UpdateTripStatus`)
is the parsing of the request; the steps that follow are its statements:

| Actions | Code |
|---|---|
| `InsertRestaurant`, `MaxRestaurant` | the loop of NewTripWithRestaurants.java 153-178 |
| `InsertTrip`, `MaxTrip` | NewTrip.java 77-102, NewTripWithRestaurants.java 183-208 |
| `SelectUser`, `UpdateUser` | the loop over `usernamesToAdd` and the owner, NewTrip.java 103-153 |
| `SelectTrips`, `UpdateTrips` | deleteTrip.java 74-118 |
| `SelectSource` ... `UpdateTarget` | the three blocks of UpdateTripStatus.java 64-273, told apart by `job[t].phase` |
| `Fail` | the SQLException of any statement, or a crash: the request ends and keeps what it wrote |
| `Tick` | midnight |

The names, places and prices of trips and restaurants are left out: nothing that
is modelled depends on them. The dates of a trip's listed rows are read in one
step, because rows of `Trip` are never changed or deleted; the comparison with
the current date is one step per trip, as the code asks for the date again each
time. `own`, `start`, `TripRow.to` and `failed` are history variables: no guard
and no other variable depends on them.

`TripListing` has no state of its own: a reading servlet changes nothing, and
since rows of `Trip` and `Restaurant` never change or go, the statements after the
one that reads the column find at least what was there. An answer holds `NULL`
where a number has no trip, or no restaurant, and also for the restaurants of a trip
that was created without any, whose column is NULL. `Complete` tells the two apart:
if the row of a trip lists restaurants, the answer must hold exactly those, in
order. The app rejects an answer with a
null instead of a trip (`Lose` in `ListPages`), and its page of restaurants ends
the app at a null among restaurants (FoodListTableViewController.swift 43).

### Friends

`friend[u]` is the friend list of `u` (NULL is the empty list: the servlets treat
them alike and never write an empty text). `FriendRequest` is the table, a bag of
rows, because nothing in add_friend keeps a row from being stored twice; confirm
deletes every copy of its row (`Without`). `job[t]` is as in `Trips`. A name that
nobody has registered can be typed; it ends add_friend at its first statement.

The pages are those of a device, not of a user. A device has one `RequestSet`,
whoever is logged in, and the rows drawn on its current request page (`cells`):

| Actions | Code |
|---|---|
| `OpenRequests`, `Reappear` | a load (`GetAllRequest`) empties `RequestSet` and asks for the requests to `LoggedInUser`, with a new controller or again on the one that is there (RequestModel.swift 33-51) |
| `PullFriendRequest` | the servlet reads the requests to that user, in any order (no `ORDER BY`) |
| `Arrive` | every answer is appended, that of an overlapping load or an earlier login too (RequestModel.swift 50-83), and drawn if its controller is still there |
| `Scroll` | a cell shows its position of the model again |
| `AcceptRequest`, `Refuse` | a button removes its row from the model and the table (`ButtonTapped`), and Accept sends confirm for whoever is logged in by then (FriendRequestCell.swift 97); model and table of different lengths end the app |
| `Login`, `Logout`, `Restart` | the model and the loads outlive a logout, not the app |

So a sender may be listed twice, and on a device of two users a late answer may put
the requests to one of them on the page of the other. Who accepts one of those gets
a friend who has asked somebody else, who need not list the new friend, and a request
to whom need not exist. The code does this without a failure or two requests of one
user at a time, and nothing here excludes it: `astray` remembers whom it happened
to, and `OneSidedPending` and `ConfirmedBothWays` say that it is the only way to a
one-sided friendship. The rows of the model carry the user they were answered to,
which the app does not keep; only `astray` and the properties read it. How an
answer is appended row by row, while the user taps, is in `ListPages`; here it is
one step, because a tap that finds too few rows ends the app there.

`Overlap` says whether a user may have two requests under way. Each servlet
writes only the row of its caller, so the properties of the friend lists hold
when a user waits for one answer before the next request. The app does not make
the user wait: two quick requests of one user can overwrite each other, and then
a friend is lost, a request without its list entry is stored, or a request is
stored twice. Nothing hides this: with `Overlap = TRUE`, `FriendsGrow`,
`RequestsListed` and `RequestedOnce` fail, and the theorems name
`Overlap = FALSE` as their assumption.

confirm appends without looking, so that two users who add each other, or a row that
is listed and accepted twice, store a friend twice. No property forbids it.

`Friendships` is what the two servlets promise together: asking and accepting
happen at one moment each, a pair that has asked stays until it is accepted, and
only a failure loses it. Under the mapping of `Friends` a pair is `asked` while its
row is stored, while a thread is between the `UPDATE` of add_friend and its
`INSERT`, or anywhere in confirm, and `accepted` in confirm. `Ask` is the `UPDATE` of
add_friend, `Accept(r, s, v)` the tap of `r` on a row that `s` sent to `v` (who is
`r`, unless it strayed), `Confirm` the `UPDATE` of confirm. The other statements, the
loads, their answers and the logins change nothing that `Friendships` sees.

### Chat

`table` is table Chat in the order of insertion. pull_chat has no `ORDER BY`; that
its rows come in that order is an assumption about MySQL (rows are never changed
or deleted, and the table is read by its key). `sends` and `pulls[u]` are bags of
requests under way: any of them may be handled next, or get lost. A pull is
answered with the rows of the conversation at one moment; since rows are only
appended, their number at that moment (`read`) stands for the answer. `Deliver`
is the closure on the main queue: it inserts every row of the answer into the
controller that sent the pull, and does nothing visible if that page was left.
`InsertMessage` tells bubbles apart by date (in minutes) and text only, as the
code does: two equal messages within a minute share one bubble, and
`ShowsConversation` says exactly that.

One user stays logged in on each device. Timers are never invalidated: each
appearance of a page adds one, and the controller of a page that was left goes on
pulling for bubbles that nobody sees. The model has no such pulls, and no number of
timers: an open page may pull at any time, so that more timers add no behaviour.
Answers to pulls that a page sent before it was left are in the model.

### Accounts

`User` is the table again, here with names and passwords; `requests[d]` and
`answers[d]` are bags of what is under way for device `d`. `Register` is two
steps (`SelectUser`, `InsertUser`), `verify_password` one: it has one query, and
the loop over its rows keeps the last password. `Fail` is an SQLException:
verify_password then answers `null`, Register nothing. The closures of
LoginController.swift 139-181 and RegisterController.swift 106-128 run on the
main queue at any later time: `LogIn`, `Refuse`, `Ignore`, `Crash`.

Pages are numbered in the order they are shown. The storyboard's "show" segues,
alerts and `present()` put a page on top and nothing ever takes one away, and UIKit
ignores `present()` on a page that has another on top. Hence `OnTop`: a late
success sets `LoggedInUser` but shows nothing. `Crash` is the forced unwrapping
of an answer that is no JSON array; the app starts again with a new first page,
and answers for earlier pages find nobody. `typed`, `overlap` and `seen` are
history. Blank fields and differing passwords are refused on the page and have no
action. A profile page is modelled by the name it shows.

`Sessions` is what is left when servlets, answers and pages are taken away:
credentials are entered on a device, registered, and used to log in on a device
where they were entered. Under the mapping in `Accounts` (`Abstract`), a click
enters, `InsertUser` registers, `LogIn` begins a session, `Logout` and `Crash` end
one, and everything else is a stutter.

### TripPlanner

`page` is the page on the screen with what it shows, `data`, `myFriends` and
`yelpDataArr` are `TripData.shared`, `FriendsModel.shared` and
`YelpDataModel.shared`; `loads`, `searches` and `sends` are the requests under way.
`trips` numbers the trips begun, so that an answer can tell the page that asked
for it from the same page of a later trip: `SearchAnswer` and `LoadAnswer` always
change the shared model, but reload only the table of the page that asked.

| Actions | Code |
|---|---|
| `BeginTrip`, `EditName`, `DropPin`, `LeaveDestination` | DestinationViewController.swift, MapViewController.swift 88-115 |
| `LeaveBudget` | BudgetViewController.swift 27-49; a text that is no number ends the app |
| `StartValueChanged`, `EndValueChanged`, `LeaveDate` | DateViewController.swift 45-86; days stand for the instants of the pickers: the code also refuses an end earlier on the day of the beginning, which only leaves fewer behaviours |
| `Search`, `SearchAnswer`, `SearchFindsNothing`, `AddRestaurant` | RestaurantTableViewController.swift 86-123, YelpDataModel.swift, ActivityTableViewCell.swift |
| `LeaveRestaurants`, `Reappear`, `LoadAnswer`, `Invite` | ChooseFriendsTableViewController.swift 24-41, FriendsModel.swift, FriendTableViewCell.swift |
| `LeaveFriends`, `Send`, `SendAnswer`, `Cancel` | ReveiwTripViewController.swift, TripDataModel.swift 118-144 |
| `Login`, `Logout`, `PopToRoot`, `Crash` | the ways out of a page |

The value of the budget, the map, layout and the parsing of Yelp's answers are
left out.

### ListPages and ProfilePictures

`model[k]` is the list that all controllers share (`currentTrips`, `FriendList`,
`RequestSet`), `table[k]` the rows drawn on the current controller of that list:
cells keep what they showed when they were drawn, while a tap, a deletion or a
cell that is scrolled back looks the model up by position. `controller[k]` is that
controller, `top` the page on top of each tab, `loads` the requests under way.

The completion handlers of `URLSession.shared` run one at a time, on a queue of
their own. LoadFriend and GetAllRequest append in that queue and only call back on
the main queue, so that the user's steps come between two items (`Answer`,
`AppendNext`, `Callback`); an answer of userCheck replaces the model on the main
queue in one step (`AnswerTrips`). Swift gives the unsynchronised array no more
meaning than this interleaving; torn arrays are left out.

| Actions | Code |
|---|---|
| `viewWillAppear`, in `Login`, `FinishWizard`, `OpenTab`, `OpenRequests`, `Back` | the three `viewWillAppear`; Main.storyboard 566-593, 661-672, 818-830 |
| `Answer`, `AppendNext`, `Callback` | FriendModel.swift 51-77, RequestModel.swift 50-83 |
| `AnswerTrips`, `Lose` | TripListTableViewController.swift 32-44, TripDataModel.swift 82-110 |
| `Open`, `Scroll` | `prepare`, `cellForRowAt` of the lists |
| `ButtonTapped` | Friend_Request_PageController.swift 14-27, FriendRequestCell.swift 137-149 |
| `TouchCrash`, `AnswerCrash` | an index out of range, `deleteSections` with a wrong count, RequestModel.swift 61 |

A page that has not been drawn since its reload began shows the old rows or none:
UIKit draws them with the next layout, and both are modelled. `Answers` is what
the server may say about each list of each user, so that a user's list may differ
from one load to the next. `watch` is history.

`ProfilePictures` adds the upload. `didSelect` names the file for `LoggedInUser`;
`registerimage`, at any later time, writes the entry of `LoggedInUser` as it is by
then, which may be somebody else or nobody: with an empty name, the node above
all entries. A picker that is cancelled ends the app (`image!` is nil).

## The runs

| Run | Question | Bounds |
|---|---|---|
| `trips_concurrent` | What holds whatever overlaps and fails? `HistoryOnlyPast`, `RestaurantsInOrder`, `AttachesNoOlderTrip` | 2 users, 2 threads, 3 requests of any kind, 2 restaurants a trip, 1 midnight |
| `trips_nodelete` | Do listings find all they look up, but for deleteTrip, and does a creation then list its trip? `ListingsComplete`, `AddsTrip` | as above, without deleteTrip; a trip has up to 2 restaurants |
| `trips_serial` | Do the servlets do their work when nothing overlaps? `TripsKept`, `ListedAtMostOnce`, `StatusSettled`, `HistoryGrows` | 1 thread, 4 requests, 2 users who share trips, 2 kinds of dates, 3 days |
| `trips_own` | Does a creation attach its own trip? No. | 2 threads, 2 creations |
| `trips_glue` | Does a creation list its trip when nothing overlaps? Not after deleteTrip. | 1 thread, 4 requests |
| `friends_serial` | Do friendships work out when each user waits for the answers? `RequestsListed`, `RequestedOnce`, `OneSidedPending`, `ConfirmedBothWays`, `FriendsGrow`, `ImplementsFriendships` | 3 users, two of whom share a device, 2 threads, 2 requests to add_friend and 2 loads of request pages whose answers come at any time or never, any number of logins, logouts and restarts, failures |
| `friends_resent` | Is a request sent whenever the user is told so? No. | 2 users on devices of their own, 1 thread, 2 requests to add_friend, 1 load, failures |
| `chat_pages` | What does a page show? `ShowsConversation`, `ViewsAgree`, `BubblesStay` | 2 users, 2 conversations, 2 messages of any of 2 texts, 2 minutes, 2 pages, 3 pulls under way for each user, losses |
| `chat_live` | Is every message shown, and by the next answer that brings it? `EveryMessageShown`, `AnswersShown` | 2 users, 2 messages, 2 pages, 2 minutes |
| `accounts_devices` | Who is logged in, and who has an account? `KnowsPassword`, `RegisteredOnce`, `MainShowsUser`, `ImplementsSessions` | 2 devices, 2 names, 2 passwords, 3 clicks, 4 pages on each device |
| `planner_trips` | Is what a page shows what its buttons do? `PlaceChosen`, `DatesInOrder`, `InvitesWhoIsShown`, `InvitedAreAdded`, `AddsWhatIsShown`, `SendsWhatIsReviewed` | 2 users on one device, 2 trips, 2 searches and 2 friend lists under way, 1 send, 1 restaurant and 1 friend chosen |
| `pages_device` | Do lists show what is behind them, and all of it? `ShowsModel`, `ShowsEverything`, `ListsOwnAnswer`, `OwnPicture` | 2 users on one device, 4 loads of any list, answers of up to 2 items, equal ones included, 1 upload |

Each run also checks the `TypeOK` of its module, `trips_concurrent` that of
`Trips`. Deadlock is not checked: the supply of requests, days and messages is bounded,
and an idle server is a state the system may stay in.

The bounds are small, and enough for what the runs ask. Two threads suffice for
every interference between a read and the write that depends on it, because a
third thread changes the tables no differently than the second does later. Three
requests reach a creation, and two more that race on its trip; four reach
deletion and re-creation, or two status updates with new trips in between. Two
restaurants are the fewest of which one can be missing or in the wrong place. Two
midnights take a trip from pending over current to history. Two messages are the
fewest that can be equal, reordered or split between two answers; with two texts and
two minutes, a page shows up to two bubbles, in an order that can be wrong, and two
messages of one text may share a bubble or not; three pulls let
two of a new page overtake one of an old page. Three users are the fewest for
which a row answered to one user of a device can be accepted by another, who is not
its sender; two loads overlap, or are those of two logins. Two requests to
add_friend are two senders, two users who add each other, or a retry after a
failure. In `accounts_devices`, three clicks are two
registrations that race and a login, or a registration on one device and two
logins on the other; four pages let one of those come after a logout. In
`planner_trips`, two trips and two users let answers find the page of another
trip or user, and two searches overtake each other; one choice of each kind is
enough, because the models are only appended to. `LabelRows` is 1 there instead
of 5 for the same reason: one row more than fits is all that differs. In
`pages_device`, four loads are a login, a page, and that page twice more under
answers of the first, or a second login with two loads of the first user under
way; two items are the fewest of which one row can be deleted or be missing; a
second upload would only register another entry, as the first does.

Fairness is assumed in `chat_live` only, weakly and for three things: the timers
of an open page repeat (NotificationViewController.swift 156, 175), Tomcat
answers pulls, and the main queue runs the closures handed to it. Nothing is
assumed of users, clocks or sends. Pulls are not lost in that run: of a network
that loses every answer nothing can be shown.

### What the code does not do

* `trips_own`: two creations that overlap both attach the trip inserted last.
  What still holds is `AttachesNoOlderTrip`; without overlap each attaches its own
  (theorem `AttachesOwn`).
* `trips_glue`: deleteTrip writes `"1"` where the others write `"1,"`; the next
  creation turns it into `"13,"`, and both trips are gone from the user's list.
  From then on the number may be that of another trip, or of none, and
  UpdateTripStatus fails for this user every time. `HistoryOnlyPast` holds
  nonetheless. Without deleteTrip a creation always lists its trip (`trips_nodelete`,
  theorem `TripAdded`).
* `friends_resent`: after a failure between two statements of add_friend, the
  friend is listed, no request exists, and every retry is answered "Friend
  Request Sent!". With one thread, no failure, and one user on each device the
  answer is true (theorem `SentIsSent`).

What the code does not promise, and no run claims:

* Two registrations of a name that overlap make two accounts, and from then on
  verify_password accepts the password of the later row only. (A unique key in
  the database would turn the second `INSERT` into an SQLException. The schema is
  not in the repository; `Fail` covers that outcome.)
* A login answer that arrives late changes `LoggedInUser` under the pages of
  another user, or after a logout; `MainShowsUser` needs clicks that wait.
* Every appearance of the friend page appends all friends again, so that
  `usernamesToAdd` holds duplicates, and friends of an earlier user of the device;
  all of them get the trip, invited or not. `InvitedAreAdded` is the half that
  holds.
* `TripData.shared` is never reset: a new trip starts with the last one's
  restaurants and guests. The name stored is the one before the last edit.
* Two reloads of the friend page or the request page that overlap list everything
  twice, because both empty the list before either answer is appended; on a device
  of two users, the answers may be those of different users. `ListsOwnAnswer` needs
  loads that do not overlap, and then an answer of friendlist may still name a
  friend twice, since confirm stores one twice. A tap while a list is empty or
  half filled ends the app, and `ButtonTapped` during a reload may take another
  request's row away. An older answer about trips replaces the list behind rows
  drawn from a newer one.
* A request that was answered to an earlier user of the device, and accepted by a
  later one, makes a friendship with somebody who never asked for it
  (`astray` in `Friends`). If the later user then adds that sender, the app says
  "Friend Request Sent!" and nothing is sent.
* confirm stores a friend twice when two users have added each other.
* A picture whose upload outlasts a logout and another login is registered for
  the other user.
* A second press of Send, before the answer or after a lost one, sends the trip
  again.
* A search that finds nothing ends the app (YelpDataModel.swift 76).

## The proofs

`TripsProofs` proves, for any users, threads, dates, and bounds, whatever
requests overlap or fail:

* `TypeCorrect`: `Spec => []TypeOK`;
* `HistoryCorrect`: `Spec => []HistoryOnlyPast`.

The invariant `TypeInv` adds to `TypeOK` what the program counters say of the
locals (`StepsOK`: a thread that classifies has a trip left to classify, one that
rewrites a column for deleteTrip has found the trip in it): without it the texts
written need not be texts. `HistoryInv` adds to `HistoryOnlyPast` that what a
thread in the third block is going to write is past already (`LocalsPast`): the
trips it decided to move, and the history text it has read. It is inductive
because trips never change and days only pass; the digits that `AddIds` may join
cannot get into a history text, because every text a thread reads from or writes
to history_trip ends with a comma. `TripsProofs` begins with the lemmas about texts
these proofs rest on.

Two more theorems assume that requests come one after another (`Alone`: at most
one thread), as in their run: of two that overlap, each may write back a text it
read before the other's `UPDATE`:

* `HistoryIsAppended`: `Spec => HistoryGrows`. What the third block has read of
  history_trip is still there when it writes (`ReadIsFresh`), and `AddIds`
  extends what it is given (`AddIdsExtends`).
* `StatusIsSettled`: `Spec => StatusSettled`. `StatusInv` follows the three
  blocks: each leaves a column settled for the rest of the request, and what it
  holds to move is settled where it will go, as long as the date has not changed
  since the request began. It holds with deleteTrip too, since no deletion leaves
  pending_trip open and every block reads its column again.

`TripCreationProofs` proves, for any threads, whatever overlaps or fails:

* `RestaurantsCorrect`: `Spec => []RestaurantsInOrder`;
* `AttachesCorrect`: `Spec => []AttachesNoOlderTrip`.

`CreationInv` says of the rows of Trip what `RestaurantsInOrder` says, and of a
thread's locals (`Found`) what becomes of them there: the restaurant ids found so
far are in order, all of them are below the maximum about to be read once the
thread has inserted again, and the trip it inserted is not above the maximum of
Trip. None of it can be lost to another thread, since both tables only grow
(`FoundStable`).

When requests come one after another (`Alone`):

* `AttachesOwn`: `Spec => []AttachesOwnTrip`.

`OwnInv` says that the trip a thread inserted is the last row of Trip from its
`SELECT MAX` to its last `UPDATE`; `trips_own` shows
that two threads are enough to break it.

For one thread, and no deleteTrip among the requests (as in `trips_serial`):

* `NoneTwice`: `Spec => []ListedAtMostOnce`;
* `NoneLost`: `Spec => []TripsKept`.

`KeptInv` keeps the books of every user and trip: how often the columns list the
trip, plus what the request under way still owes (the named users it has not
updated yet, the trips it took from one column and has not added to the other), is
how often the creation named the user; it is less only after a failure (`Balance`).
`Count`, the number of places where a sequence holds an id, is a cardinality, so
that the lemmas on finite sets of the library apply. Texts stay closed without
deleteTrip, so that `AddIds` joins no digits.

And for any threads, without deleteTrip:

* `NoneMissing`: `Spec => []ListingsComplete`;
* `TripAdded`: `Spec => AddsTrip`.

`ListedInv` says that no text is open and that every number in a column, or held by
a thread, is that of an existing trip; with `CreationInv` for the restaurants, a
listing finds every trip, and every restaurant that the trip's row lists, in order. The text a creation extends is held by its thread and
is closed too, so that what it writes lists the new number (`AddsStep`).

The proofs use the assumptions the modules state about their constants
(`NullAssumption`, `RequestAssumption`, `BoundAssumption`, `AnswerAssumption`),
which TLC evaluates in every run.

`AccountsProofs` proves, for any devices, names, passwords and bounds:

* `TypeCorrect`: `Spec => []TypeOK`;
* `KnowsCorrect`: `Spec => []KnowsPassword`;
* `OnceCorrect`: `Spec => []RegisteredOnce`.

Lemmas `UserStep`, `TypedGrows`, `RequestStep`, `AnswerStep` and `LoggedInStep` say
what one step can do to each variable, whatever action it is; the invariants are
then proved from these five facts. `KnowsInv` adds to `KnowsPassword` that each
welcome under way is for a name whose password the device sent (`AnswersKnown`),
and each request for one it typed (`RequestsTyped`): both last, since accounts and
typed passwords are never removed. `OnceInv` adds that what a thread found with
its `SELECT` is still true of those rows when it inserts (`InsertsChecked`), and
stays true of the row (`RowsChecked`): the rows it saw never change.

`MainInv`, which proves `MainShowsUser`, adds that a device whose clicks wait has at
most one request or answer under way (`OneUnderWay`), and none once it shows the main
pages, so that no late answer is left that could change the user there.

* `MainShown`: `Spec => []MainShowsUser`;
* `RefinesSessions`: `Spec => ImplementsSessions`.

The refinement step needs `KnowsInv`: that a welcome lets in only the owner of an
account is what `KnowsPassword` rests on. `InitAbstract` and `NextAbstract` map
the initial states and every step, to a step of `Sessions` or to a stutter.

`FriendsProofs` proves type correctness whatever overlaps, and, assuming
`Overlap = FALSE`, for any users, threads, requests and failures:

* `RequestsAreListed`, `RequestsAreStoredOnce`, `OneSidedIsPending`:
  `RequestsListed`, `RequestedOnce`, `OneSidedPending` always hold;
* `ConfirmingGoesBothWays`, `FriendListsGrow`: `Spec => ConfirmedBothWays` and
  `Spec => FriendsGrow`;
* `RefinesFriendships`: `Spec => ImplementsFriendships`;
* `SentIsSent`: `Spec => SentMeansSent`, for one thread, no failing statement and one
  user on each device.

And whatever overlaps:

* `NothingGoesAstray`: `Spec => [](astray = {})`, for one user on each device
  (`OwnDevices`). So what `OneSidedPending` and `ConfirmedBothWays` except takes two
  users on one device.

Everything rests on two parts of `Inv`: no two threads work for one user
(`Apart`), hence the list a thread has read is still the list it extends
(`ReadFresh`). `StepsListed` says what a thread at each statement already knows
of the lists and the request, `Unsent` that a request about to be inserted is not
there, and `Settled` carries `OneSidedPending` through the statements between
which it is not visible in the tables.

`RequestsListed` speaks of every row, on its way to a device, in its model or on its
page: `Rows` grows only by what `PullFriendRequest` reads from the table
(`PullType`); loads, arrivals, scrolling and taps, on whichever device and in
whatever order, at most lose rows (`FewerRows`). Hence confirm, in `StepsListed`,
answers a user who lists its caller or one whose row strayed. `OwnRows`, for
`NothingGoesAstray`, says that what is on its way to a device, or on it, was
answered to the one user of that device.

The refinement needs more (`RefInv`): `UPDATE` of add_friend is only reached when the
friend is not listed, and from it to the `INSERT` the pair is neither stored, nor a
row anywhere, nor, unless it strayed, being answered (`FirstAsked`), so that the pair
starts to wait at the `UPDATE`; past its `DELETE`, confirm finds no row of its pair
(`Deleted`), so that the pair waits no longer after the last `UPDATE`. A row that is
shown twice and accepted again makes its pair wait again, which `Accept` of
`Friendships` allows. `StatementsQuiet` covers the statements that map to a stutter,
`EndStep` a thread that ends, by its last statement or by a failure.

`TripPlannerProofs` proves all seven properties of `planner_trips`, for any users,
names, places, friends, restaurants and bounds (`TypeCorrect`, `RowsInvite`,
`TripsHaveAPlace`, `TripsEndInOrder`, `InvitedFriendsAdded`, `ReviewedIsSent`,
`ShownIsAdded`). Steps fall into those that leave the planner, stay on a page or
go on to the next; `PageInv` says who is logged in on which page, `DatesInv` that
the pickers show the dates of the trip, `SentInv` that a trip is only sent from
its own review page. `TripsEndInOrder` proves both halves of `DatesInOrder`, that of
the pages after the dates and that of what they have sent.

`ListPagesProofs` proves, for any users, items, answers, loads and uploads:

* `TypeCorrect`: `DeviceSpec => []TypeOK`;
* `RowsShowModel`: `DeviceSpec => []ShowsModel`;
* `RowsShowEverything`: `DeviceSpec => []ShowsEverything`;
* `RowsAreOwn`: `DeviceSpec => []ListsOwnAnswer`;
* `PicturesAreOwn`: `DeviceSpec => []OwnPicture`.

`Numbered` says that loads under way have different numbers, none above the last;
`Awaited` that a list whose last load is not answered has that load under way or
lost; `AllThere` that what the last answer holds is in the model or still to be
appended, even if older answers are appended in between. `OwnInv` says that a
list whose load found no other under way is empty until its answer arrives, and
then, with what is still to be appended, a part of that answer in its order
(`Shares`), which nothing but a tap makes smaller (`SharesFewer`). Nothing is assumed
of the answers: an item may be in one several times. `PictureInv` says of the
uploads under way what `OwnPicture` says of the entries.

`ChatProofs` proves, for any users, friends, texts and bounds, whatever requests
overlap, overtake each other or get lost:

* `TypeCorrect`: `Spec => []TypeOK`;
* `PagesShowConversation`: `Spec => []ShowsConversation`;
* `PagesAgree`: `Spec => []ViewsAgree`;
* `BubblesAreStable`: `Spec => BubblesStay`;
* `AnswersAreShown`: `Spec => AnswersShown`.

`IInv` says that an open page lists the bubbles of the first n rows of table, for
some n (`PagesOK`), and that a pull under way is answered with no more rows than
there are and, if its page is still open, asks for the conversation that page
shows (`PullsOK`; pages are numbered, so that an answer for a page that was left
finds no page of its number open). Then an answer with
m rows takes a page from n to the larger of both (`ShowRowsLists`): the rows up to
n find their bubble or that of an older row with the same minute and text, the
others are appended. That is also why bubbles stay, and, as the oldest row of a
minute and text is the same one for both users, why pages agree (`ListsAgree`), and
why each of the m rows has a bubble afterwards (`ListedHasBubble`).
`ShowRows` is a recursive function; that it satisfies its equation
(`ShowRowsPages`) is proved by a least counterexample, because the library's
theorems about recursion take an operator as parameter.

`DataLemmas` states what adding to and removing from a bag does to its elements,
for the bags of requests and answers that `Chat`, `Friends`, `Accounts` and
`TripPlanner` keep, what joining two sequences and removing a row does to a list of
rows, for the pages of `Friends` and `ListPages`, and that a set of natural numbers
has a least one.

### Only model-checked

Liveness (`EveryMessageShown`) and enabledness are out of reach of the provers
installed here. What `EveryMessageShown` says of the data is proved: an answer that
reaches its page leaves no row it brought without a bubble (`AnswersAreShown`), and
a bubble never goes away (`BubblesAreStable`); that such an answer comes is what TLC
checks. The three properties that are violated are counterexamples of TLC; the
theorems `AttachesOwn`, `TripAdded` and `SentIsSent` say when they do hold.

## What could come next

1. The answer of friendlist as a function of the tables of `Friends`, as
   `TripListing` is of `Trips`, and `ListPages` over both instead of over `Answers`.
2. An abstract board of trips, in which a user's trips are a bag with a place for
   each by date, implemented by `Trips` when requests come one after another.
3. Guest mode, which shares the search model with the wizard.

## Not modelled

* The Yelp and restaurant servlets, and update_pic and pullProfilePic, forward one
  call or run one statement and keep no state; no page calls the picture servlets.
* Guest mode repeats the search of the wizard without a server.
* `FriendsController` shows fixed sample data; the pages of one trip, one friend
  and one restaurant show what they were opened with. The rest of the app is
  layout.
* `Frontend/Pods` and `Backend/target` are third-party and generated code. All
  C, C++ and Objective-C of the repository is there (Firebase, gRPC, leveldb,
  nanopb, Protobuf, SDWebImage); the program itself is the Java and Swift the
  modules above translate, so that none of their definitions stands for a C file.
* What the tables' schema adds (column types, keys) is not in the repository; ids
  are taken to be auto-incremented from 1, and a username to name one row.
