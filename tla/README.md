# Count-to-Infinity: models, checks and proofs

Count-to-Infinity is a chat system: a C++ server (`src/server.cpp`) over one
SQLite file (`main.db`), a terminal client (`src/client.cpp`), an Android
application and a web page behind a WebSocket proxy. This directory holds TLA+
modules translated from that code, the TLC configurations that model-check
them, and TLAPS proofs about them.

## 1. The system

| Part | State | Operations | Talks to |
|---|---|---|---|
| `main` | listening socket, one thread per connection | `accept`, start `read_thread` | the connections |
| `read_thread` (one per connection) | a 255-byte buffer | read, cut at `#`, split, push on the queue; push `closed` at end of stream | the queue |
| `lockless_queue` | `head_`, linked nodes | `produce` (compare-and-swap), `isEmpty`, `consume_all` (exchange) | readers, control thread |
| `control_thread` (one) | the batch it walks, `logged_in_sockets` | one handler per command; the only user of the database | the database, every socket |
| `users` table | name, password hash, `online`, `socket` | register, login, logout, closed | `get_username`, `get_socket` |
| `friends` table | rows (user1, user2, edge) | block, unblock, friend, accept, reject; read by message, getmessages, creategroup | |
| `chats`, `chats_users_xref`, `messages` | chats by id, members, texts | accept, creategroup, leavegroup, message, messagegroup, the two getters | `friends` |
| codec (`utils.cpp`) | none | escape and join, split and unescape | readers, clients |
| terminal client | `loggedin`, users, friends, requests, groups, conversations | commands typed; one case per reply | the server |
| Android application | a socket shared by a service and two threads, a local database | `NetworkService`, `UserLoginTask`, `Database` | an earlier server (`src/CountToInfinity/src/server.cpp`) |
| web chat page (`wsirc.html`, `wsirc.js`) | which form is shown, the login button | one login per click, replies, logout and reload | `websock.js` |
| `websock.js` | a send and a receive queue, the current WebSocket | open, close, send and flush, receive | the proxy |
| proxy (`websockify.js`) | one target connection per WebSocket | forward both ways, close one side when the other ends | an earlier server (`src/CountToInfinity/src/server.cpp`) |
| telnet page (`wstelnet.js`, `VT100.js`) | a screen, a buffer of keys, timers | keys, escape sequences | `websock.js` |
| widgets (`materialize.js`, loaded by the page) | flags, classes, timers and animations of each widget | clicks, keys, touches, methods | each other through the body of the page |

An edge is 0 (friends), 1 (user1 asked), 2 (user1 blocked), and -1, -2 for the
other side of the same. Each relation is two rows, one per direction, written by
two statements that commit separately.

### What is hard

* Every connection pushes while the control thread takes the whole list and
  deletes its nodes (`LocklessQueue`).
* A batch is handled newest first, so two requests of one connection may be
  handled in reverse (`Sessions`).
* The two directions of a pair are written by separate statements, the second
  chosen by a look at the first direction only; the process may die in between
  (`SocialGraph`).
* `online` and `socket` survive the process, the descriptors they name do not
  (`Sessions`).
* Messages that arrive together, split, or end early (`ReadThread`).
* A page reuses one `Websock` for one WebSocket after another: lengths, events
  and keys of the last one meet the next (`WebChat`, `Telnet`).
* Widgets answer events at once and finish with timers and animations, which
  meet whatever was done meanwhile (`Widgets`).
* Names of groups are not unique, and two lookups return an id that was never
  set (`Groups`).

The hazards in `PROJECT.json` give each of these its line.

### What makes each part correct

* Queue: each request is handled exactly once and at last; each node has one
  owner; nothing is read after it was freed.
* Sessions: a request is attributed to a user who gave the password on that
  connection; a user is found on a connection that is there; whoever is online
  is notified.
* Social graph: both directions agree; replies are true for both sides; blocks
  bind; friends have a chat.
* Groups: a message reaches the members of the chat it is stored in; a name keeps
  the history it has; nobody joins through a stranger or leaves through another.
* Reader: every message sent is handed over once and in order, and the end of
  the stream is noticed.
* Web client: the chat is that of the present connection; a login is answered and
  leaving is noticed; keys go out once and in order; text stands where it should.
* Widgets: what is shown, what is remembered and what the page was told agree
  whenever nothing moves, and what comes up goes away.
* Codec: splitting undoes joining.
* Client: its lists follow the replies; it survives every reply the server sends.

## 2. Modules

| Module | Models |
|---|---|
| `Friendship` | abstract: one relation per pair of users, changed on both sides at once |
| `SocialGraph` | `friends`, individual chats, the handlers of `control_thread` for block, unblock, friend, accept, reject, message, and registration, one step per SQL statement, with crashes |
| `SocialGraphProofs` | theorems about `SocialGraph` (section 4) |
| `RequestStack` | abstract: requests pushed, taken all at once, handled newest first, exactly once |
| `LocklessQueue` | `lockless_queue.cpp` and the consuming loop, one step per access to shared memory |
| `LocklessQueueProofs` | theorems about `LocklessQueue` |
| `Sessions` | `online`, `socket`, `logged_in_sockets`; login, logout, closed; clients that wait and that do not; restarts |
| `SessionsProofs` | theorems about `Sessions` |
| `Groups`, `GroupsProofs` | `chats`, `chats_users_xref`, `messages`: creategroup, messagegroup, leavegroup, the two histories, the groups listed after a login; theorems about them |
| `ReadThread` | framing: the thread of one connection against a client and a network that cuts the stream |
| `ReadThreadProofs` | theorems about `ReadThread` |
| `Induction` | induction over numbers and along concatenations, and division, for the proofs |
| `Websock` | `websock.js`: queues in front of one WebSocket after another |
| `WebChat` | chat page, proxy and the server's reading thread at the other end, with its death |
| `VT100`, `Telnet` | the terminal; the telnet page with its keys and timers |
| `WebClient` | one page of the three open at a time |
| `WebClientProofs` | theorems about `WebClient` and what it is made of |
| `PageEvents` | what widgets share: the scrolling of the body, the visitor's events |
| `Modals`, `SideNav`, `Materialbox` | dialogs, side menu, enlarged image |
| `Collapsible`, `Dropdown`, `Hints`, `Slider`, `Carousel` | accordion, menu, tooltip and toasts, slider, carousel |
| `Chips`, `FormSelect`, `Calendar`, `DatePicker` | chips with autocomplete, select, dates and the picker over them |
| `Widgets` | the widgets on one page |
| `WidgetsProofs` | theorems about `Widgets` |
| `MC...` | constants and bounds for TLC |

### SocialGraph

`friends[<<u, v>>]` is the sequence of edges of the rows (u, v): normally none
or one, more after a crash. `job` and `pc` are the handler being run and its next
statement; `Start` is the handler up to its first write (all its checks, and the
`exists` it computes once), `FirstRow` and `SecondRow` the two statements on
`friends`, `InsertChat` and `AddMember` those of `accept_friend_req` on the
chats, `Answer` the writes to the two sockets. `reply` keeps what the last handler
wrote, so that invariants can compare it with the table; `wanted` remembers who asked
for what a pair is or accepted it, for `FriendsBothWantIt`. Requests come from any
registered user about any name, registered or not; which connection speaks for
which user is the business of `Sessions`.

`ImplementsFriendship` is the refinement: while a handler runs, its pair is seen
from the side it writes first, so the abstract step happens at the first
statement, and the second and all later ones are stutters.

Left out: a name that breaks the SQL text (it makes `check_friend` return -2,
which is answered as for a block), the texts, and the delivery of replies to a
user who is offline (they go nowhere).

### LocklessQueue and RequestStack

Nodes are chunks of memory that `new` takes and `delete` gives back, and can be
used again. The compare-and-swap is one step that succeeds when the head still is
what the node's `next` says, and otherwise reloads it; a spurious failure changes
nothing. `control_thread` is a loop of five places: poll, take, handle, delete,
advance. The code reads `head->next` after `delete head`; `ReuseInWindow` says
whether the allocator may have given the chunk away by then. With FALSE the old
value is still there and the module implements `RequestStack`
(`ImplementsRequestStack`, with its fairness); with TRUE requests are lost
(`queue_use_after_free`). `Chain(n)` is the list one meets who follows `next` from
n: the one sequence of nodes whose links lead from each to the following and at
last to null (`IsList`). `Rest` is where the control thread will read on, so
`Remaining` is the rest of its batch.

### Sessions

A connection is named by its descriptor. Descriptors are never closed and so
count up; after a restart they begin again, while `online` and `socket` are what
the last process left. `pending` and `batch` are the queue as `RequestStack`
describes it. A patient client sends nothing while a request of its own is
unhandled; the terminal client is not patient. `proved` records on which
connection a user gave the password in this process, and `stale` whose row no
login or logout has touched since the restart; both serve properties only.

### Groups

A handler is one step. `friends` is the set of pairs with edge 0 that
`SocialGraph` keeps as two rows each; `Accept` here is the part of
`accept_friend_req` that makes the chat of the two. `GroupId` is the first row of
a name; where there is none, and always for `ChatId` (whose SQL has no space
before `where` and is never prepared), the variable returned was never set and
its value is any of `Unset`, at each call anew. A chat is inserted before the
roster is checked, so a refused group still takes the name. In a message, `to` and
`known` record what was written to and whether that was a group that existed; the
database does not keep them, they serve properties. `leavegroup` and
`getgroupmessages` check nothing, as in the code.

### ReadThread

One connection; the threads share only the queue. A byte is text, backslash or
hash and carries the number of its request for the properties. The client writes
requests (encoded as `vector2string` does), waits or not, and goes away between
two requests or inside one, or the connection is reset, which loses what had not
arrived; `read` returns any part of what is there, and after a reset fails once
(`FailedRead`: `error()` only prints, so the thread goes on with the buffer it has) and
returns 0 from then on. The thread
has four places: the read that begins a request (which overwrites what was left
of the buffer), the search for a hash that no backslash precedes, the read that
goes on with a request, and gone. The last read does not look for the end of the
stream: after a client that ends inside a request the thread spins. A hash at the
very beginning of the buffer makes the code look at the byte before it; that byte
belongs to the length of the string or of its memory block and is no backslash.

### Websock, WebChat and Telnet

A byte string is a sequence of tokens: a whole request or reply, a line end, or
`Zeros` where `init` put a new buffer under an old length (`websock.js:211` resets
the read index only). `sock.ready` is the state of every WebSocket the page made,
`sock.current` the one the `Websock` holds: the close event of any of them goes to
the same handler, which closes the current one. The page sends a login when it has
just opened a WebSocket, so it waits in the queue until `Opens`; `sendCmd` ends
every request with a line end. That ending is what `ServerReads` trips over: the
thread (`place = "more"`) is inside a request that never ends. `awkward` says which
replies contain an escaped colon, on which `string2vector` throws; `fresh` records
the connections opened over empty queues, for a property. The other buttons of
the page throw before they send (`splice` of a string), which submits the form and
loads the page anew: `Reload`. Two replies that have arrived together are one string
for `do_recv`; `Recognized` says which it acts on. The proxy's handlers are
`ClientMessage`, `ClientCloseEvent`, `TargetData` (whose `send` throws on a closed
client, so it ends the target) and `TargetEnd`.

`Telnet` and `WebChat` share `Websock`. The receive handler of the telnet page calls
`shift` of a typed array, which throws, so nothing it receives reaches its screen;
`VT100` is therefore checked with a program of its own that writes to it
(`page = "terminal"`): any mix of text, control characters and escape sequences,
a parameter of one digit. `vt.esc` is `esc_state_`; `Write` is one turn of the loop
of `write`. `timers` counts the timers of `go_getch_`, `keyBuf` the keys it takes;
`typed` remembers all keys, for `KeysGoOutInOrder`.

### Widgets

Each module is one plugin of `materialize.js`: its variables are the closure's
variables, the classes the code asks for and the elements it makes; every handler
and every `complete` of an animation is an action. An animation that was started is
a member of a set or a sequence until it ends; those that `velocity` or jQuery stops
vanish without their callback, where the code stops them. Positions and durations
are left out, except where order depends on them: animations of one duration end in
the order they began (`exits` of `Modals`).

The dialogs, the menu and the image share the overflow of the body and are used
together; all other widgets share nothing, so `used` picks the one that the visitor
uses and all its interleavings are still there. Some variables serve properties
only: `requested` (the item the carousel was last told to go to) and `missed` (why it
does not get there), `told` (what the page was told of a header), `stopped` (whether the
page paused the slider), `over` (the pointer), `alone` (whether an overlay of the menu
came to a page without one), `misread` (see below), `endless` (see below).

The carousel has three layouts: items of their own width, `fullWidth`, and that with a
padding. `CycleTo` records every request, also one that the code ignores because the
item is passing the centre; `missed` tells these, and the motions that a resizing or a
second call of the plugin stops, from those that arrive: `CarouselAgrees` says that no
others are missed.

`FormSelect` has options in optgroups (`Optgroup`), whose headers are entries of the
list as well: `IndexIn` is the place among the siblings that `index()` returns, `EntryOf`
that among the entries. `Added` takes the first for the place among all options and
for the second, as the code does when it adds the options that are selected at the
start; `misread` records where that makes a difference.

`Calendar` is the arithmetic of dates, over numbers: the months of a year begin at
`MonthFirsts`, all years are alike and there is no first or last one, and a week has
`Week` days. A limit is a day or `NoLimit`, the infinity that no date meets. `Searched`
is where the loop of `validate` stands after `MaxShifts` rounds, and `SearchEnds` whether
it has ended by then; a search that has not is one for ever (see Bounds), and as it runs
in a handler nothing happens on the page any more (`endless`). `DatePicker` has the
cascade of `set`: a selection sets the highlight, the highlight the view, and a new
limit or disabled day sets both anew. What the picker shows is in `InputsAgree`; that
the date it holds may be selected, and that the searches end as long as both limits are
set, is `DateIsSelectable`. Without limits the model, like the code, reaches searches
that do not end.

## 3. Runs

| Run | Instance | Shows |
|---|---|---|
| `social_graph` | 3 users in a row, 2 chats, no crash | type, `EdgesMirror`, `RepliesTellTheTruth`, `FriendsShareAChat`, `FriendsBothWantIt`, and the refinement of `Friendship` |
| `social_crash` | 2 users, also about oneself, 2 crashes, 1 chat | what holds over half-written pairs: the one who asks is told the truth about the own direction, and a refusal or an unblock leaves no row of either direction behind |
| `social_block_lifted` | 2 users, no crash | violation: the blocked user's `reject` deletes the block |
| `queue` | 2 connections, 2 requests each, 3 chunks | one owner per chunk, the refinement of `RequestStack`, every request handled at last |
| `queue_use_after_free` | the same, chunk reused in the window | violation: requests are dropped |
| `sessions` | 2 users, 2 connections (1 patient), 3 requests each, 1 restart | table and sockets agree, and how far they do after a restart |
| `sessions_restart` | 1 restart | violation: a new connection speaks for a user of the last process |
| `groups` | 2 users, one name, 3 chats, 2 messages, unset ids 0 and 1 | who is in a chat, where a message is stored and to whom it goes, what is listed |
| `groups_history` | the same | violation: the chat with a friend shows what was written to others |
| `read_thread` | 3 requests of 4 kinds, reads of up to 4 bytes, a reset at any moment | requests of a patient client arrive whole, in order and (but for a reset) at last; what is taken from any client never mixes two; its end between two requests is reported |
| `web_client` | 2 WebSockets, 3 keys, a screen of 2 by 2, 7 characters of plain text | the chat shown is that of this connection; a login over empty queues is answered; leaving is noticed unless the line ends got in the way; keys go out once, in order, and are taken; plain text is laid out line by line |
| `widgets` | 4 events of a visitor; 2 dialogs, 2 headers, 1 toast, 3 slides, 3 items in 3 layouts, 3 texts, 3 options with and without an optgroup, years of 2 months | no overlay of a dialog or the image is left over the page, nor one of the menu that came alone; what a control shows, remembers and told agrees; what an input shows is what the page gets; a date that was chosen stays selectable, and a search between two limits ends; what comes up goes away |

### Bounds

Handlers touch one pair, so two users show every interleaving of requests about a
pair, and three in a row show pairs that share a user and a table of chats in
common. Two crashes are the fewest that double a row and then split the doubled
pair. In the queue, three chunks for four requests force reuse, and a batch of
three has a first, a middle and a last node. In `sessions`, two connections can
carry the same user, one connection two users, and three requests of one
connection are a login, a logout and another login. `MaxChats`, `MaxRequests` and
`MaxConns` bound the histories; the guards that use them are marked. In `groups`,
three chats are two groups of one name and a chat of friends, in every order, and
`Unset` holds an id of no chat and one that may be a chat's. In `read_thread`, a
request has three or four bytes on the wire, so a read of up to four holds part of
one, one, or one and part of the next, and a request may need four reads.

In `web_client` two WebSockets are one and its successor, which is what every hazard
of `websock.js` needs; three keys are one before, one while and one after a
connection closes. A 2 by 2 screen has a first and a last row and column, and seven
characters fill it and scroll it. In `widgets` four events open, close, open again
and touch something in between, with any number of animations ending or not
between any two; two of each kind (three where neighbours on both sides matter:
slides, items, options) show every relation between them. Two short months and a
week of three days have every edge of a calendar, and every set of disabled days
within four changes comes up, in pickers that begin with both limits or none.
`MaxShifts` is 24: a search between two limits takes no more than three rounds for
every day of a year of five (`CalendarAssumption` demands that many, and the proofs show
that they are enough); one without a limit meets, if any, an enabled day within a
week beyond the days the page names, so that one of 24 rounds goes on for ever. The visitor may stop, so deadlock is not checked.

### Fairness

`Sessions` and `RequestStack` assume weak fairness of the control thread only: it
polls without ever blocking. `LocklessQueue` adds weak fairness of a producer's
own steps (its thread is scheduled) and strong fairness of its compare-and-swap:
a producer retries without end, and the number of pushes that can come first is
limited by the connections there are. Nothing is assumed of clients.
`ReadThread` assumes weak fairness of its thread: it goes on while there is
something to read, an error or an end included; nothing is assumed of the client or
of the network, which may reset the connection or not. `SocialGraph` and `Groups` have
safety properties only and assume nothing. `WebClient` assumes weak fairness of the events of the browser, the
proxy and the server, one connection at a time, and of the timers; nothing of the
visitor, and nothing of the server's survival (`ServerDies` may happen).
`Widgets` assumes that timers fire, animations end and the one who touches lets go:
without the last a toast that is held stays, as it does when the browser cancels
the touch, for which `materialize.js` has no handler.

## 4. Proofs

Checked by TLAPS for any sets of users, connections, requests and words, and any
bounds.

### Social graph

The theorems on both directions of a pair assume `MaxCrashes = 0`: a crash between
two statements really breaks them. Those marked * hold for any number of crashes.
In `SocialGraphProofs`:

* `TypeCorrect`*: `Spec => []TypeOK`. The inductive invariant `TypeInv` adds that
  the statements that extend a chat run after one was inserted.
* `DirectionsAgree`: `Spec => []EdgesMirror`. `EdgesMirror` speaks of the moments
  between requests; the inductive invariant `MirrorInv` says what is true inside
  one: all pairs but the one being written agree (`OthersMirrored`); before the
  first statement `exists` is what `check_pair_edge` would say and an accepted pair
  has rows (`ReadyToWrite`); between the statements the first direction is as
  intended and the second is such that the statement to come makes it so
  (`HalfWritten`); afterwards both are as intended until the answer
  (`BothWritten`). The heart is `FirstRowMirror`: that both directions had a row or
  neither had is what makes one `exists` right for both.
* `FriendshipIsWantedByBoth`: `Spec => []FriendsBothWantIt`. `WantInv` says of every
  pair but the one being written that whose edge it is has asked, and that both sides of
  a friendship want it; of the pair being written it says so of what the request will
  make of it (`JobIsWanted`), because the two statements only carry out what was
  granted. As both directions agree (`MirrorInv`), an accept is granted only where the
  other one has asked and not taken it back. A block that the blocked user's `reject`
  lifts therefore leaves two users of whom one has to ask and the other to accept.
* `PermitInv`, for the refinement below: what a handler checked (`Permits`) is still so
  at its first statement and, for accept, in the second direction at the second.

Of what the handlers leave behind:

* `RepliesAreTrue`: `Spec => []RepliesTellTheTruth`. Beside `MirrorInv` it needs
  `KnownInv`: rows are of registered users (else `nfound` could be said over an
  edge) and the replies of one request are gone when the next starts to write.
  A reply true of its own direction is true of both by `MirroredOpposite`; the two
  replies of a handler say what `BothWritten` keeps.
* `FriendsCanTalk`: `Spec => []FriendsShareAChat`. `ChatInv` makes the claim at
  every moment, but for the pair whose acceptance is still being written; the
  statements that build a chat touch the newest one, which holds at most one
  user (`NewestChat`), so no chat of two others is lost (`SharedForEver`).
* `SendersKnowTheTruth`*: `Spec => []SenderIsToldTheTruth`, and `RemovalsRemove`*:
  `Spec => []RemovalRepairs`. After crashes rows may be doubled or missing, so
  `OwnInv` speaks of one direction at a time: `exists` is about the own direction
  (`ReadyToWrite`), the first statement makes that direction what was asked, also
  when it is many rows, and the second does not touch it (`OwnRowIsWritten`); what
  a removal has deleted so far is gone (`RowsAreDeleted`).

And of the abstract specification:

* `HandlersImplementFriendship`: `Spec => Abstract!Spec`. The abstract step is the
  first statement of a handler (`FirstRowBecomes`, with its guard from
  `FirstRowPermitted`); every other step is a stutter: the second statement writes
  the direction that is not looked at, and at the start and the answer, where the
  side looked at changes, both sides agree by `MirrorInv`.

### Sessions

In `SessionsProofs`, without further assumptions:

* `SessionTypes`: `Spec => []TypeOK`.
* `ImpersonationIsBounded`: `Spec => []OnlyCutOffUsersAreImpersonated`. `Accounted`
  is stronger than the property, which looks at connections in use only: every row
  with a socket was either written in this process, after the password was given on
  that connection, or is one no login or logout has touched since the restart.
* `ClosedConnectionsAreLeft`: `Spec => []NobodyIsOnAPatientClosedSocket`, and
  `OnlineUsersHear`: `Spec => []OnlineUsersAreNotified`, whose part on the two columns
  alone holds for all clients (`TableAgrees`). Both from `PatientInv`. A
  patient client has at most one request on its way (`OneAtATime`); whatever it is,
  it fits what the client and the table think of the session (`AllFit`): no
  `closed` is handled before a `login` it followed; and whoever is seated on such a
  connection is in the set of sockets (`AllSeated`).

### Queue

In `LocklessQueueProofs`. The proofs assume `ReuseInWindow = FALSE` (with TRUE the
claims are false: run `queue_use_after_free`) and that memory is finite
(`NodesAssumption`).

* `QueueTypes`: `Spec => []TypeOK`, and `NodesAreOwned`:
  `Spec => []EveryNodeHasOneOwner`. `QueueInv` says that the list from `head` and
  the rest of the batch end in null without meeting a node twice, that they and the
  nodes of the producers are disjoint and are all that is allocated (`OwnerInv`),
  and which request each node holds (`DataInv`). That a list is determined by its
  beginning (`ListUnique`) and that a write to a node outside a list leaves it as it
  is (`Untouched`) is what lets every producer prepare its node while others push
  and the control thread walks. A compare-and-swap that finds the head it read
  before may find it after the list was emptied and filled again: it is right all
  the same, because what it compares is the link it leaves in place.
* `QueueIsAStack`: `Spec => Abstract!Init /\ [][Abstract!Next]_(Abstract!vars)`.
  The push is the compare-and-swap that succeeds, the taking is the exchange, the
  handling is `Handle`; all other steps are stutters (`StackStep`).
* `NothingIsDroppedWithoutReuse`: `Spec => []NothingIsDropped`, which the run
  `queue_use_after_free` violates for TRUE. A request that was begun is on the list,
  in the batch or handled (`BegunIsKnown`), and the stack forgets none.

### Groups

In `GroupsProofs`, without further assumptions:

* `MembersConsent`: `Spec => MembershipIsConsented`. A step appends one chat,
  whose users are the two who became friends or a roster that passed the check
  (`AppendKeeps`), or takes the one who asks out of some chat (`LeaveKeeps`).
* `GroupsKeepTheirHistory`: `Spec => []HistoryOfAGroup`. `HistoryInv` says that
  every name in use has a first row, which stays the first (`FirstStays`), and
  that a message to a group that existed is stored there (`StoreStep`).
* `GroupTypes`, `GroupMessagesReachTheirChat`: the invariants `TypeOK` and
  `DeliveredWhereStored`. The first row of a name exists because a set of numbers has a
  least element (`NatLeast`).
* `ListedGroupsAreHers`: `Spec => []ListedGroupsAreOnesOwn`, for names given once or many
  times: after a login a user hears of the name of every group she is in and of no
  other, each with the users of the oldest chat of that name, among whom she need not be
  if there are several (`ListingIsRight`, from what the replies of the query are).

### Reading thread

In `ReadThreadProofs`, for words of any length over text, backslash and hash:

* `ReadThreadTypes`: `Spec => []TypeOK`.
* `RequestsStayApart`: `Spec => []RequestsAreNotMixed`. The stream is what is in the
  buffer, while a request is being read, and what is on its way. `MixInv` says that
  between any two bytes of different requests there is an unescaped hash
  (`Framed`), and that what a client has written so far ends in one (`Complete`),
  wherever the stream was cut and whatever was lost from its front
  (`FramedRest`) or, by a reset, from its end (`ResetCuts`); a failed read makes the
  thread search the same bytes again, which are still framed. `SearchInv` says that what the search has passed over holds none,
  so that the first one found is before the next request begins
  (`OneRequestUpToEnd`).
* `RequestsAreTakenAsWritten`: `Spec => []RequestsArriveWhole`. `WholeInv`: a client
  that waits has one request on the stream at most, from its first byte; its only
  end is its last byte (`EncodedBytes`), so the hash that is found is that one. That
  escaping leaves no unescaped hash in a word of any length is by induction along
  the library's `FlattenSeq` (`FlattenSteps`, `EscapedBytes`).

### Widgets

In `WidgetsProofs`, for any number of events, dialogs, headers, slides, items and
options, and for any texts and completions. A widget is changed by its own steps
only, so each has an invariant of its own:

* `NothingIsLeftOverThePage`: `Spec => []OverlaysAgree`. `DialogInv` is
  `NoModalOverlayIsLeft` with the types it needs: every step that takes a dialog off
  its overlay starts an animation that knows the overlay (`CloseModalKeeps`), for
  however many dialogs escape closes at once, and the end of that animation removes
  it (`ExitModalKeeps`). `ImageInv` is stronger than `BoxAgrees`, which speaks of the
  image at rest: overlay, class and flag change together, at any moment. Whoever
  stops the page from scrolling is then named by `PageScrollsAgain`; all others leave
  it alone (`OthersLeaveScrolling`). Of the menu's overlays the invariant follows the
  one that came alone: it stays the first until it fades, and the first is the one that
  is found when the menu closes.
* `ControlsTellTheTruth`: `Spec => []ControlsAgree`. `AccordionInv` says what a slide
  that is under way will do, and what the page was told meanwhile. `TipInv` says that
  nothing of a tooltip is started while the pointer is elsewhere. `CarouselInv` says
  that the target, and a carousel at rest, is the place of an item, and of the one
  that was requested unless that was missed, which it says when it was: that `cycleTo`
  gets there, whichever way around is shorter, is `CycleArrives`, from
  `RemainderIsAround` (what JavaScript's remainder of a negative number is) and the
  uniqueness of division; `ResizeKeeps` and `RedrawKeeps` are about the layouts.
* `InputsTellTheTruth`: `Spec => []InputsAgree`. `ChipsInv` adds that the input never
  has both the focus and a selected chip, and that without focus nothing is offered.
  `SelectInv` is inductive as it is: toggling an option changes the closure, the
  selection and the lit entries alike, since a sequence without repetition loses or
  gains one member (`ToggledKeeps`, `RemovedOnce`, `AddedOnce`). That the list as it is
  built agrees is by induction along the options (`BuiltKeeps`): whichever options are
  toggled for the selected ones, what is lit is in the closure (`AddedKeeps`); and where
  no place is misread they are the selected ones. `PickerInv`: the timer that was set
  last decides what the class will be (`TimerSet`, `TimerEnds`).
* `DatesCanBeSelected`: `Spec => []DateIsSelectable`. `DateInv`: the rules are ones a
  page can give, the highlight and the selection are dates, and one that was selected
  may be selected while any day near may. A search takes steps of a day,
  towards an enabled date or away from it until it meets a limit, where it turns
  (`Nears`), so a search that ends does so on an enabled date if there is one
  (`SearchFinds`, `ValidateFinds`), with limits or without (`RoundOfAny`). Between two
  limits any search ends: one with steps of a week leaves its month and begins anew with
  steps of a day, and a second limit stops it (`Ends`, with the rounds counted down
  from three for every day of a year; `EndsSooner`, `AllSearchesEnd`,
  `LimitedValidateEnds`). Without them nothing is claimed of the end, and the claim about
  the selected date is for the states in which no search is endless.
* `WidgetTypes`: `Spec => []TypeOK`. What is counted is bounded by `events`, what the
  visitor has done. Of the dialogs this is not inductive: one press of escape closes
  as many as have a handler of it, each with an animation. `OpenOnTheirOwn` says that
  each handler is that of one open dialog on an overlay of its own, so that
  `ModalTypeInv` can count the animations under way, the handlers and the (negative)
  stack together. Of a toast, `ToastFits` counts the exits under way with what may
  still start one: its countdown and its touch. The offset, target and lag of the
  carousel are integers and no more: without wrapping a release is clamped from any
  distance, and a resize while frames run adds the lag, which can double it.

### Web client

In `WebClientProofs`, for any number of connections, any keys, and a screen of any
size that has room for a tab (`ScreenAssumption`; the page's has 80 columns and a
tab is 8). What is called printed is no control character (`PrintedAssumption`). The
invariant `ClientInv` is that of the page that is open.

* `WebClientTypes`: `Spec => []TypeOK`. Of the terminal, every operation keeps a
  screen a screen (`Screens`, `AddChKeeps`, `CommandKeeps`, `WriteKeeps`): the cursor
  may be in the row below the last, where `addch` leaves it and `may_scroll_` finds
  it, and in the column behind the last, and nowhere else.
* `ChatBelongsToItsConnection`: `Spec => []ChatIsOfThisConnection`. `ChatInv` says
  that a Websock has one WebSocket at most that is connecting or open, the current
  one (`OneIsLive`); that what it has not read of its receive queue is zeros
  (`SockOK`), so that nothing of an earlier reply is before a new one; and that no
  reply to a login is under way from the server or the proxy to a connection on
  which none was accepted (`RepliesAreTrue`), wherever the replies are cut.
* `KeysStayInOrder`: `Spec => []KeysGoOutInOrder`. `TelnetInv` makes the claim of what
  was handed over, what is in the send queue and what waits in `key_buf_`, one after
  the other (`Out`). A key moves from each to the next at its end (`SendingHandsOver`);
  closing and opening hand over nothing (`ClosingHandsNothing`,
  `OpeningHandsNothing`), because the WebSocket made last is the current one.
* `PlainTextStandsWhereItShould`: `Spec => []PlainTextIsShown`. `PlainInv` adds where
  the cursor is: in the last row that is shown, in the column behind the last
  character of the text's last line (`EndOf`), which may be the one behind the
  screen's. One more character makes the rows of a text grow in one of two ways
  (`LineGrows`, `LaidGrows`; that a line takes as many rows as it should is by
  division, `CountIsUnique`), and `addch` does the same to the screen: it wraps, and
  scrolls if there is no row left (`PutDownShows`). What a wrap and a line feed have
  in common is a blank row behind what is shown (`ShowsFeeds`).

### How

`Induction` has the two facts that the inductions use: a set of natural numbers that
is not empty has a least element (`NatLeast`, from the well-founded order of finite
sets), and a set that holds a number and with each one the next holds all that
follow (`NatInductionFrom`). It also has what the library's `FlattenSeq` does: its type,
and what one more piece adds (`FlattenType`, `FlattenOneMore`); and division
(`Divided`, `QuotientIsUnique`).

Every inductive invariant was checked by TLC on the instance of its run before it
was proved.

Only model-checked: all liveness, which is out of the prover's reach (of the queue,
`EveryRequestIsHandled` and the fairness of `RequestStack` in
`ImplementsRequestStack`; `EveryRequestArrives` and `ClosingIsReported` of the
reading thread; `ClosingEndsTheSession`; `FreshLoginIsAnswered`, `LeavingIsNoticed`
and the taking of keys in the web client; `EverythingPasses` of the widgets). Every
invariant and every action property of the passing runs is a theorem.

## 5. Disagreements found

1. `reject` looks at no edge, so a blocked user lifts the block
   (`server.cpp:1391`; `client.cpp:507` says the blocker does so with `/unblock`).
2. `head = head->next` after `delete head` (`server.cpp:1457-1458`).
3. `online` and `socket` are not reset at start (`get_username` at 376).
4. The query of `get_chat_id` is never prepared (`server.cpp:500`): the messages of
   two friends are kept and found under an id that was never set.

Other behaviour met while modelling, which the properties state the limits of:

* A `closed` is handled before a `login` of the same batch, so that only the users of
  clients that wait are never left on a dead connection
  (`NobodyIsOnAPatientClosedSocket`).
* After a reset of its connection a reading thread neither reports the end nor stops: it
  reads 0 for ever, unless the buffer still holds a whole request, which the next read
  would have overwritten and which is taken now (`ClosingIsReported` is about clients
  that close). What is taken from a client that does not wait may begin anywhere in a
  request, and may be cut at an escaped hash if the backslash before it was lost with
  the buffer (`RequestsAreNotMixed` says only that two requests are never mixed).
* A login after a failed attempt is preceded by zeros and may never be answered
  (`FreshLoginIsAnswered` is about the others); the line ends after a login keep the
  server from noticing that the page is gone (`LeavingIsNoticed`).
* The carousel decides by the item in the centre (`materialize.js:7922`): told to show
  the item it is just leaving, it ignores that, and a tab may be active over the content
  of another (1574 makes the tab active, 1584 sets the carousel). A resizing with
  `fullWidth` stops it where it is, one with a padding puts every item beside its place,
  and calling the plugin again stops it too. `CarouselAgrees` names these exceptions. A
  click between the items goes to the last one.
* Of a multiple select with optgroups the options that are selected when the list is
  built are added wrongly: `$(this).index()` (3616) is the place within an optgroup, but
  is used as that among all options and all entries. `SelectAgrees` excepts what is
  selected and checked then.
* The search for an enabled date (6592) has no end where a limit is infinite and every
  day is disabled; the counter that would stop it is commented out. `DateIsSelectable`
  claims its end between two limits.
* A second click on the menu's button while it opens makes a second overlay, which stays
  over the page when the menu closes, because only the first is found. `MenuAgrees` is
  about the first.

## 6. Plan

1. Done: social graph, queue, sessions, groups, framing, first proofs; the web
   client with its proxy and terminal, and the widgets of its page.
2. Proofs. Done: every safety property of the social graph, the queue, the sessions,
   the groups, the reading thread, the web client and the widgets.
3. `Codec`: join and split over short words, against their inverse.
4. `ReadThread`'s counterpart in the client, which takes all it has read as one
   message when the last byte is a hash.
5. `ChatClient`: the client's lists as functions of the replies, composed with
   `SocialGraph` and `Sessions` for presence (`check_online`, the online list of
   `client.h:22`).
6. `AndroidService`: the socket shared by threads, the local database.

### Not modelled

* LDAP and password hashing: external libraries, a choice between acceptance and
  refusal here.
* The terminal client's lists, the codec's splitting, the Android application and the
  earlier server beyond its reading thread and login: planned above.
* Of the telnet page: colours and attributes, drawing, and the answers to telnet
  options, which the receive handler never gets to.
* Of `materialize.js`: tabs, scrollspy, fixed action button, tap target, waves,
  parallax, pushpin, transitions and forms, which follow the pointer or the scrolling
  and keep hardly any state; parsing and formatting of dates and ranges of
  disabled dates; toasts without a `displayLength`, which stay until they are flung
  away; the libraries bundled in the file (jQuery easing, Velocity, Hammer).
* `util.js`, `webutil.js`, `keysym.js`: logging, cookies, browser detection, tables.
* The Python, C and Ruby programs beside `websockify.js`, which serve the same
  purpose and which the page does not need.
