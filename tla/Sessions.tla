------------------------------- MODULE Sessions -------------------------------
(***************************************************************************)
(* Who is logged in, and where: the online and socket columns of the users *)
(* table, the set logged_in_sockets, and the login, logout and closed      *)
(* requests that the control thread takes from the request queue and       *)
(* handles newest first (RequestStack.tla, implemented by LocklessQueue).  *)
(*                                                                         *)
(* The table is in main.db and outlives the process; everything else does  *)
(* not.  A connection is named by its file descriptor at the server: they  *)
(* are given out in order and never closed, so a descriptor names one      *)
(* connection for the life of a process, and another one in the next.      *)
(*                                                                         *)
(* Left out: the time a request or a reply is on its way.  A client that   *)
(* does not wait for replies may send before its last request was handled, *)
(* which is what those delays amount to.                                   *)
(***************************************************************************)
EXTENDS Integers, Sequences

CONSTANTS
  Users,         \* registered users, by rowid in the users table
  MaxConns,      \* bound: connections of one server process
  MaxRequests,   \* bound: requests of one connection, its closing not counted
  MaxRestarts,   \* bound: restarts of the server
  Patient        \* connections whose client waits until a request is handled

Fds == 1..MaxConns

ASSUME UsersAssumption == Users \subseteq Nat \ {0}
ASSUME BoundsAssumption ==
  MaxConns \in Nat /\ MaxRequests \in Nat /\ MaxRestarts \in Nat
ASSUME PatientAssumption == Patient \subseteq Fds

VARIABLES
  online, socket,   \* the columns of the users table
  loggedIn,         \* logged_in_sockets
  conn,             \* per descriptor: "none", "open", "closed" by the client
  shown,            \* per connection: its client's flag loggedin
  sent,             \* per connection: requests sent
  proved,           \* per connection: users that gave their password on it
  stale,            \* users whose row is as the last process left it
  pending, batch,   \* requests, newest first: in the queue, and taken from it
  restarts

tableVars == <<online, socket, loggedIn, proved, stale>>
clientVars == <<conn, sent>>
vars == <<online, socket, loggedIn, conn, shown, sent, proved, stale, pending, batch, restarts>>

NoUser == 0
NoSocket == 0

Requests ==
  [cmd : {"login"}, user : Users, fd : Fds] \cup [cmd : {"logout", "closed"}, fd : Fds]

-------------------------------------------------------------------------------
(* The queries *)

\* The first row with this socket, whether it is marked online or not.
GetUsername(fd) ==
  IF \E u \in Users : socket[u] = fd
    THEN CHOOSE u \in Users :
           socket[u] = fd /\ \A v \in Users : socket[v] = fd => u <= v
    ELSE NoUser

GetSocket(u) == IF online[u] THEN socket[u] ELSE NoSocket

-------------------------------------------------------------------------------
(* Connections and clients *)

\* accept: the descriptors of a process are given out in order.
Accept(fd) ==
  /\ conn[fd] = "none"
  /\ \A other \in Fds : other < fd => conn[other] # "none"
  /\ conn' = [conn EXCEPT ![fd] = "open"]
  /\ UNCHANGED <<tableVars, shown, sent, pending, batch, restarts>>

InQueue(fd) ==
  \/ \E i \in 1..Len(pending) : pending[i].fd = fd
  \/ \E i \in 1..Len(batch) : batch[i].fd = fd

MaySend(fd) == conn[fd] = "open" /\ (fd \in Patient => ~InQueue(fd))

\* read_thread pushes what the client sent.
Produce(request) == pending' = <<request>> \o pending

SendRequest(request) ==
  /\ MaySend(request.fd)
  /\ sent[request.fd] < MaxRequests
  /\ sent' = [sent EXCEPT ![request.fd] = @ + 1]
  /\ Produce(request)
  /\ UNCHANGED <<tableVars, conn, shown, batch, restarts>>

SendLogin(fd, u) ==
  ~shown[fd] /\ SendRequest([cmd |-> "login", user |-> u, fd |-> fd])

SendLogout(fd) == shown[fd] /\ SendRequest([cmd |-> "logout", fd |-> fd])

\* The client exits; read_thread sees the end of the stream.
Close(fd) ==
  /\ MaySend(fd)
  /\ conn' = [conn EXCEPT ![fd] = "closed"]
  /\ Produce([cmd |-> "closed", fd |-> fd])
  /\ UNCHANGED <<tableVars, shown, sent, batch, restarts>>

-------------------------------------------------------------------------------
(* The control thread *)

ConsumeAll ==
  /\ batch = << >> /\ pending # << >>
  /\ batch' = pending
  /\ pending' = << >>
  /\ UNCHANGED <<tableVars, clientVars, shown, restarts>>

Take(cmds) == batch # << >> /\ Head(batch).cmd \in cmds /\ batch' = Tail(batch)

SetUserOnlineUnlisted(u, fd) ==
  /\ loggedIn' = loggedIn
  /\ online' = [online EXCEPT ![u] = TRUE]
  /\ socket' = [socket EXCEPT ![u] = fd]
  /\ stale' = stale \ {u}

SetUserOnline(u, fd) ==
  /\ loggedIn' = loggedIn \cup {fd}
  /\ online' = [online EXCEPT ![u] = TRUE]
  /\ socket' = [socket EXCEPT ![u] = fd]
  /\ stale' = stale \ {u}

SetOfflineKeepsSocket(u) ==
  /\ online' = [online EXCEPT ![u] = FALSE]
  /\ UNCHANGED socket
  /\ stale' = stale \ {u}

SetOfflineMinusOne(u) ==
  /\ online' = [online EXCEPT ![u] = FALSE]
  /\ socket' = [socket EXCEPT ![u] = -1]
  /\ stale' = stale \ {u}

SetUserOffline(u) ==
  /\ online' = [online EXCEPT ![u] = FALSE]
  /\ socket' = [socket EXCEPT ![u] = NoSocket]
  /\ stale' = stale \ {u}

HandleLogin ==
  /\ Take({"login"})
  /\ LET r == Head(batch) IN
     /\ SetUserOnline(r.user, r.fd)
     /\ proved' = [proved EXCEPT ![r.fd] = @ \cup {r.user}]
     /\ shown' = [shown EXCEPT ![r.fd] = TRUE]
  /\ UNCHANGED <<clientVars, pending, restarts>>

OnlineBeforeCheck ==
  /\ Take({"login"})
  /\ SetUserOnline(Head(batch).user, Head(batch).fd)
  /\ UNCHANGED <<proved, clientVars, shown, pending, restarts>>

\* The password is wrong.
RefuseLogin ==
  /\ Take({"login"})
  /\ UNCHANGED <<tableVars, clientVars, shown, pending, restarts>>

ClosedEndsNothing ==
  /\ Take({"logout", "closed"})
  /\ LET r == Head(batch)
         source == GetUsername(r.fd)
     IN  IF source # NoUser /\ r.cmd = "logout"
           THEN /\ loggedIn' = loggedIn \ {r.fd}
                /\ SetUserOffline(source)
                /\ shown' = [shown EXCEPT ![r.fd] = FALSE]
           ELSE UNCHANGED <<online, socket, loggedIn, stale, shown>>
  /\ UNCHANGED <<proved, clientVars, pending, restarts>>

\* Only a logout is answered, and only on a socket that is somebody's.
HandleLogoutOrClosed ==
  /\ Take({"logout", "closed"})
  /\ LET r == Head(batch)
         source == GetUsername(r.fd)
     IN  IF source # NoUser
           THEN /\ loggedIn' = loggedIn \ {r.fd}
                /\ SetUserOffline(source)
                /\ shown' = IF r.cmd = "logout" THEN [shown EXCEPT ![r.fd] = FALSE] ELSE shown
           ELSE UNCHANGED <<online, socket, loggedIn, stale, shown>>
  /\ UNCHANGED <<proved, clientVars, pending, restarts>>

\* The process dies and is started again: the table stays as it is, nothing
\* resets it, and the descriptors are given out from the first again.
Restart ==
  /\ restarts < MaxRestarts
  /\ restarts' = restarts + 1
  /\ loggedIn' = {}
  /\ conn' = [fd \in Fds |-> "none"]
  /\ shown' = [fd \in Fds |-> FALSE]
  /\ sent' = [fd \in Fds |-> 0]
  /\ proved' = [fd \in Fds |-> {}]
  /\ stale' = {u \in Users : socket[u] # NoSocket}
  /\ pending' = << >>
  /\ batch' = << >>
  /\ UNCHANGED <<online, socket>>

-------------------------------------------------------------------------------

Init ==
  /\ online = [u \in Users |-> FALSE]
  /\ socket = [u \in Users |-> NoSocket]
  /\ loggedIn = {}
  /\ conn = [fd \in Fds |-> "none"]
  /\ shown = [fd \in Fds |-> FALSE]
  /\ sent = [fd \in Fds |-> 0]
  /\ proved = [fd \in Fds |-> {}]
  /\ stale = {}
  /\ pending = << >>
  /\ batch = << >>
  /\ restarts = 0

Client(fd) ==
  \/ Accept(fd)
  \/ \E u \in Users : SendLogin(fd, u)
  \/ SendLogout(fd)
  \/ Close(fd)

Control == ConsumeAll \/ HandleLogin \/ RefuseLogin \/ HandleLogoutOrClosed

Next == (\E fd \in Fds : Client(fd)) \/ Control \/ Restart

\* The control thread runs whenever there is something to do; clients may stop
\* at any time.
Spec == Init /\ [][Next]_vars /\ WF_vars(Control)

-------------------------------------------------------------------------------
(* Properties *)

\* The rows of users, the sockets and the queue keep their types.
TypeOK ==
  /\ online \in [Users -> BOOLEAN]
  /\ socket \in [Users -> Fds \cup {NoSocket}]
  /\ loggedIn \subseteq Fds
  /\ conn \in [Fds -> {"none", "open", "closed"}]
  /\ shown \in [Fds -> BOOLEAN]
  /\ sent \in [Fds -> 0..MaxRequests]
  /\ proved \in [Fds -> SUBSET Users]
  /\ stale \subseteq Users
  /\ pending \in Seq(Requests) /\ batch \in Seq(Requests)
  /\ restarts \in 0..MaxRestarts

\* get_username finds users by socket without looking at online, get_socket
\* looks at both: they agree on who is there.
OnlineMeansSocket == \A u \in Users : online[u] <=> socket[u] # NoSocket

\* get_username: "Get username of a user connected on a particular socket".
\* Whatever arrives on a connection is taken as said by a user who gave the
\* password on that very connection.
RequestsAreAttributedToTheirSender ==
  \A fd \in Fds : (conn[fd] # "none" /\ GetUsername(fd) # NoUser) =>
    GetUsername(fd) \in proved[fd]

\* What remains of that over restarts: the only users whose name a stranger's
\* connection can speak in are those whose session the crash cut off and who
\* have neither come back nor been logged out since.
OnlyCutOffUsersAreImpersonated ==
  \A fd \in Fds : (conn[fd] # "none" /\ GetUsername(fd) # NoUser) =>
    GetUsername(fd) \in proved[fd] \cup stale

\* The properties below are those of a server that found nobody online.
FreshTable == restarts = 0

\* Everything the client sent has been handled, its end of stream included.
ClosedFor(fd) == conn[fd] = "closed" /\ ~InQueue(fd)

\* get_socket: "Get socket number a user is connected on".  Once the closing of
\* a connection has been handled nobody is on it, if its client waits for one
\* request before it sends the next: for one that does not, the batch is handled
\* newest first, closed before login, and its user stays online on it.
NobodyIsOnAPatientClosedSocket ==
  FreshTable => \A u \in Users : GetSocket(u) \in Patient => ~ClosedFor(GetSocket(u))

\* Where a user is stands in two columns and, apart from the table, in
\* logged_in_sockets: the columns agree in every row, and online_notify and
\* offline_notify reach every user who is online from a patient client.
OnlineUsersAreNotified ==
  /\ OnlineMeansSocket
  /\ FreshTable => \A u \in Users : GetSocket(u) \in Patient => GetSocket(u) \in loggedIn

\* When a patient client is gone its user goes offline, or is found on another
\* connection: messages are not written to the old one for ever.
ClosingEndsTheSession ==
  \A fd \in Patient :
    (FreshTable /\ conn[fd] = "closed") ~> (FreshTable => \A u \in Users : socket[u] # fd)
===============================================================================
