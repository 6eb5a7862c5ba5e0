----------------------------- MODULE SessionsProofs -----------------------------
(***************************************************************************)
(* Theorems about Sessions, for any accounts, connections, requests and    *)
(* restarts, and any choice of the clients that wait.                      *)
(***************************************************************************)
EXTENDS Sessions, Induction

(***************************************************************************)
(* The queries and the queue.                                              *)
(***************************************************************************)
\* get_username finds a user on the socket if there is one.
LEMMA GetUsernameFinds ==
  ASSUME NEW fd
  PROVE  /\ GetUsername(fd) # NoUser => /\ GetUsername(fd) \in Users
                                        /\ socket[GetUsername(fd)] = fd
         /\ GetUsername(fd) = NoUser => \A u \in Users : socket[u] # fd
<1>. DEFINE On == {u \in Users : socket[u] = fd}
<1>1. CASE On = {}
  BY <1>1 DEF GetUsername
<1>2. CASE On # {}
  <2>1. \E u \in On : \A v \in On : u <= v
    BY <1>2, NatLeast, UsersAssumption
  <2>2. GetUsername(fd) = CHOOSE u \in Users :
          socket[u] = fd /\ \A v \in Users : socket[v] = fd => u <= v
    BY <1>2 DEF GetUsername
  <2>3. \E u \in Users : socket[u] = fd /\ \A v \in Users : socket[v] = fd => u <= v
    BY <2>1
  <2>4. GetUsername(fd) \in Users /\ socket[GetUsername(fd)] = fd
    BY <2>2, <2>3
  <2>. QED BY <2>4, UsersAssumption DEF NoUser
<1>. QED BY <1>1, <1>2

\* The requests on their way, newest first.
Queued == pending \o batch

QueueType == pending \in Seq(Requests) /\ batch \in Seq(Requests)

Mentions(requests, fd) == \E i \in 1..Len(requests) : requests[i].fd = fd

\* Every request on its way is in the queue or in the batch.
LEMMA OnTheWay ==
  ASSUME NEW p \in Seq(Requests), NEW b \in Seq(Requests), NEW fd
  PROVE  Mentions(p \o b, fd) <=> Mentions(p, fd) \/ Mentions(b, fd)
<1>1. ASSUME NEW i \in 1..Len(p)
      PROVE  i \in 1..Len(p \o b) /\ (p \o b)[i] = p[i]
  OBVIOUS
<1>2. ASSUME NEW i \in 1..Len(b)
      PROVE  Len(p) + i \in 1..Len(p \o b) /\ (p \o b)[Len(p) + i] = b[i]
  OBVIOUS
<1>3. ASSUME NEW i \in 1..Len(p \o b)
      PROVE  \/ i \in 1..Len(p) /\ (p \o b)[i] = p[i]
             \/ i - Len(p) \in 1..Len(b) /\ (p \o b)[i] = b[i - Len(p)]
  OBVIOUS
<1>. QED BY <1>1, <1>2, <1>3 DEF Mentions

\* The same of the queue and the batch as they are, and as a step leaves them.
LEMMA InQueueIsQueued ==
  ASSUME QueueType, NEW fd
  PROVE  InQueue(fd) <=> Mentions(Queued, fd)
<1>1. Mentions(pending \o batch, fd) <=> Mentions(pending, fd) \/ Mentions(batch, fd)
  BY OnTheWay DEF QueueType
<1>. QED BY <1>1, Zenon DEF InQueue, Queued, Mentions

LEMMA InQueueIsQueuedNext ==
  ASSUME QueueType', NEW fd
  PROVE  InQueue(fd)' <=> Mentions(Queued', fd)
<1>1. Mentions(pending' \o batch', fd) <=> Mentions(pending', fd) \/ Mentions(batch', fd)
  BY OnTheWay DEF QueueType
<1>. QED BY <1>1, Zenon DEF InQueue, Queued, Mentions

\* What a client sends comes first.
LEMMA ProduceQueues ==
  ASSUME QueueType, NEW r \in Requests, Produce(r), batch' = batch
  PROVE  /\ QueueType'
         /\ Queued' = <<r>> \o Queued
         /\ Len(Queued') = Len(Queued) + 1
         /\ Queued'[1] = r
         /\ \A i \in 2..Len(Queued') : i - 1 \in 1..Len(Queued) /\ Queued'[i] = Queued[i - 1]
BY DEF QueueType, Produce, Queued

\* What the control thread handles is no longer there, all else is.
LEMMA TakeRemoves ==
  ASSUME QueueType, NEW cmds, Take(cmds), pending' = pending
  PROVE  LET k == Len(pending) + 1 IN
         /\ QueueType'
         /\ Head(batch) \in Requests /\ Head(batch).cmd \in cmds
         /\ k \in 1..Len(Queued) /\ Queued[k] = Head(batch)
         /\ Len(Queued') = Len(Queued) - 1
         /\ \A i \in 1..Len(Queued') : i < k => Queued'[i] = Queued[i]
         /\ \A i \in 1..Len(Queued') : i >= k => Queued'[i] = Queued[i + 1]
<1>1. batch # << >> /\ batch' = Tail(batch) /\ Head(batch).cmd \in cmds
  BY DEF Take
<1>2. Head(batch) \in Requests /\ Tail(batch) \in Seq(Requests) /\ Head(batch) = batch[1]
      /\ Len(batch) \in Nat \ {0} /\ Len(Tail(batch)) = Len(batch) - 1
      /\ \A i \in 1..Len(Tail(batch)) : Tail(batch)[i] = batch[i + 1]
  BY <1>1 DEF QueueType
<1>. QED BY <1>1, <1>2 DEF QueueType, Queued

\* To take the whole queue changes nothing of what is on its way.
LEMMA ConsumeKeepsQueued ==
  ASSUME QueueType, ConsumeAll
  PROVE  QueueType' /\ Queued' = Queued
BY DEF QueueType, ConsumeAll, Queued

-------------------------------------------------------------------------------
(***************************************************************************)
(* Types.                                                                  *)
(***************************************************************************)
\* Fds holds no socket that stands for none.
LEMMA SocketTypes == NoSocket \notin Fds /\ Fds \subseteq Nat \ {0}
  BY BoundsAssumption DEF NoSocket, Fds

\* What a request is, by its command.
LEMMA RequestTypes ==
  ASSUME NEW r \in Requests
  PROVE  r.fd \in Fds /\ r.cmd \in {"login", "logout", "closed"} /\ (r.cmd = "login" => r.user \in Users)
BY DEF Requests

\* Init is of the right types.
LEMMA InitTypeOK == Init => TypeOK
  BY BoundsAssumption DEF Init, TypeOK

\* The steps of a client keep the types.
LEMMA ClientTypeOK ==
  ASSUME TypeOK, NEW fd \in Fds, Client(fd)
  PROVE  TypeOK'
<1>1. CASE Accept(fd)
  BY <1>1 DEF Accept, TypeOK, tableVars
<1>2. ASSUME NEW r \in Requests, SendRequest(r) PROVE TypeOK'
  <2>1. r.fd \in Fds
    BY RequestTypes
  <2>2. sent' \in [Fds -> 0..MaxRequests]
    BY <1>2, <2>1, BoundsAssumption DEF SendRequest, TypeOK
  <2>3. pending' \in Seq(Requests)
    BY <1>2 DEF SendRequest, Produce, TypeOK
  <2>. QED BY <1>2, <2>2, <2>3 DEF SendRequest, TypeOK, tableVars
<1>3. ASSUME NEW u \in Users, SendLogin(fd, u) PROVE TypeOK'
  <2>1. [cmd |-> "login", user |-> u, fd |-> fd] \in Requests
    BY DEF Requests
  <2>. QED BY <1>2, <1>3, <2>1 DEF SendLogin
<1>4. CASE SendLogout(fd)
  <2>1. [cmd |-> "logout", fd |-> fd] \in Requests
    BY DEF Requests
  <2>. QED BY <1>2, <1>4, <2>1 DEF SendLogout
<1>5. CASE Close(fd)
  <2>1. [cmd |-> "closed", fd |-> fd] \in Requests
    BY DEF Requests
  <2>2. pending' \in Seq(Requests)
    BY <1>5, <2>1 DEF Close, Produce, TypeOK
  <2>. QED BY <1>5, <2>2 DEF Close, TypeOK, tableVars
<1>. QED BY <1>1, <1>3, <1>4, <1>5 DEF Client

\* The steps of the control thread keep the types.
LEMMA ControlTypeOK ==
  ASSUME TypeOK, Control
  PROVE  TypeOK'
<1>. QueueType
  BY DEF TypeOK, QueueType
<1>1. CASE ConsumeAll
  BY <1>1 DEF ConsumeAll, TypeOK, tableVars, clientVars
<1>2. CASE HandleLogin
  <2>. DEFINE r == Head(batch)
  <2>1. r \in Requests /\ r.cmd = "login" /\ QueueType'
    BY <1>2, TakeRemoves DEF HandleLogin
  <2>2. r.fd \in Fds /\ r.user \in Users
    BY <2>1, RequestTypes
  <2>3. SetUserOnline(r.user, r.fd) /\ proved' = [proved EXCEPT ![r.fd] = @ \cup {r.user}]
        /\ shown' = [shown EXCEPT ![r.fd] = TRUE] /\ UNCHANGED <<clientVars, pending, restarts>>
    BY <1>2 DEF HandleLogin
  <2>. HIDE DEF r
  <2>. QED BY <2>1, <2>2, <2>3 DEF SetUserOnline, TypeOK, clientVars, QueueType
<1>3. CASE RefuseLogin
  <2>1. QueueType'
    BY <1>3, TakeRemoves DEF RefuseLogin
  <2>. QED BY <1>3, <2>1 DEF RefuseLogin, TypeOK, tableVars, clientVars, QueueType
<1>4. CASE HandleLogoutOrClosed
  <2>. DEFINE r == Head(batch)
              source == GetUsername(r.fd)
  <2>1. r \in Requests /\ QueueType'
    BY <1>4, TakeRemoves DEF HandleLogoutOrClosed
  <2>2. r.fd \in Fds
    BY <2>1, RequestTypes
  <2>3. source # NoUser => source \in Users
    BY GetUsernameFinds
  <2>4. IF source # NoUser
          THEN /\ loggedIn' = loggedIn \ {r.fd}
               /\ SetUserOffline(source)
               /\ shown' = IF r.cmd = "logout" THEN [shown EXCEPT ![r.fd] = FALSE] ELSE shown
          ELSE UNCHANGED <<online, socket, loggedIn, stale, shown>>
    BY <1>4 DEF HandleLogoutOrClosed
  <2>5. UNCHANGED <<proved, clientVars, pending, restarts>>
    BY <1>4 DEF HandleLogoutOrClosed
  <2>. HIDE DEF r, source
  <2>6. CASE source # NoUser
    BY <2>1, <2>2, <2>3, <2>4, <2>5, <2>6 DEF SetUserOffline, TypeOK, clientVars, QueueType
  <2>7. CASE source = NoUser
    BY <2>1, <2>4, <2>5, <2>7 DEF TypeOK, clientVars, QueueType
  <2>. QED BY <2>6, <2>7
<1>. QED BY <1>1, <1>2, <1>3, <1>4 DEF Control

\* Every step keeps the types.
LEMMA StepTypeOK == TypeOK /\ [Next]_vars => TypeOK'
<1>. SUFFICES ASSUME TypeOK, [Next]_vars PROVE TypeOK'
  OBVIOUS
<1>1. CASE Restart
  BY <1>1, BoundsAssumption DEF Restart, TypeOK
<1>2. CASE UNCHANGED vars
  BY <1>2 DEF vars, TypeOK
<1>. QED BY <1>1, <1>2, ClientTypeOK, ControlTypeOK DEF Next

\* Rows, sockets and requests keep their types for any bounds: a descriptor the
\* table holds is one that was given out, or none.
THEOREM SessionTypes == Spec => []TypeOK
  BY InitTypeOK, StepTypeOK, PTL DEF Spec
-------------------------------------------------------------------------------
(***************************************************************************)
(* What becomes of the rows of users.  A step that touches the table logs  *)
(* one user in on one connection, logs the user of one connection out, or  *)
(* is a restart, which leaves the table as it is.                          *)
(***************************************************************************)
LogsIn(u, fd) ==
  /\ online' = [online EXCEPT ![u] = TRUE]
  /\ socket' = [socket EXCEPT ![u] = fd]
  /\ proved' = [proved EXCEPT ![fd] = @ \cup {u}]
  /\ stale' = stale \ {u}

LogsOut(u) ==
  /\ online' = [online EXCEPT ![u] = FALSE]
  /\ socket' = [socket EXCEPT ![u] = NoSocket]
  /\ proved' = proved
  /\ stale' = stale \ {u}

\* There is no other way to change the table, and none to change who proved what.
LEMMA TableStep ==
  ASSUME TypeOK, [Next]_vars
  PROVE  \/ UNCHANGED <<online, socket, proved, stale>>
         \/ \E u \in Users, fd \in Fds : LogsIn(u, fd)
         \/ \E u \in Users : LogsOut(u)
         \/ Restart
<1>. QueueType
  BY DEF TypeOK, QueueType
<1>1. ASSUME NEW fd \in Fds, Client(fd) PROVE UNCHANGED <<online, socket, proved, stale>>
  BY <1>1 DEF Client, Accept, SendLogin, SendLogout, SendRequest, Close, tableVars
<1>2. CASE ConsumeAll \/ RefuseLogin
  BY <1>2 DEF ConsumeAll, RefuseLogin, tableVars
<1>3. CASE HandleLogin
  <2>. DEFINE r == Head(batch)
  <2>1. r \in Requests /\ r.cmd = "login"
    BY <1>3, TakeRemoves DEF HandleLogin
  <2>2. SetUserOnline(r.user, r.fd) /\ proved' = [proved EXCEPT ![r.fd] = @ \cup {r.user}]
    BY <1>3 DEF HandleLogin
  <2>3. LogsIn(r.user, r.fd)
    BY <2>2 DEF SetUserOnline, LogsIn
  <2>. HIDE DEF r
  <2>. QED BY <2>1, <2>3, RequestTypes
<1>4. CASE HandleLogoutOrClosed
  <2>1. \/ UNCHANGED <<online, socket, stale, proved>>
        \/ /\ GetUsername(Head(batch).fd) # NoUser
           /\ SetUserOffline(GetUsername(Head(batch).fd))
           /\ proved' = proved
    BY <1>4 DEF HandleLogoutOrClosed
  <2>. QED BY <2>1, GetUsernameFinds DEF SetUserOffline, LogsOut
<1>. QED BY <1>1, <1>2, <1>3, <1>4 DEF Next, Control, vars

\* Whether a user is online and whether a socket is known for the user agree,
\* across restarts too: the two queries never contradict one another.
THEOREM TableAgrees == Spec => []OnlineMeansSocket
<1>1. Init => OnlineMeansSocket
  BY DEF Init, OnlineMeansSocket
<1>2. TypeOK /\ OnlineMeansSocket /\ [Next]_vars => OnlineMeansSocket'
  <2>. SUFFICES ASSUME TypeOK, OnlineMeansSocket, [Next]_vars PROVE OnlineMeansSocket'
    OBVIOUS
  <2>. online \in [Users -> BOOLEAN] /\ socket \in [Users -> Fds \cup {NoSocket}]
    BY DEF TypeOK
  <2>1. ASSUME NEW u \in Users, NEW fd \in Fds, LogsIn(u, fd) PROVE OnlineMeansSocket'
    BY <2>1, SocketTypes DEF LogsIn, OnlineMeansSocket
  <2>2. ASSUME NEW u \in Users, LogsOut(u) PROVE OnlineMeansSocket'
    BY <2>2 DEF LogsOut, OnlineMeansSocket
  <2>3. CASE UNCHANGED <<online, socket>>
    BY <2>3 DEF OnlineMeansSocket
  <2>. QED BY <2>1, <2>2, <2>3, TableStep DEF Restart
<1>. QED BY <1>1, <1>2, SessionTypes, PTL DEF Spec

(***************************************************************************)
(* Who a connection speaks for.  Every socket in the table is accounted    *)
(* for: by a password given on that connection of this process, or by a    *)
(* process that is gone.                                                   *)
(***************************************************************************)
Accounted == \A u \in Users : socket[u] # NoSocket => u \in proved[socket[u]] \cup stale

\* At the start no socket is in the table.
LEMMA InitAccounted == Init => Accounted
  BY DEF Init, Accounted

\* A login comes with its password, a restart makes all that it finds stale.
LEMMA StepAccounted == TypeOK /\ Accounted /\ [Next]_vars => Accounted'
<1>. SUFFICES ASSUME TypeOK, Accounted, [Next]_vars PROVE Accounted'
  OBVIOUS
<1>. /\ socket \in [Users -> Fds \cup {NoSocket}]
     /\ proved \in [Fds -> SUBSET Users]
  BY DEF TypeOK
<1>1. ASSUME NEW u \in Users, NEW fd \in Fds, LogsIn(u, fd) PROVE Accounted'
  <2>. SUFFICES ASSUME NEW v \in Users, socket'[v] # NoSocket
                PROVE  v \in proved'[socket'[v]] \cup stale'
    BY DEF Accounted
  <2>1. CASE v = u
    BY <1>1, <2>1 DEF LogsIn
  <2>2. CASE v # u
    <3>1. socket'[v] = socket[v] /\ socket[v] \in Fds /\ v \in proved[socket[v]] \cup stale
      BY <1>1, <2>2 DEF LogsIn, Accounted
    <3>2. proved[socket[v]] \subseteq proved'[socket[v]]
      BY <1>1, <3>1 DEF LogsIn
    <3>. QED BY <1>1, <2>2, <3>1, <3>2 DEF LogsIn
  <2>. QED BY <2>1, <2>2
<1>2. ASSUME NEW u \in Users, LogsOut(u) PROVE Accounted'
  BY <1>2 DEF LogsOut, Accounted
<1>3. CASE UNCHANGED <<online, socket, proved, stale>>
  BY <1>3 DEF Accounted
<1>4. CASE Restart
  BY <1>4 DEF Restart, Accounted
<1>. QED BY <1>1, <1>2, <1>3, <1>4, TableStep

\* A connection speaks for nobody but those who gave the password on it and those
\* whose session a crash cut off: the damage of a restart has that bound, whatever
\* order requests are handled in.
THEOREM ImpersonationIsBounded == Spec => []OnlyCutOffUsersAreImpersonated
<1>1. Accounted => OnlyCutOffUsersAreImpersonated
  <2>. SUFFICES ASSUME Accounted, NEW fd \in Fds, GetUsername(fd) # NoUser
                PROVE  GetUsername(fd) \in proved[fd] \cup stale
    BY DEF OnlyCutOffUsersAreImpersonated
  <2>1. GetUsername(fd) \in Users /\ socket[GetUsername(fd)] = fd
    BY GetUsernameFinds
  <2>. QED BY <2>1, SocketTypes DEF Accounted
<1>. QED BY <1>1, InitAccounted, StepAccounted, SessionTypes, PTL DEF Spec
-------------------------------------------------------------------------------
(***************************************************************************)
(* Clients that wait.  At most one request of such a connection is on its  *)
(* way, so that the order of the batch does not matter to it; a login is   *)
(* sent only when the client shows no session; the closing of a connection *)
(* is the only request of a connection that is closed.                     *)
(***************************************************************************)
OneAtATime ==
  \A i, j \in 1..Len(Queued) :
    (Queued[i].fd \in Patient /\ Queued[j].fd = Queued[i].fd) => i = j

Fits(r) == /\ r.cmd = "login" => ~shown[r.fd]
           /\ r.cmd = "closed" <=> conn[r.fd] = "closed"

AllFit == \A i \in 1..Len(Queued) : Queued[i].fd \in Patient => Fits(Queued[i])

\* The user found on the connection of a client that waits is shown there, is
\* alone there, is notified, and as long as she is there the closing of the
\* connection is still on its way.
SeatedAlone(u) == \A v \in Users : socket[v] = socket[u] => v = u

Seated(u) == /\ shown[socket[u]]
             /\ SeatedAlone(u)
             /\ conn[socket[u]] = "closed" => InQueue(socket[u])
             /\ socket[u] \in loggedIn

AllSeated == FreshTable => \A u \in Users : socket[u] \in Patient => Seated(u)

PatientInv == OneAtATime /\ AllFit /\ AllSeated

\* At the start nothing is queued and nobody is seated.
LEMMA InitPatientInv == Init => PatientInv
<1>. SUFFICES ASSUME Init PROVE PatientInv
  OBVIOUS
<1>1. Queued = << >>
  BY DEF Init, Queued
<1>2. \A u \in Users : socket[u] \notin Patient
  BY SocketTypes, PatientAssumption DEF Init
<1>. QED BY <1>1, <1>2 DEF PatientInv, OneAtATime, AllFit, AllSeated

\* A request that may be sent fits and is the only one of its connection.
LEMMA SendingFits ==
  ASSUME QueueType, OneAtATime, AllFit, NEW r \in Requests, MaySend(r.fd),
         Produce(r), batch' = batch, shown' = shown,
         conn' = [conn EXCEPT ![r.fd] = IF r.cmd = "closed" THEN "closed" ELSE @],
         conn \in [Fds -> {"none", "open", "closed"}],
         r.cmd = "login" => ~shown[r.fd]
  PROVE  /\ OneAtATime' /\ AllFit'
         /\ \A fd : InQueue(fd)' <=> InQueue(fd) \/ fd = r.fd
<1>. DEFINE newest == Queued'
<1>0. Len(Queued) \in Nat
  BY DEF Queued, QueueType
<1>1. /\ QueueType'
      /\ Len(newest) = Len(Queued) + 1
      /\ newest[1] = r
      /\ \A i \in 2..Len(newest) : i - 1 \in 1..Len(Queued) /\ newest[i] = Queued[i - 1]
  BY ProduceQueues
<1>00. newest = Queued'
  OBVIOUS
<1>. HIDE DEF newest
<1>2. r.fd \in Patient => \A i \in 1..Len(Queued) : Queued[i].fd # r.fd
  BY InQueueIsQueued DEF MaySend, Mentions
<1>3. ASSUME NEW i \in 1..Len(newest), NEW j \in 1..Len(newest),
             newest[i].fd \in Patient, newest[j].fd = newest[i].fd
      PROVE  i = j
  <2>1. CASE i = 1 /\ j # 1
    <3>1. j - 1 \in 1..Len(Queued) /\ newest[j] = Queued[j - 1]
      BY <1>0, <1>1, <2>1
    <3>. QED BY <1>1, <1>2, <1>3, <2>1, <3>1
  <2>2. CASE i # 1 /\ j = 1
    <3>1. i - 1 \in 1..Len(Queued) /\ newest[i] = Queued[i - 1]
      BY <1>0, <1>1, <2>2
    <3>. QED BY <1>1, <1>2, <1>3, <2>2, <3>1
  <2>3. CASE i # 1 /\ j # 1
    <3>1. /\ i - 1 \in 1..Len(Queued) /\ newest[i] = Queued[i - 1]
          /\ j - 1 \in 1..Len(Queued) /\ newest[j] = Queued[j - 1]
      BY <1>0, <1>1, <2>3
    <3>2. i - 1 = j - 1
      BY <1>3, <3>1 DEF OneAtATime
    <3>. QED BY <3>2
  <2>. QED BY <2>1, <2>2, <2>3
<1>4. ASSUME NEW i \in 1..Len(newest), newest[i].fd \in Patient
      PROVE  /\ newest[i].cmd = "login" => ~shown[newest[i].fd]
             /\ newest[i].cmd = "closed" <=> conn'[newest[i].fd] = "closed"
  <2>1. CASE i = 1
    <3>1. conn[r.fd] = "open" /\ r.fd \in Fds
      BY RequestTypes DEF MaySend
    <3>. QED BY <1>1, <2>1, <3>1
  <2>2. CASE i # 1
    <3>1. i - 1 \in 1..Len(Queued) /\ newest[i] = Queued[i - 1]
      BY <1>0, <1>1, <2>2
    <3>2. /\ newest[i].cmd = "login" => ~shown[newest[i].fd]
          /\ newest[i].cmd = "closed" <=> conn[newest[i].fd] = "closed"
      BY <1>4, <3>1 DEF AllFit, Fits
    <3>3. newest[i].fd # r.fd /\ newest[i].fd \in Fds
      BY <1>2, <1>4, <3>1, PatientAssumption
    <3>. QED BY <3>2, <3>3
  <2>. QED BY <2>1, <2>2
<1>5. ASSUME NEW fd PROVE InQueue(fd)' <=> InQueue(fd) \/ fd = r.fd
  <2>1. InQueue(fd)' <=> Mentions(newest, fd)
    BY <1>00, <1>1, InQueueIsQueuedNext
  <2>2. InQueue(fd) <=> Mentions(Queued, fd)
    BY InQueueIsQueued
  <2>3. ASSUME NEW i \in 1..Len(Queued)
        PROVE  i + 1 \in 1..Len(newest) /\ newest[i + 1] = Queued[i]
    <3>1. i + 1 \in 2..Len(newest)
      BY <1>0, <1>1
    <3>. QED BY <1>0, <1>1, <3>1
  <2>4. ASSUME NEW i \in 1..Len(newest), i # 1
        PROVE  i - 1 \in 1..Len(Queued) /\ newest[i] = Queued[i - 1]
    BY <1>0, <1>1, <2>4
  <2>5. 1 \in 1..Len(newest)
    BY <1>0, <1>1
  <2>. QED BY <1>1, <2>1, <2>2, <2>3, <2>4, <2>5 DEF Mentions
<1>6. OneAtATime' /\ AllFit'
  BY <1>00, <1>3, <1>4 DEF OneAtATime, AllFit, Fits
<1>. QED BY <1>5, <1>6

\* A client's step keeps the order of those that wait.
LEMMA ClientPatientInv ==
  ASSUME TypeOK, PatientInv, NEW fd \in Fds, Client(fd)
  PROVE  PatientInv'
<1>. QueueType /\ conn \in [Fds -> {"none", "open", "closed"}]
     /\ socket \in [Users -> Fds \cup {NoSocket}]
  BY DEF TypeOK, QueueType
<1>0. OneAtATime /\ AllFit /\ AllSeated
  BY DEF PatientInv
<1>1. ASSUME NEW r \in Requests, r.fd = fd, MaySend(fd), Produce(r), batch' = batch,
             conn' = [conn EXCEPT ![fd] = IF r.cmd = "closed" THEN "closed" ELSE @],
             r.cmd = "login" => ~shown[fd],
             UNCHANGED <<tableVars, shown, restarts>>
      PROVE  PatientInv'
  <2>1. OneAtATime' /\ AllFit' /\ \A f : InQueue(f)' <=> InQueue(f) \/ f = fd
    BY <1>0, <1>1, SendingFits
  <2>2. ASSUME NEW u \in Users, socket[u] \in Patient, Seated(u) PROVE Seated(u)'
    <3>1. UNCHANGED <<socket, shown, loggedIn>>
      BY <1>1 DEF tableVars
    <3>2. SeatedAlone(u)'
      BY <2>2, <3>1 DEF Seated, SeatedAlone
    <3>3. conn'[socket[u]] = "closed" => conn[socket[u]] = "closed" \/ socket[u] = fd
      BY <1>1
    <3>4. conn'[socket'[u]] = "closed" => InQueue(socket[u])'
      BY <2>1, <2>2, <3>1, <3>3 DEF Seated
    <3>. QED BY <2>2, <3>1, <3>2, <3>4 DEF Seated
  <2>3. AllSeated'
    BY <1>0, <1>1, <2>2 DEF AllSeated, FreshTable, tableVars
  <2>. QED BY <2>1, <2>3 DEF PatientInv
<1>2. ASSUME NEW u \in Users, SendLogin(fd, u) PROVE PatientInv'
  <2>1. [cmd |-> "login", user |-> u, fd |-> fd] \in Requests
    BY DEF Requests
  <2>. QED BY <1>1, <1>2, <2>1 DEF SendLogin, SendRequest
<1>3. CASE SendLogout(fd)
  <2>1. [cmd |-> "logout", fd |-> fd] \in Requests
    BY DEF Requests
  <2>. QED BY <1>1, <1>3, <2>1 DEF SendLogout, SendRequest
<1>4. CASE Close(fd)
  <2>1. [cmd |-> "closed", fd |-> fd] \in Requests
    BY DEF Requests
  <2>. QED BY <1>1, <1>4, <2>1 DEF Close
<1>5. CASE Accept(fd)
  <2>1. conn[fd] = "none" /\ conn' = [conn EXCEPT ![fd] = "open"]
        /\ UNCHANGED <<online, socket, loggedIn, proved, stale, shown, sent, pending, batch, restarts>>
    BY <1>5 DEF Accept, tableVars
  <2>2. Queued' = Queued /\ \A f : InQueue(f)' <=> InQueue(f)
    BY <2>1 DEF Queued, InQueue
  <2>3. OneAtATime'
    BY <1>0, <2>2 DEF OneAtATime
  <2>4. AllFit'
    <3>1. ASSUME NEW r, r.fd \in Patient, Fits(r) PROVE Fits(r)'
      BY <2>1, <3>1, PatientAssumption DEF Fits
    <3>. QED BY <1>0, <2>2, <3>1 DEF AllFit
  <2>5. AllSeated'
    <3>1. ASSUME NEW u \in Users, socket[u] \in Patient, Seated(u) PROVE Seated(u)'
      BY <2>1, <2>2, <3>1, PatientAssumption DEF Seated, SeatedAlone
    <3>. QED BY <1>0, <2>1, <3>1 DEF AllSeated, FreshTable
  <2>. QED BY <2>3, <2>4, <2>5 DEF PatientInv
<1>. QED BY <1>2, <1>3, <1>4, <1>5 DEF Client
\* Taking a request away leaves the others as they were.
LEMMA TakingFits ==
  ASSUME QueueType, OneAtATime, AllFit, NEW cmds, Take(cmds), pending' = pending, conn' = conn,
         \A fd \in Patient : shown'[fd] => shown[fd] \/ fd = Head(batch).fd
  PROVE  /\ OneAtATime' /\ AllFit'
         /\ Head(batch).fd \in Patient => Fits(Head(batch))
         /\ \A fd : fd # Head(batch).fd => (InQueue(fd)' <=> InQueue(fd))
<1>. DEFINE rest == Queued'
            k == Len(pending) + 1
            r == Head(batch)
<1>1. /\ QueueType' /\ k \in 1..Len(Queued) /\ Queued[k] = r
      /\ Len(rest) = Len(Queued) - 1
      /\ \A i \in 1..Len(rest) : i < k => rest[i] = Queued[i]
      /\ \A i \in 1..Len(rest) : i >= k => rest[i] = Queued[i + 1]
  BY TakeRemoves
<1>2. Len(Queued) \in Nat /\ Len(pending) \in Nat
  BY DEF Queued, QueueType
<1>3. rest = Queued' /\ r = Head(batch) /\ k \in Nat
  BY <1>2
<1>. HIDE DEF rest, k, r
<1>. DEFINE was(i) == IF i < k THEN i ELSE i + 1
<1>4. /\ \A i \in 1..Len(rest) : was(i) \in 1..Len(Queued) /\ was(i) # k /\ rest[i] = Queued[was(i)]
      /\ \A i, j \in 1..Len(rest) : was(i) = was(j) => i = j
  BY <1>1, <1>2, <1>3
<1>5. \A i \in 1..Len(Queued) : i # k => \E j \in 1..Len(rest) : was(j) = i
  <2>. SUFFICES ASSUME NEW i \in 1..Len(Queued), i # k PROVE \E j \in 1..Len(rest) : was(j) = i
    OBVIOUS
  <2>1. CASE i < k
    BY <1>1, <1>2, <1>3, <2>1
  <2>2. CASE i > k
    <3>1. i - 1 \in 1..Len(rest) /\ was(i - 1) = i
      BY <1>1, <1>2, <1>3, <2>2
    <3>. QED BY <3>1
  <2>. QED BY <1>2, <1>3, <2>1, <2>2
<1>. HIDE DEF was
<1>6. OneAtATime'
  <2>1. ASSUME NEW i \in 1..Len(rest), NEW j \in 1..Len(rest),
               rest[i].fd \in Patient, rest[j].fd = rest[i].fd
        PROVE  i = j
    <3>1. was(i) = was(j)
      BY <1>4, <2>1 DEF OneAtATime
    <3>. QED BY <1>4, <3>1
  <2>. QED BY <1>3, <2>1 DEF OneAtATime
<1>7. \A i \in 1..Len(rest) : rest[i].fd \in Patient => rest[i].fd # r.fd
  BY <1>1, <1>4 DEF OneAtATime
<1>8. AllFit'
  <2>1. ASSUME NEW i \in 1..Len(rest), rest[i].fd \in Patient
        PROVE  /\ rest[i].cmd = "login" => ~shown'[rest[i].fd]
               /\ rest[i].cmd = "closed" <=> conn'[rest[i].fd] = "closed"
    <3>1. /\ rest[i].cmd = "login" => ~shown[rest[i].fd]
          /\ rest[i].cmd = "closed" <=> conn[rest[i].fd] = "closed"
      BY <1>4, <2>1 DEF AllFit, Fits
    <3>. QED BY <1>3, <1>7, <2>1, <3>1
  <2>. QED BY <1>3, <2>1 DEF AllFit, Fits
<1>9. ASSUME NEW fd, fd # r.fd PROVE InQueue(fd)' <=> InQueue(fd)
  <2>1. InQueue(fd)' <=> Mentions(rest, fd)
    BY <1>1, <1>3, InQueueIsQueuedNext
  <2>2. InQueue(fd) <=> Mentions(Queued, fd)
    BY InQueueIsQueued
  <2>3. Mentions(rest, fd) => Mentions(Queued, fd)
    BY <1>4 DEF Mentions
  <2>4. Mentions(Queued, fd) => Mentions(rest, fd)
    <3>. SUFFICES ASSUME NEW i \in 1..Len(Queued), Queued[i].fd = fd PROVE Mentions(rest, fd)
      BY DEF Mentions
    <3>1. i # k
      BY <1>1, <1>9
    <3>2. PICK j \in 1..Len(rest) : was(j) = i
      BY <1>5, <3>1
    <3>3. rest[j].fd = fd
      BY <1>4, <3>2
    <3>. QED BY <3>3 DEF Mentions
  <2>. QED BY <2>1, <2>2, <2>3, <2>4
<1>10. r.fd \in Patient => Fits(r)
  BY <1>1 DEF AllFit
<1>. QED BY <1>3, <1>6, <1>8, <1>9, <1>10
\* The control thread seats those who log in alone and clears the seat of those
\* who leave.
LEMMA ControlPatientInv ==
  ASSUME TypeOK, PatientInv, Control
  PROVE  PatientInv'
<1>. /\ QueueType /\ conn \in [Fds -> {"none", "open", "closed"}]
     /\ socket \in [Users -> Fds \cup {NoSocket}]
     /\ shown \in [Fds -> BOOLEAN]
     /\ OneAtATime /\ AllFit /\ AllSeated
     /\ NoSocket \notin Patient
  BY SocketTypes, PatientAssumption DEF TypeOK, QueueType, PatientInv
<1>1. CASE ConsumeAll
  <2>1. UNCHANGED <<online, socket, loggedIn, proved, stale, conn, sent, shown, restarts>>
    BY <1>1 DEF ConsumeAll, tableVars, clientVars
  <2>2. QueueType' /\ Queued' = Queued
    BY <1>1, ConsumeKeepsQueued
  <2>3. \A fd : InQueue(fd)' <=> InQueue(fd)
    BY <2>2, InQueueIsQueued, InQueueIsQueuedNext
  <2>4. OneAtATime' /\ AllFit'
    BY <2>1, <2>2 DEF OneAtATime, AllFit, Fits
  <2>5. AllSeated'
    BY <2>1, <2>3 DEF AllSeated, FreshTable, Seated, SeatedAlone
  <2>. QED BY <2>4, <2>5 DEF PatientInv
<1>2. CASE HandleLogin
  <2>. DEFINE r == Head(batch)
  <2>1. /\ Take({"login"}) /\ SetUserOnline(r.user, r.fd)
        /\ shown' = [shown EXCEPT ![r.fd] = TRUE]
        /\ UNCHANGED <<conn, pending, restarts>>
    BY <1>2 DEF HandleLogin, clientVars
  <2>2. r.fd \in Fds /\ r.user \in Users /\ r.cmd = "login"
    BY <2>1, TakeRemoves, RequestTypes
  <2>3. \A fd \in Patient : shown'[fd] => shown[fd] \/ fd = r.fd
    BY <2>1, PatientAssumption
  <2>4. /\ OneAtATime' /\ AllFit'
        /\ r.fd \in Patient => Fits(r)
        /\ \A fd : fd # r.fd => (InQueue(fd)' <=> InQueue(fd))
    BY <2>1, <2>3, TakingFits
  <2>. HIDE DEF r
  <2>5. socket' = [socket EXCEPT ![r.user] = r.fd] /\ loggedIn' = loggedIn \cup {r.fd}
    BY <2>1 DEF SetUserOnline
  <2>6. ASSUME NEW u \in Users, FreshTable, socket'[u] \in Patient PROVE Seated(u)'
    <3>1. CASE u = r.user
      <4>1. socket'[u] = r.fd /\ r.fd \in Patient
        BY <2>5, <2>6, <3>1
      <4>2. ~shown[r.fd] /\ conn[r.fd] # "closed"
        BY <2>2, <2>4, <4>1 DEF Fits
      <4>3. \A v \in Users : socket[v] # r.fd
        BY <2>6, <4>1, <4>2 DEF AllSeated, Seated
      <4>4. SeatedAlone(u)'
        BY <2>5, <3>1, <4>1, <4>3 DEF SeatedAlone
      <4>. QED BY <2>1, <2>2, <2>5, <4>1, <4>2, <4>4 DEF Seated
    <3>2. CASE u # r.user
      <4>1. socket'[u] = socket[u] /\ Seated(u)
        BY <2>5, <2>6, <3>2 DEF AllSeated
      <4>2. socket[u] # r.fd
        BY <2>2, <2>4, <2>6, <4>1 DEF Seated, Fits
      <4>3. SeatedAlone(u)'
        BY <2>2, <2>5, <4>1, <4>2 DEF Seated, SeatedAlone
      <4>. QED BY <2>1, <2>4, <2>5, <4>1, <4>2, <4>3 DEF Seated
    <3>. QED BY <3>1, <3>2
  <2>7. AllSeated'
    BY <2>1, <2>6 DEF AllSeated, FreshTable
  <2>. QED BY <2>4, <2>7 DEF PatientInv
<1>3. CASE RefuseLogin
  <2>. DEFINE r == Head(batch)
  <2>1. /\ Take({"login"})
        /\ UNCHANGED <<online, socket, loggedIn, proved, stale, conn, sent, shown, pending, restarts>>
    BY <1>3 DEF RefuseLogin, tableVars, clientVars
  <2>2. r.cmd = "login"
    BY <2>1, TakeRemoves
  <2>3. /\ OneAtATime' /\ AllFit'
        /\ r.fd \in Patient => Fits(r)
        /\ \A fd : fd # r.fd => (InQueue(fd)' <=> InQueue(fd))
    BY <2>1, TakingFits
  <2>. HIDE DEF r
  <2>4. ASSUME NEW u \in Users, FreshTable, socket[u] \in Patient PROVE Seated(u)'
    <3>1. Seated(u) /\ socket[u] # r.fd
      BY <2>2, <2>3, <2>4 DEF AllSeated, Seated, Fits
    <3>2. SeatedAlone(u)'
      BY <2>1, <3>1 DEF Seated, SeatedAlone
    <3>. QED BY <2>1, <2>3, <3>1, <3>2 DEF Seated
  <2>5. AllSeated'
    BY <2>1, <2>4 DEF AllSeated, FreshTable
  <2>. QED BY <2>3, <2>5 DEF PatientInv
<1>4. CASE HandleLogoutOrClosed
  <2>. DEFINE r == Head(batch)
              source == GetUsername(r.fd)
  <2>1. /\ Take({"logout", "closed"})
        /\ IF source # NoUser
              THEN /\ loggedIn' = loggedIn \ {r.fd}
                   /\ SetUserOffline(source)
                   /\ shown' = IF r.cmd = "logout" THEN [shown EXCEPT ![r.fd] = FALSE] ELSE shown
              ELSE UNCHANGED <<online, socket, loggedIn, stale, shown>>
        /\ UNCHANGED <<conn, pending, restarts>>
    BY <1>4 DEF HandleLogoutOrClosed, clientVars
  <2>2. r.fd \in Fds
    BY <2>1, TakeRemoves, RequestTypes
  <2>3. \A fd \in Patient : shown'[fd] => shown[fd]
    BY <2>1, PatientAssumption
  <2>4. /\ OneAtATime' /\ AllFit'
        /\ \A fd : fd # r.fd => (InQueue(fd)' <=> InQueue(fd))
    BY <2>1, <2>3, TakingFits
  <2>5. /\ source # NoUser => source \in Users /\ socket[source] = r.fd
        /\ source = NoUser => \A u \in Users : socket[u] # r.fd
    BY GetUsernameFinds
  <2>. HIDE DEF r, source
  <2>6. \/ source # NoUser /\ socket' = [socket EXCEPT ![source] = NoSocket]
        \/ source = NoUser /\ socket' = socket
    BY <2>1 DEF SetUserOffline
  <2>7. ASSUME NEW u \in Users, FreshTable, socket'[u] \in Patient PROVE Seated(u)'
    <3>1. socket'[u] = socket[u] /\ u # source /\ Seated(u)
      BY <2>5, <2>6, <2>7, UsersAssumption DEF AllSeated, NoUser
    <3>2. socket[u] # r.fd
      BY <2>5, <3>1 DEF Seated, SeatedAlone
    <3>3. SeatedAlone(u)'
      BY <2>6, <2>7, <3>1 DEF Seated, SeatedAlone
    <3>4. shown'[socket[u]] /\ socket[u] \in loggedIn'
      BY <2>1, <2>2, <2>7, <3>1, <3>2, PatientAssumption DEF Seated
    <3>. QED BY <2>1, <2>4, <3>1, <3>2, <3>3, <3>4 DEF Seated
  <2>8. AllSeated'
    BY <2>1, <2>7 DEF AllSeated, FreshTable
  <2>. QED BY <2>4, <2>8 DEF PatientInv
<1>. QED BY <1>1, <1>2, <1>3, <1>4 DEF Control

\* Every step keeps the order of those that wait; a restart leaves nothing on the
\* way and ends what is claimed of the table.
LEMMA StepPatientInv == TypeOK /\ PatientInv /\ [Next]_vars => PatientInv'
<1>. SUFFICES ASSUME TypeOK, PatientInv, [Next]_vars PROVE PatientInv'
  OBVIOUS
<1>1. CASE Restart
  <2>1. Queued' = << >>
    BY <1>1 DEF Restart, Queued
  <2>2. ~FreshTable'
    BY <1>1 DEF Restart, TypeOK, FreshTable
  <2>. QED BY <2>1, <2>2 DEF PatientInv, OneAtATime, AllFit, AllSeated
<1>2. CASE UNCHANGED vars
  BY <1>2 DEF vars, PatientInv, OneAtATime, AllFit, Fits, AllSeated, FreshTable, Seated,
              SeatedAlone, InQueue, Queued
<1>. QED BY <1>1, <1>2, ClientPatientInv, ControlPatientInv DEF Next

\* Once the closing of a connection has been handled nobody is found on it, if its
\* client waits: however the requests of others are mixed with its own.
THEOREM ClosedConnectionsAreLeft == Spec => []NobodyIsOnAPatientClosedSocket
<1>1. PatientInv => NobodyIsOnAPatientClosedSocket
  <2>. SUFFICES ASSUME PatientInv, FreshTable, NEW u \in Users, GetSocket(u) \in Patient,
                       ClosedFor(GetSocket(u))
                PROVE  FALSE
    BY DEF NobodyIsOnAPatientClosedSocket
  <2>1. GetSocket(u) = socket[u]
    BY SocketTypes, PatientAssumption DEF GetSocket
  <2>. QED BY <2>1 DEF PatientInv, AllSeated, Seated, ClosedFor
<1>. QED BY <1>1, InitPatientInv, StepPatientInv, SessionTypes, PTL DEF Spec

\* Whoever is online has a socket, and from a client that waits one that is in the
\* set of those that notifications are written to.
THEOREM OnlineUsersHear == Spec => []OnlineUsersAreNotified
<1>1. PatientInv /\ OnlineMeansSocket => OnlineUsersAreNotified
  <2>. SUFFICES ASSUME PatientInv, FreshTable, NEW u \in Users, GetSocket(u) \in Patient
                PROVE  GetSocket(u) \in loggedIn
    BY DEF OnlineUsersAreNotified
  <2>1. GetSocket(u) = socket[u]
    BY SocketTypes, PatientAssumption DEF GetSocket
  <2>. QED BY <2>1 DEF PatientInv, AllSeated, Seated
<1>. QED BY <1>1, InitPatientInv, StepPatientInv, SessionTypes, TableAgrees, PTL DEF Spec
===============================================================================
