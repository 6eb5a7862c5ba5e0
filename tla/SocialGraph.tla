------------------------------ MODULE SocialGraph ------------------------------
(***************************************************************************)
(* The social graph of the chat server: the friends table of main.db, the  *)
(* chats an accepted request creates, and the handlers of the control      *)
(* thread that read and write them (server.cpp, control_thread and the     *)
(* functions it calls).                                                    *)
(*                                                                         *)
(* The control thread is the only thread that opens the database, so the   *)
(* handlers do not interleave.  Each of their SQL statements commits by    *)
(* itself, though, and the process may die between two of them: a handler  *)
(* that writes is therefore one step per statement, and Crash may fall     *)
(* between any two.  A user name stands for the session get_username finds *)
(* for the socket a request came from (Sessions.tla).                      *)
(***************************************************************************)
EXTENDS Integers, Sequences

CONSTANTS
  Users,       \* the names requests are made by and about
  Asked,       \* bound: the pairs <<from, to>> requests are made for
  MaxChats,    \* bound: individual chats created
  MaxCrashes   \* bound: deaths of the server process

ASSUME UsersAssumption == Asked \subseteq Users \X Users
ASSUME BoundsAssumption == MaxChats \in Nat /\ MaxCrashes \in Nat

VARIABLES
  registered,  \* users with a row in the users table
  friends,     \* friends[<<u, v>>]: the edges of the rows (u, v), in rowid order
  chats,       \* chats[id]: the members of individual chat id
  pc,          \* the next statement of the handler being run, or "idle"
  job,         \* the request being handled, or NoJob
  reply,       \* what the last finished handler wrote to the clients
  crashes,     \* deaths so far
  wanted       \* history: <<u, v>> when u has asked for, or accepted, what u and v are

vars == <<registered, friends, chats, pc, job, reply, crashes, wanted>>

Edges == -2..2           \* 0 friends, 1 requested, 2 blocked; < 0 by the other
NoEdge == 3              \* what check_friend returns for no row

Writing == {"block", "unblock", "friend", "accept", "reject"}
Deleting == {"unblock", "reject"}

Jobs == [cmd : Writing, from : Users, to : Users, exists : BOOLEAN]
NoJob == [cmd |-> "none"]

Statements == {"row1", "row2", "chat", "xref_to", "xref_from", "answer"}

Replies ==
  [to : Users, about : Users,
   says : {"nfound", "notblocked", "blocked", "unblocked", "sentreq", "recvreq",
           "accepted", "acceptedyour", "rejected", "rejectedyour", "sendreq",
           "ublock", "acreq", "notacreq", "message"}]

Says(u, what, v) == [to |-> u, says |-> what, about |-> v]

-------------------------------------------------------------------------------
(* The queries *)

CheckPairEdge(u, v) == friends[<<u, v>>] # << >>

CheckFriend(u, v) == IF CheckPairEdge(u, v) THEN friends[<<u, v>>][1] ELSE NoEdge

FindUsername(u) == u \in registered

-------------------------------------------------------------------------------
(* The statements.  Plausible slips in them are kept beside them, to see     *)
(* which property notices.                                                   *)

\* The edges written by the first and the second statement of each handler.
FirstEdge(cmd) == CASE cmd = "block" -> 2 [] cmd = "friend" -> 1 [] OTHER -> 0

SecondEdge(cmd) == CASE cmd = "block" -> -2 [] cmd = "friend" -> -1 [] OTHER -> 0

InsertAlways(rows, edge) ==
  IF job.cmd \in Deleting THEN << >>
  ELSE IF job.cmd = "accept" THEN [i \in 1..Len(rows) |-> edge]
  ELSE Append(rows, edge)

DeleteOneRow(rows, edge) ==
  IF job.cmd \in Deleting THEN (IF rows = << >> THEN << >> ELSE Tail(rows))
  ELSE IF job.cmd = "accept" \/ job.exists THEN [i \in 1..Len(rows) |-> edge]
  ELSE Append(rows, edge)

KeepRowOfNoEdge(rows, edge) ==
  IF job.cmd = "accept" \/ job.exists
    THEN [i \in 1..Len(rows) |-> IF job.cmd \in Deleting THEN NoEdge ELSE edge]
    ELSE Append(rows, edge)

\* UPDATE and DELETE reach every row of the pair; the choice between UPDATE
\* and INSERT was made once, from the rows of (from, to), for both statements.
Written(rows, edge) ==
  IF job.cmd \in Deleting THEN << >>
  ELSE IF job.cmd = "accept" \/ job.exists THEN [i \in 1..Len(rows) |-> edge]
  ELSE Append(rows, edge)

FirstRow ==
  /\ pc = "row1"
  /\ friends' = [friends EXCEPT ![<<job.from, job.to>>] = Written(@, FirstEdge(job.cmd))]
  /\ pc' = "row2"
  /\ UNCHANGED <<registered, chats, job, reply, crashes, wanted>>

SecondRow ==
  /\ pc = "row2"
  /\ friends' = [friends EXCEPT ![<<job.to, job.from>>] = Written(@, SecondEdge(job.cmd))]
  /\ pc' = IF job.cmd = "accept" THEN "chat" ELSE "answer"
  /\ UNCHANGED <<registered, chats, job, reply, crashes, wanted>>

InsertChat ==
  /\ pc = "chat"
  /\ chats' = Append(chats, {})
  /\ pc' = "xref_to"
  /\ UNCHANGED <<registered, friends, job, reply, crashes, wanted>>

AddMemberTwice ==
  /\ pc \in {"xref_to", "xref_from"}
  /\ chats' = [chats EXCEPT ![Len(chats)] = @ \cup {job.to}]
  /\ pc' = IF pc = "xref_to" THEN "xref_from" ELSE "answer"
  /\ UNCHANGED <<registered, friends, job, reply, crashes, wanted>>

\* The id is last_insert_rowid, that of the chat just inserted.  The UNIQUE
\* index on (username, chat_id) refuses a second row for the same member.
AddMember ==
  /\ pc \in {"xref_to", "xref_from"}
  /\ chats' = [chats EXCEPT ![Len(chats)] =
                 @ \cup {IF pc = "xref_to" THEN job.to ELSE job.from}]
  /\ pc' = IF pc = "xref_to" THEN "xref_from" ELSE "answer"
  /\ UNCHANGED <<registered, friends, job, reply, crashes, wanted>>

\* What the handler writes to the sockets of the two users when it is done.
\* A reply to a user who is offline goes nowhere; it is kept here all the same.
Answers(cmd, u, v) ==
  CASE cmd = "block"   -> {Says(u, "blocked", v)}
    [] cmd = "unblock" -> {Says(u, "unblocked", v)}
    [] cmd = "friend"  -> {Says(u, "sentreq", v), Says(v, "recvreq", u)}
    [] cmd = "accept"  -> {Says(u, "accepted", v), Says(v, "acceptedyour", u)}
    [] cmd = "reject"  -> {Says(u, "rejected", v), Says(v, "rejectedyour", u)}

Answer ==
  /\ pc = "answer"
  /\ reply' = Answers(job.cmd, job.from, job.to)
  /\ job' = NoJob
  /\ pc' = "idle"
  /\ UNCHANGED <<registered, friends, chats, crashes, wanted>>

-------------------------------------------------------------------------------
(* The handlers of the control thread, up to their first write *)

\* A request of a registered user is taken when no other is being handled.
Request(u, v) ==
  /\ pc = "idle"
  /\ <<u, v>> \in Asked
  /\ FindUsername(u)

\* Who wants what a pair is once the request of u about v is granted: a request
\* needs a new answer, a block, an unblock or a refusal ends what both wanted.
Wishes(cmd, u, v) ==
  LET others == wanted \ {<<u, v>>, <<v, u>>} IN
  CASE cmd = "friend" -> others \cup {<<u, v>>}
    [] cmd = "accept" -> wanted \cup {<<u, v>>}
    [] OTHER          -> others

Start(cmd, u, v) ==
  /\ job' = [cmd |-> cmd, from |-> u, to |-> v, exists |-> CheckPairEdge(u, v)]
  /\ pc' = "row1"
  /\ reply' = {}
  /\ wanted' = Wishes(cmd, u, v)
  /\ UNCHANGED <<registered, friends, chats, crashes>>

Respond(answers) ==
  /\ reply' = answers
  /\ UNCHANGED <<registered, friends, chats, pc, job, crashes, wanted>>

Register(u) ==
  /\ pc = "idle"
  /\ ~FindUsername(u)
  /\ registered' = registered \cup {u}
  /\ reply' = {}
  /\ UNCHANGED <<friends, chats, pc, job, crashes, wanted>>

GuardOnRegistrationOnly(cmd, u, v) ==
  /\ Request(u, v)
  /\ FindUsername(v)
  /\ Start(cmd, u, v)

\* block and friend have the same guards: refused when the other side has
\* blocked the sender, silent about a name nobody registered.
BlockOrFriend(cmd, u, v) ==
  /\ Request(u, v)
  /\ \/ CheckFriend(u, v) = -2 /\ Respond({Says(u, "nfound", v)})
     \/ CheckFriend(u, v) # -2 /\ FindUsername(v) /\ Start(cmd, u, v)
     \/ CheckFriend(u, v) # -2 /\ ~FindUsername(v) /\ Respond({})

Block(u, v) == BlockOrFriend("block", u, v)

Friend(u, v) == BlockOrFriend("friend", u, v)

Unblock(u, v) ==
  /\ Request(u, v)
  /\ \/ CheckFriend(u, v) = 2 /\ Start("unblock", u, v)
     \/ /\ CheckFriend(u, v) \notin {-2, 2}
        /\ FindUsername(v)
        /\ Respond({Says(u, "notblocked", v)})
     \/ /\ CheckFriend(u, v) # 2
        /\ CheckFriend(u, v) = -2 \/ ~FindUsername(v)
        /\ Respond({Says(u, "nfound", v)})

AcceptAnyEdge(u, v) ==
  /\ Request(u, v)
  /\ Len(chats) < MaxChats
  /\ IF CheckPairEdge(u, v) THEN Start("accept", u, v) ELSE Respond({})

\* Len(chats) < MaxChats is the bound, not a guard of the code.
Accept(u, v) ==
  /\ Request(u, v)
  /\ Len(chats) < MaxChats
  /\ IF CheckFriend(u, v) = -1 THEN Start("accept", u, v) ELSE Respond({})

\* The only handler of a change that does not look at the edge at all.
Reject(u, v) ==
  /\ Request(u, v)
  /\ IF FindUsername(v) THEN Start("reject", u, v) ELSE Respond({})

MessageUnlessBlocked(u, v) ==
  /\ Request(u, v)
  /\ Respond(IF CheckFriend(u, v) # -2 THEN {Says(v, "message", u)} ELSE {Says(u, "nfound", v)})

\* message: delivered (or stored for later) only along a friendship.
Message(u, v) ==
  LET edge == CheckFriend(u, v) IN
  /\ Request(u, v)
  /\ Respond(IF edge = 0 THEN {Says(v, "message", u)}
             ELSE {Says(u, CASE edge = 3  -> "sendreq"
                             [] edge = 2  -> "ublock"
                             [] edge = -2 -> "nfound"
                             [] edge = -1 -> "acreq"
                             [] edge = 1  -> "notacreq", v)})

\* The process dies inside a handler: the tables keep what was committed.
Crash ==
  /\ pc # "idle"
  /\ crashes < MaxCrashes
  /\ crashes' = crashes + 1
  /\ pc' = "idle"
  /\ job' = NoJob
  /\ UNCHANGED <<registered, friends, chats, reply, wanted>>

-------------------------------------------------------------------------------

Init ==
  /\ registered = {}
  /\ friends = [pair \in Users \X Users |-> << >>]
  /\ chats = << >>
  /\ pc = "idle"
  /\ job = NoJob
  /\ reply = {}
  /\ crashes = 0
  /\ wanted = {}

Statement == FirstRow \/ SecondRow \/ InsertChat \/ AddMember \/ Answer

Handle(u, v) ==
  \/ Block(u, v)
  \/ Unblock(u, v)
  \/ Friend(u, v)
  \/ Accept(u, v)
  \/ Reject(u, v)
  \/ Message(u, v)

Next ==
  \/ \E u \in Users : Register(u)
  \/ \E u, v \in Users : Handle(u, v)
  \/ Statement
  \/ Crash

Spec == Init /\ [][Next]_vars

-------------------------------------------------------------------------------
(* Properties *)

\* The table, the chats and the handler in progress keep their types; a handler
\* is in progress exactly when the control thread is not idle.
TypeOK ==
  /\ registered \subseteq Users
  /\ friends \in [Users \X Users -> Seq(Edges)]
  /\ chats \in Seq(SUBSET Users)
  /\ pc \in Statements \cup {"idle"}
  /\ job \in Jobs \cup {NoJob}
  /\ pc = "idle" <=> job = NoJob
  /\ reply \subseteq Replies
  /\ crashes \in 0..MaxCrashes
  /\ wanted \subseteq Users \X Users

Opposite(edge) == IF edge = NoEdge THEN NoEdge ELSE -edge

\* At most one row in each direction, and the two say the same.
Mirrored(u, v) ==
  \/ friends[<<u, v>>] = << >> /\ friends[<<v, u>>] = << >>
  \/ \E edge \in Edges : friends[<<u, v>>] = <<edge>> /\ friends[<<v, u>>] = <<-edge>>

\* Between requests the two directions of a pair agree: who is told "you have
\* blocked" faces one who is refused, who waits faces one who can accept.  Two
\* UPDATE/INSERT pairs chosen by one look at one direction rely on it.
EdgesMirror == pc = "idle" => \A u, v \in Users : u # v => Mirrored(u, v)

\* The edges a reply claims for the user it is written to.
Claimed(says) ==
  CASE says \in {"blocked", "ublock"}                                 -> {2}
    [] says \in {"sentreq", "notacreq"}                               -> {1}
    [] says \in {"recvreq", "acreq"}                                  -> {-1}
    [] says \in {"accepted", "acceptedyour", "message"}               -> {0}
    [] says \in {"unblocked", "rejected", "rejectedyour", "sendreq"}  -> {NoEdge}
    [] says = "notblocked"                                            -> {-1, 0, 1, NoEdge}
    [] says = "nfound"                                                -> {-2, NoEdge}

\* Both clients are told what the table holds, in both directions: a request is
\* acknowledged only when the other side is bound by it, and a message arrives
\* only where the receiver, too, still is a friend of the sender.
RepliesTellTheTruth ==
  \A r \in reply : r.to # r.about =>
    /\ CheckFriend(r.to, r.about) \in Claimed(r.says)
    /\ CheckFriend(r.about, r.to) = Opposite(CheckFriend(r.to, r.about))

Notifications == {"recvreq", "acceptedyour", "rejectedyour", "message"}

\* What survives a crash between two statements: the one who asked is told the
\* truth about the own direction even over rows an earlier crash left behind.
SenderIsToldTheTruth ==
  \A r \in reply : (r.to # r.about /\ r.says \notin Notifications) =>
    CheckFriend(r.to, r.about) \in Claimed(r.says)

\* A refusal or an unblock, once acknowledged, leaves no row in either
\* direction: it repairs whatever a crash did to the pair.
RemovalRepairs ==
  \A r \in reply : r.says \in {"unblocked", "rejected", "rejectedyour"} =>
    friends[<<r.to, r.about>>] = << >> /\ friends[<<r.about, r.to>>] = << >>

\* Two friends have a chat of their own to write their messages to, whatever
\* happened between them before they became friends.
FriendsShareAChat ==
  pc = "idle" => \A u, v \in Users :
    (u # v /\ CheckFriend(u, v) = 0) => \E id \in 1..Len(chats) : chats[id] = {u, v}

\* Two users are friends only as long as both want it: one has asked and the
\* other has accepted, and neither has asked anew, blocked, unblocked or refused
\* since.  In particular a block which the blocked user lifts with a reject
\* (BlockIsLiftedByTheBlocker) never becomes a friendship without a request or
\* an acceptance of the one who had blocked.
FriendsBothWantIt ==
  pc = "idle" => \A u, v \in Users :
    (u # v /\ CheckFriend(u, v) = 0) => {<<u, v>>, <<v, u>>} \subseteq wanted

\* A block ends only by a request of the one who set it.
BlockIsLiftedByTheBlocker ==
  [][\A u, v \in Users :
       (u # v /\ CheckFriend(u, v) = 2 /\ CheckFriend(u, v)' # 2) => job.from = u]_vars

\* While a handler runs, the pair is seen from the side written first.
EdgeSeen(u, v) ==
  IF pc # "idle" /\ job.from = v /\ job.to = u
    THEN Opposite(CheckFriend(v, u))
    ELSE CheckFriend(u, v)

View(edge) ==
  CASE edge = 1  -> "asking"
    [] edge = -1 -> "asked"
    [] edge = 0  -> "friends"
    [] edge = 2  -> "blocking"
    [] edge = -2 -> "blocked"
    [] OTHER     -> "none"

Relation ==
  [u \in Users |-> [v \in Users |-> IF u = v THEN "none" ELSE View(EdgeSeen(u, v))]]

Abstract == INSTANCE Friendship WITH rel <- Relation

\* Statement by statement, the handlers implement relations that change on both
\* sides at once.
ImplementsFriendship == Abstract!Spec
===============================================================================
