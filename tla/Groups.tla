-------------------------------- MODULE Groups --------------------------------
(***************************************************************************)
(* Chats with a name, and the stored messages: the tables chats,           *)
(* chats_users_xref and messages of main.db, and the handlers of the       *)
(* control thread that read and write them (server.cpp).                   *)
(*                                                                         *)
(* The control thread handles one request at a time, so a handler is one   *)
(* step.  Friendships come and go as SocialGraph describes; here they are  *)
(* a set of pairs, and the acceptance of a request also makes the chat of  *)
(* the two.  A chat is looked up by its name, and where there is none the  *)
(* id returned was never set: it is any of Unset, at every look-up anew.   *)
(***************************************************************************)
EXTENDS Integers, Sequences, FiniteSetsExt

CONSTANTS
  Users,         \* the users of the sessions requests come from
  Nobody,        \* what get_username says of a connection without a session
  Names,         \* the names groups are asked for by
  Individual,    \* "individual_chat", the name of every chat of two friends
  Rosters,       \* the sets of users a group is asked for with
  Unset,         \* what an integer that was never set may hold
  MaxChats,      \* bound: rows of chats
  MaxMessages    \* bound: rows of messages

ASSUME NamesAssumption == Individual \notin Names /\ Nobody \notin Users
ASSUME RostersAssumption == Rosters \subseteq SUBSET Users
ASSUME UnsetAssumption == Unset \subseteq Int /\ Unset # {}
ASSUME BoundsAssumption == MaxChats \in Nat /\ MaxMessages \in Nat

VARIABLES
  friends,    \* the pairs {u, v} with edge 0
  chats,      \* chats[id]: the name of chat id, and its users in chats_users_xref
  messages,   \* the rows of messages, in order
  request,    \* the request handled last
  reply       \* what its handler wrote to the clients

vars == <<friends, chats, messages, request, reply>>

Askers == Users \cup {Nobody}

Pairs == {{u, v} : u, v \in Users} \ {{u} : u \in Users}

\* A message is by its owner, in a chat; "to" is what the owner wrote to, a
\* friend or a group by name, and "known" whether it was a group that existed.
Messages == [owner : Users, chat : Int, to : Names \cup Users, known : BOOLEAN]

Requests ==
  [cmd : {"none", "accept", "unfriend", "creategroup", "messagegroup", "getgroupmessages",
          "leavegroup", "message", "getmessages", "login"},
   by : Askers, about : Names \cup Users \cup {Nobody}]

\* A reply names a group or a user, and lists users or rows of messages.
Replies ==
  [to : Askers, says : {"group", "messagegroup", "group_messages", "leavegroup", "left",
                        "message", "all_messages", "groups"},
   about : Names \cup Users, users : SUBSET Users, texts : SUBSET (1..MaxMessages)]

Says(u, what, about) == [to |-> u, says |-> what, about |-> about, users |-> {}, texts |-> {}]

Handling(cmd, u, about) == request' = [cmd |-> cmd, by |-> u, about |-> about]

-------------------------------------------------------------------------------
(* The queries *)

CheckFriend(u, v) == {u, v} \in friends

IdsOf(name) == {id \in 1..Len(chats) : chats[id].name = name}

NewestOfName(name) == IF IdsOf(name) = {} THEN Unset ELSE {Max(IdsOf(name))}

\* The first row of the name; nothing keeps a name from being used again.
GroupId(name) == IF IdsOf(name) = {} THEN Unset ELSE {Min(IdsOf(name))}

\* The query has no space between a table and WHERE, is never prepared, and
\* the id it should have set is returned as it was.
ChatId(receiver, sender) == Unset

Members(id) == IF id \in 1..Len(chats) THEN chats[id].users ELSE {}

TextsOf(id) == {m \in 1..Len(messages) : messages[m].chat = id}

ChatsOf(u) == {chats[id].name : id \in {i \in 1..Len(chats) : u \in chats[i].users}}

\* The names of the chats a user is in, but those of two friends.
GroupsOf(u) ==
  {chats[id].name : id \in {i \in 1..Len(chats) : u \in chats[i].users}} \ {Individual}

-------------------------------------------------------------------------------
(* The handlers *)

NewChat(name, users) == chats' = Append(chats, [name |-> name, users |-> users])

Store(row) == messages' = Append(messages, row)

\* An accepted request (SocialGraph): the edges, and a chat of the two.
Accept(u, v) ==
  /\ {u, v} \in Pairs \ friends
  /\ Len(chats) < MaxChats
  /\ friends' = friends \cup {{u, v}}
  /\ NewChat(Individual, {u, v})
  /\ Handling("accept", u, v)
  /\ reply' = {}
  /\ UNCHANGED messages

\* Any request that ends a friendship; the chat stays.
Unfriend(u, v) ==
  /\ CheckFriend(u, v)
  /\ friends' = friends \ {{u, v}}
  /\ Handling("unfriend", u, v)
  /\ reply' = {}
  /\ UNCHANGED <<chats, messages>>

CreateUnchecked(u, name, roster) ==
  /\ Len(chats) < MaxChats
  /\ NewChat(name, roster)
  /\ reply' = {[Says(v, "group", name) EXCEPT !.users = roster] : v \in roster}
  /\ Handling("creategroup", u, name)
  /\ UNCHANGED <<friends, messages>>

\* The chat is made whatever the check of the roster says; without it the chat
\* stays empty, yet all of the roster are told of their group.
CreateGroup(u, name, roster) ==
  /\ Len(chats) < MaxChats
  /\ NewChat(name, IF \A v \in roster : v = u \/ CheckFriend(u, v) THEN roster ELSE {})
  /\ reply' = {[Says(v, "group", name) EXCEPT !.users = roster] : v \in roster}
  /\ Handling("creategroup", u, name)
  /\ UNCHANGED <<friends, messages>>

SendUnlessEmpty(u, name) ==
  /\ Len(messages) < MaxMessages
  /\ Handling("messagegroup", u, name)
  /\ \E id \in GroupId(name) :
       IF u # Nobody /\ Members(id) # {}
         THEN /\ Store([owner |-> u, chat |-> id, to |-> name, known |-> IdsOf(name) # {}])
              /\ reply' = {Says(v, "messagegroup", name) : v \in Members(id)}
         ELSE reply' = {} /\ UNCHANGED messages
  /\ UNCHANGED <<friends, chats>>

\* user_in_group looks the name up, and so does send_group after it.
SendGroup(u, name) ==
  /\ Len(messages) < MaxMessages
  /\ Handling("messagegroup", u, name)
  /\ \E checked, id \in GroupId(name) :
       IF u \in Members(checked) /\ Members(id) # {}
         THEN /\ Store([owner |-> u, chat |-> id, to |-> name, known |-> IdsOf(name) # {}])
              /\ reply' = {Says(v, "messagegroup", name) : v \in Members(id)}
         ELSE reply' = {} /\ UNCHANGED messages
  /\ UNCHANGED <<friends, chats>>

\* The history of a group is for everybody who asks.
GetGroupMessages(u, name) ==
  /\ Handling("getgroupmessages", u, name)
  /\ \E id \in GroupId(name) :
       reply' = {[Says(u, "group_messages", name) EXCEPT !.texts = TextsOf(id)]}
  /\ UNCHANGED <<friends, chats, messages>>

\* Whoever asks is told that she has left; who is told of it is looked up anew.
LeaveGroup(u, name) ==
  /\ Handling("leavegroup", u, name)
  /\ \E id, told \in GroupId(name) :
       /\ chats' = [i \in DOMAIN chats |->
                      IF i = id THEN [chats[i] EXCEPT !.users = @ \ {u}] ELSE chats[i]]
       /\ reply' = {Says(u, "left", name)}
                     \cup {Says(v, "leavegroup", name) : v \in Members(told)'}
  /\ UNCHANGED <<friends, messages>>

\* To a friend: stored under the chat of the two, and delivered.
Message(u, v) ==
  /\ CheckFriend(u, v)
  /\ Len(messages) < MaxMessages
  /\ Handling("message", u, v)
  /\ \E id \in ChatId(v, u) : Store([owner |-> u, chat |-> id, to |-> v, known |-> FALSE])
  /\ reply' = {Says(v, "message", u)}
  /\ UNCHANGED <<friends, chats>>

GetMessages(u, v) ==
  /\ CheckFriend(u, v)
  /\ Handling("getmessages", u, v)
  /\ \E id \in ChatId(u, v) :
       reply' = {[Says(u, "all_messages", v) EXCEPT !.texts = TextsOf(id)]}
  /\ UNCHANGED <<friends, chats, messages>>

\* The groups a user is told of after a login: the names of her chats, each with
\* the members of the first chat of that name.
ListGroups(u) ==
  /\ Handling("login", u, Nobody)
  /\ reply' = {[Says(u, "groups", name) EXCEPT !.users = UNION {Members(id) : id \in GroupId(name)}]
                : name \in GroupsOf(u)}
  /\ UNCHANGED <<friends, chats, messages>>

-------------------------------------------------------------------------------

Init ==
  /\ friends = {}
  /\ chats = << >>
  /\ messages = << >>
  /\ request = [cmd |-> "none", by |-> Nobody, about |-> Nobody]
  /\ reply = {}

Named(u, name) ==
  \/ \E roster \in Rosters : CreateGroup(u, name, roster)
  \/ SendGroup(u, name)
  \/ GetGroupMessages(u, name)
  \/ LeaveGroup(u, name)

Between(u, v) ==
  \/ Accept(u, v)
  \/ Unfriend(u, v)
  \/ Message(u, v)
  \/ GetMessages(u, v)

Next ==
  \/ \E u \in Askers, name \in Names : Named(u, name)
  \/ \E u, v \in Users : Between(u, v)
  \/ \E u \in Users : ListGroups(u)

Spec == Init /\ [][Next]_vars

-------------------------------------------------------------------------------
(* Properties *)

\* Rows of chats and messages, the request and its replies keep their types.
TypeOK ==
  /\ friends \subseteq Pairs
  /\ chats \in Seq([name : Names \cup {Individual}, users : SUBSET Users])
  /\ Len(chats) <= MaxChats
  /\ messages \in Seq(Messages)
  /\ Len(messages) <= MaxMessages
  /\ request \in Requests
  /\ reply \subseteq Replies

\* Nobody is put into a group by a stranger, nor taken out of one by another:
\* who is new in a chat asked for it or is a friend of the one who did, and who
\* is gone asked to leave, under a name or none, set or unset ids alike.
MembershipIsConsented ==
  [][\A id \in 1..MaxChats :
       LET new == Members(id)' \ Members(id)
           gone == Members(id) \ Members(id)' IN
         /\ \A u \in new : u = request'.by \/ {u, request'.by} \in friends'
         /\ gone \subseteq {request'.by}]_vars

\* A group, once it exists, keeps its history: whatever was written to the name
\* is there for whoever opens it.  It rests on names that are given again never
\* changing what they stand for.
HistoryOfAGroup ==
  \A r \in reply : (r.says = "group_messages" /\ IdsOf(r.about) # {}) =>
    {m \in 1..Len(messages) : messages[m].to = r.about /\ messages[m].known} \subseteq r.texts

\* What is written to a group that exists is by a member, and is delivered to
\* those, and only those, who are in the chat it is stored in.
DeliveredWhereStored ==
  \A r \in reply : r.says = "messagegroup" =>
    LET m == messages[Len(messages)] IN
      /\ r.to \in Members(m.chat)
      /\ \A u \in Members(m.chat) : Says(u, "messagegroup", r.about) \in reply
      /\ m.known => m.owner \in Members(m.chat)

\* What a user is told of after a login: the name of every group she is in and
\* of no other, each with the users of the oldest chat of that name.  She is
\* among them if the name was given once; where it was given again the group
\* she is in can be hidden by an older one, or by a refused one without users.
ListedGroupsAreOnesOwn ==
  request.cmd = "login" =>
    LET own == {id \in 1..Len(chats) :
                  request.by \in chats[id].users /\ chats[id].name # Individual} IN
      /\ \A id \in own : \E r \in reply : r.about = chats[id].name
      /\ \A r \in reply :
           /\ r.says = "groups" /\ r.to = request.by
           /\ \E id \in own : chats[id].name = r.about
           /\ \E first \in IdsOf(r.about) :
                /\ \A id \in IdsOf(r.about) : first <= id
                /\ r.users = chats[first].users
                /\ IdsOf(r.about) = {first} => r.to \in r.users

\* What a user is shown as the chat with a friend was written by the two, to
\* one another.
HistoryIsOfThePair ==
  \A r \in reply : r.says = "all_messages" =>
    \A m \in r.texts : {messages[m].owner, messages[m].to} = {r.to, r.about}
===============================================================================
