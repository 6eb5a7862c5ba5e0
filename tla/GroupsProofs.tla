------------------------------ MODULE GroupsProofs ------------------------------
(***************************************************************************)
(* Theorems about Groups, for any users, names and rosters, and whatever   *)
(* an integer that was never set may hold.                                 *)
(***************************************************************************)
EXTENDS Groups, Induction

Chats == [name : Names \cup {Individual}, users : SUBSET Users]

(***************************************************************************)
(* Who is in a chat.                                                       *)
(***************************************************************************)
ChatsInv == chats \in Seq(Chats) /\ friends \subseteq Pairs

\* There are no chats at the start.
LEMMA InitChatsInv == Init => ChatsInv
  BY DEF Init, ChatsInv

\* What becomes of the chats in a step: nothing, a new one, or one user less.
LEMMA AppendKeeps ==
  ASSUME ChatsInv, NEW chat \in Chats, chats' = Append(chats, chat)
  PROVE  /\ chats' \in Seq(Chats)
         /\ \A id : Members(id)' = IF id = Len(chats) + 1 THEN chat.users ELSE Members(id)
  BY DEF ChatsInv, Members, Chats

\* To leave a group takes the one who leaves out of it and nothing else.
LEMMA LeaveKeeps ==
  ASSUME ChatsInv, NEW u, NEW name, LeaveGroup(u, name)
  PROVE  /\ chats' \in Seq(Chats) /\ Len(chats') = Len(chats)
         /\ \A i \in 1..Len(chats) : chats'[i].name = chats[i].name
         /\ \A i : Members(i)' \subseteq Members(i) /\ Members(i) \ Members(i)' \subseteq {u}
<1>1. PICK id : chats' = [i \in DOMAIN chats |->
                            IF i = id THEN [chats[i] EXCEPT !.users = @ \ {u}] ELSE chats[i]]
  BY DEF LeaveGroup
<1>2. ASSUME NEW i \in DOMAIN chats
      PROVE  /\ chats'[i] \in Chats /\ chats'[i].name = chats[i].name
             /\ chats'[i].users = IF i = id THEN chats[i].users \ {u} ELSE chats[i].users
  <2>1. chats[i] \in Chats
    BY DEF ChatsInv
  <2>. QED BY <1>1, <2>1 DEF Chats
<1>3. DOMAIN chats = 1..Len(chats) /\ Len(chats) \in Nat
  BY DEF ChatsInv
<1>4. chats' \in Seq(Chats) /\ Len(chats') = Len(chats)
  BY <1>1, <1>2, <1>3
<1>. QED BY <1>2, <1>3, <1>4 DEF Members

\* Every step keeps chats rows of chats, and friendships pairs.
LEMMA StepChatsInv == ChatsInv /\ [Next]_vars => ChatsInv'
<1>. SUFFICES ASSUME ChatsInv, [Next]_vars PROVE ChatsInv'
  OBVIOUS
<1>1. ASSUME NEW u \in Users, NEW v \in Users, Accept(u, v) PROVE ChatsInv'
  <2>1. [name |-> Individual, users |-> {u, v}] \in Chats
    BY DEF Chats
  <2>. QED BY <1>1, <2>1, AppendKeeps DEF Accept, NewChat, ChatsInv
<1>2. ASSUME NEW u \in Askers, NEW name \in Names, NEW roster \in Rosters,
             CreateGroup(u, name, roster)
      PROVE  ChatsInv'
  <2>1. \A users \in SUBSET Users : [name |-> name, users |-> users] \in Chats
    BY DEF Chats
  <2>2. roster \in SUBSET Users /\ {} \in SUBSET Users
    BY RostersAssumption
  <2>. QED BY <1>2, <2>1, <2>2, AppendKeeps DEF CreateGroup, NewChat, ChatsInv
<1>3. ASSUME NEW u \in Askers, NEW name \in Names, LeaveGroup(u, name) PROVE ChatsInv'
  BY <1>3, LeaveKeeps DEF LeaveGroup, ChatsInv
<1>4. ASSUME NEW u \in Askers, NEW name \in Names, SendGroup(u, name) \/ GetGroupMessages(u, name)
      PROVE  ChatsInv'
  BY <1>4 DEF SendGroup, GetGroupMessages, ChatsInv
<1>5. ASSUME NEW u \in Users, NEW v \in Users, Unfriend(u, v) \/ Message(u, v) \/ GetMessages(u, v)
      PROVE  ChatsInv'
  BY <1>5 DEF Unfriend, Message, GetMessages, ChatsInv
<1>6. CASE UNCHANGED vars
  BY <1>6 DEF vars, ChatsInv
<1>7. ASSUME NEW u \in Users, ListGroups(u) PROVE ChatsInv'
  BY <1>7 DEF ListGroups, ChatsInv
<1>. QED BY <1>1, <1>2, <1>3, <1>4, <1>5, <1>6, <1>7 DEF Next, Named, Between

\* One chat at a time.
Consented(id) ==
  LET new == Members(id)' \ Members(id)
      gone == Members(id) \ Members(id)' IN
    /\ \A u \in new : u = request'.by \/ {u, request'.by} \in friends'
    /\ gone \subseteq {request'.by}

\* Every step changes the members of a chat by consent only.
LEMMA StepConsented ==
  ASSUME ChatsInv, Next, NEW id
  PROVE  Consented(id)
<1>1. ASSUME NEW u \in Users, NEW v \in Users, Accept(u, v) PROVE Consented(id)
  <2>1. [name |-> Individual, users |-> {u, v}] \in Chats
    BY DEF Chats
  <2>2. Members(id)' = IF id = Len(chats) + 1 THEN {u, v} ELSE Members(id)
    BY <1>1, <2>1, AppendKeeps DEF Accept, NewChat
  <2>3. id = Len(chats) + 1 => Members(id) = {}
    BY DEF ChatsInv, Members
  <2>4. request'.by = u /\ {v, u} \in friends'
    <3>1. {v, u} = {u, v}
      OBVIOUS
    <3>. QED BY <1>1, <3>1 DEF Accept, Handling
  <2>. QED BY <2>2, <2>3, <2>4 DEF Consented
<1>2. ASSUME NEW u \in Askers, NEW name \in Names, NEW roster \in Rosters,
             CreateGroup(u, name, roster)
      PROVE  Consented(id)
  <2>. DEFINE users == IF \A v \in roster : v = u \/ CheckFriend(u, v) THEN roster ELSE {}
  <2>1. users \in SUBSET Users
    BY RostersAssumption
  <2>2. [name |-> name, users |-> users] \in Chats
    BY <2>1 DEF Chats
  <2>3. chats' = Append(chats, [name |-> name, users |-> users])
    BY <1>2 DEF CreateGroup, NewChat
  <2>4. \A v \in users : v = u \/ {v, u} \in friends
    <3>1. \A v : {v, u} = {u, v}
      OBVIOUS
    <3>. QED BY <3>1 DEF CheckFriend
  <2>. HIDE DEF users
  <2>5. Members(id)' = IF id = Len(chats) + 1 THEN users ELSE Members(id)
    BY <2>2, <2>3, AppendKeeps
  <2>6. id = Len(chats) + 1 => Members(id) = {}
    BY DEF ChatsInv, Members
  <2>7. request'.by = u /\ friends' = friends
    BY <1>2 DEF CreateGroup, Handling
  <2>. QED BY <2>4, <2>5, <2>6, <2>7 DEF Consented
<1>3. ASSUME NEW u \in Askers, NEW name \in Names, LeaveGroup(u, name) PROVE Consented(id)
  <2>1. request'.by = u
    BY <1>3 DEF LeaveGroup, Handling
  <2>. QED BY <1>3, <2>1, LeaveKeeps DEF Consented
<1>4. ASSUME chats' = chats PROVE Consented(id)
  BY <1>4 DEF Consented, Members
<1>5. ASSUME NEW u \in Askers, NEW name \in Names, SendGroup(u, name) \/ GetGroupMessages(u, name)
      PROVE  Consented(id)
  BY <1>4, <1>5 DEF SendGroup, GetGroupMessages
<1>6. ASSUME NEW u \in Users, NEW v \in Users, Unfriend(u, v) \/ Message(u, v) \/ GetMessages(u, v)
      PROVE  Consented(id)
  BY <1>4, <1>6 DEF Unfriend, Message, GetMessages
<1>7. ASSUME NEW u \in Users, ListGroups(u) PROVE Consented(id)
  BY <1>4, <1>7 DEF ListGroups
<1>. QED BY <1>1, <1>2, <1>3, <1>5, <1>6, <1>7 DEF Next, Named, Between

\* Nobody is put into a group by a stranger or taken out of one by another.
THEOREM MembersConsent == Spec => MembershipIsConsented
<1>. DEFINE Step == \A id \in 1..MaxChats :
       LET new == Members(id)' \ Members(id)
           gone == Members(id) \ Members(id)' IN
         /\ \A u \in new : u = request'.by \/ {u, request'.by} \in friends'
         /\ gone \subseteq {request'.by}
<1>1. ChatsInv /\ [Next]_vars => [Step]_vars
  BY StepConsented DEF Consented
<1>. QED BY <1>1, InitChatsInv, StepChatsInv, PTL DEF Spec, MembershipIsConsented

-------------------------------------------------------------------------------
(***************************************************************************)
(* What a name stands for.  Rows of chats are only added and keep their    *)
(* names, so the first row of a name, once there is one, stays the first.  *)
(* Every message that was written to a group that existed is stored there. *)
(***************************************************************************)
Least(id, ids) == id \in ids /\ \A other \in ids : id <= other

\* A least element, for the provers, is what Min chooses.
LEMMA LeastIsMin ==
  ASSUME NEW ids \in SUBSET Int, NEW id, Least(id, ids)
  PROVE  Min(ids) = id
<1>1. id \in ids /\ id \in Int /\ \A other \in ids : id <= other
  BY DEF Least
<1>2. ASSUME NEW x \in ids, \A y \in ids : x <= y PROVE x = id
  <2>1. x <= id /\ id <= x /\ x \in Int
    BY <1>1, <1>2
  <2>. QED BY <1>1, <2>1
<1>. QED BY <1>1, <1>2 DEF Min

NamesHaveAFirst == \A name : IdsOf(name) # {} => \E id : Least(id, IdsOf(name))

StoredUnderTheFirst ==
  \A m \in 1..Len(messages) : messages[m].known =>
    Least(messages[m].chat, IdsOf(messages[m].to))

HistoryInv == NamesHaveAFirst /\ StoredUnderTheFirst /\ messages \in Seq(Messages)

\* There are no names and no messages at the start.
LEMMA InitHistoryInv == Init => HistoryInv
  BY DEF Init, HistoryInv, NamesHaveAFirst, StoredUnderTheFirst, IdsOf

\* A new chat, or a member less, leaves the first of a name where it is.
LEMMA FirstStays ==
  ASSUME ChatsInv, NEW name, NEW id, Least(id, IdsOf(name)),
         \/ \E chat \in Chats : chats' = Append(chats, chat)
         \/ \E u, v : LeaveGroup(u, v)
         \/ chats' = chats
  PROVE  Least(id, IdsOf(name))'
<1>0. chats \in Seq(Chats) /\ Len(chats) \in Nat
  BY DEF ChatsInv
<1>1. ASSUME NEW chat \in Chats, chats' = Append(chats, chat) PROVE Least(id, IdsOf(name))'
  <2>1. Len(chats') = Len(chats) + 1 /\ \A i \in 1..Len(chats) : chats'[i] = chats[i]
    BY <1>0, <1>1
  <2>2. IdsOf(name) \subseteq IdsOf(name)' /\ IdsOf(name)' \subseteq IdsOf(name) \cup {Len(chats) + 1}
    BY <1>0, <2>1 DEF IdsOf
  <2>3. id \in 1..Len(chats) /\ id \in IdsOf(name) /\ \A other \in IdsOf(name) : id <= other
    BY DEF Least, IdsOf
  <2>4. ASSUME NEW other \in IdsOf(name)' PROVE id <= other
    <3>1. CASE other = Len(chats) + 1
      BY <1>0, <2>3, <3>1
    <3>. QED BY <2>2, <2>3, <2>4, <3>1
  <2>. QED BY <2>2, <2>3, <2>4 DEF Least
<1>2. ASSUME NEW u, NEW v, LeaveGroup(u, v) PROVE Least(id, IdsOf(name))'
  <2>1. Len(chats') = Len(chats) /\ \A i \in 1..Len(chats) : chats'[i].name = chats[i].name
    BY <1>2, LeaveKeeps
  <2>2. IdsOf(name)' = IdsOf(name)
    BY <2>1 DEF IdsOf
  <2>. QED BY <2>2 DEF Least
<1>3. CASE chats' = chats
  BY <1>3 DEF Least, IdsOf
<1>. QED BY <1>1, <1>2, <1>3

\* What becomes of the chats in a step.
LEMMA ChatsStep ==
  ASSUME [Next]_vars
  PROVE  \/ \E chat \in Chats : chats' = Append(chats, chat)
         \/ \E u, v : LeaveGroup(u, v)
         \/ chats' = chats
<1>1. ASSUME NEW u \in Users, NEW v \in Users, Accept(u, v)
      PROVE  \E chat \in Chats : chats' = Append(chats, chat)
  BY <1>1 DEF Accept, NewChat, Chats
<1>2. ASSUME NEW u \in Askers, NEW name \in Names, NEW roster \in Rosters,
             CreateGroup(u, name, roster)
      PROVE  \E chat \in Chats : chats' = Append(chats, chat)
  <2>1. PICK users \in SUBSET Users : chats' = Append(chats, [name |-> name, users |-> users])
    BY <1>2, RostersAssumption DEF CreateGroup, NewChat
  <2>. QED BY <2>1 DEF Chats
<1>. QED BY <1>1, <1>2 DEF Next, Named, Between, vars, SendGroup, GetGroupMessages,
            Unfriend, Message, GetMessages, ListGroups

\* An id is a number, set or not.
LEMMA GroupIdType ==
  ASSUME NamesHaveAFirst, NEW name
  PROVE  GroupId(name) \subseteq Int
<1>1. CASE IdsOf(name) = {}
  BY <1>1, UnsetAssumption DEF GroupId
<1>2. CASE IdsOf(name) # {}
  <2>1. PICK id : Least(id, IdsOf(name))
    BY <1>2 DEF NamesHaveAFirst
  <2>2. IdsOf(name) \in SUBSET Int
    BY DEF IdsOf
  <2>3. id \in Int /\ Min(IdsOf(name)) = id
    BY <2>1, <2>2, LeastIsMin DEF Least
  <2>. QED BY <1>2, <2>3 DEF GroupId
<1>. QED BY <1>1, <1>2

\* What is stored in a step: nothing, a message to a friend, or one to a group,
\* under the first row of its name if it has one.
LEMMA StoreStep ==
  ASSUME ChatsInv, NamesHaveAFirst, [Next]_vars
  PROVE  \/ messages' = messages
         \/ /\ chats' = chats
            /\ \E row \in Messages :
                 /\ messages' = Append(messages, row)
                 /\ row.known => Least(row.chat, IdsOf(row.to))
<1>0. \A name : IdsOf(name) \in SUBSET Int
  BY DEF IdsOf
<1>1. \A name : GroupId(name) \subseteq Int
  BY GroupIdType
<1>2. ASSUME NEW u \in Askers, NEW name \in Names, SendGroup(u, name),
             NEW id \in GroupId(name), u # Nobody,
             messages' = Append(messages, [owner |-> u, chat |-> id, to |-> name,
                                           known |-> IdsOf(name) # {}])
      PROVE  \E row \in Messages :
               /\ messages' = Append(messages, row)
               /\ row.known => Least(row.chat, IdsOf(row.to))
  <2>. DEFINE row == [owner |-> u, chat |-> id, to |-> name, known |-> IdsOf(name) # {}]
  <2>1. row \in Messages
    BY <1>1, <1>2 DEF Messages, Askers
  <2>2. ASSUME IdsOf(name) # {} PROVE Least(id, IdsOf(name))
    <3>1. PICK least : Least(least, IdsOf(name))
      BY <2>2 DEF NamesHaveAFirst
    <3>2. Min(IdsOf(name)) = least
      BY <1>0, <3>1, LeastIsMin
    <3>. QED BY <1>2, <2>2, <3>1, <3>2 DEF GroupId
  <2>. QED BY <1>2, <2>1, <2>2
<1>3. ASSUME NEW u \in Users, NEW v \in Users, Message(u, v)
      PROVE  \E row \in Messages :
               /\ messages' = Append(messages, row)
               /\ row.known => Least(row.chat, IdsOf(row.to))
  <2>1. PICK id \in Unset : messages' = Append(messages, [owner |-> u, chat |-> id, to |-> v,
                                                          known |-> FALSE])
    BY <1>3 DEF Message, Store, ChatId
  <2>2. [owner |-> u, chat |-> id, to |-> v, known |-> FALSE] \in Messages
    BY UnsetAssumption DEF Messages
  <2>. QED BY <2>1, <2>2
<1>4. ASSUME NEW u \in Askers, NEW name \in Names, SendGroup(u, name), messages' # messages
      PROVE  chats' = chats /\ \E row \in Messages :
               /\ messages' = Append(messages, row)
               /\ row.known => Least(row.chat, IdsOf(row.to))
  <2>1. PICK checked, id \in GroupId(name) :
          /\ u \in Members(checked)
          /\ messages' = Append(messages, [owner |-> u, chat |-> id, to |-> name,
                                           known |-> IdsOf(name) # {}])
    BY <1>4 DEF SendGroup, Store
  <2>2. u # Nobody
    <3>1. Members(checked) \subseteq Users
      <4>1. checked \in 1..Len(chats) => chats[checked] \in Chats
        BY DEF ChatsInv
      <4>. QED BY <4>1 DEF Members, Chats
    <3>. QED BY <2>1, <3>1, NamesAssumption
  <2>. QED BY <1>2, <1>4, <2>1, <2>2 DEF SendGroup
<1>5. ASSUME NEW u \in Users, NEW v \in Users, Message(u, v) PROVE chats' = chats
  BY <1>5 DEF Message
<1>. QED BY <1>3, <1>4, <1>5 DEF Next, Named, Between, vars, GetGroupMessages, CreateGroup,
            LeaveGroup, Accept, Unfriend, GetMessages, ListGroups

\* Every step keeps the first chat of a name, and messages stored under it.
LEMMA StepHistoryInv == ChatsInv /\ HistoryInv /\ [Next]_vars => HistoryInv'
<1>. SUFFICES ASSUME ChatsInv, HistoryInv, [Next]_vars PROVE HistoryInv'
  OBVIOUS
<1>1. ASSUME NEW name, NEW id, Least(id, IdsOf(name)) PROVE Least(id, IdsOf(name))'
  BY <1>1, ChatsStep, FirstStays
<1>2. NamesHaveAFirst'
  <2>. SUFFICES ASSUME NEW name, IdsOf(name)' # {} PROVE \E id : Least(id, IdsOf(name))'
    BY DEF NamesHaveAFirst
  <2>1. CASE IdsOf(name) # {}
    BY <1>1, <2>1 DEF HistoryInv, NamesHaveAFirst
  <2>2. CASE IdsOf(name) = {}
    <3>1. chats \in Seq(Chats) /\ Len(chats) \in Nat
      BY DEF ChatsInv
    <3>2. ~\E u, v : LeaveGroup(u, v)
      BY <2>2, LeaveKeeps DEF IdsOf
    <3>3. chats' # chats
      BY <2>2 DEF IdsOf
    <3>4. PICK chat \in Chats : chats' = Append(chats, chat)
      BY <3>2, <3>3, ChatsStep
    <3>5. IdsOf(name)' \subseteq {Len(chats) + 1}
      BY <2>2, <3>1, <3>4 DEF IdsOf
    <3>6. Least(Len(chats) + 1, IdsOf(name)')
      BY <3>1, <3>5 DEF Least
    <3>. QED BY <3>6 DEF Least
  <2>. QED BY <2>1, <2>2
<1>3. ASSUME messages' = messages PROVE StoredUnderTheFirst' /\ messages' \in Seq(Messages)
  BY <1>1, <1>3 DEF HistoryInv, StoredUnderTheFirst
<1>4. ASSUME NEW row \in Messages, messages' = Append(messages, row), chats' = chats,
             row.known => Least(row.chat, IdsOf(row.to))
      PROVE  StoredUnderTheFirst' /\ messages' \in Seq(Messages)
  <2>1. messages \in Seq(Messages) /\ Len(messages) \in Nat
    BY DEF HistoryInv
  <2>2. \A name : IdsOf(name)' = IdsOf(name)
    BY <1>4 DEF IdsOf
  <2>3. ASSUME NEW m \in 1..Len(messages'), messages'[m].known
        PROVE  Least(messages'[m].chat, IdsOf(messages'[m].to))
    <3>1. CASE m = Len(messages) + 1
      BY <1>4, <2>1, <2>3, <3>1
    <3>2. CASE m # Len(messages) + 1
      <4>1. m \in 1..Len(messages) /\ messages'[m] = messages[m]
        BY <1>4, <2>1, <3>2
      <4>. QED BY <2>3, <4>1 DEF HistoryInv, StoredUnderTheFirst
    <3>. QED BY <3>1, <3>2
  <2>4. messages' \in Seq(Messages)
    BY <1>4, <2>1
  <2>. QED BY <2>2, <2>3, <2>4 DEF StoredUnderTheFirst, Least
<1>. QED BY <1>2, <1>3, <1>4, StoreStep DEF HistoryInv

\* Every answer to a request for the history of a group is that history.
LEMMA StepHistory ==
  ASSUME ChatsInv, HistoryInv, HistoryOfAGroup, [Next]_vars
  PROVE  HistoryOfAGroup'
<1>1. CASE UNCHANGED vars
  BY <1>1 DEF vars, HistoryOfAGroup, IdsOf
<1>2. ASSUME NEW u \in Askers, NEW name \in Names, GetGroupMessages(u, name)
      PROVE  HistoryOfAGroup'
  <2>1. PICK id \in GroupId(name) :
          reply' = {[Says(u, "group_messages", name) EXCEPT !.texts = TextsOf(id)]}
    BY <1>2 DEF GetGroupMessages
  <2>2. chats' = chats /\ messages' = messages
    BY <1>2 DEF GetGroupMessages
  <2>3. ASSUME NEW r \in reply', IdsOf(r.about) # {},
               NEW m \in 1..Len(messages), messages[m].to = r.about, messages[m].known
        PROVE  m \in r.texts
    <3>1. r.about = name /\ r.texts = TextsOf(id)
      BY <2>1, <2>3 DEF Says
    <3>2. Least(messages[m].chat, IdsOf(name))
      BY <2>3, <3>1 DEF HistoryInv, StoredUnderTheFirst
    <3>3. Min(IdsOf(name)) = messages[m].chat
      BY <3>2, LeastIsMin DEF IdsOf
    <3>4. id = messages[m].chat
      BY <2>3, <3>1, <3>3 DEF GroupId
    <3>. QED BY <3>1, <3>4 DEF TextsOf
  <2>. QED BY <2>2, <2>3 DEF HistoryOfAGroup, IdsOf
<1>3. ASSUME \A r \in reply' : r.says # "group_messages" PROVE HistoryOfAGroup'
  BY <1>3 DEF HistoryOfAGroup
<1>4. ASSUME NEW u \in Askers, NEW name \in Names, NEW roster \in Rosters,
             CreateGroup(u, name, roster)
      PROVE  HistoryOfAGroup'
  BY <1>3, <1>4 DEF CreateGroup, Says
<1>5. ASSUME NEW u \in Users, NEW v \in Users,
             Accept(u, v) \/ Unfriend(u, v) \/ Message(u, v) \/ GetMessages(u, v)
      PROVE  HistoryOfAGroup'
  BY <1>3, <1>5 DEF Accept, Unfriend, Message, GetMessages, Says
<1>6. ASSUME NEW u \in Users, ListGroups(u) PROVE HistoryOfAGroup'
  BY <1>3, <1>6 DEF ListGroups, Says
<1>7. ASSUME NEW u \in Askers, NEW name \in Names, SendGroup(u, name) \/ LeaveGroup(u, name)
      PROVE  HistoryOfAGroup'
  <2>1. CASE SendGroup(u, name)
    BY <1>3, <2>1 DEF SendGroup, Says
  <2>2. CASE LeaveGroup(u, name)
    <3>1. PICK left : reply' = {Says(u, "left", name)} \cup {Says(v, "leavegroup", name) : v \in left}
      BY <2>2 DEF LeaveGroup
    <3>. QED BY <1>3, <3>1 DEF Says
  <2>. QED BY <1>7, <2>1, <2>2
<1>. QED BY <1>1, <1>2, <1>4, <1>5, <1>6, <1>7 DEF Next, Named, Between

\* Whatever was written to a group that existed is in its history, whoever
\* makes groups of the same name afterwards.
THEOREM GroupsKeepTheirHistory == Spec => []HistoryOfAGroup
<1>1. Init => HistoryOfAGroup
  BY DEF Init, HistoryOfAGroup
<1>2. ChatsInv /\ HistoryInv /\ HistoryOfAGroup /\ [Next]_vars => HistoryOfAGroup'
  BY StepHistory
<1>. QED BY <1>1, <1>2, InitChatsInv, StepChatsInv, InitHistoryInv, StepHistoryInv, PTL DEF Spec

-------------------------------------------------------------------------------
(***************************************************************************)
(* Types.  A row a handler stores carries the id it looked up, which is a  *)
(* number because a name that has rows has a first one.                    *)
(***************************************************************************)
TypeInv == TypeOK /\ ChatsInv /\ HistoryInv

\* An empty database is well typed.
LEMMA InitTypeOK == Init => TypeOK
  BY BoundsAssumption DEF Init, TypeOK, Requests, Askers

\* The members of a chat are users, and the rows shown are rows there are.
LEMMA QueriesType ==
  ASSUME TypeOK
  PROVE  /\ \A id : Members(id) \subseteq Users
         /\ \A id : TextsOf(id) \subseteq 1..MaxMessages
<1>1. ASSUME NEW id \in 1..Len(chats) PROVE chats[id].users \subseteq Users
  <2>1. chats \in Seq(Chats)
    BY DEF TypeOK, Chats
  <2>2. chats[id] \in Chats
    BY <2>1
  <2>. QED BY <2>2 DEF Chats
<1>2. Len(messages) \in Nat /\ Len(messages) <= MaxMessages /\ MaxMessages \in Nat
  BY BoundsAssumption DEF TypeOK
<1>. QED BY <1>1, <1>2 DEF Members, TextsOf

\* A reply of a user and a name, with some users or some rows, is a reply.
LEMMA SaysType ==
  ASSUME NEW u \in Askers, NEW about \in Names \cup Users,
         NEW what \in {"group", "messagegroup", "group_messages", "leavegroup", "left",
                       "message", "all_messages", "groups"}
  PROVE  /\ Says(u, what, about) \in Replies
         /\ \A users \in SUBSET Users : [Says(u, what, about) EXCEPT !.users = users] \in Replies
         /\ \A texts \in SUBSET (1..MaxMessages) :
              [Says(u, what, about) EXCEPT !.texts = texts] \in Replies
  BY DEF Says, Replies

\* Handlers write to askers about names and users only.
LEMMA StepReplies ==
  ASSUME TypeInv, TypeOK, Next
  PROVE  reply' \subseteq Replies /\ request' \in Requests
<1>0. Users \subseteq Askers /\ \A id : Members(id) \subseteq Users
  BY QueriesType DEF Askers
<1>1. ASSUME NEW u \in Users, NEW v \in Users, Accept(u, v) \/ Unfriend(u, v)
      PROVE  reply' \subseteq Replies /\ request' \in Requests
  BY <1>0, <1>1 DEF Accept, Unfriend, Handling, Requests
<1>2. ASSUME NEW u \in Users, NEW v \in Users, Message(u, v)
      PROVE  reply' \subseteq Replies /\ request' \in Requests
  <2>1. Says(v, "message", u) \in Replies
    BY <1>0, SaysType
  <2>. QED BY <1>0, <1>2, <2>1 DEF Message, Handling, Requests
<1>3. ASSUME NEW u \in Users, NEW v \in Users, GetMessages(u, v)
      PROVE  reply' \subseteq Replies /\ request' \in Requests
  <2>1. PICK id : reply' = {[Says(u, "all_messages", v) EXCEPT !.texts = TextsOf(id)]}
    BY <1>3 DEF GetMessages
  <2>2. TextsOf(id) \in SUBSET (1..MaxMessages)
    BY QueriesType
  <2>3. [Says(u, "all_messages", v) EXCEPT !.texts = TextsOf(id)] \in Replies
    BY <1>0, <2>2, SaysType
  <2>. QED BY <1>0, <1>3, <2>1, <2>3 DEF GetMessages, Handling, Requests
<1>4. ASSUME NEW u \in Askers, NEW name \in Names, NEW roster \in Rosters,
             CreateGroup(u, name, roster)
      PROVE  reply' \subseteq Replies /\ request' \in Requests
  <2>1. roster \in SUBSET Users
    BY RostersAssumption
  <2>2. ASSUME NEW v \in roster PROVE [Says(v, "group", name) EXCEPT !.users = roster] \in Replies
    BY <1>0, <2>1, SaysType
  <2>. QED BY <1>4, <2>2 DEF CreateGroup, Handling, Requests
<1>5. ASSUME NEW u \in Askers, NEW name \in Names, SendGroup(u, name)
      PROVE  reply' \subseteq Replies /\ request' \in Requests
  <2>1. PICK id : reply' \subseteq {Says(v, "messagegroup", name) : v \in Members(id)}
    BY <1>5 DEF SendGroup
  <2>2. ASSUME NEW v \in Members(id) PROVE Says(v, "messagegroup", name) \in Replies
    BY <1>0, SaysType
  <2>. QED BY <1>5, <2>1, <2>2 DEF SendGroup, Handling, Requests
<1>6. ASSUME NEW u \in Askers, NEW name \in Names, GetGroupMessages(u, name)
      PROVE  reply' \subseteq Replies /\ request' \in Requests
  <2>1. PICK id : reply' = {[Says(u, "group_messages", name) EXCEPT !.texts = TextsOf(id)]}
    BY <1>6 DEF GetGroupMessages
  <2>2. TextsOf(id) \in SUBSET (1..MaxMessages)
    BY QueriesType
  <2>3. [Says(u, "group_messages", name) EXCEPT !.texts = TextsOf(id)] \in Replies
    BY <2>2, SaysType
  <2>. QED BY <1>6, <2>1, <2>3 DEF GetGroupMessages, Handling, Requests
<1>7. ASSUME NEW u \in Askers, NEW name \in Names, LeaveGroup(u, name)
      PROVE  reply' \subseteq Replies /\ request' \in Requests
  <2>1. PICK id : reply' = {Says(u, "left", name)}
                             \cup {Says(v, "leavegroup", name) : v \in Members(id)'}
    BY <1>7 DEF LeaveGroup
  <2>2. Members(id)' \subseteq Members(id)
    BY <1>7, LeaveKeeps DEF TypeInv
  <2>3. ASSUME NEW v \in Members(id)' PROVE Says(v, "leavegroup", name) \in Replies
    BY <1>0, <2>2, SaysType
  <2>4. Says(u, "left", name) \in Replies
    BY SaysType
  <2>. QED BY <1>7, <2>1, <2>3, <2>4 DEF LeaveGroup, Handling, Requests
<1>8. ASSUME NEW u \in Users, ListGroups(u)
      PROVE  reply' \subseteq Replies /\ request' \in Requests
  <2>1. GroupsOf(u) \subseteq Names
    <3>1. \A id \in 1..Len(chats) : chats[id] \in Chats
      BY DEF TypeInv, ChatsInv
    <3>. QED BY <3>1 DEF Chats, GroupsOf
  <2>2. ASSUME NEW name \in GroupsOf(u)
        PROVE  [Says(u, "groups", name) EXCEPT !.users = UNION {Members(id) : id \in GroupId(name)}]
                 \in Replies
    <3>1. UNION {Members(id) : id \in GroupId(name)} \in SUBSET Users
      BY <1>0
    <3>. QED BY <1>0, <2>1, <3>1, SaysType
  <2>. QED BY <1>0, <1>8, <2>2 DEF ListGroups, Handling, Requests, Askers
<1>. QED BY <1>1, <1>2, <1>3, <1>4, <1>5, <1>6, <1>7, <1>8 DEF Next, Named, Between

\* Every step keeps the types; a step that adds a row found room for it.
LEMMA StepTypeOK ==
  ASSUME TypeInv, ChatsInv', HistoryInv', [Next]_vars
  PROVE  TypeOK'
<1>1. reply' \subseteq Replies /\ request' \in Requests
  BY StepReplies DEF TypeInv, TypeOK, vars
<1>2. /\ Len(chats) \in Nat /\ Len(chats) <= MaxChats /\ MaxChats \in Nat
      /\ Len(messages) \in Nat /\ Len(messages) <= MaxMessages /\ MaxMessages \in Nat
      /\ chats \in Seq(Chats) /\ messages \in Seq(Messages)
  BY BoundsAssumption DEF TypeInv, TypeOK, Chats
<1>3. Len(chats') <= MaxChats
  <2>1. ASSUME NEW chat, chats' = Append(chats, chat), Len(chats) < MaxChats, chat \in Chats
        PROVE  Len(chats') <= MaxChats
    BY <1>2, <2>1
  <2>2. CASE chats' = chats
    BY <1>2, <2>2
  <2>3. ASSUME NEW u, NEW v, LeaveGroup(u, v) PROVE Len(chats') <= MaxChats
    BY <1>2, <2>3, LeaveKeeps DEF TypeInv
  <2>4. chats' # chats /\ ~(\E u, v : LeaveGroup(u, v)) => Len(chats) < MaxChats
    BY DEF Next, Named, Between, vars, Accept, CreateGroup, SendGroup, GetGroupMessages,
           Unfriend, Message, GetMessages, ListGroups
  <2>. QED BY <2>1, <2>2, <2>3, <2>4, ChatsStep
<1>4. Len(messages') <= MaxMessages
  <2>1. ASSUME NEW row, messages' = Append(messages, row), Len(messages) < MaxMessages,
               row \in Messages
        PROVE  Len(messages') <= MaxMessages
    BY <1>2, <2>1
  <2>2. CASE messages' = messages
    BY <1>2, <2>2
  <2>3. messages' # messages => Len(messages) < MaxMessages
    BY DEF Next, Named, Between, vars, Accept, CreateGroup, SendGroup, GetGroupMessages,
           LeaveGroup, Unfriend, Message, GetMessages, ListGroups
  <2>. QED BY <2>1, <2>2, <2>3, StoreStep DEF TypeInv, HistoryInv
<1>. QED BY <1>1, <1>3, <1>4 DEF TypeOK, ChatsInv, HistoryInv, Chats

\* The rows of chats and messages, the requests and the replies keep their
\* types, an id that was never set included.
THEOREM GroupTypes == Spec => []TypeOK
<1>1. TypeInv /\ ChatsInv' /\ HistoryInv' /\ [Next]_vars => TypeOK'
  BY StepTypeOK
<1>. QED BY <1>1, InitTypeOK, InitChatsInv, StepChatsInv, InitHistoryInv, StepHistoryInv, PTL
         DEF Spec, TypeInv

-------------------------------------------------------------------------------
(***************************************************************************)
(* Deliveries and listings.  Both follow from the step that writes the     *)
(* replies: no chat changes in it, and as a set id is that of one row, the *)
(* look-ups of one handler agree.                                          *)
(***************************************************************************)

\* No other handler delivers a message to a group.
LEMMA OtherHandlers ==
  ASSUME Next, \A u \in Askers, name \in Names : ~SendGroup(u, name)
  PROVE  \A r \in reply' : r.says # "messagegroup"
<1>1. ASSUME NEW u \in Users, NEW v \in Users,
             Accept(u, v) \/ Unfriend(u, v) \/ Message(u, v) \/ GetMessages(u, v)
      PROVE  \A r \in reply' : r.says # "messagegroup"
  BY <1>1 DEF Accept, Unfriend, Message, GetMessages, Says
<1>2. ASSUME NEW u \in Askers, NEW name \in Names, NEW roster \in Rosters,
             CreateGroup(u, name, roster)
      PROVE  \A r \in reply' : r.says # "messagegroup"
  BY <1>2 DEF CreateGroup, Says
<1>3. ASSUME NEW u \in Askers, NEW name \in Names, GetGroupMessages(u, name)
      PROVE  \A r \in reply' : r.says # "messagegroup"
  BY <1>3 DEF GetGroupMessages, Says
<1>4. ASSUME NEW u \in Askers, NEW name \in Names, LeaveGroup(u, name)
      PROVE  \A r \in reply' : r.says # "messagegroup"
  <2>1. PICK left : reply' = {Says(u, "left", name)} \cup {Says(v, "leavegroup", name) : v \in left}
    BY <1>4 DEF LeaveGroup
  <2>. QED BY <2>1 DEF Says
<1>5. ASSUME NEW u \in Users, ListGroups(u)
      PROVE  \A r \in reply' : r.says # "messagegroup"
  BY <1>5 DEF ListGroups, Says
<1>. QED BY <1>1, <1>2, <1>3, <1>4, <1>5 DEF Next, Named, Between

\* What a message to a group is delivered to is the chat it is stored in.
LEMMA StepDelivered ==
  ASSUME ChatsInv, HistoryInv, DeliveredWhereStored, [Next]_vars
  PROVE  DeliveredWhereStored'
<1>1. CASE UNCHANGED vars
  BY <1>1 DEF vars, DeliveredWhereStored, Members
<1>2. ASSUME NEW u \in Askers, NEW name \in Names, SendGroup(u, name)
      PROVE  DeliveredWhereStored'
  <2>1. CASE reply' = {}
    BY <2>1 DEF DeliveredWhereStored
  <2>2. CASE reply' # {}
    <3>1. PICK checked \in GroupId(name), id \in GroupId(name) :
            /\ u \in Members(checked)
            /\ messages' = Append(messages, [owner |-> u, chat |-> id, to |-> name,
                                             known |-> IdsOf(name) # {}])
            /\ reply' = {Says(v, "messagegroup", name) : v \in Members(id)}
      BY <1>2, <2>2 DEF SendGroup, Store
    <3>. DEFINE row == [owner |-> u, chat |-> id, to |-> name, known |-> IdsOf(name) # {}]
                newest == messages'[Len(messages')]
    <3>2. newest = row
      BY <3>1 DEF HistoryInv
    <3>3. newest.chat = id /\ newest.owner = u /\ newest.known = (IdsOf(name) # {})
      BY <3>2
    <3>. HIDE DEF row, newest
    <3>4. \A i : Members(i)' = Members(i)
      BY <1>2 DEF SendGroup, Members
    <3>5. newest.known => checked = id
      BY <3>3 DEF GroupId
    <3>6. ASSUME NEW r \in reply'
          PROVE  /\ r.to \in Members(id)
                 /\ \A v \in Members(id) : Says(v, "messagegroup", r.about) \in reply'
                 /\ newest.known => newest.owner \in Members(id)
      <4>1. PICK v \in Members(id) : r = Says(v, "messagegroup", name)
        BY <3>1, <3>6
      <4>2. r.to = v /\ r.about = name
        BY <4>1 DEF Says
      <4>. QED BY <3>1, <3>3, <3>5, <4>2
    <3>. QED BY <3>3, <3>4, <3>6 DEF DeliveredWhereStored, newest, Says
  <2>. QED BY <2>1, <2>2
<1>3. ASSUME \A r \in reply' : r.says # "messagegroup" PROVE DeliveredWhereStored'
  BY <1>3 DEF DeliveredWhereStored
<1>. QED BY <1>1, <1>2, <1>3, OtherHandlers

\* A message to a group reaches all members of the chat it is stored in and
\* nobody else, and who wrote it to a group that exists is one of them.
THEOREM GroupMessagesReachTheirChat == Spec => []DeliveredWhereStored
<1>1. Init => DeliveredWhereStored
  BY DEF Init, DeliveredWhereStored
<1>2. ChatsInv /\ HistoryInv /\ DeliveredWhereStored /\ [Next]_vars => DeliveredWhereStored'
  BY StepDelivered
<1>. QED BY <1>1, <1>2, InitChatsInv, StepChatsInv, InitHistoryInv, StepHistoryInv, PTL DEF Spec

\* The listing of a login names the groups of who logged in, each with the
\* users of the first chat of its name.
LEMMA ListingIsRight ==
  ASSUME NamesHaveAFirst, NEW u \in Users, ListGroups(u)
  PROVE  ListedGroupsAreOnesOwn'
<1>. DEFINE own == {id \in 1..Len(chats) : u \in chats[id].users /\ chats[id].name # Individual}
            shown(name) ==
              [Says(u, "groups", name) EXCEPT !.users = UNION {Members(id) : id \in GroupId(name)}]
<1>1. request'.by = u /\ chats' = chats
  BY DEF ListGroups, Handling
<1>2. reply' = {shown(name) : name \in GroupsOf(u)}
  BY DEF ListGroups
<1>3. \A name : shown(name).about = name /\ shown(name).to = u /\ shown(name).says = "groups"
               /\ shown(name).users = UNION {Members(id) : id \in GroupId(name)}
  BY DEF Says
<1>4. GroupsOf(u) = {chats[id].name : id \in own}
  BY DEF GroupsOf
<1>. HIDE DEF shown
<1>5. ASSUME NEW id \in own PROVE \E r \in reply' : r.about = chats[id].name
  BY <1>2, <1>3, <1>4, <1>5
<1>6. ASSUME NEW r \in reply'
      PROVE  /\ r.says = "groups" /\ r.to = u
             /\ \E id \in own : chats[id].name = r.about
             /\ \E first \in IdsOf(r.about) :
                  /\ \A id \in IdsOf(r.about) : first <= id
                  /\ r.users = chats[first].users
                  /\ IdsOf(r.about) = {first} => r.to \in r.users
  <2>1. PICK id \in own : r = shown(chats[id].name)
    BY <1>2, <1>4
  <2>2. r.says = "groups" /\ r.to = u /\ r.about = chats[id].name
        /\ r.users = UNION {Members(i) : i \in GroupId(r.about)}
    BY <1>3, <2>1
  <2>3. id \in IdsOf(r.about) /\ u \in chats[id].users
    BY <2>2 DEF IdsOf
  <2>4. PICK first : Least(first, IdsOf(r.about))
    BY <2>3 DEF NamesHaveAFirst
  <2>5. first \in 1..Len(chats) /\ first \in IdsOf(r.about) /\ IdsOf(r.about) \in SUBSET Int
    BY <2>4 DEF Least, IdsOf
  <2>6. GroupId(r.about) = {first}
    <3>1. Min(IdsOf(r.about)) = first
      BY <2>4, <2>5, LeastIsMin
    <3>. QED BY <2>3, <3>1 DEF GroupId
  <2>7. r.users = chats[first].users
    BY <2>2, <2>5, <2>6 DEF Members
  <2>8. \A other \in IdsOf(r.about) : first <= other
    BY <2>4 DEF Least
  <2>9. IdsOf(r.about) = {first} => r.to \in r.users
    BY <2>2, <2>3, <2>7
  <2>. QED BY <2>2, <2>5, <2>7, <2>8, <2>9
<1>7. \A name : IdsOf(name)' = IdsOf(name)
  BY <1>1 DEF IdsOf
<1>8. own = {id \in 1..Len(chats)' : request'.by \in chats'[id].users /\ chats'[id].name # Individual}
  BY <1>1
<1>. HIDE DEF own
<1>. QED BY <1>1, <1>5, <1>6, <1>7, <1>8 DEF ListedGroupsAreOnesOwn

\* No handler but that of a login lists groups.
LEMMA StepListed ==
  ASSUME HistoryInv, ListedGroupsAreOnesOwn, [Next]_vars
  PROVE  ListedGroupsAreOnesOwn'
<1>1. CASE UNCHANGED vars
  BY <1>1 DEF vars, ListedGroupsAreOnesOwn, IdsOf
<1>2. ASSUME NEW u \in Users, ListGroups(u) PROVE ListedGroupsAreOnesOwn'
  BY <1>2, ListingIsRight DEF HistoryInv
<1>3. ASSUME request'.cmd # "login" PROVE ListedGroupsAreOnesOwn'
  BY <1>3 DEF ListedGroupsAreOnesOwn
<1>4. ASSUME NEW u \in Askers, NEW name \in Names, Named(u, name) PROVE request'.cmd # "login"
  BY <1>4 DEF Named, CreateGroup, SendGroup, GetGroupMessages, LeaveGroup, Handling
<1>5. ASSUME NEW u \in Users, NEW v \in Users, Between(u, v) PROVE request'.cmd # "login"
  BY <1>5 DEF Between, Accept, Unfriend, Message, GetMessages, Handling
<1>. QED BY <1>1, <1>2, <1>3, <1>4, <1>5 DEF Next

\* A login is answered with the names of all groups the user is in and of no
\* others, each with the users of the oldest chat of the name, shared or not.
THEOREM ListedGroupsAreHers == Spec => []ListedGroupsAreOnesOwn
<1>1. Init => ListedGroupsAreOnesOwn
  BY DEF Init, ListedGroupsAreOnesOwn
<1>2. HistoryInv /\ ListedGroupsAreOnesOwn /\ [Next]_vars => ListedGroupsAreOnesOwn'
  BY StepListed
<1>. QED BY <1>1, <1>2, InitChatsInv, StepChatsInv, InitHistoryInv, StepHistoryInv, PTL DEF Spec
===============================================================================
