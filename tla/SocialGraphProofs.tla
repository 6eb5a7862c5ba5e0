--------------------------- MODULE SocialGraphProofs ---------------------------
(***************************************************************************)
(* Theorems about SocialGraph, for any set of users, any requests and any  *)
(* number of chats: type correctness, with or without crashes, and, when   *)
(* no crash falls between two statements, the agreement of the two         *)
(* directions of every pair, friendships that both users want, the         *)
(* refinement of Friendship, whose relations change on both sides at once, *)
(* replies that tell both clients the truth, and a chat for every two      *)
(* friends.  However often the server is killed inside a handler: replies  *)
(* that tell the one who asked the truth, and removals that remove.        *)
(***************************************************************************)
EXTENDS SocialGraph, TLAPS

(***************************************************************************)
(* The type invariant.  TypeOK alone is not inductive: that a statement of *)
(* accept_friend_req finds the chat it extends follows from the statement  *)
(* before it.                                                              *)
(***************************************************************************)
ChatInProgress == pc \in {"xref_to", "xref_from"} => Len(chats) > 0

TypeInv == TypeOK /\ ChatInProgress

\* An empty database and an idle control thread are well typed.
LEMMA InitTypeInv == Init => TypeInv
  BY BoundsAssumption DEF Init, TypeInv, TypeOK, ChatInProgress, NoJob

\* What a statement writes to a direction of a pair is rows again.
LEMMA WrittenType ==
  ASSUME TypeInv, job \in Jobs, NEW rows \in Seq(Edges), NEW edge \in Edges
  PROVE  Written(rows, edge) \in Seq(Edges)
<1>1. << >> \in Seq(Edges)
  OBVIOUS
<1>2. [i \in 1..Len(rows) |-> edge] \in Seq(Edges)
  OBVIOUS
<1>3. Append(rows, edge) \in Seq(Edges)
  OBVIOUS
<1>. QED BY <1>1, <1>2, <1>3 DEF Written

\* Starting a handler, and answering without starting one, keep the types.
LEMMA StartType ==
  ASSUME TypeInv, NEW cmd \in Writing, NEW u \in Users, NEW v \in Users, Start(cmd, u, v)
  PROVE  TypeInv'
<1>1. job' \in Jobs
  BY DEF Start, Jobs, CheckPairEdge
<1>2. job' # NoJob
  BY DEF Start, NoJob, Writing
<1>3. wanted' \subseteq Users \X Users
  BY DEF Start, Wishes, TypeInv, TypeOK
<1>. QED BY <1>1, <1>2, <1>3 DEF TypeInv, TypeOK, ChatInProgress, Start, Statements

\* An answer without a statement keeps the types.
LEMMA RespondType ==
  ASSUME TypeInv, NEW answers \in SUBSET Replies, Respond(answers)
  PROVE  TypeInv'
  BY DEF TypeInv, TypeOK, ChatInProgress, Respond

\* Everything a handler says is a reply.
LEMMA SaysType ==
  ASSUME NEW u \in Users, NEW v \in Users,
         NEW what \in {"nfound", "notblocked", "blocked", "unblocked", "sentreq", "recvreq",
           "accepted", "acceptedyour", "rejected", "rejectedyour", "sendreq",
           "ublock", "acreq", "notacreq", "message"}
  PROVE  Says(u, what, v) \in Replies
  BY DEF Says, Replies

\* Each statement of a handler, and its answer, keeps the types.
LEMMA StatementType == TypeInv /\ Statement => TypeInv'
<1>. SUFFICES ASSUME TypeInv, Statement PROVE TypeInv'
  OBVIOUS
<1>j. job \in Jobs /\ job.from \in Users /\ job.to \in Users /\ job.cmd \in Writing
  <2>1. pc # "idle"
    BY DEF Statement, FirstRow, SecondRow, InsertChat, AddMember, Answer
  <2>. QED BY <2>1 DEF TypeInv, TypeOK, Jobs
<1>1. CASE FirstRow
  <2>1. FirstEdge(job.cmd) \in Edges
    BY DEF FirstEdge, Edges
  <2>2. Written(friends[<<job.from, job.to>>], FirstEdge(job.cmd)) \in Seq(Edges)
    BY <1>j, <2>1, WrittenType DEF TypeInv, TypeOK
  <2>3. friends' \in [Users \X Users -> Seq(Edges)]
    BY <1>1, <1>j, <2>2 DEF FirstRow, TypeInv, TypeOK
  <2>. QED BY <1>1, <2>3 DEF FirstRow, TypeInv, TypeOK, ChatInProgress, Statements
<1>2. CASE SecondRow
  <2>1. SecondEdge(job.cmd) \in Edges
    BY DEF SecondEdge, Edges
  <2>2. Written(friends[<<job.to, job.from>>], SecondEdge(job.cmd)) \in Seq(Edges)
    BY <1>j, <2>1, WrittenType DEF TypeInv, TypeOK
  <2>3. friends' \in [Users \X Users -> Seq(Edges)]
    BY <1>2, <1>j, <2>2 DEF SecondRow, TypeInv, TypeOK
  <2>. QED BY <1>2, <2>3 DEF SecondRow, TypeInv, TypeOK, ChatInProgress, Statements
<1>3. CASE InsertChat
  <2>1. chats' \in Seq(SUBSET Users) /\ Len(chats') > 0
    BY <1>3 DEF InsertChat, TypeInv, TypeOK
  <2>. QED BY <1>3, <2>1 DEF InsertChat, TypeInv, TypeOK, ChatInProgress, Statements
<1>4. CASE AddMember
  <2>1. Len(chats) \in 1..Len(chats)
    BY <1>4 DEF AddMember, TypeInv, TypeOK, ChatInProgress
  <2>2. chats' \in Seq(SUBSET Users) /\ Len(chats') = Len(chats)
    BY <1>4, <1>j, <2>1 DEF AddMember, TypeInv, TypeOK
  <2>. QED BY <1>4, <2>1, <2>2 DEF AddMember, TypeInv, TypeOK, ChatInProgress, Statements
<1>5. CASE Answer
  <2>1. Answers(job.cmd, job.from, job.to) \subseteq Replies
    BY <1>j, SaysType DEF Answers, Writing
  <2>. QED BY <1>5, <2>1 DEF Answer, TypeInv, TypeOK, ChatInProgress
<1>. QED BY <1>1, <1>2, <1>3, <1>4, <1>5 DEF Statement

\* Looking at a request, and starting its handler, keeps the types.
LEMMA HandleType ==
  ASSUME TypeInv, NEW u \in Users, NEW v \in Users, Handle(u, v)
  PROVE  TypeInv'
<1>1. ASSUME NEW cmd \in {"block", "friend"}, BlockOrFriend(cmd, u, v) PROVE TypeInv'
  <2>1. cmd \in Writing
    BY DEF Writing
  <2>2. {Says(u, "nfound", v)} \subseteq Replies
    BY SaysType
  <2>. QED BY <1>1, <2>1, <2>2, StartType, RespondType DEF BlockOrFriend
<1>2. CASE Block(u, v) \/ Friend(u, v)
  BY <1>1, <1>2 DEF Block, Friend
<1>3. CASE Unblock(u, v)
  <2>1. {Says(u, "nfound", v)} \subseteq Replies /\ {Says(u, "notblocked", v)} \subseteq Replies
    BY SaysType
  <2>2. "unblock" \in Writing
    BY DEF Writing
  <2>. QED BY <1>3, <2>1, <2>2, StartType, RespondType DEF Unblock
<1>4. CASE Accept(u, v)
  <2>1. "accept" \in Writing
    BY DEF Writing
  <2>. QED BY <1>4, <2>1, StartType, RespondType DEF Accept
<1>5. CASE Reject(u, v)
  <2>1. "reject" \in Writing
    BY DEF Writing
  <2>. QED BY <1>5, <2>1, StartType, RespondType DEF Reject
<1>6. CASE Message(u, v)
  <2>. DEFINE edge == CheckFriend(u, v)
  <2>1. edge \in Edges \cup {NoEdge}
    BY DEF TypeInv, TypeOK, CheckFriend, CheckPairEdge
  <2>2. {Says(v, "message", u)} \subseteq Replies
    BY SaysType
  <2>3. edge # 0 => {Says(u, CASE edge = 3  -> "sendreq" [] edge = 2  -> "ublock"
                              [] edge = -2 -> "nfound"  [] edge = -1 -> "acreq"
                              [] edge = 1  -> "notacreq", v)} \subseteq Replies
    BY <2>1, SaysType DEF Edges, NoEdge
  <2>. HIDE DEF edge
  <2>. QED BY <1>6, <2>2, <2>3, RespondType DEF Message, edge
<1>. QED BY <1>2, <1>3, <1>4, <1>5, <1>6 DEF Handle

\* Every step keeps the types, a crash and a registration included.
LEMMA StepTypeInv == TypeInv /\ [Next]_vars => TypeInv'
<1>. SUFFICES ASSUME TypeInv, [Next]_vars PROVE TypeInv'
  OBVIOUS
<1>1. ASSUME NEW u \in Users, Register(u) PROVE TypeInv'
  BY <1>1 DEF Register, TypeInv, TypeOK, ChatInProgress
<1>2. CASE Crash
  BY <1>2, BoundsAssumption DEF Crash, TypeInv, TypeOK, ChatInProgress
<1>3. CASE UNCHANGED vars
  BY <1>3 DEF vars, TypeInv, TypeOK, ChatInProgress
<1>. QED BY <1>1, <1>2, <1>3, HandleType, StatementType DEF Next

\* The state keeps its types whatever crashes happen: in particular every row
\* of the table holds one of the five edges, and every reply is one the clients
\* know.
THEOREM TypeCorrect == Spec => []TypeOK
<1>1. TypeInv => TypeOK
  BY DEF TypeInv
<1>. QED BY <1>1, InitTypeInv, StepTypeInv, PTL DEF Spec
-------------------------------------------------------------------------------
(***************************************************************************)
(* The two directions of a pair.  EdgesMirror speaks of the moments        *)
(* between requests.  Within one, exactly the pair being written may       *)
(* disagree, and only between the two statements; then the first direction *)
(* has its new edge and the second is such that the statement still to     *)
(* come gives it the matching one, which is what the one look at           *)
(* check_pair_edge has to ensure for both.  Afterwards the pair stays as   *)
(* written until the request is answered.                                  *)
(***************************************************************************)
FirstTarget == IF job.cmd \in Deleting THEN << >> ELSE <<FirstEdge(job.cmd)>>
SecondTarget == IF job.cmd \in Deleting THEN << >> ELSE <<SecondEdge(job.cmd)>>

OthersMirrored ==
  \A u, v \in Users : u # v =>
    Mirrored(u, v) \/ (pc = "row2" /\ <<u, v>> \in {<<job.from, job.to>>, <<job.to, job.from>>})

ReadyToWrite ==
  pc = "row1" => /\ job.exists = CheckPairEdge(job.from, job.to)
                 /\ job.cmd = "accept" => job.exists

HalfWritten ==
  (pc = "row2" /\ job.from # job.to) =>
    /\ friends[<<job.from, job.to>>] = FirstTarget
    /\ Written(friends[<<job.to, job.from>>], SecondEdge(job.cmd)) = SecondTarget

BothWritten ==
  (pc \in {"chat", "xref_to", "xref_from", "answer"} /\ job.from # job.to) =>
    /\ friends[<<job.from, job.to>>] = FirstTarget
    /\ friends[<<job.to, job.from>>] = SecondTarget

MirrorInv == OthersMirrored /\ ReadyToWrite /\ HalfWritten /\ BothWritten

\* No rows at all agree.
LEMMA InitMirrorInv == Init => MirrorInv
  BY DEF Init, MirrorInv, OthersMirrored, Mirrored, ReadyToWrite, HalfWritten, BothWritten, Deleting

\* Every statement is run for a pair of users.
LEMMA JobType ==
  ASSUME TypeInv, pc # "idle"
  PROVE  /\ job \in Jobs /\ job.from \in Users /\ job.to \in Users
         /\ job.cmd \in Writing /\ job.exists \in BOOLEAN
  BY DEF TypeInv, TypeOK, Jobs

\* What a statement leaves of no row and of one row.
LEMMA WrittenOne ==
  ASSUME NEW edge \in Edges, NEW old \in Edges
  PROVE  /\ job.cmd \in Deleting => Written(<<old>>, edge) = << >> /\ Written(<< >>, edge) = << >>
         /\ (job.cmd \notin Deleting /\ (job.cmd = "accept" \/ job.exists))
              => Written(<<old>>, edge) = <<edge>>
         /\ (job.cmd \notin Deleting /\ job.cmd # "accept" /\ ~job.exists)
              => Written(<< >>, edge) = <<edge>>
<1>1. Len(<<old>>) = 1 /\ [i \in 1..1 |-> edge] = <<edge>>
  OBVIOUS
<1>2. Append(<< >>, edge) = <<edge>>
  OBVIOUS
<1>. QED BY <1>1, <1>2 DEF Written

\* The edge a handler writes second is the opposite of the one it writes first.
LEMMA TargetsMatch ==
  ASSUME NEW cmd \in Writing
  PROVE  FirstEdge(cmd) \in Edges /\ SecondEdge(cmd) \in Edges /\ SecondEdge(cmd) = -FirstEdge(cmd)
  BY DEF FirstEdge, SecondEdge, Writing, Edges

\* The first statement brings the pair halfway: its first edge is the new one.
LEMMA FirstRowMirror == TypeInv /\ MirrorInv /\ FirstRow => MirrorInv'
<1>. SUFFICES ASSUME TypeInv, MirrorInv, FirstRow PROVE MirrorInv'
  OBVIOUS
<1>. DEFINE f == job.from
            t == job.to
<1>1. pc = "row1" /\ pc' = "row2" /\ job' = job
  BY DEF FirstRow
<1>2. f \in Users /\ t \in Users /\ job.cmd \in Writing
  BY <1>1, JobType
<1>3. friends' = [friends EXCEPT ![<<f, t>>] = Written(friends[<<f, t>>], FirstEdge(job.cmd))]
  BY DEF FirstRow
<1>4. FirstEdge(job.cmd) \in Edges /\ SecondEdge(job.cmd) \in Edges
  BY <1>2, TargetsMatch
<1>5. ASSUME NEW u \in Users, NEW v \in Users, <<u, v>> # <<f, t>>
      PROVE  friends'[<<u, v>>] = friends[<<u, v>>]
  BY <1>3, <1>5 DEF TypeInv, TypeOK
<1>6. OthersMirrored'
  <2>. SUFFICES ASSUME NEW u \in Users, NEW v \in Users, u # v,
                       <<u, v>> \notin {<<f, t>>, <<t, f>>}
                PROVE  Mirrored(u, v)'
    BY <1>1 DEF OthersMirrored
  <2>1. Mirrored(u, v)
    BY <1>1 DEF MirrorInv, OthersMirrored
  <2>2. friends'[<<u, v>>] = friends[<<u, v>>] /\ friends'[<<v, u>>] = friends[<<v, u>>]
    BY <1>5
  <2>. QED BY <2>1, <2>2 DEF Mirrored
<1>7. ReadyToWrite' /\ BothWritten'
  BY <1>1 DEF ReadyToWrite, BothWritten
<1>8. HalfWritten'
  <2>. SUFFICES ASSUME f # t
                PROVE  /\ friends'[<<f, t>>] = FirstTarget
                       /\ Written(friends'[<<t, f>>], SecondEdge(job.cmd)) = SecondTarget
    BY <1>1 DEF HalfWritten, FirstTarget, SecondTarget, Written
  <2>1. Mirrored(f, t)
    BY <1>1, <1>2 DEF MirrorInv, OthersMirrored
  <2>2. friends'[<<t, f>>] = friends[<<t, f>>]
    BY <1>2, <1>5
  <2>3. friends'[<<f, t>>] = Written(friends[<<f, t>>], FirstEdge(job.cmd))
    BY <1>2, <1>3 DEF TypeInv, TypeOK
  <2>4. job.exists = (friends[<<f, t>>] # << >>) /\ (job.cmd = "accept" => job.exists)
    BY <1>1 DEF MirrorInv, ReadyToWrite, CheckPairEdge
  <2>5. CASE friends[<<f, t>>] = << >> /\ friends[<<t, f>>] = << >>
    BY <1>4, <2>2, <2>3, <2>4, <2>5, WrittenOne DEF FirstTarget, SecondTarget
  <2>6. ASSUME NEW edge \in Edges, friends[<<f, t>>] = <<edge>>, friends[<<t, f>>] = <<-edge>>
        PROVE  /\ friends'[<<f, t>>] = FirstTarget
               /\ Written(friends'[<<t, f>>], SecondEdge(job.cmd)) = SecondTarget
    <3>1. -edge \in Edges
      BY DEF Edges
    <3>2. job.exists
      <4>1. <<edge>> # << >>
        OBVIOUS
      <4>. QED BY <2>4, <2>6, <4>1
    <3>. QED BY <1>4, <2>2, <2>3, <2>6, <3>1, <3>2, WrittenOne DEF FirstTarget, SecondTarget
  <2>. QED BY <2>1, <2>5, <2>6 DEF Mirrored
<1>. QED BY <1>6, <1>7, <1>8 DEF MirrorInv

\* The second statement makes the two directions agree again.
LEMMA SecondRowMirror == TypeInv /\ MirrorInv /\ SecondRow => MirrorInv'
<1>. SUFFICES ASSUME TypeInv, MirrorInv, SecondRow PROVE MirrorInv'
  OBVIOUS
<1>. DEFINE f == job.from
            t == job.to
<1>1. pc = "row2" /\ pc' \in {"chat", "answer"} /\ job' = job
  BY DEF SecondRow
<1>2. f \in Users /\ t \in Users /\ job.cmd \in Writing
  BY <1>1, JobType
<1>3. friends' = [friends EXCEPT ![<<t, f>>] = Written(friends[<<t, f>>], SecondEdge(job.cmd))]
  BY DEF SecondRow
<1>4. ASSUME NEW u \in Users, NEW v \in Users, <<u, v>> # <<t, f>>
      PROVE  friends'[<<u, v>>] = friends[<<u, v>>]
  BY <1>3, <1>4 DEF TypeInv, TypeOK
<1>5. ASSUME f # t
      PROVE  friends'[<<f, t>>] = FirstTarget /\ friends'[<<t, f>>] = SecondTarget
  <2>1. friends'[<<f, t>>] = friends[<<f, t>>]
    BY <1>2, <1>4, <1>5
  <2>2. friends'[<<t, f>>] = Written(friends[<<t, f>>], SecondEdge(job.cmd))
    BY <1>2, <1>3 DEF TypeInv, TypeOK
  <2>. QED BY <1>1, <1>5, <2>1, <2>2 DEF MirrorInv, HalfWritten
<1>6. OthersMirrored'
  <2>. SUFFICES ASSUME NEW u \in Users, NEW v \in Users, u # v
                PROVE  Mirrored(u, v)'
    BY DEF OthersMirrored
  <2>1. CASE <<u, v>> \notin {<<f, t>>, <<t, f>>}
    <3>1. Mirrored(u, v)
      BY <2>1 DEF MirrorInv, OthersMirrored
    <3>2. friends'[<<u, v>>] = friends[<<u, v>>] /\ friends'[<<v, u>>] = friends[<<v, u>>]
      BY <1>4, <2>1
    <3>. QED BY <3>1, <3>2 DEF Mirrored
  <2>2. CASE <<u, v>> \in {<<f, t>>, <<t, f>>}
    <3>1. PICK e \in Edges, g \in Edges :
            e = FirstEdge(job.cmd) /\ g = SecondEdge(job.cmd) /\ g = -e /\ e = -g
      <4>1. /\ FirstEdge(job.cmd) \in Edges /\ SecondEdge(job.cmd) \in Edges
            /\ SecondEdge(job.cmd) = -FirstEdge(job.cmd)
        BY <1>2, TargetsMatch
      <4>2. FirstEdge(job.cmd) = -SecondEdge(job.cmd)
        BY <4>1 DEF Edges
      <4>. QED BY <4>1, <4>2
    <3>2. f # t
      BY <2>2
    <3>3. \/ friends'[<<f, t>>] = << >> /\ friends'[<<t, f>>] = << >>
          \/ friends'[<<f, t>>] = <<e>> /\ friends'[<<t, f>>] = <<g>>
      BY <1>5, <3>1, <3>2 DEF FirstTarget, SecondTarget
    <3>4. CASE u = f /\ v = t
      BY <3>1, <3>3, <3>4 DEF Mirrored
    <3>5. CASE u = t /\ v = f
      BY <3>1, <3>3, <3>5 DEF Mirrored
    <3>. QED BY <2>2, <3>4, <3>5
  <2>. QED BY <2>1, <2>2
<1>7. ReadyToWrite' /\ HalfWritten'
  BY <1>1 DEF ReadyToWrite, HalfWritten
<1>8. BothWritten'
  BY <1>1, <1>5 DEF BothWritten, FirstTarget, SecondTarget
<1>. QED BY <1>6, <1>7, <1>8 DEF MirrorInv

\* The remaining statements, and the answer, leave the table alone.
LEMMA LaterMirror == TypeInv /\ MirrorInv /\ (InsertChat \/ AddMember \/ Answer) => MirrorInv'
<1>. SUFFICES ASSUME TypeInv, MirrorInv, InsertChat \/ AddMember \/ Answer PROVE MirrorInv'
  OBVIOUS
<1>1. friends' = friends /\ pc \in {"chat", "xref_to", "xref_from", "answer"}
  BY DEF InsertChat, AddMember, Answer
<1>2. \/ pc' \in {"xref_to", "xref_from", "answer"} /\ job' = job
      \/ pc' = "idle"
  BY DEF InsertChat, AddMember, Answer
<1>3. OthersMirrored'
  BY <1>1, <1>2 DEF MirrorInv, OthersMirrored, Mirrored
<1>4. ReadyToWrite' /\ HalfWritten'
  BY <1>1, <1>2 DEF ReadyToWrite, HalfWritten
<1>5. BothWritten'
  BY <1>1, <1>2 DEF MirrorInv, BothWritten, FirstTarget, SecondTarget
<1>. QED BY <1>3, <1>4, <1>5 DEF MirrorInv

\* The look at check_pair_edge, when a handler starts, is true of both directions.
LEMMA StartMirror ==
  ASSUME MirrorInv, pc = "idle", NEW cmd \in Writing, NEW u \in Users, NEW v \in Users,
         Start(cmd, u, v), cmd = "accept" => CheckFriend(u, v) = -1
  PROVE  MirrorInv'
<1>1. friends' = friends /\ pc' = "row1"
  BY DEF Start
<1>2. OthersMirrored'
  BY <1>1 DEF MirrorInv, OthersMirrored, Mirrored
<1>3. job'.exists = CheckPairEdge(u, v) /\ job'.from = u /\ job'.to = v /\ job'.cmd = cmd
  BY DEF Start
<1>4. CheckPairEdge(u, v)' = CheckPairEdge(u, v)
  BY <1>1 DEF CheckPairEdge
<1>5. cmd = "accept" => CheckPairEdge(u, v)
  BY DEF CheckFriend, NoEdge
<1>6. ReadyToWrite'
  BY <1>1, <1>3, <1>4, <1>5 DEF ReadyToWrite, CheckPairEdge
<1>7. HalfWritten' /\ BothWritten'
  BY <1>1 DEF HalfWritten, BothWritten
<1>. QED BY <1>2, <1>6, <1>7 DEF MirrorInv

\* Between requests only a write to the table could disturb the directions.
LEMMA IdleMirror ==
  ASSUME MirrorInv, pc = "idle", pc' = "idle", friends' = friends
  PROVE  MirrorInv'
  BY DEF MirrorInv, OthersMirrored, Mirrored, ReadyToWrite, HalfWritten, BothWritten

\* No check a handler makes before its statements disturbs the directions.
LEMMA HandleMirror ==
  ASSUME TypeInv, MirrorInv, NEW u \in Users, NEW v \in Users, Handle(u, v)
  PROVE  MirrorInv'
<1>1. pc = "idle"
  BY DEF Handle, Block, Friend, BlockOrFriend, Unblock, Accept, Reject, Message, Request
<1>2. ASSUME NEW answers, Respond(answers) PROVE MirrorInv'
  BY <1>1, <1>2, IdleMirror DEF Respond
<1>3. ASSUME NEW cmd \in {"block", "unblock", "friend", "reject"}, Start(cmd, u, v)
      PROVE  MirrorInv'
  BY <1>1, <1>3, StartMirror DEF Writing
<1>4. CASE Block(u, v) \/ Friend(u, v)
  BY <1>2, <1>3, <1>4 DEF Block, Friend, BlockOrFriend
<1>5. CASE Unblock(u, v)
  BY <1>2, <1>3, <1>5 DEF Unblock
<1>6. CASE Accept(u, v)
  <2>1. CASE CheckFriend(u, v) = -1
    BY <1>1, <1>6, <2>1, StartMirror DEF Accept, Writing
  <2>2. CASE CheckFriend(u, v) # -1
    BY <1>2, <1>6, <2>2 DEF Accept
  <2>. QED BY <2>1, <2>2
<1>7. CASE Reject(u, v)
  BY <1>2, <1>3, <1>7 DEF Reject
<1>8. CASE Message(u, v)
  BY <1>2, <1>8 DEF Message
<1>. QED BY <1>4, <1>5, <1>6, <1>7, <1>8 DEF Handle

\* Without crashes, every step keeps the directions of the pairs.
LEMMA StepMirrorInv ==
  ASSUME MaxCrashes = 0
  PROVE  TypeInv /\ MirrorInv /\ [Next]_vars => MirrorInv'
<1>. SUFFICES ASSUME TypeInv, MirrorInv, [Next]_vars PROVE MirrorInv'
  OBVIOUS
<1>1. ASSUME NEW u \in Users, Register(u) PROVE MirrorInv'
  BY <1>1, IdleMirror DEF Register
<1>2. ~Crash
  BY DEF Crash, TypeInv, TypeOK
<1>3. CASE UNCHANGED vars
  BY <1>3 DEF vars, MirrorInv, OthersMirrored, Mirrored, ReadyToWrite, CheckPairEdge,
              HalfWritten, BothWritten, FirstTarget, SecondTarget, Written
<1>4. CASE Statement
  BY <1>4, FirstRowMirror, SecondRowMirror, LaterMirror DEF Statement
<1>. QED BY <1>1, <1>2, <1>3, <1>4, HandleMirror DEF Next

\* As long as the server is not killed inside a handler, the two directions of
\* every pair agree between any two requests.
THEOREM DirectionsAgree ==
  ASSUME MaxCrashes = 0
  PROVE  Spec => []EdgesMirror
<1>1. MirrorInv => EdgesMirror
  BY DEF MirrorInv, OthersMirrored, EdgesMirror
<1>. QED BY <1>1, InitTypeInv, StepTypeInv, InitMirrorInv, StepMirrorInv, PTL DEF Spec

\* Negation, in a form the provers can add and subtract with.
LEMMA Negated ==
  ASSUME NEW edge \in Edges
  PROVE  -edge \in Edges /\ -edge = 0 - edge
  BY DEF Edges

\* check_friend returns an edge, or that there is none.
LEMMA CheckFriendType ==
  ASSUME TypeInv, NEW u \in Users, NEW v \in Users
  PROVE  CheckFriend(u, v) \in Edges \cup {NoEdge}
  BY DEF TypeInv, TypeOK, CheckFriend, CheckPairEdge

\* Two directions that mirror each other show opposite edges.
LEMMA MirroredOpposite ==
  ASSUME NEW u \in Users, NEW v \in Users, Mirrored(u, v)
  PROVE  CheckFriend(u, v) = Opposite(CheckFriend(v, u))
<1>1. CASE friends[<<u, v>>] = << >> /\ friends[<<v, u>>] = << >>
  BY <1>1 DEF CheckFriend, CheckPairEdge, Opposite
<1>2. ASSUME NEW edge \in Edges, friends[<<u, v>>] = <<edge>>, friends[<<v, u>>] = <<-edge>>
      PROVE  CheckFriend(u, v) = Opposite(CheckFriend(v, u))
  <2>1. PICK other \in Edges : other = -edge /\ other = 0 - edge
    BY Negated
  <2>2. -other = 0 - other
    BY Negated
  <2>3. CheckFriend(u, v) = edge
    <3>1. <<edge>> # << >> /\ <<edge>>[1] = edge
      OBVIOUS
    <3>. QED BY <1>2, <3>1 DEF CheckFriend, CheckPairEdge
  <2>4. CheckFriend(v, u) = other
    <3>1. <<other>> # << >> /\ <<other>>[1] = other
      OBVIOUS
    <3>. QED BY <1>2, <2>1, <3>1 DEF CheckFriend, CheckPairEdge
  <2>5. Opposite(other) = 0 - other
    BY <2>2 DEF Opposite, Edges, NoEdge
  <2>6. 0 - other = edge
    BY <2>1 DEF Edges
  <2>. QED BY <2>3, <2>4, <2>5, <2>6
<1>. QED BY <1>1, <1>2 DEF Mirrored

-------------------------------------------------------------------------------
(***************************************************************************)
(* Permission.  What a handler has checked is still true when it writes:   *)
(* nothing runs in between.  For accept it stays true of the second        *)
(* direction until that one is written.                                    *)
(***************************************************************************)
Permits(cmd, edge) ==
  /\ cmd \in {"block", "friend"} => edge # -2
  /\ cmd = "unblock" => edge = 2
  /\ cmd = "accept" => edge = -1

Permitted == pc = "row1" => Permits(job.cmd, CheckFriend(job.from, job.to))

AcceptedWasAsked ==
  (pc = "row2" /\ job.cmd = "accept" /\ job.from # job.to) =>
    friends[<<job.to, job.from>>] = <<1>>

PermitInv == Permitted /\ AcceptedWasAsked

\* Nothing is in progress at the start.
LEMMA InitPermitInv == Init => PermitInv
  BY DEF Init, PermitInv, Permitted, AcceptedWasAsked

\* What was checked is used up by the statements, or still true of the next.
LEMMA StatementPermit == TypeInv /\ MirrorInv /\ PermitInv /\ Statement => PermitInv'
<1>. SUFFICES ASSUME TypeInv, MirrorInv, PermitInv, Statement PROVE PermitInv'
  OBVIOUS
<1>1. CASE FirstRow
  <2>1. pc = "row1" /\ pc' = "row2" /\ job' = job
    BY <1>1 DEF FirstRow
  <2>2. PICK f \in Users, t \in Users : f = job.from /\ t = job.to
    BY <2>1, JobType
  <2>3. SUFFICES ASSUME job.cmd = "accept", f # t PROVE friends'[<<t, f>>] = <<1>>
    BY <2>1, <2>2 DEF PermitInv, Permitted, AcceptedWasAsked
  <2>4. CheckFriend(f, t) = -1 /\ Mirrored(f, t)
    BY <2>1, <2>2, <2>3 DEF PermitInv, Permitted, Permits, MirrorInv, OthersMirrored
  <2>5. PICK edge \in Edges : friends[<<f, t>>] = <<edge>> /\ friends[<<t, f>>] = <<-edge>>
    BY <2>4 DEF Mirrored, CheckFriend, CheckPairEdge, NoEdge
  <2>6. edge = -1
    BY <2>4, <2>5 DEF CheckFriend, CheckPairEdge, NoEdge
  <2>7. friends'[<<t, f>>] = friends[<<t, f>>]
    BY <1>1, <2>2, <2>3 DEF FirstRow, TypeInv, TypeOK
  <2>8. -edge = 0 - edge
    BY <2>5 DEF Edges
  <2>9. 0 - edge = 1
    BY <2>6
  <2>. QED BY <2>5, <2>7, <2>8, <2>9
<1>2. CASE SecondRow \/ InsertChat \/ AddMember \/ Answer
  BY <1>2 DEF SecondRow, InsertChat, AddMember, Answer, PermitInv, Permitted, AcceptedWasAsked
<1>. QED BY <1>1, <1>2 DEF Statement

\* A handler is started only after the check that permits it.
LEMMA HandlePermit ==
  ASSUME PermitInv, NEW u \in Users, NEW v \in Users, Handle(u, v)
  PROVE  PermitInv'
<1>1. pc = "idle"
  BY DEF Handle, Block, Friend, BlockOrFriend, Unblock, Accept, Reject, Message, Request
<1>2. ASSUME NEW answers, Respond(answers) PROVE PermitInv'
  BY <1>1, <1>2 DEF Respond, PermitInv, Permitted, AcceptedWasAsked
<1>3. ASSUME NEW cmd \in Writing, Start(cmd, u, v), Permits(cmd, CheckFriend(u, v))
      PROVE  PermitInv'
  BY <1>3 DEF Start, PermitInv, Permitted, AcceptedWasAsked, CheckFriend, CheckPairEdge
<1>4. CASE Block(u, v) \/ Friend(u, v)
  BY <1>2, <1>3, <1>4 DEF Block, Friend, BlockOrFriend, Permits, Writing
<1>5. CASE Unblock(u, v)
  BY <1>2, <1>3, <1>5 DEF Unblock, Permits, Writing
<1>6. CASE Accept(u, v)
  BY <1>2, <1>3, <1>6 DEF Accept, Permits, Writing
<1>7. CASE Reject(u, v)
  BY <1>2, <1>3, <1>7 DEF Reject, Permits, Writing
<1>8. CASE Message(u, v)
  BY <1>2, <1>8 DEF Message
<1>. QED BY <1>4, <1>5, <1>6, <1>7, <1>8 DEF Handle

\* Without crashes, every step keeps what was checked true until it is used.
LEMMA StepPermitInv ==
  ASSUME MaxCrashes = 0
  PROVE  TypeInv /\ MirrorInv /\ PermitInv /\ [Next]_vars => PermitInv'
<1>. SUFFICES ASSUME TypeInv, MirrorInv, PermitInv, [Next]_vars PROVE PermitInv'
  OBVIOUS
<1>1. ASSUME NEW u \in Users, Register(u) PROVE PermitInv'
  BY <1>1 DEF Register, PermitInv, Permitted, AcceptedWasAsked
<1>2. ~Crash
  BY DEF Crash, TypeInv, TypeOK
<1>3. CASE UNCHANGED vars
  BY <1>3 DEF vars, PermitInv, Permitted, AcceptedWasAsked, CheckFriend, CheckPairEdge
<1>. QED BY <1>1, <1>2, <1>3, HandlePermit, StatementPermit DEF Next

-------------------------------------------------------------------------------
(***************************************************************************)
(* Friendships are wanted by both.  A request is granted at its first      *)
(* check, and the two statements only carry it out: in between, the pair   *)
(* being written is the one that may not yet say what its users want.      *)
(***************************************************************************)
Wanting(u, v) ==
  /\ CheckFriend(u, v) = 0 => {<<u, v>>, <<v, u>>} \subseteq wanted
  /\ CheckFriend(u, v) = 1 => <<u, v>> \in wanted

OthersAreWanted ==
  \A u, v \in Users : u # v =>
    Wanting(u, v) \/ (pc # "idle" /\ <<u, v>> \in {<<job.from, job.to>>, <<job.to, job.from>>})

JobIsWanted ==
  (pc # "idle" /\ job.from # job.to) =>
    /\ job.cmd = "friend" => <<job.from, job.to>> \in wanted
    /\ job.cmd = "accept" => {<<job.from, job.to>>, <<job.to, job.from>>} \subseteq wanted

WantInv == OthersAreWanted /\ JobIsWanted

\* Nobody is a friend at the start.
LEMMA InitWantInv == Init => WantInv
  BY DEF Init, WantInv, OthersAreWanted, JobIsWanted, Wanting, CheckFriend, CheckPairEdge, NoEdge

\* The statements touch no more than the pair of the request being handled, and
\* leave it as its users want it when the request is answered.
LEMMA StatementWant == TypeInv /\ MirrorInv /\ WantInv /\ Statement => WantInv'
<1>. SUFFICES ASSUME TypeInv, MirrorInv, WantInv, Statement PROVE WantInv'
  OBVIOUS
<1>1. pc # "idle" /\ wanted' = wanted
  BY DEF Statement, FirstRow, SecondRow, InsertChat, AddMember, Answer
<1>2. PICK f \in Users, t \in Users, cmd \in Writing : f = job.from /\ t = job.to /\ cmd = job.cmd
  BY <1>1, JobType
<1>3. ASSUME NEW u \in Users, NEW v \in Users, u # v, <<u, v>> \notin {<<f, t>>, <<t, f>>}
      PROVE  Wanting(u, v)'
  <2>1. friends'[<<u, v>>] = friends[<<u, v>>]
    BY <1>2, <1>3 DEF Statement, FirstRow, SecondRow, InsertChat, AddMember, Answer, TypeInv, TypeOK
  <2>2. Wanting(u, v)
    BY <1>2, <1>3 DEF WantInv, OthersAreWanted
  <2>. QED BY <1>1, <2>1, <2>2 DEF Wanting, CheckFriend, CheckPairEdge
<1>4. CASE ~Answer
  <2>1. pc' # "idle" /\ job' = job
    BY <1>4 DEF Statement, FirstRow, SecondRow, InsertChat, AddMember
  <2>2. JobIsWanted'
    BY <1>1, <2>1 DEF WantInv, JobIsWanted
  <2>. QED BY <1>2, <1>3, <2>1, <2>2 DEF WantInv, OthersAreWanted
<1>5. CASE Answer
  <2>1. pc = "answer" /\ pc' = "idle" /\ friends' = friends
    BY <1>5 DEF Answer
  <2>2. ASSUME f # t PROVE Wanting(f, t)' /\ Wanting(t, f)'
    <3>1. /\ cmd = "friend" => <<f, t>> \in wanted
          /\ cmd = "accept" => {<<f, t>>, <<t, f>>} \subseteq wanted
      BY <1>1, <1>2, <2>2 DEF WantInv, JobIsWanted
    <3>2. friends[<<f, t>>] = FirstTarget /\ friends[<<t, f>>] = SecondTarget
      BY <1>2, <2>1, <2>2 DEF MirrorInv, BothWritten
    <3>3. CASE cmd \in Deleting
      <4>1. CheckFriend(f, t) = NoEdge /\ CheckFriend(t, f) = NoEdge
        BY <1>2, <3>2, <3>3 DEF FirstTarget, SecondTarget, CheckFriend, CheckPairEdge
      <4>. QED BY <2>1, <4>1 DEF Wanting, CheckFriend, CheckPairEdge, NoEdge
    <3>4. CASE cmd \notin Deleting
      <4>1. PICK e : e = FirstEdge(cmd)
        OBVIOUS
      <4>2. PICK g : g = SecondEdge(cmd)
        OBVIOUS
      <4>3. friends[<<f, t>>] = <<e>> /\ friends[<<t, f>>] = <<g>>
        BY <1>2, <3>2, <3>4, <4>1, <4>2 DEF FirstTarget, SecondTarget
      <4>4. <<e>> # << >> /\ <<e>>[1] = e /\ <<g>> # << >> /\ <<g>>[1] = g
        OBVIOUS
      <4>5. CheckFriend(f, t)' = e /\ CheckFriend(t, f)' = g
        BY <2>1, <4>3, <4>4 DEF CheckFriend, CheckPairEdge
      <4>6. /\ cmd = "friend" => e = 1 /\ g = -1
            /\ cmd = "block" => e = 2 /\ g = -2
            /\ cmd = "accept" => e = 0 /\ g = 0
        BY <4>1, <4>2 DEF FirstEdge, SecondEdge
      <4>7. cmd \in {"friend", "block", "accept"}
        BY <3>4 DEF Writing, Deleting
      <4>. QED BY <1>1, <3>1, <4>5, <4>6, <4>7 DEF Wanting
    <3>. QED BY <3>3, <3>4
  <2>3. ASSUME NEW u \in Users, NEW v \in Users, u # v PROVE Wanting(u, v)'
    BY <1>3, <2>2, <2>3
  <2>. QED BY <2>1, <2>3 DEF WantInv, OthersAreWanted, JobIsWanted
<1>. QED BY <1>4, <1>5

\* A request is granted only if, when it is granted, the pair is what both want.
LEMMA HandleWant ==
  ASSUME TypeInv, MirrorInv, WantInv, NEW u \in Users, NEW v \in Users, Handle(u, v)
  PROVE  WantInv'
<1>1. pc = "idle"
  BY DEF Handle, Block, Friend, BlockOrFriend, Unblock, Accept, Reject, Message, Request
<1>2. ASSUME NEW answers, Respond(answers) PROVE WantInv'
  BY <1>1, <1>2 DEF Respond, WantInv, OthersAreWanted, JobIsWanted, Wanting, CheckFriend, CheckPairEdge
<1>3. ASSUME NEW cmd \in Writing, Start(cmd, u, v), cmd = "accept" => CheckFriend(u, v) = -1
      PROVE  WantInv'
  <2>1. /\ job' = [cmd |-> cmd, from |-> u, to |-> v, exists |-> CheckPairEdge(u, v)]
        /\ pc' = "row1" /\ friends' = friends /\ wanted' = Wishes(cmd, u, v)
    BY <1>3 DEF Start
  <2>2. job'.cmd = cmd /\ job'.from = u /\ job'.to = v
    BY <2>1
  <2>3. ASSUME NEW a \in Users, NEW b \in Users, a # b, <<a, b>> \notin {<<u, v>>, <<v, u>>}
        PROVE  Wanting(a, b)'
    <3>1. Wanting(a, b) /\ CheckFriend(a, b)' = CheckFriend(a, b)
      BY <1>1, <2>1, <2>3 DEF WantInv, OthersAreWanted, CheckFriend, CheckPairEdge
    <3>2. /\ <<a, b>> \in wanted => <<a, b>> \in wanted'
          /\ <<b, a>> \in wanted => <<b, a>> \in wanted'
      BY <2>1, <2>3 DEF Wishes
    <3>. QED BY <3>1, <3>2 DEF Wanting
  <2>4. ASSUME u # v, cmd = "accept" PROVE {<<u, v>>, <<v, u>>} \subseteq wanted'
    <3>1. Mirrored(u, v) /\ CheckFriend(u, v) = -1
      BY <1>1, <1>3, <2>4 DEF MirrorInv, OthersMirrored
    <3>2. CheckFriend(v, u) = 1
      <4>1. PICK edge \in Edges : friends[<<u, v>>] = <<edge>> /\ friends[<<v, u>>] = <<-edge>>
        BY <3>1 DEF Mirrored, CheckFriend, CheckPairEdge, NoEdge
      <4>2. edge = -1
        BY <3>1, <4>1 DEF CheckFriend, CheckPairEdge, NoEdge
      <4>3. PICK other : other = 1 /\ other = -edge
        BY <4>2
      <4>4. <<other>> # << >> /\ <<other>>[1] = other
        OBVIOUS
      <4>. QED BY <4>1, <4>3, <4>4 DEF CheckFriend, CheckPairEdge
    <3>3. <<v, u>> \in wanted
      BY <1>1, <2>4, <3>2 DEF WantInv, OthersAreWanted, Wanting
    <3>. QED BY <2>1, <2>4, <3>3 DEF Wishes
  <2>5. cmd = "friend" => <<u, v>> \in wanted'
    BY <2>1 DEF Wishes
  <2>6. JobIsWanted'
    BY <2>2, <2>4, <2>5 DEF JobIsWanted
  <2>7. OthersAreWanted'
    BY <2>1, <2>2, <2>3 DEF OthersAreWanted
  <2>. QED BY <2>6, <2>7 DEF WantInv
<1>4. CASE Block(u, v) \/ Friend(u, v)
  BY <1>2, <1>3, <1>4 DEF Block, Friend, BlockOrFriend, Writing
<1>5. CASE Unblock(u, v)
  BY <1>2, <1>3, <1>5 DEF Unblock, Writing
<1>6. CASE Accept(u, v)
  BY <1>2, <1>3, <1>6 DEF Accept, Writing
<1>7. CASE Reject(u, v)
  BY <1>2, <1>3, <1>7 DEF Reject, Writing
<1>8. CASE Message(u, v)
  BY <1>2, <1>8 DEF Message
<1>. QED BY <1>4, <1>5, <1>6, <1>7, <1>8 DEF Handle

\* Without crashes, every step keeps friendships wanted by both.
LEMMA StepWantInv ==
  ASSUME MaxCrashes = 0
  PROVE  TypeInv /\ MirrorInv /\ WantInv /\ [Next]_vars => WantInv'
<1>. SUFFICES ASSUME TypeInv, MirrorInv, WantInv, [Next]_vars PROVE WantInv'
  OBVIOUS
<1>1. ASSUME NEW u \in Users, Register(u) PROVE WantInv'
  BY <1>1 DEF Register, WantInv, OthersAreWanted, JobIsWanted, Wanting, CheckFriend, CheckPairEdge
<1>2. ~Crash
  BY DEF Crash, TypeInv, TypeOK
<1>3. CASE UNCHANGED vars
  BY <1>3 DEF vars, WantInv, OthersAreWanted, JobIsWanted, Wanting, CheckFriend, CheckPairEdge
<1>. QED BY <1>1, <1>2, <1>3, HandleWant, StatementWant DEF Next

\* Without a crash inside a handler, two users are friends only as long as both
\* want it: one has asked and the other accepted, and neither has asked anew,
\* blocked, unblocked or refused since.
THEOREM FriendshipIsWantedByBoth ==
  ASSUME MaxCrashes = 0
  PROVE  Spec => []FriendsBothWantIt
<1>1. WantInv => FriendsBothWantIt
  BY DEF WantInv, OthersAreWanted, Wanting, FriendsBothWantIt
<1>. QED BY <1>1, InitTypeInv, StepTypeInv, InitMirrorInv, StepMirrorInv,
            InitWantInv, StepWantInv, PTL DEF Spec

-------------------------------------------------------------------------------
(***************************************************************************)
(* The handlers of the friends table implement the relations of Friendship *)
(* for any set of users, as long as the server is not killed inside one.   *)
(* The step of the abstract relation is the first statement of a handler:  *)
(* from then on, until the request is answered, the pair is seen from the  *)
(* side that was written, and every other step leaves the relation alone.  *)
(***************************************************************************)

\* Taking the other side of an edge is taking the other side of its view.
LEMMA OppositeView ==
  ASSUME NEW edge \in Edges \cup {NoEdge}
  PROVE  View(Opposite(edge)) = Abstract!Mirror(View(edge))
<1>1. CASE edge = NoEdge
  BY <1>1 DEF NoEdge, Opposite, View, Abstract!Mirror
<1>2. CASE edge \in Edges
  <2>1. edge # NoEdge /\ Opposite(edge) = -edge
    BY <1>2 DEF Edges, NoEdge, Opposite
  <2>2. PICK other \in Edges : other = -edge /\ other = 0 - edge
    BY <1>2, Negated
  <2>3. View(other) = Abstract!Mirror(View(edge))
    BY <1>2, <2>2 DEF Edges, View, Abstract!Mirror
  <2>. QED BY <2>1, <2>2, <2>3
<1>. QED BY <1>1, <1>2

\* A step that changes no edge as it is seen is a stutter of the relation.
LEMMA SeenSame ==
  ASSUME \A u, v \in Users : u # v => EdgeSeen(u, v)' = EdgeSeen(u, v)
  PROVE  Relation' = Relation
  BY DEF Relation, View

\* Between requests, and before the first statement of one, every edge that is
\* seen is the one in the table.
LEMMA SeenIsStored ==
  ASSUME TypeInv, MirrorInv, pc # "row2", NEW u \in Users, NEW v \in Users, u # v
  PROVE  EdgeSeen(u, v) = CheckFriend(u, v)
<1>1. Mirrored(u, v)
  BY DEF MirrorInv, OthersMirrored
<1>. QED BY <1>1, MirroredOpposite DEF EdgeSeen

-------------------------------------------------------------------------------
(* The steps that are stutters *)

\* As long as the table and the request stay, so does what is seen.
LEMMA SameJobStutter ==
  ASSUME friends' = friends, job' = job, (pc' = "idle") = (pc = "idle")
  PROVE  Relation' = Relation
<1>1. ASSUME NEW u \in Users, NEW v \in Users PROVE EdgeSeen(u, v)' = EdgeSeen(u, v)
  BY DEF EdgeSeen, CheckFriend, CheckPairEdge, Opposite
<1>. QED BY <1>1, SeenSame

\* The start of a handler, and its answer, change the side a pair is seen from,
\* at a moment when both sides show the same.
LEMMA SettledStutter ==
  ASSUME TypeInv, MirrorInv, pc # "row2", (TypeInv /\ MirrorInv)', pc' # "row2",
         friends' = friends
  PROVE  Relation' = Relation
<1>1. ASSUME NEW u \in Users, NEW v \in Users, u # v
      PROVE  EdgeSeen(u, v)' = EdgeSeen(u, v)
  <2>1. EdgeSeen(u, v) = CheckFriend(u, v)
    BY <1>1, SeenIsStored
  <2>2. Mirrored(u, v)' /\ Mirrored(u, v)
    BY <1>1 DEF MirrorInv, OthersMirrored
  <2>3. CheckFriend(u, v)' = CheckFriend(u, v) /\ CheckFriend(v, u)' = CheckFriend(v, u)
    BY DEF CheckFriend, CheckPairEdge
  <2>4. CheckFriend(u, v) = Opposite(CheckFriend(v, u))
    BY <2>2, MirroredOpposite
  <2>5. EdgeSeen(u, v)' \in {CheckFriend(u, v)', Opposite(CheckFriend(v, u))'}
    BY DEF EdgeSeen
  <2>6. Opposite(CheckFriend(v, u))' = Opposite(CheckFriend(v, u))
    BY <2>3 DEF Opposite
  <2>. QED BY <2>1, <2>3, <2>4, <2>5, <2>6
<1>. QED BY <1>1, SeenSame

\* The second statement writes the direction that is not looked at.
LEMMA SecondRowStutter ==
  ASSUME TypeInv, SecondRow
  PROVE  Relation' = Relation
<1>1. PICK f \in Users, t \in Users : f = job.from /\ t = job.to
  BY JobType DEF SecondRow
<1>2. pc = "row2" /\ pc' # "idle" /\ job' = job
  BY DEF SecondRow
<1>3. ASSUME NEW u \in Users, NEW v \in Users, u # v
      PROVE  EdgeSeen(u, v)' = EdgeSeen(u, v)
  <2>1. ASSUME NEW a \in Users, NEW b \in Users, <<a, b>> # <<t, f>>
        PROVE  CheckFriend(a, b)' = CheckFriend(a, b)
    <3>1. friends'[<<a, b>>] = friends[<<a, b>>]
      BY <1>1, <2>1 DEF SecondRow, TypeInv, TypeOK
    <3>. QED BY <3>1 DEF CheckFriend, CheckPairEdge
  <2>2. CASE u = t /\ v = f
    <3>1. CheckFriend(v, u)' = CheckFriend(v, u)
      BY <1>3, <2>1, <2>2
    <3>2. Opposite(CheckFriend(v, u))' = Opposite(CheckFriend(v, u))
      BY <3>1 DEF Opposite
    <3>. QED BY <1>1, <1>2, <2>2, <3>2 DEF EdgeSeen
  <2>3. CASE ~(u = t /\ v = f)
    <3>1. CheckFriend(u, v)' = CheckFriend(u, v)
      BY <2>1, <2>3
    <3>. QED BY <1>1, <1>2, <2>3, <3>1 DEF EdgeSeen
  <2>. QED BY <2>2, <2>3
<1>. QED BY <1>3, SeenSame

\* A request that is looked at, and perhaps started, is not yet carried out.
LEMMA HandleStutter ==
  ASSUME TypeInv, MirrorInv, (TypeInv /\ MirrorInv)',
         NEW u \in Users, NEW v \in Users, Handle(u, v)
  PROVE  Relation' = Relation
<1>1. pc = "idle"
  BY DEF Handle, Block, Friend, BlockOrFriend, Unblock, Accept, Reject, Message, Request
<1>2. friends' = friends /\ pc' # "row2"
  BY <1>1 DEF Handle, Block, Friend, BlockOrFriend, Unblock, Accept, Reject, Message,
              Start, Respond
<1>. QED BY <1>1, <1>2, SettledStutter

\* The statements of the chat, and the answer, leave the relation alone.
LEMMA LaterStutter ==
  ASSUME TypeInv, MirrorInv, (TypeInv /\ MirrorInv)', InsertChat \/ AddMember \/ Answer
  PROVE  Relation' = Relation
<1>1. CASE InsertChat \/ AddMember
  BY <1>1, SameJobStutter DEF InsertChat, AddMember
<1>2. CASE Answer
  BY <1>2, SettledStutter DEF Answer
<1>. QED BY <1>1, <1>2

-------------------------------------------------------------------------------
(* The step that is not *)

\* Before the first statement the relation is the one the handler checked.
LEMMA FirstRowPermitted ==
  ASSUME TypeInv, MirrorInv, PermitInv, FirstRow,
         NEW f \in Users, NEW t \in Users, f = job.from, t = job.to, f # t
  PROVE  /\ job.cmd \in {"block", "friend"} => Relation[f][t] # "blocked"
         /\ job.cmd = "unblock" => Relation[f][t] = "blocking"
         /\ job.cmd = "accept" => Relation[f][t] = "asked"
<1>1. pc = "row1"
  BY DEF FirstRow
<1>2. PICK edge \in Edges \cup {NoEdge} : edge = CheckFriend(f, t)
  BY CheckFriendType
<1>3. Permits(job.cmd, edge)
  BY <1>1, <1>2 DEF PermitInv, Permitted
<1>4. Relation[f][t] = View(edge)
  BY <1>1, <1>2, SeenIsStored DEF Relation
<1>. QED BY <1>3, <1>4 DEF Permits, View, Edges, NoEdge

\* What the first statement leaves of its direction.
LEMMA FirstRowEdge ==
  ASSUME TypeInv, MirrorInv, FirstRow,
         NEW f \in Users, NEW t \in Users, f = job.from, t = job.to, f # t
  PROVE  CheckFriend(f, t)' = IF job.cmd \in Deleting THEN NoEdge ELSE FirstEdge(job.cmd)
<1>1. MirrorInv' /\ pc' = "row2" /\ job' = job
  BY FirstRowMirror DEF FirstRow
<1>2. friends'[<<f, t>>] = FirstTarget
  BY <1>1 DEF MirrorInv, HalfWritten, FirstTarget
<1>3. FirstEdge(job.cmd) \in Edges
  BY JobType, TargetsMatch DEF FirstRow
<1>4. <<FirstEdge(job.cmd)>> # << >> /\ <<FirstEdge(job.cmd)>>[1] = FirstEdge(job.cmd)
  OBVIOUS
<1>. QED BY <1>2, <1>4 DEF CheckFriend, CheckPairEdge, FirstTarget

\* The view each request is for.
Intended(cmd) ==
  CASE cmd = "block"  -> "blocking"
    [] cmd = "friend" -> "asking"
    [] cmd = "accept" -> "friends"
    [] OTHER          -> "none"

\* A matrix that differs from another in two places.
LEMMA TwoUpdates ==
  ASSUME NEW S, NEW V, NEW R \in [S -> [S -> V]], NEW Q \in [S -> [S -> V]],
         NEW f \in S, NEW t \in S, f # t, NEW a, NEW b,
         \A u, v \in S : Q[u][v] = IF u = f /\ v = t THEN a
                                   ELSE IF u = t /\ v = f THEN b ELSE R[u][v]
  PROVE  Q = [R EXCEPT ![f][t] = a, ![t][f] = b]
<1>1. Q[f] = [R[f] EXCEPT ![t] = a]
  OBVIOUS
<1>2. Q[t] = [R[t] EXCEPT ![f] = b]
  OBVIOUS
<1>3. ASSUME NEW u \in S, u \notin {f, t} PROVE Q[u] = R[u]
  BY <1>3
<1>. QED BY <1>1, <1>2, <1>3

\* The first statement is the change of relation the command asks for.
LEMMA FirstRowBecomes ==
  ASSUME TypeInv, MirrorInv, FirstRow,
         NEW f \in Users, NEW t \in Users, f = job.from, t = job.to, f # t
  PROVE  Abstract!Become(f, t, Intended(job.cmd))
<1>1. PICK edge \in Edges \cup {NoEdge} : edge = CheckFriend(f, t)'
  <2>1. TypeInv'
    BY StepTypeInv DEF Next, Statement
  <2>. QED BY <2>1 DEF TypeInv, TypeOK, CheckFriend, CheckPairEdge
<1>2. job.cmd \in Writing
  BY JobType DEF FirstRow
<1>3. View(edge) = Intended(job.cmd)
  BY <1>1, <1>2, FirstRowEdge DEF Intended, View, FirstEdge, Writing, Deleting, NoEdge
<1>4. View(Opposite(edge)) = Abstract!Mirror(Intended(job.cmd))
  BY <1>3, OppositeView
<1>5. pc' = "row2" /\ job' = job /\ pc = "row1"
  BY DEF FirstRow
<1>6. EdgeSeen(f, t)' = edge /\ EdgeSeen(t, f)' = Opposite(edge)
  BY <1>1, <1>5 DEF EdgeSeen, Opposite
<1>7. ASSUME NEW u \in Users, NEW v \in Users, u # v, <<u, v>> \notin {<<f, t>>, <<t, f>>}
      PROVE  EdgeSeen(u, v)' = EdgeSeen(u, v)
  <2>1. friends'[<<u, v>>] = friends[<<u, v>>]
    BY <1>7 DEF FirstRow, TypeInv, TypeOK
  <2>. QED BY <1>5, <1>7, <2>1 DEF EdgeSeen, CheckFriend, CheckPairEdge
<1>8. ASSUME NEW u \in Users, NEW v \in Users
      PROVE  Relation'[u][v] = IF u = f /\ v = t THEN Intended(job.cmd)
                               ELSE IF u = t /\ v = f THEN Abstract!Mirror(Intended(job.cmd))
                               ELSE Relation[u][v]
  BY <1>3, <1>4, <1>6, <1>7 DEF Relation, View
<1>9. Relation' = [Relation EXCEPT ![f][t] = Intended(job.cmd),
                                   ![t][f] = Abstract!Mirror(Intended(job.cmd))]
  <2>1. Relation \in [Users -> [Users -> Abstract!Views]]
    BY DEF Relation, View, Abstract!Views
  <2>2. Relation' \in [Users -> [Users -> Abstract!Views]]
    BY DEF Relation, View, Abstract!Views
  <2>. HIDE DEF Relation
  <2>. QED BY <1>8, <2>1, <2>2, TwoUpdates
<1>. QED BY <1>9 DEF Abstract!Become

\* The first statement is a step of Friendship, or a stutter of a user with
\* himself.
LEMMA FirstRowImplements ==
  ASSUME TypeInv, MirrorInv, PermitInv, FirstRow
  PROVE  Abstract!Next \/ Relation' = Relation
<1>1. PICK f \in Users, t \in Users : f = job.from /\ t = job.to
  BY JobType DEF FirstRow
<1>2. CASE f = t
  <2>1. ASSUME NEW u \in Users, NEW v \in Users, u # v
        PROVE  EdgeSeen(u, v)' = EdgeSeen(u, v)
    <3>1. friends'[<<u, v>>] = friends[<<u, v>>]
      BY <1>1, <1>2, <2>1 DEF FirstRow, TypeInv, TypeOK
    <3>. QED BY <1>1, <1>2, <2>1, <3>1 DEF FirstRow, EdgeSeen, CheckFriend, CheckPairEdge
  <2>. QED BY <2>1, SeenSame
<1>3. CASE f # t
  <2>1. job.cmd \in Writing
    BY JobType DEF FirstRow
  <2>2. Abstract!Become(f, t, Intended(job.cmd))
    BY <1>1, <1>3, FirstRowBecomes
  <2>3. /\ job.cmd \in {"block", "friend"} => Relation[f][t] # "blocked"
        /\ job.cmd = "unblock" => Relation[f][t] = "blocking"
        /\ job.cmd = "accept" => Relation[f][t] = "asked"
    BY <1>1, <1>3, FirstRowPermitted
  <2>4. \/ Abstract!Ask(f, t) \/ Abstract!Accept(f, t) \/ Abstract!Block(f, t)
        \/ Abstract!Unblock(f, t) \/ Abstract!Reject(f, t)
    BY <2>1, <2>2, <2>3 DEF Writing, Intended, Abstract!Ask, Abstract!Accept,
       Abstract!Block, Abstract!Unblock, Abstract!Reject
  <2>. QED BY <2>4 DEF Abstract!Next
<1>. QED BY <1>2, <1>3

-------------------------------------------------------------------------------

\* An empty table is nobody related to anybody.
LEMMA InitImplements == Init => Abstract!Init
  BY DEF Init, Abstract!Init, Relation, View, EdgeSeen, CheckFriend, CheckPairEdge, NoEdge

\* Without crashes, every step is a step of Friendship or a stutter.
LEMMA StepImplements ==
  ASSUME MaxCrashes = 0, TypeInv, MirrorInv, PermitInv, (TypeInv /\ MirrorInv)', [Next]_vars
  PROVE  Abstract!Next \/ Relation' = Relation
<1>1. CASE UNCHANGED vars
  BY <1>1, SameJobStutter DEF vars
<1>2. ASSUME NEW u \in Users, Register(u) PROVE Relation' = Relation
  BY <1>2, SameJobStutter DEF Register
<1>3. ASSUME NEW u \in Users, NEW v \in Users, Handle(u, v) PROVE Relation' = Relation
  BY <1>3, HandleStutter
<1>4. CASE Statement
  BY <1>4, FirstRowImplements, SecondRowStutter, LaterStutter DEF Statement
<1>5. ~Crash
  BY DEF Crash, TypeInv, TypeOK
<1>. QED BY <1>1, <1>2, <1>3, <1>4, <1>5 DEF Next

\* Statement by statement, the handlers of block, unblock, friend, accept and
\* reject implement relations that change on both sides at once.
THEOREM HandlersImplementFriendship ==
  ASSUME MaxCrashes = 0
  PROVE  Spec => ImplementsFriendship
<1>1. TypeInv /\ MirrorInv /\ PermitInv /\ (TypeInv /\ MirrorInv)' /\ [Next]_vars
        => [Abstract!Next]_Relation
  BY StepImplements
<1>. QED BY <1>1, InitImplements, InitTypeInv, StepTypeInv, InitMirrorInv, StepMirrorInv,
            InitPermitInv, StepPermitInv, PTL DEF Spec, ImplementsFriendship, Abstract!Spec

(***************************************************************************)
(* The replies.  That an unknown name is reported only where there is no   *)
(* edge, or a block, needs that rows are of registered users; that         *)
(* nothing told before is made untrue by a handler, that the replies of    *)
(* the last request are gone when the next one starts.                     *)
(***************************************************************************)
RowsAreOfRegistered ==
  \A u, v \in Users : CheckPairEdge(u, v) => u \in registered /\ v \in registered

JobIsOfRegistered == pc # "idle" => job.from \in registered /\ job.to \in registered

ReplyIsNew == pc # "idle" => reply = {}

KnownInv == RowsAreOfRegistered /\ JobIsOfRegistered /\ ReplyIsNew

\* There are no rows at the start.
LEMMA InitKnownInv == Init => KnownInv
  BY DEF Init, KnownInv, RowsAreOfRegistered, JobIsOfRegistered, ReplyIsNew, CheckPairEdge

\* find_username lets no unregistered name into a handler.
LEMMA HandleKnown ==
  ASSUME TypeInv, KnownInv, NEW u \in Users, NEW v \in Users, Handle(u, v)
  PROVE  KnownInv'
<1>1. pc = "idle" /\ u \in registered
  BY DEF Handle, Block, Friend, BlockOrFriend, Unblock, Accept, Reject, Message, Request,
         FindUsername
<1>2. ASSUME NEW answers, Respond(answers) PROVE KnownInv'
  BY <1>1, <1>2 DEF Respond, KnownInv, RowsAreOfRegistered, JobIsOfRegistered, ReplyIsNew,
                    CheckPairEdge
<1>3. ASSUME NEW cmd \in Writing, Start(cmd, u, v), v \in registered PROVE KnownInv'
  BY <1>1, <1>3 DEF Start, KnownInv, RowsAreOfRegistered, JobIsOfRegistered, ReplyIsNew,
                    CheckPairEdge
<1>4. CheckFriend(u, v) # NoEdge => v \in registered
  BY DEF KnownInv, RowsAreOfRegistered, CheckFriend
<1>5. CASE Block(u, v) \/ Friend(u, v)
  BY <1>2, <1>3, <1>5 DEF Block, Friend, BlockOrFriend, Writing, FindUsername
<1>6. CASE Unblock(u, v)
  BY <1>2, <1>3, <1>4, <1>6 DEF Unblock, Writing, NoEdge
<1>7. CASE Accept(u, v)
  BY <1>2, <1>3, <1>4, <1>7 DEF Accept, Writing, NoEdge
<1>8. CASE Reject(u, v)
  BY <1>2, <1>3, <1>8 DEF Reject, Writing, FindUsername
<1>9. CASE Message(u, v)
  BY <1>2, <1>9 DEF Message
<1>. QED BY <1>5, <1>6, <1>7, <1>8, <1>9 DEF Handle

\* Statements write rows of the users of the request only.
LEMMA StatementKnown == TypeInv /\ KnownInv /\ Statement => KnownInv'
<1>. SUFFICES ASSUME TypeInv, KnownInv, Statement PROVE KnownInv'
  OBVIOUS
<1>1. PICK f \in Users, t \in Users : f = job.from /\ t = job.to
  <2>1. pc # "idle"
    BY DEF Statement, FirstRow, SecondRow, InsertChat, AddMember, Answer
  <2>. QED BY <2>1, JobType
<1>2. f \in registered /\ t \in registered /\ reply = {}
  BY <1>1 DEF KnownInv, JobIsOfRegistered, ReplyIsNew,
              Statement, FirstRow, SecondRow, InsertChat, AddMember, Answer
<1>3. registered' = registered
  BY DEF Statement, FirstRow, SecondRow, InsertChat, AddMember, Answer
<1>4. ASSUME NEW u \in Users, NEW v \in Users, <<u, v>> \notin {<<f, t>>, <<t, f>>}
      PROVE  friends'[<<u, v>>] = friends[<<u, v>>]
  BY <1>1, <1>4 DEF TypeInv, TypeOK, Statement, FirstRow, SecondRow, InsertChat, AddMember, Answer
<1>5. RowsAreOfRegistered'
  BY <1>2, <1>3, <1>4 DEF KnownInv, RowsAreOfRegistered, CheckPairEdge
<1>6. JobIsOfRegistered' /\ ReplyIsNew'
  BY <1>1, <1>2, <1>3 DEF JobIsOfRegistered, ReplyIsNew,
                          Statement, FirstRow, SecondRow, InsertChat, AddMember, Answer
<1>. QED BY <1>5, <1>6 DEF KnownInv

\* Every step, a crash included, keeps rows and requests to registered users.
LEMMA StepKnownInv == TypeInv /\ KnownInv /\ [Next]_vars => KnownInv'
<1>. SUFFICES ASSUME TypeInv, KnownInv, [Next]_vars PROVE KnownInv'
  OBVIOUS
<1>1. ASSUME NEW u \in Users, Register(u) PROVE KnownInv'
  BY <1>1 DEF Register, KnownInv, RowsAreOfRegistered, JobIsOfRegistered, ReplyIsNew,
              CheckPairEdge
<1>2. CASE Crash
  BY <1>2 DEF Crash, KnownInv, RowsAreOfRegistered, JobIsOfRegistered, ReplyIsNew, CheckPairEdge
<1>3. CASE UNCHANGED vars
  BY <1>3 DEF vars, KnownInv, RowsAreOfRegistered, JobIsOfRegistered, ReplyIsNew, CheckPairEdge
<1>. QED BY <1>1, <1>2, <1>3, HandleKnown, StatementKnown DEF Next

\* One reply that is true of the edge in its own direction is true of both.
LEMMA TrueForBoth ==
  ASSUME MirrorInv, pc = "idle", NEW u \in Users, NEW v \in Users, NEW what,
         u # v => CheckFriend(u, v) \in Claimed(what),
         Respond({Says(u, what, v)})
  PROVE  RepliesTellTheTruth'
<1>1. ASSUME u # v PROVE CheckFriend(v, u) = Opposite(CheckFriend(u, v))
  <2>1. Mirrored(v, u)
    BY <1>1 DEF MirrorInv, OthersMirrored
  <2>. QED BY <2>1, MirroredOpposite
<1>2. friends' = friends /\ reply' = {Says(u, what, v)}
  BY DEF Respond
<1>3. /\ CheckFriend(u, v)' = CheckFriend(u, v) /\ CheckFriend(v, u)' = CheckFriend(v, u)
      /\ Opposite(CheckFriend(u, v))' = Opposite(CheckFriend(u, v))
  BY <1>2 DEF CheckFriend, CheckPairEdge, Opposite
<1>4. Says(u, what, v).to = u /\ Says(u, what, v).about = v /\ Says(u, what, v).says = what
  BY DEF Says
<1>5. ASSUME NEW r \in reply', r.to # r.about
      PROVE  /\ CheckFriend(r.to, r.about)' \in Claimed(r.says)
             /\ CheckFriend(r.about, r.to)' = Opposite(CheckFriend(r.to, r.about))'
  <2>1. r = Says(u, what, v)
    BY <1>2, <1>5
  <2>. QED BY <1>1, <1>3, <1>4, <1>5, <2>1
<1>. QED BY <1>5 DEF RepliesTellTheTruth, Claimed, Opposite

\* A handler that only answers answers what check_friend found.
LEMMA HandleTruth ==
  ASSUME TypeInv, MirrorInv, KnownInv, NEW u \in Users, NEW v \in Users, Handle(u, v)
  PROVE  RepliesTellTheTruth'
<1>1. pc = "idle"
  BY DEF Handle, Block, Friend, BlockOrFriend, Unblock, Accept, Reject, Message, Request
<1>2. ASSUME reply' = {} PROVE RepliesTellTheTruth'
  BY <1>2 DEF RepliesTellTheTruth
<1>3. ASSUME NEW cmd, Start(cmd, u, v) \/ Respond({}) PROVE RepliesTellTheTruth'
  BY <1>2, <1>3 DEF Start, Respond
<1>4. PICK edge \in Edges \cup {NoEdge} : edge = CheckFriend(u, v)
  BY CheckFriendType
<1>5. CheckFriend(u, v) # NoEdge => FindUsername(v)
  BY DEF KnownInv, RowsAreOfRegistered, CheckFriend, FindUsername
<1>6. ASSUME NEW what, edge \in Claimed(what), Respond({Says(u, what, v)})
      PROVE  RepliesTellTheTruth'
  BY <1>1, <1>4, <1>6, TrueForBoth
<1>7. CASE Block(u, v) \/ Friend(u, v)
  BY <1>3, <1>4, <1>6, <1>7 DEF Block, Friend, BlockOrFriend, Claimed
<1>8. CASE Unblock(u, v)
  <2>1. edge \in {-2, NoEdge} => edge \in Claimed("nfound")
    BY DEF Claimed
  <2>2. edge \notin {-2, 2} => edge \in Claimed("notblocked")
    BY DEF Claimed, Edges
  <2>. QED BY <1>3, <1>4, <1>5, <1>6, <1>8, <2>1, <2>2 DEF Unblock
<1>9. CASE Accept(u, v)
  BY <1>3, <1>9 DEF Accept
<1>10. CASE Reject(u, v)
  BY <1>3, <1>10 DEF Reject
<1>11. CASE Message(u, v)
  <2>1. CASE edge = 0
    <3>1. Respond({Says(v, "message", u)})
      BY <1>4, <1>11, <2>1 DEF Message
    <3>2. u # v => CheckFriend(v, u) = 0
      <4>. SUFFICES ASSUME u # v PROVE CheckFriend(v, u) = 0
        OBVIOUS
      <4>1. Mirrored(v, u)
        BY <1>1 DEF MirrorInv, OthersMirrored
      <4>2. CheckFriend(v, u) = Opposite(edge)
        BY <1>4, <4>1, MirroredOpposite
      <4>3. edge \in Edges /\ edge # NoEdge
        BY <2>1 DEF Edges, NoEdge
      <4>4. CheckFriend(v, u) = 0 - edge
        BY <4>2, <4>3, Negated DEF Opposite
      <4>. QED BY <2>1, <4>4
    <3>. QED BY <1>1, <3>1, <3>2, TrueForBoth DEF Claimed
  <2>2. ASSUME NEW what, what = CASE edge = 3  -> "sendreq"  [] edge = 2  -> "ublock"
                                  [] edge = -2 -> "nfound"   [] edge = -1 -> "acreq"
                                  [] edge = 1  -> "notacreq", edge # 0
        PROVE  edge \in Claimed(what)
    BY <2>2 DEF Claimed, Edges, NoEdge
  <2>3. CASE edge # 0
    BY <1>4, <1>6, <1>11, <2>2, <2>3 DEF Message
  <2>. QED BY <2>1, <2>3
<1>. QED BY <1>7, <1>8, <1>9, <1>10, <1>11 DEF Handle

\* The two replies at the end of a handler say what its two statements wrote.
LEMMA AnswerTruth ==
  ASSUME TypeInv, MirrorInv, Answer
  PROVE  RepliesTellTheTruth'
<1>1. PICK f \in Users, t \in Users, cmd \in Writing : f = job.from /\ t = job.to /\ cmd = job.cmd
  BY JobType DEF Answer
<1>2. reply' = Answers(cmd, f, t) /\ friends' = friends /\ pc = "answer"
  BY <1>1 DEF Answer
<1>3. CASE f = t
  BY <1>1, <1>2, <1>3 DEF RepliesTellTheTruth, Answers, Says, Writing
<1>4. CASE f # t
  <2>1. friends[<<f, t>>] = FirstTarget /\ friends[<<t, f>>] = SecondTarget
    BY <1>1, <1>2, <1>4 DEF MirrorInv, BothWritten
  <2>2. Mirrored(f, t) /\ Mirrored(t, f)
    BY <1>2, <1>4 DEF MirrorInv, OthersMirrored
  <2>3. PICK there, back : there = CheckFriend(f, t) /\ back = CheckFriend(t, f)
    OBVIOUS
  <2>4. there = Opposite(back) /\ back = Opposite(there)
    BY <2>2, <2>3, MirroredOpposite
  <2>5. /\ there = IF cmd \in Deleting THEN NoEdge ELSE FirstEdge(cmd)
        /\ back = IF cmd \in Deleting THEN NoEdge ELSE SecondEdge(cmd)
    <3>1. \A edge : <<edge>> # << >> /\ <<edge>>[1] = edge
      OBVIOUS
    <3>. QED BY <1>1, <2>1, <2>3, <3>1 DEF CheckFriend, CheckPairEdge, FirstTarget, SecondTarget
  <2>6. ASSUME NEW r \in Answers(cmd, f, t)
        PROVE  \/ r.to = f /\ r.about = t /\ there \in Claimed(r.says)
               \/ r.to = t /\ r.about = f /\ back \in Claimed(r.says)
    <3>1. CASE cmd \in {"block", "unblock"}
      BY <2>5, <2>6, <3>1 DEF Answers, Says, Claimed, Deleting, FirstEdge
    <3>2. CASE cmd = "friend"
      BY <2>5, <2>6, <3>2 DEF Answers, Says, Claimed, Deleting, FirstEdge, SecondEdge
    <3>3. CASE cmd = "accept"
      BY <2>5, <2>6, <3>3 DEF Answers, Says, Claimed, Deleting, FirstEdge, SecondEdge
    <3>4. CASE cmd = "reject"
      BY <2>5, <2>6, <3>4 DEF Answers, Says, Claimed, Deleting
    <3>. QED BY <3>1, <3>2, <3>3, <3>4 DEF Writing
  <2>7. /\ CheckFriend(f, t)' = there /\ CheckFriend(t, f)' = back
        /\ Opposite(CheckFriend(f, t))' = Opposite(there)
        /\ Opposite(CheckFriend(t, f))' = Opposite(back)
    BY <1>2, <2>3 DEF CheckFriend, CheckPairEdge, Opposite
  <2>8. ASSUME NEW r \in reply'
        PROVE  /\ CheckFriend(r.to, r.about)' \in Claimed(r.says)
               /\ CheckFriend(r.about, r.to)' = Opposite(CheckFriend(r.to, r.about))'
    BY <1>2, <2>4, <2>6, <2>7, <2>8
  <2>. QED BY <2>8 DEF RepliesTellTheTruth, Claimed, Opposite
<1>. QED BY <1>3, <1>4

\* Without crashes, what a step tells the clients is true when it is told.
LEMMA StepReplies ==
  ASSUME MaxCrashes = 0, TypeInv, MirrorInv, KnownInv, KnownInv', RepliesTellTheTruth, [Next]_vars
  PROVE  RepliesTellTheTruth'
<1>1. ASSUME reply' = {} PROVE RepliesTellTheTruth'
  BY <1>1 DEF RepliesTellTheTruth
<1>2. ASSUME NEW u \in Users, Register(u) PROVE RepliesTellTheTruth'
  BY <1>1, <1>2 DEF Register
<1>3. ~Crash
  BY DEF Crash, TypeInv, TypeOK
<1>4. CASE UNCHANGED vars
  BY <1>4 DEF vars, RepliesTellTheTruth, CheckFriend, CheckPairEdge, Opposite, Claimed
<1>5. CASE FirstRow \/ SecondRow \/ InsertChat \/ AddMember
  BY <1>1, <1>5 DEF FirstRow, SecondRow, InsertChat, AddMember, KnownInv, ReplyIsNew
<1>. QED BY <1>2, <1>3, <1>4, <1>5, HandleTruth, AnswerTruth DEF Next, Statement

\* Without a crash inside a handler, both clients are told what the table holds
\* in both directions, and it still does until the next request is handled.
THEOREM RepliesAreTrue ==
  ASSUME MaxCrashes = 0
  PROVE  Spec => []RepliesTellTheTruth
<1>1. Init => RepliesTellTheTruth
  BY DEF Init, RepliesTellTheTruth
<1>2. TypeInv /\ MirrorInv /\ KnownInv /\ KnownInv' /\ RepliesTellTheTruth /\ [Next]_vars
        => RepliesTellTheTruth'
  BY StepReplies
<1>. QED BY <1>1, <1>2, InitTypeInv, StepTypeInv, InitMirrorInv, StepMirrorInv,
            InitKnownInv, StepKnownInv, PTL DEF Spec

-------------------------------------------------------------------------------
(***************************************************************************)
(* The chats.  Two users whose edge is 0 have a chat, except while the     *)
(* handler that made it 0 is still to build one; the statements that build *)
(* it touch the newest chat only, which no two distinct users share yet.   *)
(***************************************************************************)
BeingAccepted(u, v) ==
  /\ pc \in {"row2", "chat", "xref_to", "xref_from"}
  /\ job.cmd = "accept"
  /\ {u, v} = {job.from, job.to}

Shared(u, v) == \E id \in 1..Len(chats) : chats[id] = {u, v}

FriendsHaveAChat ==
  \A u, v \in Users : (u # v /\ CheckFriend(u, v) = 0 /\ ~BeingAccepted(u, v)) => Shared(u, v)

NewestChat ==
  /\ pc \in {"chat", "xref_to", "xref_from"} => job.cmd = "accept"
  /\ pc = "xref_to" => chats[Len(chats)] = {}
  /\ pc = "xref_from" => chats[Len(chats)] = {job.to}

ChatInv == FriendsHaveAChat /\ NewestChat

\* Without rows there are no friends.
LEMMA InitChatInv == Init => ChatInv
  BY DEF Init, ChatInv, FriendsHaveAChat, NewestChat, CheckFriend, CheckPairEdge, NoEdge

\* A chat of two distinct users outlives every statement.
LEMMA SharedForEver ==
  ASSUME TypeInv, NewestChat, InsertChat \/ AddMember \/ chats' = chats,
         NEW u \in Users, NEW v \in Users, u # v, Shared(u, v)
  PROVE  Shared(u, v)'
<1>1. PICK id \in 1..Len(chats) : chats[id] = {u, v}
  BY DEF Shared
<1>2. chats \in Seq(SUBSET Users)
  BY DEF TypeInv, TypeOK
<1>3. CASE InsertChat
  <2>1. Len(chats') = Len(chats) + 1 /\ chats'[id] = chats[id]
    BY <1>2, <1>3 DEF InsertChat
  <2>. QED BY <1>1, <1>2, <2>1 DEF Shared
<1>4. CASE AddMember
  <2>1. id # Len(chats)
    BY <1>1, <1>4 DEF AddMember, NewestChat
  <2>2. Len(chats') = Len(chats) /\ chats'[id] = chats[id]
    BY <1>2, <1>4, <2>1 DEF AddMember
  <2>. QED BY <1>1, <2>2 DEF Shared
<1>5. CASE chats' = chats
  BY <1>1, <1>5 DEF Shared
<1>. QED BY <1>3, <1>4, <1>5

\* The two statements on the table make an edge 0 only for an accepted request.
LEMMA RowsChat ==
  ASSUME TypeInv, MirrorInv, MirrorInv', ChatInv, FirstRow \/ SecondRow
  PROVE  ChatInv'
<1>1. PICK f \in Users, t \in Users, cmd \in Writing : f = job.from /\ t = job.to /\ cmd = job.cmd
  BY JobType DEF FirstRow, SecondRow
<1>2. /\ job' = job /\ chats' = chats
      /\ pc' \in {"row2", "chat", "answer"} /\ pc \in {"row1", "row2"}
      /\ pc' = "chat" => cmd = "accept"
      /\ (pc' = "answer" => cmd # "accept") /\ (pc = "row1" => pc' = "row2")
  BY <1>1 DEF FirstRow, SecondRow
<1>3. NewestChat'
  BY <1>1, <1>2 DEF NewestChat
<1>4. ASSUME NEW u \in Users, NEW v \in Users, u # v, CheckFriend(u, v)' = 0, ~BeingAccepted(u, v)'
      PROVE  Shared(u, v)'
  <2>1. cmd = "accept" => {u, v} # {f, t}
    BY <1>1, <1>2, <1>4 DEF BeingAccepted
  <2>2. friends'[<<u, v>>] = friends[<<u, v>>]
    <3>1. \A edge : <<edge>> # << >> /\ <<edge>>[1] = edge
      OBVIOUS
    <3>2. CASE cmd \notin {"accept"} /\ FirstRow /\ u = f /\ v = t
      <4>1. friends'[<<f, t>>] = IF cmd \in Deleting THEN << >> ELSE <<FirstEdge(cmd)>>
        BY <1>1, <1>4, <3>2 DEF FirstRow, MirrorInv, HalfWritten, FirstTarget
      <4>2. cmd \in Deleting \/ FirstEdge(cmd) # 0
        BY <3>2 DEF Writing, Deleting, FirstEdge
      <4>. QED BY <1>4, <3>1, <3>2, <4>1, <4>2 DEF CheckFriend, CheckPairEdge, NoEdge
    <3>3. CASE cmd \notin {"accept"} /\ SecondRow /\ u = t /\ v = f
      <4>1. friends'[<<t, f>>] = IF cmd \in Deleting THEN << >> ELSE <<SecondEdge(cmd)>>
        BY <1>1, <1>4, <3>3 DEF SecondRow, MirrorInv, BothWritten, SecondTarget
      <4>2. cmd \in Deleting \/ SecondEdge(cmd) # 0
        BY <3>3 DEF Writing, Deleting, SecondEdge
      <4>. QED BY <1>4, <3>1, <3>3, <4>1, <4>2 DEF CheckFriend, CheckPairEdge, NoEdge
    <3>4. CASE FirstRow /\ ~(u = f /\ v = t)
      BY <1>1, <3>4 DEF FirstRow, TypeInv, TypeOK
    <3>5. CASE SecondRow /\ ~(u = t /\ v = f)
      BY <1>1, <3>5 DEF SecondRow, TypeInv, TypeOK
    <3>. QED BY <2>1, <3>2, <3>3, <3>4, <3>5
  <2>3. CheckFriend(u, v) = 0 /\ ~BeingAccepted(u, v)
    BY <1>1, <1>4, <2>1, <2>2 DEF CheckFriend, CheckPairEdge, BeingAccepted
  <2>4. Shared(u, v)
    BY <1>4, <2>3 DEF ChatInv, FriendsHaveAChat
  <2>. QED BY <1>2, <1>4, <2>4, SharedForEver DEF ChatInv
<1>. QED BY <1>3, <1>4 DEF ChatInv, FriendsHaveAChat

\* The three statements that build the chat of the two who became friends.
LEMMA BuildChat ==
  ASSUME TypeInv, ChatInv, InsertChat \/ AddMember
  PROVE  ChatInv'
<1>1. PICK f \in Users, t \in Users : f = job.from /\ t = job.to
  BY JobType DEF InsertChat, AddMember
<1>2. chats \in Seq(SUBSET Users) /\ job.cmd = "accept" /\ job' = job /\ friends' = friends
  BY DEF TypeInv, TypeOK, InsertChat, AddMember, ChatInv, NewestChat
<1>3. ASSUME AddMember
      PROVE  /\ Len(chats') = Len(chats) /\ Len(chats) \in 1..Len(chats)
             /\ pc = "xref_to" => chats'[Len(chats)] = {t}
             /\ pc = "xref_from" => chats'[Len(chats)] = {t, f}
  <2>1. Len(chats) \in 1..Len(chats) /\ Len(chats') = Len(chats)
    BY <1>2, <1>3 DEF AddMember, TypeInv, ChatInProgress
  <2>2. pc = "xref_to" => chats'[Len(chats)] = {} \cup {t}
    BY <1>1, <1>2, <1>3, <2>1 DEF AddMember, ChatInv, NewestChat
  <2>3. pc = "xref_from" => chats'[Len(chats)] = {t} \cup {f}
    BY <1>1, <1>2, <1>3, <2>1 DEF AddMember, ChatInv, NewestChat
  <2>. QED BY <2>1, <2>2, <2>3
<1>4. NewestChat'
  <2>1. CASE InsertChat
    BY <1>2, <2>1 DEF InsertChat, NewestChat
  <2>2. CASE AddMember
    BY <1>1, <1>2, <1>3, <2>2 DEF AddMember, NewestChat
  <2>. QED BY <2>1, <2>2
<1>5. ASSUME NEW u \in Users, NEW v \in Users, u # v, CheckFriend(u, v)' = 0, ~BeingAccepted(u, v)'
      PROVE  Shared(u, v)'
  <2>1. CheckFriend(u, v) = 0
    BY <1>2, <1>5 DEF CheckFriend, CheckPairEdge
  <2>2. CASE ~BeingAccepted(u, v)
    BY <1>5, <2>1, <2>2, SharedForEver DEF ChatInv, FriendsHaveAChat
  <2>3. CASE BeingAccepted(u, v)
    <3>1. AddMember /\ pc = "xref_from" /\ {u, v} = {f, t}
      BY <1>1, <1>2, <1>5, <2>3 DEF BeingAccepted, InsertChat, AddMember
    <3>2. chats'[Len(chats)] = {u, v} /\ Len(chats) \in 1..Len(chats')
      BY <1>3, <3>1
    <3>. QED BY <3>2 DEF Shared
  <2>. QED BY <2>2, <2>3
<1>. QED BY <1>4, <1>5 DEF ChatInv, FriendsHaveAChat

\* Outside the five statements neither the table nor a chat changes.
LEMMA IdleChat ==
  ASSUME ChatInv, friends' = friends, chats' = chats,
         pc \in {"idle", "answer"}, pc' \in {"idle", "row1"}
  PROVE  ChatInv'
<1>1. NewestChat'
  BY DEF NewestChat
<1>2. ASSUME NEW u \in Users, NEW v \in Users, u # v, CheckFriend(u, v)' = 0 PROVE Shared(u, v)'
  <2>1. Shared(u, v)
    BY <1>2 DEF ChatInv, FriendsHaveAChat, BeingAccepted, CheckFriend, CheckPairEdge
  <2>. QED BY <2>1 DEF Shared
<1>. QED BY <1>1, <1>2 DEF ChatInv, FriendsHaveAChat

\* Without crashes, every step keeps a chat for every two friends.
LEMMA StepChatInv ==
  ASSUME MaxCrashes = 0, TypeInv, MirrorInv, MirrorInv', ChatInv, [Next]_vars
  PROVE  ChatInv'
<1>1. ASSUME NEW u \in Users, Register(u) PROVE ChatInv'
  BY <1>1, IdleChat DEF Register
<1>2. ASSUME NEW u \in Users, NEW v \in Users, Handle(u, v) PROVE ChatInv'
  <2>1. pc = "idle"
    BY <1>2 DEF Handle, Block, Friend, BlockOrFriend, Unblock, Accept, Reject, Message, Request
  <2>2. friends' = friends /\ chats' = chats /\ pc' \in {"idle", "row1"}
    BY <1>2, <2>1 DEF Handle, Block, Friend, BlockOrFriend, Unblock, Accept, Reject, Message,
                      Start, Respond
  <2>. QED BY <2>1, <2>2, IdleChat
<1>3. CASE Answer
  BY <1>3, IdleChat DEF Answer
<1>4. ~Crash
  BY DEF Crash, TypeInv, TypeOK
<1>5. CASE UNCHANGED vars
  BY <1>5 DEF vars, ChatInv, FriendsHaveAChat, NewestChat, BeingAccepted, Shared,
              CheckFriend, CheckPairEdge
<1>. QED BY <1>1, <1>2, <1>3, <1>4, <1>5, RowsChat, BuildChat DEF Next, Statement

\* Without a crash inside a handler, two friends always have a chat of exactly
\* the two of them between requests.
THEOREM FriendsCanTalk ==
  ASSUME MaxCrashes = 0
  PROVE  Spec => []FriendsShareAChat
<1>1. ChatInv => FriendsShareAChat
  BY DEF ChatInv, FriendsHaveAChat, FriendsShareAChat, BeingAccepted, Shared
<1>2. TypeInv /\ MirrorInv /\ MirrorInv' /\ ChatInv /\ [Next]_vars => ChatInv'
  BY StepChatInv
<1>. QED BY <1>1, <1>2, InitTypeInv, StepTypeInv, InitMirrorInv, StepMirrorInv,
            InitChatInv, PTL DEF Spec

-------------------------------------------------------------------------------
(***************************************************************************)
(* Crashes.  A crash between the two statements may leave any number of    *)
(* rows in one direction of a pair and none in the other.  A later handler *)
(* still writes the direction of the one who asks as it says: it looked at *)
(* the rows of that direction to choose between UPDATE and INSERT, and     *)
(* UPDATE reaches all of them.  Of the other direction only the handlers   *)
(* that delete can say as much.                                            *)
(***************************************************************************)
OwnRowIsWritten ==
  (pc \in Statements \ {"row1"} /\ job.cmd \notin Deleting /\ job.from # job.to) =>
    CheckFriend(job.from, job.to) = FirstEdge(job.cmd)

RowsAreDeleted ==
  (pc \in Statements \ {"row1"} /\ job.cmd \in Deleting) =>
    /\ friends[<<job.from, job.to>>] = << >>
    /\ pc # "row2" => friends[<<job.to, job.from>>] = << >>

OwnInv == ReadyToWrite /\ OwnRowIsWritten /\ RowsAreDeleted

\* No handler is in progress at the start.
LEMMA InitOwnInv == Init => OwnInv
  BY DEF Init, OwnInv, ReadyToWrite, OwnRowIsWritten, RowsAreDeleted, Statements

\* An UPDATE of existing rows and an INSERT where there is none leave the new
\* edge first, whatever rows there were.
LEMMA WrittenFirst ==
  ASSUME NEW rows \in Seq(Edges), NEW edge, job.cmd \notin Deleting,
         job.cmd = "accept" => rows # << >>, job.exists = (rows # << >>)
  PROVE  Written(rows, edge) # << >> /\ Written(rows, edge)[1] = edge
<1>1. CASE rows = << >>
  <2>1. Written(rows, edge) = Append(<< >>, edge)
    BY <1>1 DEF Written
  <2>2. Append(<< >>, edge) = <<edge>> /\ <<edge>> # << >> /\ <<edge>>[1] = edge
    OBVIOUS
  <2>. QED BY <2>1, <2>2
<1>2. CASE rows # << >>
  <2>1. Written(rows, edge) = [i \in 1..Len(rows) |-> edge]
    BY <1>2 DEF Written
  <2>2. Len(rows) \in Nat /\ Len(rows) > 0
    BY <1>2
  <2>. QED BY <2>1, <2>2
<1>. QED BY <1>1, <1>2

\* Each statement writes its direction as its handler will say.
LEMMA StatementOwn == TypeInv /\ OwnInv /\ Statement => OwnInv'
<1>. SUFFICES ASSUME TypeInv, OwnInv, Statement PROVE OwnInv'
  OBVIOUS
<1>1. PICK f \in Users, t \in Users, cmd \in Writing : f = job.from /\ t = job.to /\ cmd = job.cmd
  <2>1. pc # "idle"
    BY DEF Statement, FirstRow, SecondRow, InsertChat, AddMember, Answer
  <2>. QED BY <2>1, JobType
<1>2. /\ friends[<<f, t>>] \in Seq(Edges) /\ friends[<<t, f>>] \in Seq(Edges)
      /\ friends \in [Users \X Users -> Seq(Edges)]
  BY DEF TypeInv, TypeOK
<1>3. CASE FirstRow
  <2>1. pc = "row1" /\ pc' = "row2" /\ job' = job
    BY <1>3 DEF FirstRow
  <2>2. friends'[<<f, t>>] = Written(friends[<<f, t>>], FirstEdge(cmd))
    BY <1>1, <1>2, <1>3 DEF FirstRow
  <2>3. job.exists = (friends[<<f, t>>] # << >>) /\ (cmd = "accept" => job.exists)
    BY <1>1, <2>1 DEF OwnInv, ReadyToWrite, CheckPairEdge
  <2>4. ASSUME cmd \notin Deleting PROVE CheckFriend(f, t)' = FirstEdge(cmd)
    <3>0. PICK rows \in Seq(Edges), first \in {FirstEdge(cmd)} : rows = friends[<<f, t>>] /\ first = FirstEdge(cmd)
      BY <1>2
    <3>1. Written(rows, first) # << >> /\ Written(rows, first)[1] = first
      BY <1>1, <2>3, <2>4, <3>0, WrittenFirst
    <3>2. friends'[<<f, t>>] # << >> /\ friends'[<<f, t>>][1] = FirstEdge(cmd)
      BY <2>2, <3>0, <3>1
    <3>. QED BY <3>2 DEF CheckFriend, CheckPairEdge
  <2>5. cmd \in Deleting => friends'[<<f, t>>] = << >>
    BY <1>1, <2>2 DEF Written
  <2>. QED BY <1>1, <2>1, <2>4, <2>5
           DEF OwnInv, ReadyToWrite, OwnRowIsWritten, RowsAreDeleted, FirstEdge
<1>4. CASE SecondRow
  <2>1. pc = "row2" /\ pc' \in {"chat", "answer"} /\ job' = job
    BY <1>4 DEF SecondRow
  <2>2. friends'[<<t, f>>] = Written(friends[<<t, f>>], SecondEdge(cmd))
    BY <1>1, <1>2, <1>4 DEF SecondRow
  <2>3. f # t => friends'[<<f, t>>] = friends[<<f, t>>]
    BY <1>1, <1>2, <1>4 DEF SecondRow
  <2>4. cmd \in Deleting => friends'[<<t, f>>] = << >> /\ friends'[<<f, t>>] = << >>
    <3>1. cmd \in Deleting => friends[<<f, t>>] = << >>
      BY <1>1, <2>1 DEF OwnInv, RowsAreDeleted, Statements
    <3>. QED BY <1>1, <2>2, <2>3, <3>1 DEF Written
  <2>5. (cmd \notin Deleting /\ f # t) => CheckFriend(f, t)' = FirstEdge(cmd)
    BY <1>1, <2>1, <2>3 DEF OwnInv, OwnRowIsWritten, Statements, CheckFriend, CheckPairEdge
  <2>. QED BY <1>1, <2>1, <2>4, <2>5
           DEF OwnInv, ReadyToWrite, OwnRowIsWritten, RowsAreDeleted, FirstEdge
<1>5. CASE InsertChat \/ AddMember
  <2>1. /\ friends' = friends /\ job' = job
        /\ pc \in {"chat", "xref_to", "xref_from"} /\ pc' \in {"xref_to", "xref_from", "answer"}
    BY <1>5 DEF InsertChat, AddMember
  <2>2. CheckFriend(f, t)' = CheckFriend(f, t)
    BY <2>1 DEF CheckFriend, CheckPairEdge
  <2>3. OwnRowIsWritten'
    BY <1>1, <2>1, <2>2 DEF OwnInv, OwnRowIsWritten, FirstEdge, Statements
  <2>4. ReadyToWrite' /\ RowsAreDeleted'
    BY <2>1 DEF OwnInv, ReadyToWrite, RowsAreDeleted, Statements
  <2>. QED BY <2>3, <2>4 DEF OwnInv
<1>6. CASE Answer
  BY <1>6 DEF Answer, OwnInv, ReadyToWrite, OwnRowIsWritten, RowsAreDeleted, Statements
<1>. QED BY <1>3, <1>4, <1>5, <1>6 DEF Statement

\* Every step keeps it, a crash included: a crash ends the handler.
LEMMA StepOwnInv == TypeInv /\ OwnInv /\ [Next]_vars => OwnInv'
<1>. SUFFICES ASSUME TypeInv, OwnInv, [Next]_vars PROVE OwnInv'
  OBVIOUS
<1>1. ASSUME pc' = "idle" PROVE OwnInv'
  BY <1>1 DEF OwnInv, ReadyToWrite, OwnRowIsWritten, RowsAreDeleted, Statements
<1>2. ASSUME NEW u \in Users, Register(u) PROVE OwnInv'
  BY <1>1, <1>2 DEF Register
<1>3. ASSUME NEW u \in Users, NEW v \in Users, Handle(u, v) PROVE OwnInv'
  <2>1. pc = "idle"
    BY <1>3 DEF Handle, Block, Friend, BlockOrFriend, Unblock, Accept, Reject, Message, Request
  <2>2. ASSUME NEW answers, Respond(answers) PROVE OwnInv'
    BY <1>1, <2>1, <2>2 DEF Respond
  <2>3. ASSUME NEW cmd, Start(cmd, u, v), cmd = "accept" => CheckFriend(u, v) = -1 PROVE OwnInv'
    <3>1. cmd = "accept" => CheckPairEdge(u, v)
      BY <2>3 DEF CheckFriend, NoEdge
    <3>2. /\ pc' = "row1" /\ CheckPairEdge(u, v)' = CheckPairEdge(u, v)
          /\ job' = [cmd |-> cmd, from |-> u, to |-> v, exists |-> CheckPairEdge(u, v)]
      BY <2>3 DEF Start, CheckPairEdge
    <3>. QED BY <3>1, <3>2 DEF OwnInv, ReadyToWrite, OwnRowIsWritten, RowsAreDeleted, CheckPairEdge
  <2>4. CASE Block(u, v) \/ Friend(u, v) \/ Unblock(u, v) \/ Reject(u, v)
    BY <2>2, <2>3, <2>4 DEF Block, Friend, BlockOrFriend, Unblock, Reject
  <2>5. CASE Accept(u, v)
    <3>1. CASE CheckFriend(u, v) = -1
      BY <2>3, <2>5, <3>1 DEF Accept
    <3>2. CASE CheckFriend(u, v) # -1
      BY <2>2, <2>5, <3>2 DEF Accept
    <3>. QED BY <3>1, <3>2
  <2>6. CASE Message(u, v)
    BY <2>2, <2>6 DEF Message
  <2>. QED BY <1>3, <2>4, <2>5, <2>6 DEF Handle
<1>4. CASE Crash
  BY <1>1, <1>4 DEF Crash
<1>5. CASE UNCHANGED vars
  BY <1>5 DEF vars, OwnInv, ReadyToWrite, OwnRowIsWritten, RowsAreDeleted, CheckFriend,
              CheckPairEdge, FirstEdge
<1>. QED BY <1>2, <1>3, <1>4, <1>5, StatementOwn DEF Next

\* A handler that only answers tells the sender what check_friend found; no
\* such answer acknowledges a removal.
LEMMA HandleSender ==
  ASSUME TypeInv, KnownInv, NEW u \in Users, NEW v \in Users, Handle(u, v)
  PROVE  SenderIsToldTheTruth' /\ RemovalRepairs'
<1>1. friends' = friends
  BY DEF Handle, Block, Friend, BlockOrFriend, Unblock, Accept, Reject, Message, Start, Respond
<1>2. ASSUME reply' = {} PROVE SenderIsToldTheTruth' /\ RemovalRepairs'
  BY <1>2 DEF SenderIsToldTheTruth, RemovalRepairs
<1>3. ASSUME NEW cmd, Start(cmd, u, v) \/ Respond({})
      PROVE  SenderIsToldTheTruth' /\ RemovalRepairs'
  BY <1>2, <1>3 DEF Start, Respond
<1>4. PICK edge \in Edges \cup {NoEdge} : edge = CheckFriend(u, v)
  BY CheckFriendType
<1>5. CheckFriend(u, v) # NoEdge => FindUsername(v)
  BY DEF KnownInv, RowsAreOfRegistered, CheckFriend, FindUsername
<1>6. ASSUME NEW what, what \notin {"unblocked", "rejected", "rejectedyour"},
             edge \in Claimed(what), Respond({Says(u, what, v)})
      PROVE  SenderIsToldTheTruth' /\ RemovalRepairs'
  <2>1. ASSUME NEW r \in reply' PROVE r.to = u /\ r.about = v /\ r.says = what
    BY <1>6, <2>1 DEF Respond, Says
  <2>2. CheckFriend(u, v)' = edge
    BY <1>1, <1>4 DEF CheckFriend, CheckPairEdge
  <2>3. ASSUME NEW r \in reply' PROVE CheckFriend(r.to, r.about)' \in Claimed(r.says)
    BY <1>6, <2>1, <2>2, <2>3
  <2>4. SenderIsToldTheTruth'
    BY <2>3 DEF SenderIsToldTheTruth, Claimed
  <2>5. RemovalRepairs'
    BY <1>6, <2>1 DEF RemovalRepairs
  <2>. QED BY <2>4, <2>5
<1>7. CASE Block(u, v) \/ Friend(u, v)
  BY <1>3, <1>4, <1>6, <1>7 DEF Block, Friend, BlockOrFriend, Claimed
<1>8. CASE Unblock(u, v)
  <2>1. edge \in {-2, NoEdge} => edge \in Claimed("nfound")
    BY DEF Claimed
  <2>2. edge \notin {-2, 2} => edge \in Claimed("notblocked")
    BY DEF Claimed, Edges
  <2>. QED BY <1>3, <1>4, <1>5, <1>6, <1>8, <2>1, <2>2 DEF Unblock
<1>9. CASE Accept(u, v) \/ Reject(u, v)
  BY <1>3, <1>9 DEF Accept, Reject
<1>10. CASE Message(u, v)
  <2>1. CASE edge = 0
    <3>1. reply' = {Says(v, "message", u)}
      BY <1>4, <1>10, <2>1 DEF Message, Respond
    <3>2. ASSUME NEW r \in reply' PROVE r.says = "message"
      BY <3>1, <3>2 DEF Says
    <3>. QED BY <3>2 DEF SenderIsToldTheTruth, RemovalRepairs, Notifications
  <2>2. ASSUME NEW what, what = CASE edge = 3  -> "sendreq"  [] edge = 2  -> "ublock"
                                  [] edge = -2 -> "nfound"   [] edge = -1 -> "acreq"
                                  [] edge = 1  -> "notacreq", edge # 0
        PROVE  edge \in Claimed(what) /\ what \notin {"unblocked", "rejected", "rejectedyour"}
    BY <2>2 DEF Claimed, Edges, NoEdge
  <2>3. CASE edge # 0
    BY <1>4, <1>6, <1>10, <2>2, <2>3 DEF Message
  <2>. QED BY <2>1, <2>3
<1>. QED BY <1>7, <1>8, <1>9, <1>10 DEF Handle

\* The reply at the end of a handler says what its own direction holds, and a
\* removal that is acknowledged has removed both directions.
LEMMA AnswerSender ==
  ASSUME TypeInv, OwnInv, Answer
  PROVE  SenderIsToldTheTruth' /\ RemovalRepairs'
<1>1. PICK f \in Users, t \in Users, cmd \in Writing : f = job.from /\ t = job.to /\ cmd = job.cmd
  BY JobType DEF Answer
<1>2. reply' = Answers(cmd, f, t) /\ friends' = friends /\ pc = "answer"
  BY <1>1 DEF Answer
<1>3. cmd \in Deleting => friends[<<f, t>>] = << >> /\ friends[<<t, f>>] = << >>
  BY <1>1, <1>2 DEF OwnInv, RowsAreDeleted, Statements
<1>4. PICK there : there = CheckFriend(f, t)
  OBVIOUS
<1>5. f # t => there = IF cmd \in Deleting THEN NoEdge ELSE FirstEdge(cmd)
  BY <1>1, <1>2, <1>3, <1>4 DEF OwnInv, OwnRowIsWritten, Statements, CheckFriend, CheckPairEdge
<1>6. ASSUME NEW r \in Answers(cmd, f, t)
      PROVE  /\ r.to \in {f, t} /\ r.about \in {f, t}
             /\ {r.to, r.about} = {f, t}
             /\ r.says \in {"unblocked", "rejected", "rejectedyour"} => cmd \in Deleting
             /\ (f # t /\ r.says \notin Notifications) =>
                  r.to = f /\ r.about = t /\ there \in Claimed(r.says)
  <2>1. CASE cmd \in {"block", "unblock"}
    BY <1>5, <1>6, <2>1 DEF Answers, Says, Claimed, Deleting, FirstEdge
  <2>2. CASE cmd = "friend"
    BY <1>5, <1>6, <2>2 DEF Answers, Says, Claimed, Deleting, FirstEdge, Notifications
  <2>3. CASE cmd = "accept"
    BY <1>5, <1>6, <2>3 DEF Answers, Says, Claimed, Deleting, FirstEdge, Notifications
  <2>4. CASE cmd = "reject"
    BY <1>5, <1>6, <2>4 DEF Answers, Says, Claimed, Deleting, Notifications
  <2>. QED BY <2>1, <2>2, <2>3, <2>4 DEF Writing
<1>7. CheckFriend(f, t)' = there
  BY <1>2, <1>4 DEF CheckFriend, CheckPairEdge
<1>8. ASSUME NEW r \in reply', r.to # r.about, r.says \notin Notifications
      PROVE  CheckFriend(r.to, r.about)' \in Claimed(r.says)
  BY <1>2, <1>6, <1>7, <1>8
<1>9. SenderIsToldTheTruth'
  BY <1>8 DEF SenderIsToldTheTruth, Claimed, Notifications
<1>10. RemovalRepairs'
  <2>. SUFFICES ASSUME NEW r \in reply', r.says \in {"unblocked", "rejected", "rejectedyour"}
                PROVE  friends'[<<r.to, r.about>>] = << >> /\ friends'[<<r.about, r.to>>] = << >>
    BY DEF RemovalRepairs
  <2>1. cmd \in Deleting /\ {r.to, r.about} = {f, t}
    BY <1>2, <1>6
  <2>. QED BY <1>2, <1>3, <2>1
<1>. QED BY <1>9, <1>10

\* No step, a crash included, tells the sender something untrue or makes what
\* the sender was told untrue.
LEMMA StepSender ==
  ASSUME TypeInv, KnownInv, OwnInv, SenderIsToldTheTruth, RemovalRepairs, [Next]_vars
  PROVE  SenderIsToldTheTruth' /\ RemovalRepairs'
<1>1. ASSUME reply' = {} PROVE SenderIsToldTheTruth' /\ RemovalRepairs'
  BY <1>1 DEF SenderIsToldTheTruth, RemovalRepairs
<1>2. ASSUME NEW u \in Users, Register(u) PROVE SenderIsToldTheTruth' /\ RemovalRepairs'
  BY <1>1, <1>2 DEF Register
<1>3. CASE FirstRow \/ SecondRow \/ InsertChat \/ AddMember \/ Crash
  BY <1>1, <1>3 DEF FirstRow, SecondRow, InsertChat, AddMember, Crash, KnownInv, ReplyIsNew
<1>4. CASE UNCHANGED vars
  BY <1>4 DEF vars, SenderIsToldTheTruth, RemovalRepairs, CheckFriend, CheckPairEdge, Claimed
<1>. QED BY <1>2, <1>3, <1>4, HandleSender, AnswerSender DEF Next, Statement

\* The one who asked is told the truth about the own direction, and it stays
\* true until the next request is handled, over whatever rows any number of
\* crashes between two statements left behind.
THEOREM SendersKnowTheTruth == Spec => []SenderIsToldTheTruth
<1>1. Init => SenderIsToldTheTruth /\ RemovalRepairs
  BY DEF Init, SenderIsToldTheTruth, RemovalRepairs
<1>2. TypeInv /\ KnownInv /\ OwnInv /\ (SenderIsToldTheTruth /\ RemovalRepairs) /\ [Next]_vars
        => (SenderIsToldTheTruth /\ RemovalRepairs)'
  BY StepSender
<1>. QED BY <1>1, <1>2, InitTypeInv, StepTypeInv, InitKnownInv, StepKnownInv,
            InitOwnInv, StepOwnInv, PTL DEF Spec

\* After an acknowledged unblock or refusal there is no row in either direction,
\* whatever any number of crashes did to the pair before.
THEOREM RemovalsRemove == Spec => []RemovalRepairs
<1>1. Init => SenderIsToldTheTruth /\ RemovalRepairs
  BY DEF Init, SenderIsToldTheTruth, RemovalRepairs
<1>2. TypeInv /\ KnownInv /\ OwnInv /\ (SenderIsToldTheTruth /\ RemovalRepairs) /\ [Next]_vars
        => (SenderIsToldTheTruth /\ RemovalRepairs)'
  BY StepSender
<1>. QED BY <1>1, <1>2, InitTypeInv, StepTypeInv, InitKnownInv, StepKnownInv,
            InitOwnInv, StepOwnInv, PTL DEF Spec
===============================================================================
