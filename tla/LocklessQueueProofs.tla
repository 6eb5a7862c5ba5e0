-------------------------- MODULE LocklessQueueProofs --------------------------
(***************************************************************************)
(* Theorems about LocklessQueue, for any number of connections, requests   *)
(* and nodes, when no chunk is reused before its next has been read: no    *)
(* node is lost or shared, and the list behaves like a stack of requests.  *)
(***************************************************************************)
EXTENDS LocklessQueue, Induction

(***************************************************************************)
(* Lists in memory.  From a node the links lead along one list at most,    *)
(* and one without repetition fits in the memory; so to know what Chain is *)
(* one has to find a list only.                                            *)
(***************************************************************************)
Distinct(list) == \A i, j \in 1..Len(list) : list[i] = list[j] => i = j

Proper(list, n, links) == list \in Seq(Nodes) /\ Distinct(list) /\ IsList(list, n, links)

\* A walk along the links passes the nodes of either list.
LEMMA ListPrefix ==
  ASSUME NEW links, NEW n, NEW s \in Seq(Nodes), NEW t \in Seq(Nodes),
         IsList(s, n, links), IsList(t, n, links)
  PROVE  \A i \in 1..Len(s) : i <= Len(t) /\ s[i] = t[i]
<1>. DEFINE Differ == {i \in 1..Len(s) : ~(i <= Len(t) /\ s[i] = t[i])}
<1>. SUFFICES ASSUME Differ # {} PROVE FALSE
  OBVIOUS
<1>0. Differ \in SUBSET Nat
  OBVIOUS
<1>1. PICK i \in Differ : \A j \in Differ : i <= j
  <2>. HIDE DEF Differ
  <2>. QED BY <1>0, NatLeast
<1>2. Len(s) \in Nat /\ Len(t) \in Nat /\ i \in 1..Len(s) /\ s[i] \in Nodes /\ s[i] # Null
  BY NullAssumption
<1>3. CASE i = 1
  <2>1. n = s[1]
    BY <1>2, <1>3 DEF IsList
  <2>2. t # << >> /\ n = t[1]
    BY <1>2, <1>3, <2>1 DEF IsList
  <2>3. 1 <= Len(t)
    BY <2>2
  <2>. QED BY <1>3, <2>1, <2>2, <2>3
<1>4. CASE i # 1
  <2>1. i - 1 \in 1..Len(s) /\ i - 1 # Len(s) /\ i - 1 \notin Differ
    BY <1>1, <1>2, <1>4
  <2>2. i - 1 <= Len(t) /\ s[i - 1] = t[i - 1] /\ i - 1 \in 1..Len(t)
    BY <1>2, <2>1
  <2>3. links[s[i - 1]] = s[(i - 1) + 1]
    BY <2>1 DEF IsList
  <2>4. links[t[i - 1]] = IF i - 1 = Len(t) THEN Null ELSE t[(i - 1) + 1]
    BY <2>2 DEF IsList
  <2>5. (i - 1) + 1 = i
    BY <1>2
  <2>6. i - 1 # Len(t) /\ s[i] = t[i]
    BY <1>2, <2>2, <2>3, <2>4, <2>5
  <2>. QED BY <1>2, <2>2, <2>6
<1>. QED BY <1>3, <1>4

\* From a node the links lead along one list at most.
LEMMA ListUnique ==
  ASSUME NEW links, NEW n, NEW s \in Seq(Nodes), NEW t \in Seq(Nodes),
         IsList(s, n, links), IsList(t, n, links)
  PROVE  s = t
<1>1. \A i \in 1..Len(s) : i <= Len(t) /\ s[i] = t[i]
  BY ListPrefix
<1>2. \A i \in 1..Len(t) : i <= Len(s) /\ t[i] = s[i]
  BY ListPrefix
<1>3. Len(s) \in Nat /\ Len(t) \in Nat
  OBVIOUS
<1>4. Len(s) = Len(t)
  <2>1. Len(s) <= Len(t)
    <3>1. CASE Len(s) = 0
      BY <1>3, <3>1
    <3>2. CASE Len(s) # 0
      BY <1>1, <1>3, <3>2
    <3>. QED BY <3>1, <3>2
  <2>2. Len(t) <= Len(s)
    <3>1. CASE Len(t) = 0
      BY <1>3, <3>1
    <3>2. CASE Len(t) # 0
      BY <1>2, <1>3, <3>2
    <3>. QED BY <3>1, <3>2
  <2>. QED BY <1>3, <2>1, <2>2
<1>. QED BY <1>1, <1>4

\* A list without repetition is not longer than the memory.
LEMMA DistinctFits ==
  ASSUME NEW list \in Seq(Nodes), Distinct(list)
  PROVE  list \in Lists
<1>1. Len(list) \in Nat /\ list \in [1..Len(list) -> Nodes]
  OBVIOUS
<1>2. list \in Injection(1..Len(list), Nodes)
  BY <1>1 DEF Distinct, Injection, IsInjective
<1>3. Cardinality(1..Len(list)) <= Cardinality(Nodes)
  BY <1>2, NodesAssumption, FS_Injection
<1>4. Cardinality(1..Len(list)) = Len(list)
  BY <1>1, FS_Interval
<1>5. Cardinality(Nodes) \in Nat
  BY NodesAssumption, FS_CardinalityType
<1>. QED BY <1>1, <1>3, <1>4, <1>5 DEF Lists

\* To know what one meets from n on it is enough to find a list from n on.
LEMMA ListIs ==
  ASSUME NEW links, NEW n, NEW list, Proper(list, n, links)
  PROVE  ListFrom(n, links) = list
<1>1. list \in Lists /\ list \in Seq(Nodes) /\ IsList(list, n, links)
  BY DistinctFits DEF Proper
<1>2. ASSUME NEW other \in Lists, IsList(other, n, links) PROVE other = list
  <2>1. other \in Seq(Nodes)
    BY DEF Lists
  <2>. QED BY <1>1, <1>2, <2>1, ListUnique
<1>. QED BY <1>1, <1>2 DEF ListFrom

\* From nowhere one meets nothing.
LEMMA NullList ==
  ASSUME NEW links
  PROVE  Proper(<< >>, Null, links) /\ ListFrom(Null, links) = << >>
<1>1. Proper(<< >>, Null, links)
  BY DEF Proper, Distinct, IsList
<1>. QED BY <1>1, ListIs

\* A node whose link leads to a list begins a list.
LEMMA ConsList ==
  ASSUME NEW links, NEW n, NEW list, Proper(list, n, links),
         NEW m \in Nodes, m \notin NodesOf(list), links[m] = n
  PROVE  /\ Proper(<<m>> \o list, m, links)
         /\ NodesOf(<<m>> \o list) = {m} \cup NodesOf(list)
<1>. DEFINE longer == <<m>> \o list
<1>1. list \in Seq(Nodes) /\ Len(list) \in Nat
  BY DEF Proper
<1>2. /\ longer \in Seq(Nodes) /\ Len(longer) = Len(list) + 1 /\ longer[1] = m
      /\ \A i \in 1..Len(list) : longer[i + 1] = list[i]
      /\ \A i \in 2..Len(longer) : longer[i] = list[i - 1]
  BY <1>1
<1>3. longer # << >>
  BY <1>1, <1>2
<1>. HIDE DEF longer
<1>4. Distinct(longer)
  <2>. SUFFICES ASSUME NEW i \in 1..Len(longer), NEW j \in 1..Len(longer), longer[i] = longer[j]
                PROVE  i = j
    BY DEF Distinct
  <2>1. \A k \in 2..Len(longer) : k - 1 \in 1..Len(list) /\ longer[k] = list[k - 1] /\ longer[k] # m
    BY <1>1, <1>2 DEF NodesOf
  <2>2. CASE i = 1 \/ j = 1
    BY <1>1, <1>2, <2>1, <2>2
  <2>3. CASE i # 1 /\ j # 1
    <3>1. i \in 2..Len(longer) /\ j \in 2..Len(longer)
      BY <1>1, <1>2, <2>3
    <3>2. list[i - 1] = list[j - 1] /\ i - 1 \in 1..Len(list) /\ j - 1 \in 1..Len(list)
      BY <2>1, <3>1
    <3>3. i - 1 = j - 1
      BY <3>2 DEF Proper, Distinct
    <3>. QED BY <3>3
  <2>. QED BY <2>2, <2>3
<1>5. IsList(longer, m, links)
  <2>. SUFFICES ASSUME NEW i \in 1..Len(longer)
                PROVE  links[longer[i]] = IF i = Len(longer) THEN Null ELSE longer[i + 1]
    BY <1>2, <1>3 DEF IsList
  <2>1. CASE i = 1
    <3>1. links[m] = IF list = << >> THEN Null ELSE list[1]
      BY DEF Proper, IsList
    <3>2. list = << >> <=> Len(list) = 0
      BY <1>1
    <3>. QED BY <1>1, <1>2, <2>1, <3>1, <3>2
  <2>2. CASE i # 1
    <3>1. i - 1 \in 1..Len(list) /\ longer[i] = list[i - 1]
      BY <1>1, <1>2, <2>2
    <3>2. links[list[i - 1]] = IF i - 1 = Len(list) THEN Null ELSE list[(i - 1) + 1]
      BY <3>1 DEF Proper, IsList
    <3>3. i # Len(longer) => i \in 1..Len(list) /\ longer[i + 1] = list[i]
      BY <1>1, <1>2
    <3>. QED BY <1>1, <1>2, <3>1, <3>2, <3>3
  <2>. QED BY <2>1, <2>2
<1>6. NodesOf(longer) = {m} \cup NodesOf(list)
  <2>1. \A i \in 1..Len(longer) : i = 1 \/ (i - 1 \in 1..Len(list) /\ longer[i] = list[i - 1])
    BY <1>1, <1>2
  <2>2. \A i \in 1..Len(list) : i + 1 \in 1..Len(longer) /\ longer[i + 1] = list[i]
    BY <1>1, <1>2
  <2>3. 1 \in 1..Len(longer)
    BY <1>1, <1>2
  <2>4. NodesOf(longer) \subseteq {m} \cup NodesOf(list)
    BY <1>2, <2>1 DEF NodesOf
  <2>5. m \in NodesOf(longer)
    BY <1>2, <2>3 DEF NodesOf
  <2>6. NodesOf(list) \subseteq NodesOf(longer)
    BY <2>2 DEF NodesOf
  <2>. QED BY <2>4, <2>5, <2>6
<1>. QED BY <1>2, <1>4, <1>5, <1>6 DEF Proper, longer

\* Without its first node a list is what the link of that node leads to.
LEMMA TailList ==
  ASSUME NEW links, NEW n, n # Null, NEW list, Proper(list, n, links)
  PROVE  /\ list # << >> /\ n = Head(list) /\ n \in NodesOf(list)
         /\ Proper(Tail(list), links[n], links)
         /\ NodesOf(Tail(list)) = NodesOf(list) \ {n}
<1>1. list \in Seq(Nodes) /\ Len(list) \in Nat /\ list # << >> /\ n = list[1]
  BY DEF Proper, IsList
<1>. DEFINE short == Tail(list)
<1>2. /\ short \in Seq(Nodes) /\ Len(short) = Len(list) - 1 /\ Len(list) >= 1
      /\ \A i \in 1..Len(short) : short[i] = list[i + 1]
  BY <1>1
<1>. HIDE DEF short
<1>3. Distinct(short)
  <2>. SUFFICES ASSUME NEW i \in 1..Len(short), NEW j \in 1..Len(short), short[i] = short[j]
                PROVE  i = j
    BY DEF Distinct
  <2>1. list[i + 1] = list[j + 1] /\ i + 1 \in 1..Len(list) /\ j + 1 \in 1..Len(list)
    BY <1>1, <1>2
  <2>2. i + 1 = j + 1
    BY <2>1 DEF Proper, Distinct
  <2>. QED BY <2>2
<1>4. IsList(short, links[n], links)
  <2>1. links[n] = IF 1 = Len(list) THEN Null ELSE list[1 + 1]
    <3>1. 1 \in 1..Len(list)
      BY <1>1, <1>2
    <3>. QED BY <1>1, <3>1 DEF Proper, IsList
  <2>2. links[n] = IF short = << >> THEN Null ELSE short[1]
    <3>1. short = << >> <=> Len(list) = 1
      <4>1. short = << >> <=> Len(short) = 0
        BY <1>2
      <4>. QED BY <1>1, <1>2, <4>1
    <3>2. Len(list) # 1 => short[1] = list[1 + 1]
      <4>1. Len(list) # 1 => 1 \in 1..Len(short)
        BY <1>1, <1>2
      <4>. QED BY <1>2, <4>1
    <3>. QED BY <2>1, <3>1, <3>2
  <2>3. ASSUME NEW i \in 1..Len(short)
        PROVE  links[short[i]] = IF i = Len(short) THEN Null ELSE short[i + 1]
    <3>0. i \in 1..Len(short)
      BY <1>2
    <3>1. i + 1 \in 1..Len(list) /\ short[i] = list[i + 1]
      BY <1>1, <1>2, <3>0
    <3>2. links[list[i + 1]] = IF i + 1 = Len(list) THEN Null ELSE list[(i + 1) + 1]
      BY <3>1 DEF Proper, IsList
    <3>3. i # Len(short) => short[i + 1] = list[(i + 1) + 1]
      <4>1. i # Len(short) => i + 1 \in 1..Len(short)
        BY <1>1, <1>2, <3>0
      <4>. QED BY <1>2, <4>1
    <3>. QED BY <1>1, <1>2, <3>1, <3>2, <3>3
  <2>. QED BY <2>2, <2>3 DEF IsList
<1>5. NodesOf(short) = NodesOf(list) \ {n}
  <2>1. ASSUME NEW i \in 1..Len(short)
        PROVE  i + 1 \in 1..Len(list) /\ short[i] = list[i + 1] /\ list[i + 1] # n
    <3>1. i + 1 \in 1..Len(list) /\ short[i] = list[i + 1] /\ i + 1 # 1 /\ 1 \in 1..Len(list)
      BY <1>1, <1>2
    <3>. QED BY <1>1, <3>1 DEF Proper, Distinct
  <2>2. ASSUME NEW i \in 1..Len(list), list[i] # n
        PROVE  i - 1 \in 1..Len(short) /\ short[i - 1] = list[i]
    <3>1. i # 1 /\ i - 1 \in 1..Len(short) /\ (i - 1) + 1 = i
      BY <1>1, <1>2, <2>2
    <3>. QED BY <1>2, <3>1
  <2>. QED BY <2>1, <2>2 DEF NodesOf
<1>6. n \in NodesOf(list) /\ n = Head(list)
  BY <1>1, <1>2 DEF NodesOf
<1>. QED BY <1>1, <1>2, <1>3, <1>4, <1>5, <1>6 DEF Proper, short

\* A list is not affected by links of nodes that are not on it.
LEMMA Untouched ==
  ASSUME NEW links, NEW others, NEW n, NEW list, Proper(list, n, links),
         \A m \in NodesOf(list) : others[m] = links[m]
  PROVE  Proper(list, n, others)
<1>1. \A i \in 1..Len(list) : list[i] \in NodesOf(list)
  BY DEF NodesOf
<1>. QED BY <1>1 DEF Proper, IsList

-------------------------------------------------------------------------------
(***************************************************************************)
(* Ownership.  The list from head_ and the rest of the batch end, repeat   *)
(* nothing and share nothing; two producers never push one node; and the   *)
(* node under the control thread's hand, deleted or not, is nobody else's, *)
(* which is what ReuseInWindow is about.                                   *)
(***************************************************************************)
Listed == NodesOf(Chain(head))
Walked == NodesOf(Remaining)
Pushing == {p \in Producers : ppc[p] # "read"}
Hand == IF cpc = "delete" THEN {cur} ELSE {}

ListsEnd == Proper(Chain(head), head, next) /\ Proper(Remaining, Rest, next)

PushedApart ==
  /\ \A p \in Pushing : mine[p] \in Nodes /\ mine[p] \notin Listed \cup Walked
  /\ \A p, q \in Pushing : mine[p] = mine[q] => p = q

HandApart ==
  cpc \in {"delete", "advance"} =>
    cur \in Nodes /\ cur \notin Listed \cup Walked /\ \A p \in Pushing : mine[p] # cur

AllocatedIsOwned == allocated = Listed \cup Walked \cup Hand \cup {mine[p] : p \in Pushing}

OwnerInv ==
  /\ ListsEnd
  /\ Listed \cap Walked = {}
  /\ PushedApart
  /\ HandApart
  /\ AllocatedIsOwned
  /\ cpc = "take" => head # Null

(***************************************************************************)
(* Contents.  A request is begun when its push has succeeded; what is on   *)
(* the list, in the batch or handled was begun, and what is still to be    *)
(* pushed was not.                                                         *)
(***************************************************************************)
Pushed(p) == IF ppc[p] = "read" THEN sent[p] ELSE sent[p] - 1

Begun == {r \in Requests : r[2] <= Pushed(r[1])}

DataInv ==
  /\ \A p \in Pushing : sent[p] \in 1..MaxRequests /\ data[mine[p]] = <<p, sent[p]>>
  /\ \A n \in Listed \cup Walked : data[n] \in Begun
  /\ \A i \in 1..Len(handled) : handled[i] \in Begun

QueueInv == TypeOK /\ OwnerInv /\ DataInv

\* The links and counters are typed, and nothing is handled, at the start.
LEMMA InitTypeOK == Init => TypeOK
  BY MaxRequestsAssumption DEF Init, TypeOK

\* There are no nodes and no requests at the start.
LEMMA InitQueueInv == Init => QueueInv
<1>. SUFFICES ASSUME Init PROVE QueueInv
  OBVIOUS
<1>1. head = Null /\ Rest = Null /\ Pushing = {} /\ Hand = {} /\ allocated = {} /\ cpc = "poll"
  BY DEF Init, Rest, Pushing, Hand
<1>2. Chain(head) = << >> /\ Remaining = << >> /\ ListsEnd
  BY <1>1, NullList DEF Chain, Remaining, ListsEnd
<1>3. Listed = {} /\ Walked = {}
  BY <1>2 DEF Listed, Walked, NodesOf
<1>4. OwnerInv
  BY <1>1, <1>2, <1>3 DEF OwnerInv, PushedApart, HandApart, AllocatedIsOwned
<1>5. DataInv
  BY <1>1, <1>3 DEF Init, DataInv
<1>. QED BY <1>4, <1>5, InitTypeOK DEF QueueInv

\* Every step keeps pointers pointers and counters within their bounds.
LEMMA StepTypeOK ==
  ASSUME TypeOK, OwnerInv, DataInv, [Next]_vars
  PROVE  TypeOK'
<1>1. ASSUME NEW p \in Producers, NewNode(p) PROVE TypeOK'
  <2>1. sent[p] + 1 \in 1..MaxRequests /\ sent[p] + 1 \in 0..MaxRequests
    BY <1>1, MaxRequestsAssumption DEF NewNode, TypeOK
  <2>2. <<p, sent[p] + 1>> \in Requests
    BY <2>1 DEF Requests
  <2>. QED BY <1>1, <2>1, <2>2 DEF NewNode, TypeOK, consumerVars
<1>2. ASSUME NEW p \in Producers, LoadHead(p) \/ CasFails(p) PROVE TypeOK'
  BY <1>2 DEF LoadHead, CasFails, TypeOK, consumerVars, producerVars
<1>3. ASSUME NEW p \in Producers, CasSucceeds(p) PROVE TypeOK'
  BY <1>3 DEF CasSucceeds, TypeOK, consumerVars
<1>4. CASE PollEmpty \/ PollFull \/ ConsumeAll \/ EndOfBatch \/ Delete
  BY <1>4 DEF PollEmpty, PollFull, ConsumeAll, EndOfBatch, Delete, TypeOK, vars, producerVars
<1>5. CASE Advance
  <2>1. next[cur] \in Nodes \cup {Null}
    BY <1>5 DEF Advance, OwnerInv, HandApart, TypeOK
  <2>. QED BY <1>5, <2>1 DEF Advance, TypeOK, producerVars
<1>6. CASE UNCHANGED vars
  BY <1>6 DEF vars, TypeOK
<1>7. CASE Handle
  <2>1. Rest = cur /\ cur # Null
    BY <1>7 DEF Handle, Rest
  <2>2. cur \in Walked
    BY <2>1, TailList DEF OwnerInv, ListsEnd, Walked
  <2>3. data[cur] \in Requests
    BY <2>2 DEF DataInv, Begun
  <2>. QED BY <1>7, <2>3 DEF Handle, TypeOK, producerVars
<1>. QED BY <1>1, <1>2, <1>3, <1>4, <1>5, <1>6, <1>7 DEF Next, Push, Control

\* A step that leaves the heads of both lists, and the links on them, leaves
\* both lists.
LEMMA ListsStay ==
  ASSUME OwnerInv, head' = head, Rest' = Rest,
         \A n \in Listed \cup Walked : next'[n] = next[n]
  PROVE  /\ Chain(head)' = Chain(head) /\ Remaining' = Remaining /\ ListsEnd'
         /\ Listed' = Listed /\ Walked' = Walked
<1>. DEFINE listed == Chain(head)
            walked == Remaining
            links == next'
<1>1. Proper(listed, head, links) /\ Proper(walked, Rest, links)
  BY Untouched DEF OwnerInv, ListsEnd, Listed, Walked
<1>2. ListFrom(head, links) = listed /\ ListFrom(Rest, links) = walked
  <2>. HIDE DEF listed, walked, links
  <2>. QED BY <1>1, ListIs
<1>3. Chain(head)' = listed /\ Remaining' = walked
  BY <1>2 DEF Chain, Remaining
<1>. QED BY <1>1, <1>3 DEF ListsEnd, Listed, Walked

Pending == Payload(Chain(head))
Batch == Payload(Remaining)
StackStays == Pending' = Pending /\ Batch' = Batch /\ handled' = handled

\* If the contents of the nodes on both lists stay as well, nothing happens to
\* the requests.
LEMMA PayloadStays ==
  ASSUME OwnerInv, head' = head, Rest' = Rest, handled' = handled,
         \A n \in Listed \cup Walked : next'[n] = next[n] /\ data'[n] = data[n]
  PROVE  /\ StackStays /\ ListsEnd' /\ Listed' = Listed /\ Walked' = Walked
<1>1. Chain(head)' = Chain(head) /\ Remaining' = Remaining /\ ListsEnd'
  BY ListsStay
<1>2. Listed' = Listed /\ Walked' = Walked
  BY ListsStay
<1>3. /\ \A i \in 1..Len(Chain(head)) : data'[Chain(head)[i]] = data[Chain(head)[i]]
      /\ \A i \in 1..Len(Remaining) : data'[Remaining[i]] = data[Remaining[i]]
  BY DEF Listed, Walked, NodesOf
<1>. DEFINE listed == Chain(head)
            walked == Remaining
            later == data'
<1>4. Pending' = [i \in 1..Len(listed) |-> later[listed[i]]]
  BY <1>1 DEF Pending, Payload
<1>5. Batch' = [i \in 1..Len(walked) |-> later[walked[i]]]
  BY <1>1 DEF Batch, Payload
<1>6. Pending = [i \in 1..Len(listed) |-> data[listed[i]]]
  BY DEF Pending, Payload
<1>7. Batch = [i \in 1..Len(walked) |-> data[walked[i]]]
  BY DEF Batch, Payload
<1>8. Pending' = Pending /\ Batch' = Batch
  <2>1. /\ \A i \in 1..Len(listed) : later[listed[i]] = data[listed[i]]
        /\ \A i \in 1..Len(walked) : later[walked[i]] = data[walked[i]]
    BY <1>3
  <2>. HIDE DEF listed, walked, later
  <2>. QED BY <1>4, <1>5, <1>6, <1>7, <2>1
<1>. QED BY <1>1, <1>2, <1>8 DEF StackStays

\* A new node is nobody's, and not the one whose next is still to be read.
LEMMA NewNodeStep ==
  ASSUME ReuseInWindow = FALSE, QueueInv, NEW p \in Producers, NewNode(p)
  PROVE  OwnerInv' /\ DataInv' /\ StackStays
<1>1. PICK n \in Nodes :
        /\ Reusable(n) /\ allocated' = allocated \cup {n}
        /\ data' = [data EXCEPT ![n] = <<p, sent[p] + 1>>]
        /\ next' = [next EXCEPT ![n] = Null] /\ mine' = [mine EXCEPT ![p] = n]
  BY DEF NewNode
<1>2. /\ head' = head /\ cpc' = cpc /\ cur' = cur /\ handled' = handled
      /\ sent' = [sent EXCEPT ![p] = @ + 1] /\ ppc' = [ppc EXCEPT ![p] = "load"]
      /\ ppc[p] = "read" /\ sent[p] < MaxRequests
  BY DEF NewNode, consumerVars
<1>3. n \notin allocated /\ n \notin Listed \cup Walked /\ \A q \in Pushing : mine[q] # n
  BY <1>1 DEF Reusable, QueueInv, OwnerInv, AllocatedIsOwned
<1>4. cpc \in {"delete", "advance"} => cur # n /\ cur \in Nodes
  BY <1>1, <1>3 DEF Reusable, QueueInv, OwnerInv, AllocatedIsOwned, Hand, HandApart
<1>5. \A m \in Nodes : m # n => next'[m] = next[m] /\ data'[m] = data[m]
  BY <1>1 DEF QueueInv, TypeOK
<1>6. Rest' = Rest
  BY <1>2, <1>4, <1>5 DEF Rest
<1>7. Listed \cup Walked \subseteq Nodes
  BY DEF QueueInv, OwnerInv, ListsEnd, Proper, Listed, Walked, NodesOf
<1>8. StackStays /\ ListsEnd' /\ Listed' = Listed /\ Walked' = Walked
  BY <1>2, <1>3, <1>5, <1>6, <1>7, PayloadStays DEF QueueInv
<1>9. /\ p \notin Pushing /\ Pushing' = Pushing \cup {p} /\ mine'[p] = n
      /\ \A q \in Pushing : mine'[q] = mine[q]
  BY <1>1, <1>2 DEF Pushing, QueueInv, TypeOK
<1>10. Hand' = Hand
  BY <1>2 DEF Hand
<1>11. OwnerInv'
  <2>1. PushedApart'
    BY <1>3, <1>8, <1>9 DEF QueueInv, OwnerInv, PushedApart
  <2>2. HandApart'
    BY <1>2, <1>4, <1>8, <1>9 DEF QueueInv, OwnerInv, HandApart
  <2>3. AllocatedIsOwned'
    BY <1>1, <1>8, <1>9, <1>10 DEF QueueInv, OwnerInv, AllocatedIsOwned
  <2>. QED BY <1>2, <1>8, <2>1, <2>2, <2>3 DEF QueueInv, OwnerInv
<1>12. sent'[p] = sent[p] + 1 /\ sent[p] \in Nat /\ sent'[p] \in 1..MaxRequests
  BY <1>2, MaxRequestsAssumption DEF QueueInv, TypeOK
<1>13. \A q \in Producers : q # p => sent'[q] = sent[q] /\ ppc'[q] = ppc[q]
  BY <1>2 DEF QueueInv, TypeOK
<1>14. \A q \in Producers : Pushed(q)' = Pushed(q)
  <2>1. Pushed(p)' = Pushed(p)
    BY <1>2, <1>12 DEF Pushed, QueueInv, TypeOK
  <2>. QED BY <1>13, <2>1 DEF Pushed
<1>15. Begun' = Begun
  BY <1>14 DEF Begun, Requests
<1>16. DataInv'
  <2>1. \A q \in Pushing' : sent'[q] \in 1..MaxRequests /\ data'[mine'[q]] = <<q, sent'[q]>>
    <3>1. data'[n] = <<p, sent'[p]>>
      BY <1>1, <1>12 DEF QueueInv, TypeOK
    <3>2. ASSUME NEW q \in Pushing
          PROVE  sent'[q] \in 1..MaxRequests /\ data'[mine'[q]] = <<q, sent'[q]>>
      <4>1. q \in Producers /\ q # p /\ mine[q] \in Nodes /\ mine[q] # n
        BY <1>3, <1>9 DEF Pushing, QueueInv, OwnerInv, PushedApart
      <4>2. sent[q] \in 1..MaxRequests /\ data[mine[q]] = <<q, sent[q]>>
        BY DEF QueueInv, DataInv
      <4>3. mine'[q] = mine[q] /\ sent'[q] = sent[q] /\ data'[mine[q]] = data[mine[q]]
        BY <1>5, <1>9, <1>13, <4>1
      <4>. QED BY <4>2, <4>3
    <3>. QED BY <1>9, <1>12, <3>1, <3>2
  <2>2. \A m \in Listed \cup Walked : data'[m] \in Begun
    BY <1>3, <1>5, <1>7 DEF QueueInv, DataInv
  <2>. QED BY <1>2, <1>8, <1>15, <2>1, <2>2 DEF QueueInv, DataInv
<1>. QED BY <1>8, <1>11, <1>16

\* A producer links its own node only, which nobody else can see yet.
LEMMA LinkStep ==
  ASSUME QueueInv, NEW p \in Producers, LoadHead(p) \/ CasFails(p)
  PROVE  OwnerInv' /\ DataInv' /\ StackStays
<1>1. /\ p \in Pushing /\ next' = [next EXCEPT ![mine[p]] = head]
      /\ head' = head /\ data' = data /\ allocated' = allocated /\ mine' = mine /\ sent' = sent
      /\ cpc' = cpc /\ cur' = cur /\ handled' = handled
  BY DEF LoadHead, CasFails, Pushing, consumerVars, producerVars
<1>2. /\ Pushing' = Pushing
      /\ \A q \in Producers : ppc'[q] = "read" <=> ppc[q] = "read"
  BY DEF LoadHead, CasFails, Pushing, producerVars, QueueInv, TypeOK
<1>3. mine[p] \in Nodes /\ mine[p] \notin Listed \cup Walked
  BY <1>1 DEF QueueInv, OwnerInv, PushedApart
<1>4. \A m \in Nodes : m # mine[p] => next'[m] = next[m]
  BY <1>1 DEF QueueInv, TypeOK
<1>5. cpc \in {"delete", "advance"} => cur # mine[p] /\ cur \in Nodes
  BY <1>1 DEF QueueInv, OwnerInv, HandApart
<1>6. Rest' = Rest
  BY <1>1, <1>4, <1>5 DEF Rest
<1>7. Listed \cup Walked \subseteq Nodes
  BY DEF QueueInv, OwnerInv, ListsEnd, Proper, Listed, Walked, NodesOf
<1>8. StackStays /\ ListsEnd' /\ Listed' = Listed /\ Walked' = Walked
  BY <1>1, <1>3, <1>4, <1>6, <1>7, PayloadStays DEF QueueInv
<1>9. OwnerInv'
  BY <1>1, <1>2, <1>8 DEF QueueInv, OwnerInv, PushedApart, HandApart, AllocatedIsOwned, Hand
<1>10. Begun' = Begun
  BY <1>1, <1>2 DEF Begun, Requests, Pushed
<1>11. DataInv'
  BY <1>1, <1>2, <1>8, <1>10 DEF QueueInv, DataInv
<1>. QED BY <1>8, <1>9, <1>11

\* The node of a compare-and-swap that succeeds becomes the first of the list.
LEMMA CasStep ==
  ASSUME QueueInv, NEW p \in Producers, CasSucceeds(p)
  PROVE  /\ OwnerInv' /\ DataInv'
         /\ <<p, sent[p]>> \in Requests \ Begun /\ Pending' = <<<<p, sent[p]>>>> \o Pending
         /\ Batch' = Batch /\ handled' = handled
<1>1. /\ p \in Pushing /\ head' = mine[p] /\ next[mine[p]] = head
      /\ next' = next /\ data' = data /\ allocated' = allocated /\ mine' = mine /\ sent' = sent
      /\ cpc' = cpc /\ cur' = cur /\ handled' = handled
      /\ ppc' = [ppc EXCEPT ![p] = "read"] /\ ppc[p] = "cas"
  BY DEF CasSucceeds, Pushing, consumerVars
<1>2. mine[p] \in Nodes /\ mine[p] \notin Listed \cup Walked
  BY <1>1 DEF QueueInv, OwnerInv, PushedApart
<1>. DEFINE listed == Chain(head)
            longer == <<mine[p]>> \o listed
<1>3. Proper(longer, mine[p], next) /\ NodesOf(longer) = {mine[p]} \cup Listed
  <2>1. Proper(listed, head, next) /\ mine[p] \notin NodesOf(listed)
    BY <1>2 DEF QueueInv, OwnerInv, ListsEnd, Listed
  <2>. HIDE DEF listed
  <2>2. /\ Proper(<<mine[p]>> \o listed, mine[p], next)
        /\ NodesOf(<<mine[p]>> \o listed) = {mine[p]} \cup NodesOf(listed)
    BY <1>1, <1>2, <2>1, ConsList
  <2>. QED BY <2>2 DEF Listed, listed
<1>4. Chain(head)' = longer
  <2>1. ListFrom(mine[p], next) = longer
    <3>. HIDE DEF longer
    <3>. QED BY <1>3, ListIs
  <2>. QED BY <1>1, <2>1 DEF Chain
<1>5. Rest' = Rest /\ Remaining' = Remaining
  BY <1>1 DEF Rest, Remaining, Chain
<1>6. Listed' = {mine[p]} \cup Listed /\ Walked' = Walked
  BY <1>3, <1>4, <1>5 DEF Listed, Walked
<1>7. ListsEnd'
  BY <1>1, <1>3, <1>4, <1>5 DEF QueueInv, OwnerInv, ListsEnd
<1>8. Pushing' = Pushing \ {p} /\ Hand' = Hand
  BY <1>1 DEF Pushing, Hand, QueueInv, TypeOK
<1>9. OwnerInv'
  <2>1. \A q \in Pushing' : mine[q] # mine[p]
    BY <1>1, <1>8 DEF QueueInv, OwnerInv, PushedApart
  <2>2. PushedApart'
    BY <1>1, <1>6, <1>8, <2>1 DEF QueueInv, OwnerInv, PushedApart
  <2>3. HandApart'
    BY <1>1, <1>6, <1>8 DEF QueueInv, OwnerInv, HandApart
  <2>4. AllocatedIsOwned'
    BY <1>1, <1>6, <1>8 DEF QueueInv, OwnerInv, AllocatedIsOwned
  <2>5. Listed' \cap Walked' = {} /\ (cpc' = "take" => head' # Null)
    BY <1>1, <1>2, <1>6, NullAssumption DEF QueueInv, OwnerInv
  <2>. QED BY <1>7, <2>2, <2>3, <2>4, <2>5 DEF OwnerInv
<1>10. sent[p] \in 1..MaxRequests /\ data[mine[p]] = <<p, sent[p]>>
  BY <1>1 DEF QueueInv, DataInv
<1>11. /\ Pushed(p) = sent[p] - 1 /\ Pushed(p)' = sent[p]
       /\ \A q \in Producers : q # p => Pushed(q)' = Pushed(q)
  BY <1>1 DEF Pushed, QueueInv, TypeOK
<1>12. <<p, sent[p]>> \in Requests /\ <<p, sent[p]>> \notin Begun /\ <<p, sent[p]>> \in Begun'
  <2>1. <<p, sent[p]>> \in Requests /\ <<p, sent[p]>>[1] = p /\ <<p, sent[p]>>[2] = sent[p]
    BY <1>10 DEF Requests
  <2>2. ~(sent[p] <= sent[p] - 1) /\ sent[p] <= sent[p]
    BY <1>10, MaxRequestsAssumption
  <2>. QED BY <1>11, <2>1, <2>2 DEF Begun, Requests
<1>13. Begun \subseteq Begun'
  <2>. SUFFICES ASSUME NEW r \in Begun PROVE r[2] <= Pushed(r[1])' /\ r \in Requests
    BY DEF Begun, Requests
  <2>1. r \in Requests /\ r[1] \in Producers /\ r[2] \in Nat /\ r[2] <= Pushed(r[1])
    BY MaxRequestsAssumption DEF Begun, Requests
  <2>2. CASE r[1] = p
    BY <1>10, <1>11, <2>1, <2>2, MaxRequestsAssumption
  <2>3. CASE r[1] # p
    BY <1>11, <2>1, <2>3
  <2>. QED BY <2>1, <2>2, <2>3
<1>14. DataInv'
  <2>1. \A q \in Pushing' : sent'[q] \in 1..MaxRequests /\ data'[mine'[q]] = <<q, sent'[q]>>
    BY <1>1, <1>8 DEF QueueInv, DataInv
  <2>2. \A n \in Listed' \cup Walked' : data'[n] \in Begun'
    BY <1>1, <1>6, <1>10, <1>12, <1>13 DEF QueueInv, DataInv
  <2>3. \A i \in 1..Len(handled') : handled'[i] \in Begun'
    BY <1>1, <1>13 DEF QueueInv, DataInv
  <2>. QED BY <2>1, <2>2, <2>3 DEF DataInv
<1>15. Pending' = <<<<p, sent[p]>>>> \o Pending
  <2>1. Pending' = [i \in 1..Len(longer) |-> data[longer[i]]]
    BY <1>1, <1>4 DEF Pending, Payload
  <2>2. Pending = [i \in 1..Len(listed) |-> data[listed[i]]]
    BY DEF Pending, Payload
  <2>3. PICK request : request = <<p, sent[p]>> /\ request = data[mine[p]]
    BY <1>10
  <2>4. listed \in Seq(Nodes)
    BY DEF QueueInv, OwnerInv, ListsEnd, Proper
  <2>. HIDE DEF listed
  <2>5. /\ Len(longer) = Len(listed) + 1 /\ longer[1] = mine[p] /\ Len(listed) \in Nat
        /\ \A i \in 2..Len(longer) : longer[i] = listed[i - 1]
    BY <2>4
  <2>6. /\ Len(Pending) = Len(listed) /\ Pending \in Seq({data[n] : n \in Nodes})
        /\ \A i \in 1..Len(listed) : Pending[i] = data[listed[i]]
    BY <2>2, <2>4
  <2>7. /\ Len(<<request>> \o Pending) = Len(listed) + 1
        /\ (<<request>> \o Pending)[1] = request
        /\ \A i \in 2..Len(listed) + 1 : (<<request>> \o Pending)[i] = Pending[i - 1]
        /\ <<request>> \o Pending \in Seq({data[n] : n \in Nodes} \cup {request})
    BY <2>6
  <2>8. \A i \in 1..Len(listed) + 1 : (<<request>> \o Pending)[i] = data[longer[i]]
    <3>. TAKE i \in 1..Len(listed) + 1
    <3>1. CASE i = 1
      BY <2>3, <2>5, <2>7, <3>1
    <3>2. CASE i # 1
      <4>1. i \in 2..Len(longer) /\ i - 1 \in 1..Len(listed)
        BY <2>5, <3>2
      <4>. QED BY <2>5, <2>6, <2>7, <4>1
    <3>. QED BY <3>1, <3>2
  <2>. DEFINE joined == <<request>> \o Pending
  <2>9. joined = [i \in 1..Len(listed) + 1 |-> data[longer[i]]]
    <3>1. joined \in Seq({data[n] : n \in Nodes} \cup {request}) /\ Len(joined) = Len(listed) + 1
      BY <2>7
    <3>2. \A i \in 1..Len(listed) + 1 : joined[i] = data[longer[i]]
      BY <2>8
    <3>. HIDE DEF joined, longer
    <3>. QED BY <3>1, <3>2
  <2>10. Pending' = joined
    <3>. HIDE DEF joined, longer
    <3>. QED BY <2>1, <2>5, <2>9
  <2>. QED BY <2>3, <2>10
<1>16. Batch' = Batch
  BY <1>1, <1>5 DEF Batch, Payload
<1>. QED BY <1>1, <1>9, <1>12, <1>14, <1>15, <1>16

\* Polling, the end of a batch, the deletion of a node and the step to its next
\* leave the requests where they are.
LEMMA WalkStep ==
  ASSUME QueueInv, PollFull \/ EndOfBatch \/ Delete \/ Advance
  PROVE  OwnerInv' /\ DataInv' /\ StackStays
<1>1. /\ head' = head /\ data' = data /\ next' = next /\ mine' = mine /\ sent' = sent /\ ppc' = ppc
      /\ handled' = handled
  BY DEF PollFull, EndOfBatch, Delete, Advance, producerVars
<1>2. Rest' = Rest
  BY <1>1 DEF PollFull, EndOfBatch, Delete, Advance, Rest
<1>3. StackStays /\ ListsEnd' /\ Listed' = Listed /\ Walked' = Walked
  BY <1>1, <1>2, PayloadStays DEF QueueInv
<1>4. Pushing' = Pushing /\ Begun' = Begun
  BY <1>1 DEF Pushing, Begun, Requests, Pushed
<1>5. DataInv'
  BY <1>1, <1>3, <1>4 DEF QueueInv, DataInv
<1>6. PushedApart' /\ Listed' \cap Walked' = {}
  BY <1>1, <1>3, <1>4 DEF QueueInv, OwnerInv, PushedApart
<1>7. HandApart' /\ (cpc' = "take" => head' # Null)
  BY <1>1, <1>3, <1>4 DEF QueueInv, OwnerInv, HandApart, PollFull, EndOfBatch, Delete, Advance
<1>8. AllocatedIsOwned'
  <2>1. CASE Delete
    <3>1. allocated' = allocated \ {cur} /\ Hand = {cur} /\ Hand' = {}
      BY <2>1 DEF Delete, Hand
    <3>2. cur \notin Listed \cup Walked /\ \A p \in Pushing : mine[p] # cur
      BY <2>1 DEF Delete, QueueInv, OwnerInv, HandApart
    <3>. QED BY <1>1, <1>3, <1>4, <3>1, <3>2 DEF QueueInv, OwnerInv, AllocatedIsOwned
  <2>2. CASE PollFull \/ EndOfBatch \/ Advance
    <3>1. allocated' = allocated /\ Hand' = Hand
      BY <2>2 DEF PollFull, EndOfBatch, Advance, Hand
    <3>. QED BY <1>1, <1>3, <1>4, <3>1 DEF QueueInv, OwnerInv, AllocatedIsOwned
  <2>. QED BY <2>1, <2>2
<1>9. OwnerInv'
  BY <1>3, <1>6, <1>7, <1>8 DEF OwnerInv
<1>. QED BY <1>3, <1>5, <1>9

\* The exchange takes the whole list and leaves none.
LEMMA ConsumeStep ==
  ASSUME QueueInv, ConsumeAll
  PROVE  /\ OwnerInv' /\ DataInv'
         /\ Pending # << >> /\ Batch = << >>
         /\ Batch' = Pending /\ Pending' = << >> /\ handled' = handled
<1>1. /\ cpc = "take" /\ cpc' = "handle" /\ cur' = head /\ head' = Null /\ head # Null
      /\ data' = data /\ next' = next /\ allocated' = allocated
      /\ mine' = mine /\ sent' = sent /\ ppc' = ppc /\ handled' = handled
  BY DEF ConsumeAll, producerVars, QueueInv, OwnerInv
<1>2. Rest = Null /\ Rest' = head
  BY <1>1 DEF Rest
<1>3. Remaining = << >> /\ Chain(head)' = << >> /\ Remaining' = Chain(head)
  BY <1>1, <1>2, NullList DEF Remaining, Chain
<1>4. Walked = {} /\ Listed' = {} /\ Walked' = Listed
  BY <1>3 DEF Walked, Listed, NodesOf
<1>5. ListsEnd'
  BY <1>1, <1>2, <1>3, NullList DEF QueueInv, OwnerInv, ListsEnd
<1>6. Pushing' = Pushing /\ Begun' = Begun /\ Hand' = Hand
  BY <1>1 DEF Pushing, Begun, Requests, Pushed, Hand
<1>7. OwnerInv'
  <2>1. PushedApart'
    BY <1>1, <1>4, <1>6 DEF QueueInv, OwnerInv, PushedApart
  <2>2. AllocatedIsOwned'
    BY <1>1, <1>4, <1>6 DEF QueueInv, OwnerInv, AllocatedIsOwned
  <2>. QED BY <1>1, <1>4, <1>5, <2>1, <2>2 DEF OwnerInv, HandApart
<1>8. DataInv'
  BY <1>1, <1>4, <1>6 DEF QueueInv, DataInv
<1>9. Chain(head) # << >> /\ Chain(head) \in Seq(Nodes)
  BY <1>1, TailList DEF QueueInv, OwnerInv, ListsEnd, Proper
<1>10. Pending # << >>
  <2>. DEFINE listed == Chain(head)
  <2>1. Pending = [i \in 1..Len(listed) |-> data[listed[i]]]
    BY DEF Pending, Payload
  <2>2. Len(listed) \in Nat /\ Len(listed) # 0
    BY <1>9
  <2>. HIDE DEF listed
  <2>3. Len(Pending) = Len(listed)
    BY <2>1, <2>2
  <2>. QED BY <2>2, <2>3
<1>11. Batch = << >> /\ Pending' = << >> /\ Batch' = Pending
  BY <1>1, <1>3 DEF Batch, Pending, Payload
<1>. QED BY <1>1, <1>7, <1>8, <1>10, <1>11

\* The control thread handles the first request of the rest of its batch.
LEMMA HandleStep ==
  ASSUME QueueInv, Handle
  PROVE  /\ OwnerInv' /\ DataInv'
         /\ Batch # << >> /\ handled' = Append(handled, Head(Batch)) /\ Batch' = Tail(Batch)
         /\ Pending' = Pending
<1>1. /\ cpc = "handle" /\ cpc' = "delete" /\ cur # Null /\ cur' = cur /\ head' = head
      /\ data' = data /\ next' = next /\ allocated' = allocated
      /\ mine' = mine /\ sent' = sent /\ ppc' = ppc /\ handled' = Append(handled, data[cur])
  BY DEF Handle, producerVars
<1>. DEFINE walked == Remaining
            short == Tail(walked)
<1>2. Rest = cur /\ Rest' = next[cur]
  BY <1>1 DEF Rest
<1>3. Proper(walked, cur, next)
  BY <1>2 DEF QueueInv, OwnerInv, ListsEnd
<1>4. /\ walked # << >> /\ cur = Head(walked) /\ cur \in NodesOf(walked)
      /\ Proper(short, next[cur], next) /\ NodesOf(short) = NodesOf(walked) \ {cur}
  <2>. HIDE DEF walked
  <2>. QED BY <1>1, <1>3, TailList
<1>5. Remaining' = short
  <2>1. ListFrom(next[cur], next) = short
    <3>. HIDE DEF short
    <3>. QED BY <1>4, ListIs
  <2>. QED BY <1>1, <1>2, <2>1 DEF Remaining, Chain
<1>6. Chain(head)' = Chain(head)
  BY <1>1 DEF Chain
<1>7. Listed' = Listed /\ cur \in Walked /\ Walked' = Walked \ {cur}
  BY <1>4, <1>5, <1>6 DEF Listed, Walked
<1>8. ListsEnd'
  BY <1>1, <1>2, <1>4, <1>5, <1>6 DEF QueueInv, OwnerInv, ListsEnd
<1>9. Pushing' = Pushing /\ Begun' = Begun /\ Hand = {} /\ Hand' = {cur}
  BY <1>1 DEF Pushing, Begun, Requests, Pushed, Hand
<1>10. OwnerInv'
  <2>1. PushedApart'
    BY <1>1, <1>7, <1>9 DEF QueueInv, OwnerInv, PushedApart
  <2>2. AllocatedIsOwned'
    BY <1>1, <1>7, <1>9 DEF QueueInv, OwnerInv, AllocatedIsOwned
  <2>3. cur \in Nodes
    <3>1. NodesOf(walked) \subseteq Nodes
      BY <1>3 DEF Proper, NodesOf
    <3>. QED BY <1>4, <3>1
  <2>4. HandApart'
    BY <1>1, <1>7, <1>9, <2>3 DEF QueueInv, OwnerInv, HandApart, PushedApart
  <2>. QED BY <1>1, <1>7, <1>8, <2>1, <2>2, <2>4 DEF QueueInv, OwnerInv
<1>11. data[cur] \in Begun
  BY <1>7 DEF QueueInv, DataInv
<1>12. DataInv'
  <2>1. \A i \in 1..Len(handled') : handled'[i] \in Begun
    <3>1. handled \in Seq(Requests)
      BY DEF QueueInv, TypeOK
    <3>2. Len(handled') = Len(handled) + 1 /\ Len(handled) \in Nat
      BY <1>1, <3>1
    <3>3. \A i \in 1..Len(handled) + 1 :
            handled'[i] = IF i = Len(handled) + 1 THEN data[cur] ELSE handled[i]
      BY <1>1, <3>1
    <3>. QED BY <1>11, <3>2, <3>3 DEF QueueInv, DataInv
  <2>2. \A n \in Listed' \cup Walked' : data'[n] \in Begun
    BY <1>1, <1>7 DEF QueueInv, DataInv
  <2>3. \A p \in Pushing' : sent'[p] \in 1..MaxRequests /\ data'[mine'[p]] = <<p, sent'[p]>>
    BY <1>1, <1>9 DEF QueueInv, DataInv
  <2>. QED BY <1>9, <2>1, <2>2, <2>3 DEF DataInv
<1>13. Batch # << >> /\ data[cur] = Head(Batch) /\ Batch' = Tail(Batch)
  <2>1. Batch = [i \in 1..Len(walked) |-> data[walked[i]]]
    BY DEF Batch, Payload
  <2>2. Batch' = [i \in 1..Len(short) |-> data[short[i]]]
    BY <1>1, <1>5 DEF Batch, Payload
  <2>3. walked \in Seq(Nodes) /\ walked # << >>
    BY <1>3, <1>4 DEF Proper
  <2>. HIDE DEF walked
  <2>4. /\ Len(walked) \in Nat /\ Len(walked) >= 1 /\ Head(walked) = walked[1]
        /\ Len(short) = Len(walked) - 1 /\ \A i \in 1..Len(short) : short[i] = walked[i + 1]
    BY <2>3
  <2>. HIDE DEF short
  <2>5. /\ Batch \in Seq({data[n] : n \in Nodes}) /\ Len(Batch) = Len(walked)
        /\ \A i \in 1..Len(walked) : Batch[i] = data[walked[i]]
    BY <2>1, <2>3
  <2>6. Batch # << >> /\ Head(Batch) = data[cur]
    BY <1>4, <2>4, <2>5
  <2>. DEFINE after == Tail(Batch)
  <2>7. /\ after \in Seq({data[n] : n \in Nodes}) /\ Len(after) = Len(short)
        /\ \A i \in 1..Len(short) : after[i] = Batch[i + 1]
    BY <2>4, <2>5, <2>6
  <2>8. \A i \in 1..Len(short) : after[i] = data[short[i]]
    <3>. TAKE i \in 1..Len(short)
    <3>1. i + 1 \in 1..Len(walked)
      BY <2>4
    <3>. QED BY <2>4, <2>5, <2>7, <3>1
  <2>9. Batch' = after
    <3>. HIDE DEF after
    <3>. QED BY <2>2, <2>7, <2>8
  <2>. QED BY <2>6, <2>9
<1>14. Pending' = Pending
  BY <1>1, <1>6 DEF Pending, Payload
<1>. QED BY <1>1, <1>10, <1>12, <1>13, <1>14

\* No step loses, shares or repeats anything, as long as no chunk is reused
\* before its next has been read.
LEMMA StepQueueInv ==
  ASSUME ReuseInWindow = FALSE
  PROVE  QueueInv /\ [Next]_vars => QueueInv'
<1>. SUFFICES ASSUME QueueInv, [Next]_vars PROVE QueueInv'
  OBVIOUS
<1>1. TypeOK'
  BY StepTypeOK DEF QueueInv
<1>2. ASSUME UNCHANGED vars PROVE OwnerInv' /\ DataInv'
  <2>1. Rest' = Rest /\ Remaining' = Remaining /\ Chain(head)' = Chain(head)
    BY <1>2 DEF vars, Rest, Remaining, Chain
  <2>2. Listed' = Listed /\ Walked' = Walked /\ Pushing' = Pushing /\ Begun' = Begun /\ Hand' = Hand
    BY <1>2, <2>1 DEF vars, Listed, Walked, Pushing, Begun, Requests, Pushed, Hand
  <2>3. ListsEnd'
    BY <1>2, <2>1 DEF vars, QueueInv, OwnerInv, ListsEnd
  <2>4. DataInv'
    BY <1>2, <2>2 DEF vars, QueueInv, DataInv
  <2>5. PushedApart' /\ HandApart' /\ AllocatedIsOwned'
    BY <1>2, <2>2 DEF vars, QueueInv, OwnerInv, PushedApart, HandApart, AllocatedIsOwned
  <2>. QED BY <1>2, <2>2, <2>3, <2>4, <2>5 DEF vars, QueueInv, OwnerInv
<1>3. OwnerInv' /\ DataInv'
  BY <1>2, NewNodeStep, LinkStep, CasStep, WalkStep, ConsumeStep, HandleStep
     DEF Next, Push, Control, PollEmpty
<1>. QED BY <1>1, <1>3 DEF QueueInv

\* Pointers are to nodes or null, and the counters are within their bounds.
THEOREM QueueTypes ==
  ASSUME ReuseInWindow = FALSE
  PROVE  Spec => []TypeOK
<1>1. QueueInv => TypeOK
  BY DEF QueueInv
<1>. QED BY <1>1, InitQueueInv, StepQueueInv, PTL DEF Spec

\* A chunk of memory between new and delete is in exactly one pair of hands: on
\* the list, in the batch, the control thread's or one producer's.
THEOREM NodesAreOwned ==
  ASSUME ReuseInWindow = FALSE
  PROVE  Spec => []EveryNodeHasOneOwner
<1>1. QueueInv => EveryNodeHasOneOwner
  <2>. SUFFICES ASSUME QueueInv PROVE EveryNodeHasOneOwner
    OBVIOUS
  <2>1. {mine[p] : p \in Pushing} = {mine[p] : p \in {q \in Producers : ppc[q] # "read"}}
    BY DEF Pushing
  <2>2. Listed \cap (Walked \cup Hand) = {}
    BY DEF QueueInv, OwnerInv, HandApart, Hand
  <2>3. (Listed \cup Walked \cup Hand) \cap {mine[p] : p \in Pushing} = {}
    BY DEF QueueInv, OwnerInv, HandApart, Hand, PushedApart
  <2>4. allocated = Listed \cup (Walked \cup Hand) \cup {mine[p] : p \in Pushing}
    BY DEF QueueInv, OwnerInv, AllocatedIsOwned
  <2>. QED BY <2>1, <2>2, <2>3, <2>4 DEF EveryNodeHasOneOwner, Listed, Walked, Hand
<1>. QED BY <1>1, InitQueueInv, StepQueueInv, PTL DEF Spec

(***************************************************************************)
(* The stack of requests.  A push happens when its compare-and-swap        *)
(* succeeds; every other step of a producer, and all of the control        *)
(* thread's but the exchange and the handling, are not seen.               *)
(***************************************************************************)

\* What is on the list, in the batch or handled was begun.
LEMMA KnownIsBegun == QueueInv => Abstract!Known \subseteq Begun
<1>. SUFFICES ASSUME QueueInv PROVE Abstract!Known \subseteq Begun
  OBVIOUS
<1>1. ASSUME NEW list, list \in Seq(Nodes), NodesOf(list) \subseteq Listed \cup Walked
      PROVE  \A i \in 1..Len(Payload(list)) : Payload(list)[i] \in Begun
  <2>1. Len(list) \in Nat /\ Payload(list) = [i \in 1..Len(list) |-> data[list[i]]]
    BY <1>1 DEF Payload
  <2>2. Len(Payload(list)) = Len(list)
    BY <2>1
  <2>3. ASSUME NEW i \in 1..Len(list) PROVE data[list[i]] \in Begun
    BY <1>1 DEF NodesOf, QueueInv, DataInv
  <2>. QED BY <2>1, <2>2, <2>3
<1>2. /\ \A i \in 1..Len(Payload(Chain(head))) : Payload(Chain(head))[i] \in Begun
      /\ \A i \in 1..Len(Payload(Remaining)) : Payload(Remaining)[i] \in Begun
  BY <1>1 DEF QueueInv, OwnerInv, ListsEnd, Proper, Listed, Walked
<1>3. \A i \in 1..Len(handled) : handled[i] \in Begun
  BY DEF QueueInv, DataInv
<1>. QED BY <1>2, <1>3 DEF Abstract!Known

\* Every step is a step of the stack of requests, or none.
LEMMA StackStep ==
  ASSUME ReuseInWindow = FALSE, QueueInv, [Next]_vars
  PROVE  [Abstract!Next]_(Abstract!vars)
<1>1. ASSUME StackStays PROVE UNCHANGED Abstract!vars
  BY <1>1 DEF StackStays, Pending, Batch, Abstract!vars
<1>2. ASSUME NEW p \in Producers, CasSucceeds(p) PROVE Abstract!Next
  <2>1. PICK request \in Requests : request = <<p, sent[p]>> /\ request \notin Begun
    BY <1>2, CasStep
  <2>2. request \notin Abstract!Known
    BY <2>1, KnownIsBegun
  <2>3. Pending' = <<request>> \o Pending /\ Batch' = Batch /\ handled' = handled
    BY <1>2, <2>1, CasStep
  <2>4. Abstract!Produce(request)
    BY <2>2, <2>3 DEF Abstract!Produce, Pending, Batch
  <2>. QED BY <2>1, <2>4 DEF Abstract!Next, Abstract!Requests, Requests
<1>3. CASE ConsumeAll
  <2>1. /\ Pending # << >> /\ Batch = << >>
        /\ Batch' = Pending /\ Pending' = << >> /\ handled' = handled
    BY <1>3, ConsumeStep
  <2>. QED BY <2>1 DEF Abstract!Next, Abstract!TakeAll, Pending, Batch
<1>4. CASE Handle
  <2>1. /\ Batch # << >> /\ handled' = Append(handled, Head(Batch)) /\ Batch' = Tail(Batch)
        /\ Pending' = Pending
    BY <1>4, HandleStep
  <2>. QED BY <2>1 DEF Abstract!Next, Abstract!HandleNewest, Pending, Batch
<1>5. CASE UNCHANGED vars
  <2>1. Rest' = Rest
    BY <1>5 DEF vars, Rest
  <2>2. StackStays
    BY <1>5, <2>1 DEF vars, StackStays, Pending, Batch, Payload, Chain, Remaining
  <2>. QED BY <1>1, <2>2
<1>. QED BY <1>1, <1>2, <1>3, <1>4, <1>5, NewNodeStep, LinkStep, WalkStep
         DEF Next, Push, Control, PollEmpty

\* Under every interleaving of the threads the list of nodes behaves like the
\* stack of requests: each is taken once and handled once, newest first.
THEOREM QueueIsAStack ==
  ASSUME ReuseInWindow = FALSE
  PROVE  Spec => Abstract!Init /\ [][Abstract!Next]_(Abstract!vars)
<1>1. Init => Abstract!Init
  <2>. SUFFICES ASSUME Init PROVE Abstract!Init
    OBVIOUS
  <2>1. Rest = Null /\ head = Null /\ handled = << >>
    BY DEF Init, Rest
  <2>2. Chain(head) = << >> /\ Remaining = << >>
    BY <2>1, NullList DEF Chain, Remaining
  <2>. QED BY <2>1, <2>2 DEF Abstract!Init, Payload
<1>2. QueueInv /\ [Next]_vars => [Abstract!Next]_(Abstract!vars)
  BY StackStep
<1>. QED BY <1>1, <1>2, InitQueueInv, StepQueueInv, PTL DEF Spec

(***************************************************************************)
(* Nothing is dropped.  A request that was begun is on the list, in the    *)
(* batch or handled, and the stack forgets none; so when the list and the  *)
(* batch are empty, all are handled.                                       *)
(***************************************************************************)
BegunIsKnown == Begun \subseteq Abstract!Known

\* Requests on the list and in the batch are sequences of requests.
LEMMA PayloadType ==
  ASSUME QueueInv
  PROVE  Pending \in Seq(Begun) /\ Batch \in Seq(Begun) /\ handled \in Seq(Begun)
<1>1. ASSUME NEW list, list \in Seq(Nodes), NodesOf(list) \subseteq Listed \cup Walked
      PROVE  Payload(list) \in Seq(Begun)
  <2>1. Len(list) \in Nat /\ Payload(list) = [i \in 1..Len(list) |-> data[list[i]]]
    BY <1>1 DEF Payload
  <2>2. ASSUME NEW i \in 1..Len(list) PROVE data[list[i]] \in Begun
    BY <1>1 DEF NodesOf, QueueInv, DataInv
  <2>. QED BY <2>1, <2>2
<1>2. Pending \in Seq(Begun) /\ Batch \in Seq(Begun)
  BY <1>1 DEF QueueInv, OwnerInv, ListsEnd, Proper, Listed, Walked, Pending, Batch
<1>3. handled \in Seq(Begun)
  <2>1. handled \in Seq(Requests) /\ \A i \in 1..Len(handled) : handled[i] \in Begun
    BY DEF QueueInv, TypeOK, DataInv
  <2>. QED BY <2>1
<1>. QED BY <1>2, <1>3

Occurs(x, list) == \E i \in 1..Len(list) : list[i] = x

\* The stack forgets no request, and knows the one that is pushed.
LEMMA KnownStays ==
  ASSUME NEW S, NEW pending \in Seq(S), NEW batch \in Seq(S), NEW done \in Seq(S), NEW r \in S
  PROVE  /\ \A x : Occurs(x, pending) => Occurs(x, <<r>> \o pending)
         /\ Occurs(r, <<r>> \o pending)
         /\ batch # << >> =>
              /\ \A x : Occurs(x, batch) =>
                   Occurs(x, Tail(batch)) \/ Occurs(x, Append(done, Head(batch)))
              /\ \A x : Occurs(x, done) => Occurs(x, Append(done, Head(batch)))
<1>. DEFINE longer == <<r>> \o pending
<1>1. /\ Len(longer) = Len(pending) + 1 /\ longer[1] = r /\ Len(pending) \in Nat
      /\ \A i \in 1..Len(pending) : longer[i + 1] = pending[i]
  OBVIOUS
<1>2. ASSUME NEW i \in 1..Len(pending) PROVE \E j \in 1..Len(longer) : longer[j] = pending[i]
  <2>. HIDE DEF longer
  <2>1. i + 1 \in 1..Len(longer) /\ longer[i + 1] = pending[i]
    BY <1>1
  <2>. QED BY <2>1
<1>3. \E j \in 1..Len(longer) : longer[j] = r
  <2>. HIDE DEF longer
  <2>. QED BY <1>1
<1>4. ASSUME batch # << >>
      PROVE  /\ \A i \in 1..Len(batch) :
                  \/ \E j \in 1..Len(Tail(batch)) : Tail(batch)[j] = batch[i]
                  \/ \E j \in 1..Len(Append(done, Head(batch))) :
                       Append(done, Head(batch))[j] = batch[i]
             /\ \A i \in 1..Len(done) : \E j \in 1..Len(Append(done, Head(batch))) :
                  Append(done, Head(batch))[j] = done[i]
  <2>. DEFINE short == Tail(batch)
              more == Append(done, Head(batch))
  <2>1. /\ Len(batch) \in Nat /\ Len(batch) >= 1 /\ Len(short) = Len(batch) - 1
        /\ \A i \in 1..Len(short) : short[i] = batch[i + 1]
    BY <1>4
  <2>2. /\ Len(done) \in Nat /\ Len(more) = Len(done) + 1 /\ more[Len(done) + 1] = batch[1]
        /\ \A i \in 1..Len(done) : more[i] = done[i]
    BY <1>4
  <2>. HIDE DEF short, more
  <2>3. ASSUME NEW i \in 1..Len(batch)
        PROVE  \/ \E j \in 1..Len(short) : short[j] = batch[i]
               \/ \E j \in 1..Len(more) : more[j] = batch[i]
    <3>1. CASE i = 1
      <4>1. Len(done) + 1 \in 1..Len(more)
        BY <2>2
      <4>. QED BY <2>2, <3>1, <4>1
    <3>2. CASE i # 1
      <4>1. i - 1 \in 1..Len(short) /\ (i - 1) + 1 = i
        BY <2>1, <3>2
      <4>. QED BY <2>1, <4>1
    <3>. QED BY <3>1, <3>2
  <2>4. \A i \in 1..Len(done) : i \in 1..Len(more) /\ more[i] = done[i]
    BY <2>2
  <2>. QED BY <2>3, <2>4 DEF short, more
<1>5. \A x : Occurs(x, pending) => Occurs(x, longer)
  <2>. HIDE DEF longer
  <2>. QED BY <1>2 DEF Occurs
<1>6. Occurs(r, longer)
  <2>. HIDE DEF longer
  <2>. QED BY <1>3 DEF Occurs
<1>7. ASSUME batch # << >>
      PROVE  /\ \A x : Occurs(x, batch) =>
                  Occurs(x, Tail(batch)) \/ Occurs(x, Append(done, Head(batch)))
             /\ \A x : Occurs(x, done) => Occurs(x, Append(done, Head(batch)))
  <2>. DEFINE short == Tail(batch)
              more == Append(done, Head(batch))
  <2>1. /\ \A i \in 1..Len(batch) :
             \/ \E j \in 1..Len(short) : short[j] = batch[i]
             \/ \E j \in 1..Len(more) : more[j] = batch[i]
        /\ \A i \in 1..Len(done) : \E j \in 1..Len(more) : more[j] = done[i]
    BY <1>4, <1>7
  <2>. HIDE DEF short, more
  <2>2. /\ \A x : Occurs(x, batch) => Occurs(x, short) \/ Occurs(x, more)
        /\ \A x : Occurs(x, done) => Occurs(x, more)
    BY <2>1 DEF Occurs
  <2>. QED BY <2>2 DEF short, more
<1>. QED BY <1>5, <1>6, <1>7

\* A request begins when its compare-and-swap succeeds, and never otherwise.
LEMMA BegunStep ==
  ASSUME QueueInv, [Next]_vars
  PROVE  \/ Begun' = Begun
         \/ \E p \in Producers : CasSucceeds(p) /\ Begun' \subseteq Begun \cup {<<p, sent[p]>>}
<1>1. ASSUME ppc' = ppc, sent' = sent PROVE Begun' = Begun
  BY <1>1 DEF Begun, Requests, Pushed
<1>2. ASSUME \A q \in Producers : Pushed(q)' = Pushed(q) PROVE Begun' = Begun
  BY <1>2 DEF Begun, Requests
<1>3. ASSUME NEW p \in Producers, NewNode(p) PROVE Begun' = Begun
  <2>1. sent[p] \in Nat
    BY MaxRequestsAssumption DEF QueueInv, TypeOK
  <2>2. /\ ppc[p] = "read" /\ ppc'[p] = "load" /\ sent'[p] = sent[p] + 1
        /\ \A q \in Producers : q # p => ppc'[q] = ppc[q] /\ sent'[q] = sent[q]
    BY <1>3 DEF NewNode, QueueInv, TypeOK
  <2>3. Pushed(p)' = Pushed(p)
    BY <2>1, <2>2 DEF Pushed
  <2>4. \A q \in Producers : q # p => Pushed(q)' = Pushed(q)
    BY <2>2 DEF Pushed
  <2>. QED BY <1>2, <2>3, <2>4
<1>4. ASSUME NEW p \in Producers, LoadHead(p) \/ CasFails(p) PROVE Begun' = Begun
  <2>1. sent' = sent /\ \A q \in Producers : ppc'[q] = "read" <=> ppc[q] = "read"
    BY <1>4 DEF LoadHead, CasFails, producerVars, QueueInv, TypeOK
  <2>. QED BY <1>2, <2>1 DEF Pushed
<1>5. ASSUME NEW p \in Producers, CasSucceeds(p)
      PROVE  Begun' \subseteq Begun \cup {<<p, sent[p]>>}
  <2>1. sent[p] \in Nat
    BY MaxRequestsAssumption DEF QueueInv, TypeOK
  <2>2. /\ ppc[p] = "cas" /\ ppc'[p] = "read" /\ sent' = sent
        /\ \A q \in Producers : q # p => ppc'[q] = ppc[q]
    BY <1>5 DEF CasSucceeds, QueueInv, TypeOK
  <2>3. /\ Pushed(p)' = sent[p] /\ Pushed(p) = sent[p] - 1
        /\ \A q \in Producers : q # p => Pushed(q)' = Pushed(q)
    BY <2>2 DEF Pushed
  <2>. SUFFICES ASSUME NEW r \in Begun', r # <<p, sent[p]>> PROVE r \in Begun
    OBVIOUS
  <2>4. /\ r \in Requests /\ r = <<r[1], r[2]>> /\ r[1] \in Producers /\ r[2] \in Nat
        /\ r[2] <= Pushed(r[1])'
    BY MaxRequestsAssumption DEF Begun, Requests
  <2>5. CASE r[1] = p
    <3>1. r[2] # sent[p] /\ r[2] <= sent[p]
      BY <2>3, <2>4, <2>5
    <3>2. r[2] <= sent[p] - 1
      BY <2>1, <2>4, <3>1
    <3>. QED BY <2>3, <2>4, <2>5, <3>2 DEF Begun
  <2>6. CASE r[1] # p
    BY <2>3, <2>4, <2>6 DEF Begun
  <2>. QED BY <2>5, <2>6
<1>6. CASE Control \/ UNCHANGED vars
  BY <1>1, <1>6 DEF Control, PollEmpty, PollFull, ConsumeAll, Handle, EndOfBatch, Delete, Advance,
                    producerVars, vars
<1>. QED BY <1>3, <1>4, <1>5, <1>6 DEF Next, Push

\* No step forgets a request that was begun.
LEMMA StepBegunIsKnown ==
  ASSUME ReuseInWindow = FALSE, QueueInv, BegunIsKnown, [Next]_vars
  PROVE  BegunIsKnown'
<1>1. /\ \A r : r \in Abstract!Known <=> Occurs(r, Pending) \/ Occurs(r, Batch) \/ Occurs(r, handled)
      /\ \A r : r \in Abstract!Known' <=> Occurs(r, Pending') \/ Occurs(r, Batch') \/ Occurs(r, handled')
  BY DEF Abstract!Known, Pending, Batch, Occurs
<1>2. [Abstract!Next]_(Abstract!vars)
  BY StackStep
<1>3. Pending \in Seq(Begun) /\ Batch \in Seq(Begun) /\ handled \in Seq(Begun)
  BY PayloadType
<1>4. Abstract!Known \subseteq Abstract!Known'
  <2>1. CASE UNCHANGED Abstract!vars
    BY <2>1 DEF Abstract!vars, Abstract!Known
  <2>2. ASSUME NEW r \in Requests, Abstract!Produce(r) PROVE Abstract!Known \subseteq Abstract!Known'
    <3>1. Pending' = <<r>> \o Pending /\ Batch' = Batch /\ handled' = handled
      BY <2>2 DEF Abstract!Produce, Pending, Batch
    <3>2. Pending \in Seq(Requests) /\ Batch \in Seq(Requests) /\ handled \in Seq(Requests)
      <4>1. Begun \subseteq Requests
        BY DEF Begun
      <4>. QED BY <1>3, <4>1
    <3>3. \A x : Occurs(x, Pending) => Occurs(x, <<r>> \o Pending)
      BY <3>2, KnownStays
    <3>. QED BY <1>1, <3>1, <3>3
  <2>3. CASE Abstract!TakeAll
    <3>1. Batch = << >> /\ Batch' = Pending /\ handled' = handled
      BY <2>3 DEF Abstract!TakeAll, Pending, Batch
    <3>2. \A x : ~Occurs(x, << >>)
      BY DEF Occurs
    <3>. QED BY <1>1, <3>1, <3>2
  <2>4. CASE Abstract!HandleNewest
    <3>1. /\ Batch # << >> /\ handled' = Append(handled, Head(Batch)) /\ Batch' = Tail(Batch)
          /\ Pending' = Pending
      BY <2>4 DEF Abstract!HandleNewest, Pending, Batch
    <3>2. Head(Batch) \in Begun
      BY <1>3, <3>1
    <3>3. /\ \A x : Occurs(x, Batch) => Occurs(x, Tail(Batch)) \/ Occurs(x, Append(handled, Head(Batch)))
          /\ \A x : Occurs(x, handled) => Occurs(x, Append(handled, Head(Batch)))
      BY <1>3, <3>1, <3>2, KnownStays
    <3>. QED BY <1>1, <3>1, <3>3
  <2>. QED BY <1>2, <2>1, <2>2, <2>3, <2>4 DEF Abstract!Next, Abstract!Requests, Requests
<1>5. ASSUME NEW p \in Producers, CasSucceeds(p) PROVE <<p, sent[p]>> \in Abstract!Known'
  <2>1. PICK r \in Requests : r = <<p, sent[p]>> /\ Pending' = <<r>> \o Pending
    BY <1>5, CasStep
  <2>2. Pending \in Seq(Requests) /\ Batch \in Seq(Requests) /\ handled \in Seq(Requests)
    <3>1. Begun \subseteq Requests
      BY DEF Begun
    <3>. QED BY <1>3, <3>1
  <2>3. Occurs(r, <<r>> \o Pending)
    BY <2>2, KnownStays
  <2>. QED BY <1>1, <2>1, <2>3
<1>. QED BY <1>4, <1>5, BegunStep DEF BegunIsKnown

\* An empty list, and no push or batch under way, means that every request was
\* handled: what the reuse of a chunk before its next is read breaks, and only
\* that.
THEOREM NothingIsDroppedWithoutReuse ==
  ASSUME ReuseInWindow = FALSE
  PROVE  Spec => []NothingIsDropped
<1>1. Init => BegunIsKnown
  <2>. SUFFICES ASSUME Init, NEW r \in Begun PROVE FALSE
    BY DEF BegunIsKnown
  <2>1. r[1] \in Producers /\ r[2] \in 1..MaxRequests /\ r[2] <= Pushed(r[1])
    BY DEF Begun, Requests
  <2>2. Pushed(r[1]) = 0
    BY <2>1 DEF Init, Pushed
  <2>. QED BY <2>1, <2>2, MaxRequestsAssumption
<1>2. QueueInv /\ BegunIsKnown => NothingIsDropped
  <2>. SUFFICES ASSUME QueueInv, BegunIsKnown, cpc = "poll", head = Null,
                       \A p \in Producers : ppc[p] = "read",
                       NEW p \in Producers, NEW i \in 1..sent[p]
                PROVE  WasHandled(<<p, i>>)
    BY DEF NothingIsDropped
  <2>1. <<p, i>> \in Begun
    <3>1. sent[p] \in 0..MaxRequests /\ i \in 1..MaxRequests /\ i <= sent[p]
      BY MaxRequestsAssumption DEF QueueInv, TypeOK
    <3>2. <<p, i>> \in Requests /\ <<p, i>>[1] = p /\ <<p, i>>[2] = i
      BY <3>1 DEF Requests
    <3>. QED BY <3>1, <3>2 DEF Begun, Pushed
  <2>2. Chain(head) = << >> /\ Remaining = << >>
    BY NullList DEF Chain, Remaining, Rest
  <2>3. Len(Payload(Chain(head))) = 0 /\ Len(Payload(Remaining)) = 0
    BY <2>2 DEF Payload
  <2>4. \A r \in Abstract!Known : WasHandled(r)
    BY <2>3 DEF Abstract!Known, WasHandled
  <2>. QED BY <2>1, <2>4 DEF BegunIsKnown
<1>3. QueueInv /\ BegunIsKnown /\ [Next]_vars => BegunIsKnown'
  BY StepBegunIsKnown
<1>. QED BY <1>1, <1>2, <1>3, InitQueueInv, StepQueueInv, PTL DEF Spec
===============================================================================
