---------------------------- MODULE LocklessQueue ----------------------------
(***************************************************************************)
(* lockless_queue.cpp and the loop of control_thread that empties it:      *)
(* every connection's read_thread pushes nodes with compare-and-swap, the  *)
(* one control thread takes the whole list with an exchange, walks it and  *)
(* deletes the nodes.  Steps are single accesses to shared memory.         *)
(*                                                                         *)
(* A node is a chunk of memory.  control_thread reads head->next after     *)
(* "delete head": what it finds is what the chunk holds at that moment.    *)
(* Nothing overwrites it unless the allocator has handed the chunk to a    *)
(* producer in between, which ReuseInWindow permits or excludes.           *)
(***************************************************************************)
EXTENDS Naturals, Sequences, FiniteSets

CONSTANTS
  Producers,      \* connections, one read_thread each
  MaxRequests,    \* bound: requests per connection
  Nodes,          \* chunks of memory
  Null,
  ReuseInWindow   \* a chunk may be reused before its next has been read

ASSUME NullAssumption == Null \notin Nodes
ASSUME NodesAssumption == IsFiniteSet(Nodes)
ASSUME MaxRequestsAssumption == MaxRequests \in Nat
ASSUME ReuseInWindowAssumption == ReuseInWindow \in BOOLEAN

VARIABLES
  head,        \* head_
  data, next,  \* the fields of the nodes
  allocated,   \* nodes between new and delete
  ppc, mine,   \* per producer: its next step, and the node it pushes
  sent,        \* per producer: requests begun
  cpc, cur,    \* the control thread's next step, and its local head
  handled      \* the requests in the order they were handled

producerVars == <<ppc, mine, sent>>
consumerVars == <<cpc, cur, handled>>
vars == <<head, data, next, allocated, ppc, mine, sent, cpc, cur, handled>>

Requests == Producers \X (1..MaxRequests)

-------------------------------------------------------------------------------
(* lockless_queue::produce, run by read_thread *)

Reusable(n) == n \notin allocated /\ (cpc = "advance" /\ n = cur => ReuseInWindow)

NewNode(p) ==
  /\ ppc[p] = "read"
  /\ sent[p] < MaxRequests
  /\ \E n \in Nodes :
       /\ Reusable(n)
       /\ allocated' = allocated \cup {n}
       /\ data' = [data EXCEPT ![n] = <<p, sent[p] + 1>>]
       /\ next' = [next EXCEPT ![n] = Null]
       /\ mine' = [mine EXCEPT ![p] = n]
  /\ sent' = [sent EXCEPT ![p] = @ + 1]
  /\ ppc' = [ppc EXCEPT ![p] = "load"]
  /\ UNCHANGED <<head, consumerVars>>

LoadHead(p) ==
  /\ ppc[p] = "load"
  /\ next' = [next EXCEPT ![mine[p]] = head]
  /\ ppc' = [ppc EXCEPT ![p] = "cas"]
  /\ UNCHANGED <<head, data, allocated, mine, sent, consumerVars>>

StoreHead(p) ==
  /\ ppc[p] = "cas"
  /\ head' = mine[p]
  /\ ppc' = [ppc EXCEPT ![p] = "read"]
  /\ UNCHANGED <<data, next, allocated, mine, sent, consumerVars>>

CasSucceeds(p) ==
  /\ ppc[p] = "cas"
  /\ head = next[mine[p]]
  /\ head' = mine[p]
  /\ ppc' = [ppc EXCEPT ![p] = "read"]
  /\ UNCHANGED <<data, next, allocated, mine, sent, consumerVars>>

\* The weak form may also fail when the two are equal, which changes nothing.
CasFails(p) ==
  /\ ppc[p] = "cas"
  /\ head # next[mine[p]]
  /\ next' = [next EXCEPT ![mine[p]] = head]
  /\ UNCHANGED <<head, data, allocated, producerVars, consumerVars>>

-------------------------------------------------------------------------------
(* control_thread *)

PollEmpty == cpc = "poll" /\ head = Null /\ UNCHANGED vars

PollFull ==
  /\ cpc = "poll"
  /\ head # Null
  /\ cpc' = "take"
  /\ UNCHANGED <<head, data, next, allocated, producerVars, cur, handled>>

\* consume_all as a load and a store
LoadThenReset ==
  \/ /\ cpc = "take"
     /\ cur' = head
     /\ cpc' = "reset"
     /\ UNCHANGED <<head, data, next, allocated, producerVars, handled>>
  \/ /\ cpc = "reset"
     /\ head' = Null
     /\ cpc' = "handle"
     /\ UNCHANGED <<data, next, allocated, producerVars, cur, handled>>

ConsumeAll ==
  /\ cpc = "take"
  /\ cur' = head
  /\ head' = Null
  /\ cpc' = "handle"
  /\ UNCHANGED <<data, next, allocated, producerVars, handled>>

Handle ==
  /\ cpc = "handle"
  /\ cur # Null
  /\ handled' = Append(handled, data[cur])
  /\ cpc' = "delete"
  /\ UNCHANGED <<head, data, next, allocated, producerVars, cur>>

EndOfBatch ==
  /\ cpc = "handle"
  /\ cur = Null
  /\ cpc' = "poll"
  /\ UNCHANGED <<head, data, next, allocated, producerVars, cur, handled>>

ForgetToDelete ==
  /\ cpc = "delete"
  /\ cpc' = "advance"
  /\ UNCHANGED <<head, data, next, allocated, producerVars, cur, handled>>

Delete ==
  /\ cpc = "delete"
  /\ allocated' = allocated \ {cur}
  /\ cpc' = "advance"
  /\ UNCHANGED <<head, data, next, producerVars, cur, handled>>

Advance ==
  /\ cpc = "advance"
  /\ cur' = next[cur]
  /\ cpc' = "handle"
  /\ UNCHANGED <<head, data, next, allocated, producerVars, handled>>

-------------------------------------------------------------------------------

Init ==
  /\ head = Null
  /\ data = [n \in Nodes |-> Null]
  /\ next = [n \in Nodes |-> Null]
  /\ allocated = {}
  /\ ppc = [p \in Producers |-> "read"]
  /\ mine = [p \in Producers |-> Null]
  /\ sent = [p \in Producers |-> 0]
  /\ cpc = "poll"
  /\ cur = Null
  /\ handled = << >>

Push(p) == NewNode(p) \/ LoadHead(p) \/ CasSucceeds(p) \/ CasFails(p)

Control ==
  PollEmpty \/ PollFull \/ ConsumeAll \/ Handle \/ EndOfBatch \/ Delete \/ Advance

Next == (\E p \in Producers : Push(p)) \/ Control

\* Both kinds of thread are scheduled by the operating system.  A producer
\* that retries its compare-and-swap forever succeeds at last: the others
\* cannot always be first.
Fairness ==
  /\ WF_vars(Control)
  /\ \A p \in Producers : /\ WF_vars(LoadHead(p) \/ CasFails(p))
                          /\ SF_vars(CasSucceeds(p))

Spec == Init /\ [][Next]_vars /\ Fairness

-------------------------------------------------------------------------------
(* Properties *)

\* Pointers are to nodes or null, and the counters are within their bounds.
TypeOK ==
  /\ head \in Nodes \cup {Null}
  /\ data \in [Nodes -> Requests \cup {Null}]
  /\ next \in [Nodes -> Nodes \cup {Null}]
  /\ allocated \subseteq Nodes
  /\ ppc \in [Producers -> {"read", "load", "cas"}]
  /\ mine \in [Producers -> Nodes \cup {Null}]
  /\ sent \in [Producers -> 0..MaxRequests]
  /\ cpc \in {"poll", "take", "handle", "delete", "advance"}
  /\ cur \in Nodes \cup {Null}
  /\ handled \in Seq(Requests)

\* Sequences of nodes, none longer than the memory.
Lists == UNION {[1..k -> Nodes] : k \in 0..Cardinality(Nodes)}

\* What one meets who starts at n and follows the links until there is none.
IsList(list, n, links) ==
  /\ n = IF list = << >> THEN Null ELSE list[1]
  /\ \A i \in 1..Len(list) :
       links[list[i]] = IF i = Len(list) THEN Null ELSE list[i + 1]

ListFrom(n, links) ==
  IF \E list \in Lists : IsList(list, n, links)
    THEN CHOOSE list \in Lists : IsList(list, n, links)
    ELSE << >>

\* The nodes from n on.
Chain(n) == ListFrom(n, next)

Payload(chain) == [i \in 1..Len(chain) |-> data[chain[i]]]

\* The rest of the batch the control thread is walking, and where it begins.
Rest ==
  IF cpc = "handle" THEN cur
  ELSE IF cpc \in {"delete", "advance"} THEN next[cur]
  ELSE Null

Remaining == Chain(Rest)

NodesOf(chain) == {chain[i] : i \in 1..Len(chain)}

\* Memory is neither lost nor used twice: a live chunk is on the list, in the
\* batch, under the control thread's hand, or with the one producer that is
\* about to push it.
EveryNodeHasOneOwner ==
  LET listed == NodesOf(Chain(head))
      walked == NodesOf(Remaining) \cup (IF cpc = "delete" THEN {cur} ELSE {})
      pushed == {mine[p] : p \in {q \in Producers : ppc[q] # "read"}}
  IN  /\ allocated = listed \cup walked \cup pushed
      /\ listed \cap walked = {} /\ (listed \cup walked) \cap pushed = {}

Abstract == INSTANCE RequestStack WITH
  pending <- Payload(Chain(head)), batch <- Payload(Remaining)

\* Exactly once, newest first, and always at last: the list of nodes behaves
\* like a stack of requests, under every interleaving of the threads.
ImplementsRequestStack == Abstract!Spec

WasHandled(request) == \E i \in 1..Len(handled) : handled[i] = request

\* A request a connection has begun to push is handled at last, though others
\* push all the time and its own compare-and-swap fails again and again.
EveryRequestIsHandled ==
  \A p \in Producers : \A i \in 1..MaxRequests :
    (sent[p] = i) ~> WasHandled(<<p, i>>)

\* When the control thread finds the queue empty and no push is under way, it
\* has handled every request: it "replies to the requests from users".
NothingIsDropped ==
  (cpc = "poll" /\ head = Null /\ \A p \in Producers : ppc[p] = "read") =>
    \A p \in Producers : \A i \in 1..sent[p] : WasHandled(<<p, i>>)
===============================================================================
