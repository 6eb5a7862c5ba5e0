------------------------------ MODULE Friendship ------------------------------
(***************************************************************************)
(* What the friends table promises: between any two distinct users there   *)
(* is one relation, seen from both sides, and every request that changes   *)
(* it changes both sides at once.  The handlers of server.cpp, which write *)
(* the two directions with separate SQL statements, are shown to implement *)
(* this in SocialGraph.tla.                                                *)
(***************************************************************************)

CONSTANT Users

VARIABLE rel    \* rel[u][v] is what u is told about v

Views == {"none", "asking", "asked", "friends", "blocking", "blocked"}

\* The same relation seen from the other side.
Mirror(view) ==
  CASE view = "asking"   -> "asked"
    [] view = "asked"    -> "asking"
    [] view = "blocking" -> "blocked"
    [] view = "blocked"  -> "blocking"
    [] OTHER             -> view

Relations == [Users -> [Users -> Views]]

Init == rel = [u \in Users |-> [v \in Users |-> "none"]]

Become(u, v, view) ==
  /\ u # v
  /\ rel' = [rel EXCEPT ![u][v] = view, ![v][u] = Mirror(view)]

\* A request replaces any relation except a block by the other side: it also
\* ends a friendship, and a block by the one who asks.
Ask(u, v) == rel[u][v] # "blocked" /\ Become(u, v, "asking")

Accept(u, v) == rel[u][v] = "asked" /\ Become(u, v, "friends")

Block(u, v) == rel[u][v] # "blocked" /\ Become(u, v, "blocking")

Unblock(u, v) == rel[u][v] = "blocking" /\ Become(u, v, "none")

\* A refusal needs no pending request: it clears whatever relation there is.
Reject(u, v) == Become(u, v, "none")

Next ==
  \E u, v \in Users :
    \/ Ask(u, v)
    \/ Accept(u, v)
    \/ Block(u, v)
    \/ Unblock(u, v)
    \/ Reject(u, v)

Spec == Init /\ [][Next]_rel
===============================================================================
