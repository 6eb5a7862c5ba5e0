--------------------------- MODULE MCLocklessQueue ---------------------------
(***************************************************************************)
(* Instances of LocklessQueue for TLC.                                     *)
(***************************************************************************)
EXTENDS LocklessQueue, TLC

CONSTANTS p1, p2, n1, n2, n3

TwoConnections == {p1, p2}
ThreeNodes == {n1, n2, n3}
===============================================================================
