------------------------------- MODULE MCGroups -------------------------------
(***************************************************************************)
(* Instances of Groups for TLC.                                            *)
(***************************************************************************)
EXTENDS Groups, TLC

CONSTANTS alice, bob, club, team

TwoUsers == {alice, bob}
OneName == {club}
TwoNames == {club, team}

\* A group of both, and one that leaves out one of those who may ask.
SomeRosters == {{alice, bob}, {bob}}

\* An id of no chat, or that of the first.
AnyId == 0..1
===============================================================================
