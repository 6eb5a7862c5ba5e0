---------------------------- MODULE MCSocialGraph ----------------------------
(***************************************************************************)
(* Instances of SocialGraph for TLC.                                       *)
(***************************************************************************)
EXTENDS SocialGraph, TLC

CONSTANTS alice, bob, carol

\* Three users in a row: two pairs that share a user.
ThreeUsers == {alice, bob, carol}
Chain == {<<alice, bob>>, <<bob, alice>>, <<bob, carol>>, <<carol, bob>>}

\* A user may also name herself: nothing in the handlers forbids it.
TwoUsers == {alice, bob}
EachOther == {<<alice, bob>>, <<bob, alice>>}
EachOtherAndSelf == EachOther \cup {<<alice, alice>>}
===============================================================================
