------------------------------ MODULE MCSessions ------------------------------
(***************************************************************************)
(* Instances of Sessions for TLC.                                          *)
(***************************************************************************)
EXTENDS Sessions

TwoUsers == {1, 2}
FirstIsPatient == {1}
===============================================================================
