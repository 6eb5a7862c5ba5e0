------------------------------ MODULE MCWidgets ------------------------------
(***************************************************************************)
(* The constants of Widgets for TLC: three texts of which one completes    *)
(* another two, two options in optgroups, two short months, a week of      *)
(* three days.                                                             *)
(***************************************************************************)
EXTENDS Widgets

MCTexts == {"", "a", "ab"}

MCCompletions == [t \in MCTexts |-> IF t = "a" THEN <<"ab">> ELSE << >>]

MCOptgroup == <<0, 1, 2>>

MCMonthFirsts == <<0, 3, 5>>
=============================================================================
