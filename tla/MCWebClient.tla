------------------------------ MODULE MCWebClient ------------------------------
(***************************************************************************)
(* An instance of WebClient for TLC.                                       *)
(***************************************************************************)
EXTENDS WebClient

\* A letter, a new line and an arrow key.
SomeKeys == {"k", "LF", "up"}

\* Two letters, one of which write always prints.
SomePrinted == {"x", "a"}

SomeControls == {"LF", "CR", "HT", "BS", "CAN", "ESC", "CSI"}

SomeInSequence == {"[", "?", ";", "1", "2", "A", "B", "C", "D", "H", "J", "K"}
===============================================================================
