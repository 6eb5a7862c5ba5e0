----------------------------- MODULE MCReadThread -----------------------------
(***************************************************************************)
(* An instance of ReadThread for TLC.                                      *)
(***************************************************************************)
EXTENDS ReadThread

\* Plain text, a hash and a backslash inside the text, and one that ends in a
\* backslash.
SomeWords == {<<"text", "text">>, <<"#", "text">>, <<"\\", "#">>, <<"text", "\\">>}
===============================================================================
