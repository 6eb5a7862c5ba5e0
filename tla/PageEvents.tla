------------------------------ MODULE PageEvents ------------------------------
(***************************************************************************)
(* What the widgets of materialize.js share on one page of the web client: *)
(* the style of the body, which decides whether the page scrolls, and the  *)
(* visitor, who does MaxEvents things at most.  Between two of them any    *)
(* number of timers and animations may end, or none: each handler runs to  *)
(* its end before the next one starts.                                     *)
(***************************************************************************)
EXTENDS Integers, FiniteSets, SequencesExt

CONSTANT MaxEvents  \* bound: what the visitor does

ASSUME EventsAssumption == MaxEvents \in Nat

VARIABLES
  scrolling,  \* whether the body has no overflow: hidden
  events      \* what the visitor has done so far

pageVars == <<scrolling, events>>

PageInit == scrolling = TRUE /\ events = 0

\* The visitor, or a script of the page, does one thing more.
Event == events < MaxEvents /\ events' = events + 1

\* The members of a set of numbers, the smallest first.
InOrder(numbers) ==
  [i \in 1..Cardinality(numbers) |->
     CHOOSE n \in numbers : Cardinality({k \in numbers : k <= n}) = i]

PageTypeOK == scrolling \in BOOLEAN /\ events \in 0..MaxEvents
===============================================================================
