--------------------------------- MODULE Hints ---------------------------------
(***************************************************************************)
(* The tooltip ($.fn.tooltip) and the toasts (Materialize.toast) of        *)
(* materialize.js: what comes up and must go away again.  A tooltip is     *)
(* shown by one timer and sent back by another, which looks whether it was *)
(* shown again meanwhile; a toast counts its time down unless a touch      *)
(* holds it, and is taken out by the end of an animation.                  *)
(***************************************************************************)
EXTENDS PageEvents, FiniteSets

CONSTANTS
  Toasts,
  MaxTicks   \* bound: displayLength, in ticks of the counter

ASSUME TicksAssumption == MaxTicks \in Nat \ {0}

VARIABLES
  over,      \* whether the pointer is over the tooltip's origin
  waiting,   \* whether the timer that shows the tooltip runs (timeoutRef)
  started,   \* started
  tip,       \* "hidden", "shown", or "fading"
  leavers,   \* the timers of mouseleave
  toast      \* each toast: where it is, its time and whether it has the class panning

tipVars == <<over, waiting, started, tip, leavers>>
hintVars == <<tipVars, toast>>

Unused == [place |-> "none", timeLeft |-> MaxTicks, counting |-> FALSE, panning |-> FALSE,
           touched |-> FALSE, exits |-> 0]

HintInit ==
  /\ over = FALSE /\ waiting = FALSE /\ started = FALSE
  /\ tip = "hidden" /\ leavers = 0
  /\ toast = [t \in Toasts |-> Unused]

\* mouseenter
EnterTip ==
  /\ Event
  /\ ~over
  /\ over' = TRUE /\ waiting' = TRUE
  /\ UNCHANGED <<scrolling, started, tip, leavers, toast>>

\* showTooltip
ShowTooltip ==
  /\ waiting
  /\ waiting' = FALSE
  /\ started' = TRUE
  /\ tip' = "shown"
  /\ UNCHANGED <<pageVars, over, leavers, toast>>

\* mouseleave
LeaveStarted ==
  /\ Event
  /\ over
  /\ over' = FALSE /\ waiting' = FALSE
  /\ started' = started
  /\ leavers' = leavers + 1
  /\ UNCHANGED <<scrolling, tip, toast>>

LeaveTip ==
  /\ Event
  /\ over
  /\ over' = FALSE /\ waiting' = FALSE
  /\ started' = FALSE
  /\ leavers' = leavers + 1
  /\ UNCHANGED <<scrolling, tip, toast>>

AnimateBack ==
  /\ leavers > 0
  /\ leavers' = leavers - 1
  /\ tip' = IF started THEN tip ELSE "fading"
  /\ UNCHANGED <<pageVars, over, waiting, started, toast>>

TipHidden ==
  /\ tip = "fading"
  /\ tip' = "hidden"
  /\ started' = FALSE
  /\ UNCHANGED <<pageVars, over, waiting, leavers, toast>>

\* Materialize.toast
ShowToast(t) ==
  /\ Event
  /\ toast[t].place = "none"
  /\ toast' = [toast EXCEPT ![t].place = "shown", ![t].counting = TRUE]
  /\ UNCHANGED <<scrolling, tipVars>>

\* The counter stops once the time is over, or its toast has been taken out: a toast
\* that is flung away stays panning, and its time stands still.
Count(t) ==
  /\ toast[t].counting
  /\ LET left == IF toast[t].panning THEN toast[t].timeLeft ELSE toast[t].timeLeft - 1
     IN  toast' = [toast EXCEPT ![t].timeLeft = left,
                                ![t].counting = @ /\ toast[t].place = "shown" /\ left > 0,
                                ![t].exits = IF left <= 0 THEN @ + 1 ELSE @]
  /\ UNCHANGED <<pageVars, tipVars>>

\* pan
PanToast(t) ==
  /\ Event
  /\ toast[t].place = "shown"
  /\ toast' = [toast EXCEPT ![t].panning = TRUE, ![t].touched = TRUE]
  /\ UNCHANGED <<scrolling, tipVars>>

\* panend: dragged far enough, or put back.
KeepPanning(t) ==
  /\ toast[t].touched
  /\ \/ toast' = [toast EXCEPT ![t].touched = FALSE, ![t].exits = @ + 1]
     \/ toast' = [toast EXCEPT ![t].touched = FALSE]
  /\ UNCHANGED <<pageVars, tipVars>>

PanToastEnd(t) ==
  /\ toast[t].touched
  /\ \/ toast' = [toast EXCEPT ![t].touched = FALSE, ![t].exits = @ + 1]
     \/ toast' = [toast EXCEPT ![t].touched = FALSE, ![t].panning = FALSE]
  /\ UNCHANGED <<pageVars, tipVars>>

\* complete of an animation out: the first takes the toast out, another fails.
ToastOut(t) ==
  /\ toast[t].exits > 0
  /\ toast' = [toast EXCEPT ![t].exits = @ - 1, ![t].place = "gone"]
  /\ UNCHANGED <<pageVars, tipVars>>

HintVisitor ==
  \/ EnterTip \/ LeaveTip
  \/ \E t \in Toasts : ShowToast(t) \/ PanToast(t)

HintTimers ==
  \/ ShowTooltip \/ AnimateBack \/ TipHidden
  \/ \E t \in Toasts : Count(t) \/ PanToastEnd(t) \/ ToastOut(t)

-------------------------------------------------------------------------------

HintTypeOK ==
  /\ over \in BOOLEAN /\ waiting \in BOOLEAN /\ started \in BOOLEAN
  /\ tip \in {"hidden", "shown", "fading"}
  /\ leavers \in 0..MaxEvents
  /\ toast \in [Toasts -> [place : {"none", "shown", "gone"}, timeLeft : 0..MaxTicks,
                           counting : BOOLEAN, panning : BOOLEAN, touched : BOOLEAN,
                           exits : 0..MaxEvents]]

\* No tooltip stays when the pointer is gone, however the timers of several visits
\* interleave: it is on its way out, or a timer that will see to that still runs.
TipIsTakenBack == tip = "shown" /\ ~over => leavers > 0
===============================================================================
