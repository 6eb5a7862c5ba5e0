------------------------------- MODULE Dropdown -------------------------------
(***************************************************************************)
(* A dropdown menu of materialize.js ($.fn.dropdown), opened by clicks, or *)
(* by hovering, and by the events open and close, which the select of a    *)
(* form triggers.  A click on the document closes it, by a handler that a  *)
(* timer binds once the click that opened the menu is over.  If the menu   *)
(* is closed before that timer ends the handler is left bound, and closes  *)
(* the next opening within the click that opens it.                        *)
(***************************************************************************)
EXTENDS PageEvents

VARIABLES
  hovered,     \* the option hover
  isFocused,   \* isFocused
  hoverOpen,   \* open
  menuActive,  \* the class active, of the menu and of its origin
  menuShown,   \* "hidden", "shown", or "fading"
  binders,     \* the timers that will bind a handler to the document
  closers      \* the handlers bound to it

dropdownVars == <<hovered, isFocused, hoverOpen, menuActive, menuShown, binders, closers>>

DropdownInit ==
  /\ hovered \in BOOLEAN
  /\ isFocused = FALSE /\ hoverOpen = FALSE
  /\ menuActive = FALSE /\ menuShown = "hidden"
  /\ binders = 0 /\ closers = 0

\* placeDropdown: an animation under way is ended first.
PlaceDropdown(byFocus) ==
  /\ isFocused' = (isFocused \/ byFocus)
  /\ menuActive' = TRUE
  /\ menuShown' = "shown"
  /\ binders' = binders + 1
  /\ UNCHANGED closers

Fade == IF menuShown = "shown" THEN "fading" ELSE menuShown

\* hideDropdown
HideKeepsFocus ==
  /\ isFocused' = isFocused
  /\ menuActive' = FALSE
  /\ menuShown' = Fade
  /\ closers' = 0
  /\ UNCHANGED binders

HideDropdown ==
  /\ isFocused' = FALSE
  /\ menuActive' = FALSE
  /\ menuShown' = Fade
  /\ closers' = 0
  /\ UNCHANGED binders

\* A click on the origin.  It reaches the document next, where a handler that was
\* bound before it hides the menu again.
PlacedAndHidden ==
  /\ isFocused' = FALSE
  /\ menuActive' = FALSE
  /\ menuShown' = "fading"
  /\ binders' = binders + 1
  /\ closers' = 0

ClickOrigin ==
  /\ Event
  /\ ~hovered /\ ~isFocused
  /\ \/ ~menuActive /\ closers = 0 /\ PlaceDropdown(FALSE)
     \/ ~menuActive /\ closers > 0 /\ PlacedAndHidden
     \/ menuActive /\ HideDropdown
  /\ UNCHANGED <<scrolling, hovered, hoverOpen>>

\* A click anywhere else, and one on the origin that does nothing itself.
ClickDocument ==
  /\ Event
  /\ closers > 0
  /\ HideDropdown
  /\ UNCHANGED <<scrolling, hovered, hoverOpen>>

EnterOrigin ==
  /\ Event
  /\ hovered /\ ~hoverOpen
  /\ PlaceDropdown(FALSE)
  /\ hoverOpen' = TRUE
  /\ UNCHANGED <<scrolling, hovered>>

\* Leaving the origin or the menu for something else.
LeaveDropdown ==
  /\ Event
  /\ hovered
  /\ HideDropdown
  /\ hoverOpen' = FALSE
  /\ UNCHANGED <<scrolling, hovered>>

\* The events open, with or without focus, and close.
OpenDropdown ==
  /\ Event
  /\ \E byFocus \in BOOLEAN : PlaceDropdown(byFocus)
  /\ UNCHANGED <<scrolling, hovered, hoverOpen>>

CloseDropdown ==
  /\ Event
  /\ HideDropdown
  /\ UNCHANGED <<scrolling, hovered, hoverOpen>>

BindDocument ==
  /\ binders > 0
  /\ binders' = binders - 1
  /\ closers' = closers + 1
  /\ UNCHANGED <<pageVars, hovered, isFocused, hoverOpen, menuActive, menuShown>>

FadedOut ==
  /\ menuShown = "fading"
  /\ menuShown' = "hidden"
  /\ UNCHANGED <<pageVars, hovered, isFocused, hoverOpen, menuActive, binders, closers>>

DropdownVisitor ==
  ClickOrigin \/ ClickDocument \/ EnterOrigin \/ LeaveDropdown \/ OpenDropdown \/ CloseDropdown

DropdownTimers == BindDocument \/ FadedOut

-------------------------------------------------------------------------------

DropdownTypeOK ==
  /\ hovered \in BOOLEAN /\ isFocused \in BOOLEAN /\ hoverOpen \in BOOLEAN
  /\ menuActive \in BOOLEAN
  /\ menuShown \in {"hidden", "shown", "fading"}
  /\ binders \in 0..MaxEvents /\ closers \in 0..MaxEvents

\* A menu is shown exactly while it is active, and then a click on the document
\* closes it, or will once the timer has ended.
DropdownCanBeClosed ==
  /\ menuShown = "shown" <=> menuActive
  /\ menuActive => binders + closers > 0
  /\ isFocused => menuActive
===============================================================================
