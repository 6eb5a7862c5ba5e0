------------------------------ MODULE Materialbox ------------------------------
(***************************************************************************)
(* The enlarged image of materialize.js ($.fn.materialbox): a click brings *)
(* it before the page, on an overlay, and many events take it back.  Two   *)
(* flags say where it is, both set by the ends of animations, which every  *)
(* return stops and starts anew.                                           *)
(***************************************************************************)
EXTENDS PageEvents

VARIABLES
  doneAnimating,    \* doneAnimating
  overlayActive,    \* overlayActive
  active,           \* whether the image has the class active
  boxOverlay,       \* whether #materialbox-overlay is in the document
  animation,        \* what runs: "none", "in" or "out"
  ancestorsChanged  \* whether the body's overflow was made visible

boxVars == <<doneAnimating, overlayActive, active, boxOverlay, animation, ancestorsChanged>>

BoxInit ==
  /\ doneAnimating = TRUE /\ overlayActive = FALSE
  /\ active = FALSE /\ boxOverlay = FALSE
  /\ animation = "none" /\ ancestorsChanged = FALSE

\* returnToOriginal: the animations are stopped, which calls no complete.
ReturnToOriginal ==
  /\ doneAnimating' = FALSE
  /\ animation' = "out"
  /\ UNCHANGED <<overlayActive, active, boxOverlay, ancestorsChanged>>

\* A click on the image.
ClickImage ==
  /\ Event
  /\ \/ (~doneAnimating \/ overlayActive) /\ ReturnToOriginal /\ UNCHANGED scrolling
     \/ /\ doneAnimating /\ ~overlayActive
        /\ doneAnimating' = FALSE /\ overlayActive' = TRUE
        /\ active' = TRUE /\ boxOverlay' = TRUE
        /\ animation' = "in"
        /\ ancestorsChanged' = ~scrolling
        /\ scrolling' = TRUE

\* A click on its overlay, the scrolling of the window, and escape.
ClickBoxOverlay ==
  Event /\ boxOverlay /\ doneAnimating /\ ReturnToOriginal /\ UNCHANGED scrolling

ScrollPage == Event /\ overlayActive /\ ReturnToOriginal /\ UNCHANGED scrolling

BoxEscape == doneAnimating /\ overlayActive /\ ReturnToOriginal

\* complete of the way in.
Enlarged ==
  /\ animation = "in"
  /\ animation' = "none" /\ doneAnimating' = TRUE
  /\ UNCHANGED <<scrolling, events, overlayActive, active, boxOverlay, ancestorsChanged>>

\* complete of the way back, of the overlay and then of the image: both take the
\* same time.
Returned ==
  /\ animation = "out"
  /\ animation' = "none" /\ doneAnimating' = TRUE
  /\ overlayActive' = FALSE /\ boxOverlay' = FALSE
  /\ active' = FALSE
  /\ scrolling' = (scrolling \/ ancestorsChanged)
  /\ UNCHANGED <<events, ancestorsChanged>>

BoxVisitor == ClickImage \/ ClickBoxOverlay \/ ScrollPage

BoxAnimation == Enlarged \/ Returned

-------------------------------------------------------------------------------

BoxTypeOK ==
  /\ doneAnimating \in BOOLEAN /\ overlayActive \in BOOLEAN
  /\ active \in BOOLEAN /\ boxOverlay \in BOOLEAN /\ ancestorsChanged \in BOOLEAN
  /\ animation \in {"none", "in", "out"}

\* When nothing moves the two flags, the class of the image and the overlay agree: the
\* image lies on its overlay, or there is none and a click enlarges it again.
BoxAgrees ==
  animation = "none" =>
    doneAnimating /\ (overlayActive <=> active) /\ (boxOverlay <=> active)
===============================================================================
