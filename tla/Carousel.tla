------------------------------- MODULE Carousel -------------------------------
(***************************************************************************)
(* The carousel of materialize.js ($.fn.carousel).  Its items lie Dim      *)
(* apart on a line that wraps around, and what it shows is an offset on    *)
(* that line.  A request is turned into a way from the item in the centre  *)
(* and a target relative to the nearest item, which frames then approach;  *)
(* one for the item in the centre changes nothing, whatever the target is. *)
(* Dim does not change here: an item as wide as before, at every resizing. *)
(***************************************************************************)
EXTENDS PageEvents

CONSTANTS
  ItemCount,
  Dim,       \* the distance of two items, in pixels
  Padding,   \* the part of it that is the option padding, where there is one
  NoWrap     \* the option noWrap

ASSUME CarouselAssumption ==
  ItemCount \in Nat \ {0} /\ Dim \in Nat \ {0} /\ Padding \in 0..Dim /\ NoWrap \in BOOLEAN

Items == 0..(ItemCount - 1)

VARIABLES
  layout,     \* without fullWidth, with it, or with it and a padding
  offset,     \* offset
  center,     \* center
  target,     \* target
  lag,        \* how far behind the target the last frame was, 0 if no more are due
  pressed,    \* pressed
  cycled,     \* the item onCycleTo was last called with
  requested,  \* the item of the last request since it was touched, or Nothing
  missed,     \* why it does not go there: the request was ignored, or its motion stopped
  shifted     \* whether a resizing has put the padded items where none belongs

carouselVars ==
  <<layout, offset, center, target, lag, pressed, cycled, requested, missed, shifted>>

Nothing == -1

\* What a click between the items is on, for the code: .index() of no item.
NoItem == -1

CarouselInit ==
  /\ layout \in {"items", "full", "padded"}
  /\ offset = 0 /\ center = 0 /\ target = 0 /\ lag = 0
  /\ pressed = FALSE
  /\ cycled = 0 /\ requested = Nothing /\ missed = "nothing"
  /\ shifted = FALSE

\* Math.round(x / Dim), of a half towards the right.
Round(x) == (2 * x + Dim) \div (2 * Dim)

\* wrap
WrapAbove(c) == IF c >= ItemCount THEN c % ItemCount ELSE c

Wrap(c) == c % ItemCount

\* center % count, which has the sign of the centre
Remainder == IF center >= 0 THEN center % ItemCount ELSE -((-center) % ItemCount)

Distance(x) == IF x < 0 THEN -x ELSE x

\* How far cycleTo goes back for an item, around the end if that is shorter.
Diff(n) ==
  LET diff == Remainder - n
  IN  CASE ~NoWrap /\ diff < 0 /\ Distance(diff + ItemCount) < Distance(diff) -> diff + ItemCount
        [] ~NoWrap /\ diff > 0 /\ Distance(diff - ItemCount) < diff -> diff - ItemCount
        [] OTHER -> diff

\* scroll to an offset.
Scroll(x) ==
  /\ offset' = x
  /\ center' = Round(x)
  /\ cycled' = IF center' # center THEN Wrap(center') ELSE cycled

StepUnrounded(n) ==
  /\ target' = offset + Dim * n
  /\ lag' = IF offset # target' THEN target' - offset ELSE lag

\* The events carouselNext, and carouselPrev for n < 0.
Step(n) ==
  /\ target' = Dim * (Round(offset) + n)
  /\ lag' = IF offset # target' THEN target' - offset ELSE lag

\* What was asked for last; it is missed if the carousel goes on to another item.
Requested(n, how) ==
  /\ requested' = n
  /\ missed' = IF n \in {Nothing, Wrap(Round(target'))} THEN "nothing" ELSE how

\* The method set, a click on an indicator, and one on or between the items if it was
\* not dragged.
CycleTo(n) ==
  /\ Event
  /\ n = NoItem => layout = "items"
  /\ IF Diff(n) = 0
     THEN UNCHANGED <<target, lag>> /\ Requested(Wrap(n), "request")
     ELSE Step(-Diff(n)) /\ requested' = Wrap(n) /\ missed' = "nothing"
  /\ UNCHANGED <<scrolling, layout, offset, center, pressed, cycled, shifted>>

\* The methods next and prev.
NextItem ==
  /\ Event
  /\ \E n \in {1, -1} : Step(n) /\ requested' = Wrap(Round(offset) + n)
  /\ missed' = "nothing"
  /\ UNCHANGED <<scrolling, layout, offset, center, pressed, cycled, shifted>>

\* tap: amplitude becomes 0, which ends the frames.
Tap ==
  /\ Event
  /\ pressed' = TRUE
  /\ lag' = 0
  /\ requested' = Nothing /\ missed' = "nothing"
  /\ UNCHANGED <<scrolling, layout, offset, center, target, cycled, shifted>>

\* drag, by half the distance of two items at a time.
Drag ==
  /\ Event
  /\ pressed
  /\ \E way \in {1, -1} : Scroll(offset + way * ((Dim + 1) \div 2))
  /\ UNCHANGED <<scrolling, layout, target, lag, pressed, requested, missed, shifted>>

\* release, with a velocity that takes it an item further, or not.
Release ==
  /\ pressed
  /\ pressed' = FALSE
  /\ \E further \in {-1, 0, 1} :
       LET rounded == Dim * (Round(offset) + further)
       IN  target' = CASE NoWrap /\ rounded >= Dim * (ItemCount - 1) -> Dim * (ItemCount - 1)
                       [] NoWrap /\ rounded < 0 -> 0
                       [] OTHER -> rounded
  /\ lag' = target' - offset
  /\ requested' = Nothing /\ missed' = "nothing"
  /\ UNCHANGED <<pageVars, layout, offset, center, cycled, shifted>>

\* Where the handler of resize puts the line, with fullWidth: it leaves out the padding.
Resized == CASE layout = "items" -> offset
             [] layout = "full" -> Dim * center
             [] layout = "padded" -> (Dim - Padding) * center

\* The window is resized.
ResizeCarousel ==
  /\ Event
  /\ IF layout = "items"
     THEN Scroll(offset) /\ UNCHANGED <<target, requested, missed>>
     ELSE /\ offset' = Resized /\ target' = offset'
          /\ Requested(requested, "motion")
          /\ UNCHANGED <<center, cycled>>
  /\ shifted' = (shifted \/ layout = "padded")
  /\ UNCHANGED <<scrolling, layout, lag, pressed>>

\* The plugin is called again: resize, and carouselNext by a millionth of an item.
Redraw ==
  /\ Event
  /\ IF layout = "items" THEN Scroll(offset) ELSE offset' = Resized /\ UNCHANGED <<center, cycled>>
  /\ target' = Dim * Round(offset')
  /\ lag' = target' - offset'
  /\ Requested(requested, "motion")
  /\ shifted' = (shifted \/ layout = "padded")
  /\ UNCHANGED <<scrolling, layout, pressed>>

\* autoScroll: nearer to the target, or there.
AutoScrolls ==
  /\ lag # 0
  /\ lag' \in IF lag > 0 THEN 0..(lag - 1) ELSE (lag + 1)..0
  /\ Scroll(target - lag')
  /\ UNCHANGED <<pageVars, layout, target, pressed, requested, missed, shifted>>

CarouselVisitor ==
  \/ NextItem \/ Tap \/ Drag \/ ResizeCarousel \/ Redraw
  \/ \E n \in Items \cup {NoItem} : CycleTo(n)

CarouselFrames == Release \/ AutoScrolls

-------------------------------------------------------------------------------

CarouselTypeOK ==
  /\ layout \in {"items", "full", "padded"}
  /\ offset \in Int /\ center \in Int /\ target \in Int /\ lag \in Int
  /\ pressed \in BOOLEAN /\ shifted \in BOOLEAN
  /\ cycled \in Items /\ requested \in Items \cup {Nothing}
  /\ missed \in {"nothing", "request", "motion"}

\* The items lie where they belong and nothing moves them.
AtRest == ~shifted /\ lag = 0 /\ ~pressed

\* Wherever the carousel comes to rest it is on an item, the one that onCycleTo was
\* called with, however it was dragged or how far around it went before.  It is the item
\* that was requested last unless that was missed: requested when it was in the centre
\* of a carousel on its way to another item, or before a resizing or redrawing that
\* stopped the motion.  (Padded items have no place any more once the window is resized.)
CarouselAgrees ==
  /\ ~shifted => cycled = Wrap(Round(offset))
  /\ AtRest =>
       /\ offset % Dim = 0
       /\ requested \in {Nothing, Wrap(Round(offset))} \/ missed # "nothing"
===============================================================================
