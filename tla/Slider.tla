-------------------------------- MODULE Slider --------------------------------
(***************************************************************************)
(* The slider of materialize.js ($.fn.slider): an interval moves it on,    *)
(* clicks on the indicators and swipes move it elsewhere and start the     *)
(* interval anew.  A touch stops the interval until the touch ends; one    *)
(* that the browser cancels has no end the slider hears of.                *)
(***************************************************************************)
EXTENDS PageEvents, FiniteSets

CONSTANT SlideCount

ASSUME SlidesAssumption == SlideCount \in Nat \ {0}

Slides == 0..(SlideCount - 1)

VARIABLES
  activeSlides,  \* the slides with the class active
  indicators,    \* the indicators with it
  intervals,     \* the intervals that run
  swipe,         \* swipeLeft, swipeRight: "none", "left", "right" or "both"
  panned,        \* whether a touch is on the slider
  stopped        \* whether sliderPause, or a touch that was cancelled, came last

sliderVars == <<activeSlides, indicators, intervals, swipe, panned, stopped>>

\* The page may have marked a slide active, but never its indicator: one is marked
\* when the slider chooses the slide itself.
SliderInit ==
  /\ \/ activeSlides = {0} /\ indicators = {0}
     \/ \E s \in Slides : activeSlides = {s} /\ indicators = {}
  /\ intervals = 1
  /\ swipe = "none" /\ panned = FALSE /\ stopped = FALSE

\* $slider.find('.active').index()
ActiveIndex == CHOOSE s \in activeSlides : \A t \in activeSlides : s <= t

\* moveToSlide
MoveUnwrapped(index) ==
  LET old == ActiveIndex
  IN  /\ activeSlides' = (activeSlides \ {old}) \cup ({index} \cap Slides)
      /\ indicators' = (indicators \ {old}) \cup ({index} \cap Slides)

MoveToSlide(index) ==
  LET to == CASE index >= SlideCount -> 0
              [] index < 0 -> SlideCount - 1
              [] OTHER -> index
      old == ActiveIndex
  IN  IF to = old
      THEN UNCHANGED <<activeSlides, indicators>>
      ELSE /\ activeSlides' = (activeSlides \ {old}) \cup {to}
           /\ indicators' = (indicators \ {old}) \cup {to}

\* The interval is cleared and set.
Restart == intervals' = 1 /\ stopped' = FALSE

AutoScroll ==
  /\ Event
  /\ intervals > 0
  /\ MoveToSlide(ActiveIndex + 1)
  /\ UNCHANGED <<scrolling, intervals, swipe, panned, stopped>>

ClickIndicator(s) ==
  /\ Event
  /\ MoveToSlide(s)
  /\ Restart
  /\ UNCHANGED <<scrolling, swipe, panned>>

\* pan: each of its events may set either of the flags, and none unsets one.
PanSlide ==
  /\ Event
  /\ panned' = TRUE
  /\ intervals' = 0
  /\ \/ swipe' = swipe
     \/ \E side \in {"left", "right"} : swipe' = IF swipe \in {"none", side} THEN side ELSE "both"
  /\ UNCHANGED <<scrolling, activeSlides, indicators, stopped>>

\* panend
PanSlideEnd ==
  /\ panned
  /\ panned' = FALSE
  /\ swipe' = "none"
  /\ \/ /\ swipe = "none" \/ SlideCount <= 1
        /\ UNCHANGED <<activeSlides, indicators>>
     \/ swipe \in {"left", "both"} /\ SlideCount > 1 /\ MoveToSlide(ActiveIndex + 1)
     \/ swipe = "right" /\ SlideCount > 1 /\ MoveToSlide(ActiveIndex - 1)
  /\ Restart
  /\ UNCHANGED pageVars

\* pancancel, which nothing is bound to.
PanSlideCancelled ==
  /\ panned
  /\ panned' = FALSE
  /\ stopped' = TRUE
  /\ UNCHANGED <<pageVars, activeSlides, indicators, intervals, swipe>>

\* The methods pause, start, next and prev.
PauseSlider ==
  /\ Event
  /\ intervals' = 0
  /\ stopped' = TRUE
  /\ UNCHANGED <<scrolling, activeSlides, indicators, swipe, panned>>

StartSlider == Event /\ Restart /\ UNCHANGED <<scrolling, activeSlides, indicators, swipe, panned>>

StepSlider ==
  /\ Event
  /\ \E step \in {1, -1} : MoveToSlide(ActiveIndex + step)
  /\ UNCHANGED <<scrolling, intervals, swipe, panned, stopped>>

SliderVisitor ==
  \/ AutoScroll \/ PanSlide \/ PauseSlider \/ StartSlider \/ StepSlider
  \/ \E s \in Slides : ClickIndicator(s)

SliderTouch == PanSlideEnd \/ PanSlideCancelled

-------------------------------------------------------------------------------

SliderTypeOK ==
  /\ activeSlides \subseteq Slides /\ indicators \subseteq Slides
  /\ intervals \in 0..1
  /\ swipe \in {"none", "left", "right", "both"}
  /\ panned \in BOOLEAN /\ stopped \in BOOLEAN

\* One slide is shown, its indicator is the only one marked, if one is, and the
\* slider moves on unless it was stopped or is being touched.
SliderAgrees ==
  /\ Cardinality(activeSlides) = 1
  /\ indicators # {} => indicators = activeSlides
  /\ intervals = 0 => stopped \/ panned
===============================================================================
