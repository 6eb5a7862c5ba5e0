------------------------------ MODULE Collapsible ------------------------------
(***************************************************************************)
(* An accordion of materialize.js ($.fn.collapsible).  Opening a header    *)
(* takes the class active from the others at once, but tells the page that *)
(* they were closed only when their bodies have slid away; a slide that is *)
(* stopped tells nobody.                                                   *)
(***************************************************************************)
EXTENDS PageEvents, FiniteSets

CONSTANT Headers

VARIABLES
  activeHeaders,  \* the headers with the class active
  slide,          \* what runs on a body: "none", "down", "up", or "away", whose end calls back
  bodyShown,      \* whether a body is visible
  told            \* whether onOpen is the last callback of a header
accordionVars == <<activeHeaders, slide, bodyShown, told>>

\* The page came with some headers active: the first of them is opened.
AccordionInit ==
  /\ activeHeaders \in {{}} \cup {{h} : h \in Headers}
  /\ slide = [h \in Headers |-> IF h \in activeHeaders THEN "down" ELSE "none"]
  /\ bodyShown = [h \in Headers |-> h \in activeHeaders]
  /\ told = bodyShown

ForgetOthers(h) ==
  /\ activeHeaders' = {h} \ activeHeaders
  /\ bodyShown' = [bodyShown EXCEPT ![h] = TRUE]
  /\ slide' = [g \in Headers |->
                 IF g = h THEN IF h \in activeHeaders' THEN "down" ELSE "up" ELSE "none"]
  /\ told' = [told EXCEPT ![h] = h \in activeHeaders']

\* collapsibleOpen of an accordion: the class is toggled, so that opening a header
\* that is open closes it.
CollapsibleOpen(h) ==
  /\ activeHeaders' = {h} \ activeHeaders
  /\ bodyShown' = [bodyShown EXCEPT ![h] = TRUE]
  /\ slide' = [g \in Headers |->
                 CASE g = h -> IF h \in activeHeaders' THEN "down" ELSE "up"
                   [] g # h /\ bodyShown[g] -> "away"
                   [] OTHER -> "none"]
  /\ told' = [told EXCEPT ![h] = h \in activeHeaders']

\* A click on a header, and the method open.
ClickHeader(h) == Event /\ UNCHANGED scrolling /\ CollapsibleOpen(h)

\* The method close.
CloseHeader(h) == h \in activeHeaders /\ ClickHeader(h)

\* complete of a slide.
SlideEnds(h) ==
  /\ slide[h] # "none"
  /\ slide' = [slide EXCEPT ![h] = "none"]
  /\ bodyShown' = [bodyShown EXCEPT ![h] = slide[h] = "down"]
  /\ told' = [told EXCEPT ![h] = IF slide[h] = "away" THEN h \in activeHeaders ELSE @]
  /\ UNCHANGED <<pageVars, activeHeaders>>

AccordionVisitor == \E h \in Headers : ClickHeader(h) \/ CloseHeader(h)

AccordionAnimation == \E h \in Headers : SlideEnds(h)

-------------------------------------------------------------------------------

AccordionTypeOK ==
  /\ activeHeaders \subseteq Headers
  /\ slide \in [Headers -> {"none", "down", "up", "away"}]
  /\ bodyShown \in [Headers -> BOOLEAN] /\ told \in [Headers -> BOOLEAN]

\* One header at most is active, and where nothing slides the body is shown, and
\* the page was told so, exactly if its header is active: no callback is lost with
\* a slide that was stopped.
AccordionAgrees ==
  /\ Cardinality(activeHeaders) <= 1
  /\ \A h \in Headers :
       slide[h] = "none" =>
         (bodyShown[h] <=> h \in activeHeaders) /\ (told[h] <=> h \in activeHeaders)
===============================================================================
