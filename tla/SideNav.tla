-------------------------------- MODULE SideNav --------------------------------
(***************************************************************************)
(* The side navigation of materialize.js ($.fn.sideNav), with a draggable  *)
(* menu: a click on its button puts an overlay over the page and slides    *)
(* the menu in, a touch drags it in or out.  Every overlay has the same    *)
(* id, by which the code finds the first of them only; menuOut is set by   *)
(* the end of the animation, even when the menu was closed meanwhile.      *)
(* Of overlays that came one beside another, those but the first are left; *)
(* "alone" tells which one was the page's only one when it was made.       *)
(***************************************************************************)
EXTENDS PageEvents

VARIABLES
  menuOut,      \* menuOut
  navOverlays,  \* the #sidenav-overlay elements, in the order of the document
  navMade,      \* how many were made
  opening,      \* those whose opening animation runs
  fading,       \* those that fade and are removed at the end of it
  touching      \* whether a touch drags the menu

navVars == <<menuOut, navOverlays, navMade, opening, fading, touching>>

NavInit ==
  /\ menuOut = FALSE
  /\ navOverlays = << >> /\ navMade = 0
  /\ opening = {} /\ fading = {}
  /\ touching = FALSE

LastOverlay == IF navOverlays = << >> THEN {} ELSE {Last(navOverlays).id}

\* $('#sidenav-overlay')
FirstOverlay == IF navOverlays = << >> THEN {} ELSE {Head(navOverlays).id}

\* removeMenu, of the overlays it finds and those that fade besides.
RemoveMenuOnly(besides) ==
  /\ menuOut' = FALSE
  /\ fading' = fading \cup FirstOverlay \cup besides
  /\ UNCHANGED <<scrolling, navOverlays, navMade, opening, touching>>

RemoveMenu(besides) ==
  /\ menuOut' = FALSE
  /\ scrolling' = TRUE
  /\ fading' = fading \cup FirstOverlay \cup besides
  /\ UNCHANGED <<navOverlays, navMade, opening, touching>>

NewOverlay(kind) ==
  /\ navMade' = navMade + 1
  /\ navOverlays' = Append(navOverlays, [id |-> navMade', kind |-> kind, alone |-> navOverlays = << >>])

\* The button, and the method show: while the menu slides in menuOut is not yet
\* set, and another click brings another overlay.
ClickButton ==
  /\ Event
  /\ \/ menuOut /\ RemoveMenu({})
     \/ /\ ~menuOut
        /\ scrolling' = FALSE
        /\ NewOverlay("click")
        /\ opening' = opening \cup {navMade'}
        /\ UNCHANGED <<menuOut, fading, touching>>

\* An overlay made by the button also fades itself when it is clicked.
ClickedOverlay(o) == RemoveMenu(IF o.kind = "click" THEN {o.id} ELSE {})

\* The visitor clicks the overlay that came last, the method hide the first.
ClickOverlay ==
  /\ Event
  /\ navOverlays # << >>
  /\ \/ ClickedOverlay(Last(navOverlays))
     \/ ClickedOverlay(Head(navOverlays))

\* The drag target and, of a fixed menu, the resizing of the window.
ClickDragTarget == Event /\ menuOut /\ RemoveMenu({})

\* closeOnClick: a click on an item.
ClickItem == Event /\ RemoveMenu({})

\* pan: past the middle or not.
Pan ==
  /\ Event
  /\ touching' = TRUE
  /\ scrolling' = FALSE
  /\ menuOut' \in BOOLEAN
  /\ IF navOverlays = << >> THEN NewOverlay("pan") ELSE UNCHANGED <<navOverlays, navMade>>
  /\ UNCHANGED <<opening, fading>>

\* panend: a fast movement decides whatever menuOut is.  The menu that is flung
\* shut leaves menuOut as it is.
PanEnd ==
  /\ touching
  /\ touching' = FALSE
  /\ \/ menuOut' = TRUE /\ UNCHANGED <<scrolling, fading>>
     \/ /\ scrolling' = TRUE
        /\ fading' = fading \cup FirstOverlay
        /\ UNCHANGED menuOut
  /\ UNCHANGED <<events, navOverlays, navMade, opening>>

MenuOpened(id) ==
  /\ id \in opening
  /\ menuOut' = TRUE
  /\ opening' = opening \ {id}
  /\ UNCHANGED <<scrolling, events, navOverlays, navMade, fading, touching>>

OverlayRemoved(id) ==
  /\ id \in fading
  /\ fading' = fading \ {id}
  /\ \E i \in 1..Len(navOverlays) :
       navOverlays[i].id = id /\ navOverlays' = RemoveAt(navOverlays, i)
  /\ UNCHANGED <<scrolling, events, menuOut, navMade, opening, touching>>

NavVisitor == ClickButton \/ ClickOverlay \/ ClickDragTarget \/ ClickItem \/ Pan

NavAnimation == PanEnd \/ \E id \in 1..navMade : MenuOpened(id) \/ OverlayRemoved(id)

-------------------------------------------------------------------------------

NavTypeOK ==
  /\ menuOut \in BOOLEAN /\ touching \in BOOLEAN
  /\ navMade \in 0..MaxEvents
  /\ navOverlays \in Seq([id : 1..navMade, kind : {"click", "pan"}, alone : BOOLEAN])
  /\ opening \subseteq 1..navMade
  /\ fading \subseteq {navOverlays[i].id : i \in 1..Len(navOverlays)}

\* An overlay that came to a page without one is there only for a menu that is out or
\* on its way, or a touch, and fades otherwise.  (One that a second click puts beside
\* another has no such promise: only the first one is found when the menu closes.)
MenuAgrees ==
  \A i \in 1..Len(navOverlays) :
    navOverlays[i].alone => menuOut \/ touching \/ opening # {} \/ navOverlays[i].id \in fading
===============================================================================
