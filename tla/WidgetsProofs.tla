----------------------------- MODULE WidgetsProofs -----------------------------
(***************************************************************************)
(* Theorems about the widgets of materialize.js, for any number of events, *)
(* dialogs, headers, toasts, slides, items and options, and any texts.     *)
(***************************************************************************)
EXTENDS Widgets, Induction

(***************************************************************************)
(* Dialogs.  The order in which escape closes them does not matter, only   *)
(* that it closes a number of them.                                        *)
(***************************************************************************)
DialogTypes ==
  /\ modal \in [Dialogs -> [open : BOOLEAN, shown : BOOLEAN, overlay : Int, z : Int]]
  /\ stack \in Int /\ lastID \in Int
  /\ overlays \subseteq [id : Int, of : Dialogs, z : Int]
  /\ IsFiniteSet(dismissers)
  /\ Len(exits) \in Nat /\ exits = [i \in 1..Len(exits) |-> exits[i]]

DialogInv == DialogTypes /\ NoModalOverlayIsLeft

\* No dialog is open at the start.
LEMMA InitDialogInv == Init => DialogInv
  BY FS_EmptySet DEF Init, ModalInit, DialogInv, DialogTypes, NoModalOverlayIsLeft, NoOverlay

\* Escape closes a number of dialogs.
LEMMA DismissedIsFinite ==
  ASSUME IsFiniteSet(dismissers)
  PROVE  Len(Dismissed) \in Nat
<1>1. PICK n \in Nat : n = Cardinality(dismissers)
  BY FS_CardinalityType
<1>. QED BY <1>1 DEF Dismissed

\* A new dialog lies on a new overlay; the overlays it had before are on their way out.
LEMMA OpenModalKeeps ==
  ASSUME DialogInv, NEW m \in Dialogs, OpenModal(m)
  PROVE  DialogInv'
<1>1. modal' = [modal EXCEPT ![m] = [open |-> TRUE, shown |-> TRUE, overlay |-> lastID',
                                     z |-> stack']]
      /\ overlays' = overlays \cup {[id |-> lastID', of |-> m, z |-> stack']}
      /\ lastID' = lastID + 1 /\ stack' = stack + 1 /\ exits' = exits /\ ~modal[m].open
      /\ dismissers' = dismissers \cup {lastID'}
  BY DEF OpenModal
<1>2. IsFiniteSet(dismissers')
  BY <1>1, FS_AddElement DEF DialogInv, DialogTypes
<1>3. DialogTypes'
  BY <1>1, <1>2 DEF DialogInv, DialogTypes
<1>4. ASSUME NEW o \in overlays'
      PROVE  \/ modal'[o.of].open /\ modal'[o.of].overlay = o.id
             \/ \E i \in 1..Len(exits') : exits'[i].overlay = o.id
  <2>1. CASE o = [id |-> lastID', of |-> m, z |-> stack']
    BY <1>1, <2>1 DEF DialogInv, DialogTypes
  <2>2. CASE o \in overlays
    <3>1. modal[o.of].open => o.of # m
      BY <1>1
    <3>2. o.of # m => modal'[o.of] = modal[o.of]
      BY <1>1, <2>2 DEF DialogInv, DialogTypes
    <3>. QED BY <1>1, <2>2, <3>1, <3>2 DEF DialogInv, NoModalOverlayIsLeft
  <2>. QED BY <1>1, <1>4, <2>1, <2>2
<1>. QED BY <1>3, <1>4 DEF DialogInv, NoModalOverlayIsLeft

\* Whatever dialogs are closed: the overlay each of them lay on goes out with it.
LEMMA CloseModalKeeps ==
  ASSUME DialogInv, NEW ms, Len(ms) \in Nat, CloseModal(ms)
  PROVE  DialogInv'
<1>. DEFINE more == [i \in 1..Len(ms) |-> [of |-> ms[i], overlay |-> modal[ms[i]].overlay]]
<1>1. modal' = [m \in Dialogs |-> [modal[m] EXCEPT !.open = @ /\ ~Contains(ms, m)]]
      /\ dismissers' = dismissers \ {modal[m].overlay : m \in ToSet(ms)}
      /\ exits' = exits \o more /\ stack' = stack /\ lastID' = lastID /\ overlays' = overlays
  BY DEF CloseModal
<1>2. IsFiniteSet(dismissers')
  BY <1>1, FS_Difference DEF DialogInv, DialogTypes
<1>3. PICK n \in Nat, k \in Nat : n = Len(exits) /\ k = Len(ms)
  BY DEF DialogInv, DialogTypes
<1>4. Len(more) = k
  BY <1>3
<1>5. exits' = [i \in 1..(n + k) |-> IF i <= n THEN exits[i] ELSE more[i - n]]
  BY <1>1, <1>3, <1>4
<1>6. Len(exits') = n + k
  BY <1>3, <1>5
<1>7. exits' = [i \in 1..Len(exits') |-> exits'[i]]
  BY <1>5, <1>6
<1>8. DialogTypes'
  <2>1. modal' \in [Dialogs -> [open : BOOLEAN, shown : BOOLEAN, overlay : Int, z : Int]]
    BY <1>1 DEF DialogInv, DialogTypes, Contains
  <2>2. n + k \in Nat
    OBVIOUS
  <2>. HIDE DEF more
  <2>. QED BY <1>1, <1>2, <1>6, <1>7, <2>1, <2>2 DEF DialogInv, DialogTypes
<1>9. ASSUME NEW o \in overlays'
      PROVE  \/ modal'[o.of].open /\ modal'[o.of].overlay = o.id
             \/ \E i \in 1..Len(exits') : exits'[i].overlay = o.id
  <2>1. o.of \in Dialogs /\ modal[o.of] \in [open : BOOLEAN, shown : BOOLEAN, overlay : Int, z : Int]
    BY <1>1, <1>9 DEF DialogInv, DialogTypes
  <2>2. CASE \E i \in 1..n : exits[i].overlay = o.id
    <3>1. PICK i \in 1..n : exits[i].overlay = o.id
      BY <2>2
    <3>2. i \in 1..(n + k) /\ exits'[i] = exits[i]
      BY <1>3, <1>5
    <3>. QED BY <1>6, <3>1, <3>2
  <2>3. CASE modal[o.of].open /\ modal[o.of].overlay = o.id /\ ~Contains(ms, o.of)
    BY <1>1, <2>1, <2>3
  <2>4. CASE modal[o.of].overlay = o.id /\ Contains(ms, o.of)
    <3>1. PICK i \in 1..k : ms[i] = o.of
      BY <1>3, <2>4 DEF Contains
    <3>2. more[i].overlay = o.id
      BY <1>3, <2>4, <3>1
    <3>3. n + i \in 1..(n + k) /\ ~(n + i <= n) /\ (n + i) - n = i
      BY <1>3
    <3>4. exits'[n + i] = more[i]
      BY <1>5, <3>3
    <3>. QED BY <1>6, <3>2, <3>3, <3>4
  <2>. QED BY <1>1, <1>3, <1>9, <2>2, <2>3, <2>4 DEF DialogInv, NoModalOverlayIsLeft
<1>. QED BY <1>8, <1>9 DEF DialogInv, NoModalOverlayIsLeft

\* The end of an animation takes the overlay it began with out of the document.
LEMMA ExitModalKeeps ==
  ASSUME DialogInv, ExitModal
  PROVE  DialogInv'
<1>1. exits # << >> /\ exits' = Tail(exits) /\ stack' = stack - 1 /\ lastID' = lastID
      /\ dismissers' = dismissers
      /\ modal' = [modal EXCEPT ![Head(exits).of].shown = FALSE]
      /\ overlays' = {o \in overlays : o.id # Head(exits).overlay}
  BY DEF ExitModal
<1>2. PICK n \in Nat : n = Len(exits)
  BY DEF DialogInv, DialogTypes
<1>3. exits = [i \in 1..n |-> exits[i]]
  BY <1>2 DEF DialogInv, DialogTypes
<1>4. n > 0 /\ Head(exits) = exits[1]
  BY <1>1, <1>2, <1>3
<1>5. exits' = [i \in 1..(n - 1) |-> exits[i + 1]]
  BY <1>1, <1>2, <1>3, <1>4
<1>6. Len(exits') = n - 1
  BY <1>4, <1>5
<1>7. exits' = [i \in 1..Len(exits') |-> exits'[i]]
  BY <1>5, <1>6
<1>8. modal' \in [Dialogs -> [open : BOOLEAN, shown : BOOLEAN, overlay : Int, z : Int]]
      /\ \A m \in Dialogs : modal'[m].open = modal[m].open /\ modal'[m].overlay = modal[m].overlay
  BY <1>1 DEF DialogInv, DialogTypes
<1>9. DialogTypes'
  BY <1>1, <1>4, <1>6, <1>7, <1>8 DEF DialogInv, DialogTypes
<1>10. ASSUME NEW o \in overlays'
       PROVE  \/ modal'[o.of].open /\ modal'[o.of].overlay = o.id
              \/ \E i \in 1..Len(exits') : exits'[i].overlay = o.id
  <2>1. o \in overlays /\ o.id # exits[1].overlay /\ o.of \in Dialogs
    BY <1>1, <1>4, <1>10 DEF DialogInv, DialogTypes
  <2>2. CASE \E i \in 1..n : exits[i].overlay = o.id
    <3>1. PICK i \in 1..n : exits[i].overlay = o.id
      BY <2>2
    <3>2. i - 1 \in 1..(n - 1) /\ (i - 1) + 1 = i
      BY <2>1, <3>1
    <3>3. exits'[i - 1] = exits[i]
      BY <1>5, <3>2
    <3>. QED BY <1>6, <3>1, <3>2, <3>3
  <2>. QED BY <1>2, <1>8, <2>1, <2>2 DEF DialogInv, NoModalOverlayIsLeft
<1>. QED BY <1>9, <1>10 DEF DialogInv, NoModalOverlayIsLeft

\* What a visitor does to the dialogs, and the animations of them.
LEMMA DialogsKeep ==
  ASSUME DialogInv, ModalVisitor \/ CloseByEscape \/ ExitModal \/ UNCHANGED modalVars
  PROVE  DialogInv'
<1>1. ASSUME NEW m \in Dialogs, OpenModal(m) PROVE DialogInv'
  BY <1>1, OpenModalKeeps
<1>2. ASSUME NEW m \in Dialogs, CloseByMethod(m) PROVE DialogInv'
  <2>1. Len(<<m>>) \in Nat
    OBVIOUS
  <2>. QED BY <1>2, <2>1, CloseModalKeeps DEF CloseByMethod
<1>3. ASSUME CloseByOverlay PROVE DialogInv'
  <2>1. PICK o \in overlays : CloseModal(<<o.of>>)
    BY <1>3 DEF CloseByOverlay
  <2>2. Len(<<o.of>>) \in Nat
    OBVIOUS
  <2>. QED BY <2>1, <2>2, CloseModalKeeps
<1>4. ASSUME CloseByEscape PROVE DialogInv'
  <2>1. Len(Dismissed) \in Nat
    BY DismissedIsFinite DEF DialogInv, DialogTypes
  <2>. QED BY <1>4, <2>1, CloseModalKeeps DEF CloseByEscape
<1>5. ASSUME UNCHANGED modalVars PROVE DialogInv'
  BY <1>5 DEF modalVars, DialogInv, DialogTypes, NoModalOverlayIsLeft
<1>6. ASSUME NEW m \in Dialogs, OpenModalAgain(m) PROVE DialogInv'
  BY <1>5, <1>6 DEF OpenModalAgain
<1>. QED BY <1>1, <1>2, <1>3, <1>4, <1>5, <1>6, ExitModalKeeps DEF ModalVisitor

(***************************************************************************)
(* The enlarged image.  The flags may disagree with what moves, but the    *)
(* class, the overlay and overlayActive only change together.              *)
(***************************************************************************)
ImageInv ==
  /\ active \in BOOLEAN /\ boxOverlay \in BOOLEAN /\ overlayActive \in BOOLEAN
  /\ overlayActive = active /\ boxOverlay = active
  /\ animation \in {"none", "in", "out"}
  /\ animation = "none" => doneAnimating

\* The image is where it belongs at the start.
LEMMA InitImageInv == Init => ImageInv
  BY DEF Init, BoxInit, ImageInv

\* Clicks, scrolling, escape and the ends of both animations.
LEMMA ImageKeeps ==
  ASSUME ImageInv, BoxVisitor \/ BoxEscape \/ BoxAnimation \/ UNCHANGED boxVars
  PROVE  ImageInv'
<1>1. CASE BoxVisitor
  BY <1>1 DEF BoxVisitor, ClickImage, ClickBoxOverlay, ScrollPage, ReturnToOriginal, ImageInv
<1>2. CASE BoxEscape
  BY <1>2 DEF BoxEscape, ReturnToOriginal, ImageInv
<1>3. CASE BoxAnimation
  BY <1>3 DEF BoxAnimation, Enlarged, Returned, ImageInv
<1>4. CASE UNCHANGED boxVars
  BY <1>4 DEF boxVars, ImageInv
<1>. QED BY <1>1, <1>2, <1>3, <1>4

(***************************************************************************)
(* The menu.  The overlay that came to a page without one stays the first  *)
(* of the document as long as it is there, so that it is what is found.    *)
(***************************************************************************)
\* What follows the one removed moves up.
LEMMA Removed ==
  ASSUME NEW S, NEW s \in Seq(S), NEW i \in 1..Len(s)
  PROVE  /\ RemoveAt(s, i) \in Seq(S)
         /\ Len(RemoveAt(s, i)) = Len(s) - 1
         /\ \A k \in 1..(Len(s) - 1) : RemoveAt(s, i)[k] = IF k < i THEN s[k] ELSE s[k + 1]
<1>1. PICK n \in Nat : n = Len(s)
  OBVIOUS
<1>2. PICK a \in Seq(S), b \in Seq(S) : a = SubSeq(s, 1, i - 1) /\ b = SubSeq(s, i + 1, n)
  <2>1. SubSeq(s, 1, i - 1) \in Seq(S) /\ SubSeq(s, i + 1, n) \in Seq(S)
    BY <1>1
  <2>. QED BY <2>1
<1>3. Len(a) = i - 1 /\ Len(b) = n - i
  BY <1>1, <1>2
<1>4. RemoveAt(s, i) = a \o b
  BY <1>1, <1>2 DEF RemoveAt
<1>5. a \o b \in Seq(S) /\ Len(a \o b) = n - 1
  BY <1>1, <1>3
<1>6. ASSUME NEW k \in 1..(n - 1)
      PROVE  (a \o b)[k] = IF k < i THEN s[k] ELSE s[k + 1]
  <2>1. CASE k < i
    BY <1>1, <1>2, <1>3, <2>1
  <2>2. CASE ~(k < i)
    <3>1. (a \o b)[k] = b[k - (i - 1)]
      BY <1>1, <1>3, <2>2
    <3>2. k - (i - 1) \in 1..Len(b) /\ i + 1 + (k - (i - 1)) - 1 = k + 1
      BY <1>1, <1>3, <2>2
    <3>3. b[k - (i - 1)] = s[k + 1]
      BY <1>1, <1>2, <3>2
    <3>. QED BY <2>2, <3>1, <3>3
  <2>. QED BY <2>1, <2>2
<1>. QED BY <1>1, <1>4, <1>5, <1>6

NavOverlay == [id : Nat, kind : {"click", "pan"}, alone : BOOLEAN]

MenuInv ==
  /\ navMade \in Nat /\ navOverlays \in Seq(NavOverlay)
  /\ \A i \in 1..Len(navOverlays) : navOverlays[i].id <= navMade
  /\ \A i, j \in 1..Len(navOverlays) : navOverlays[i].id = navOverlays[j].id => i = j
  /\ \A i \in 1..Len(navOverlays) : navOverlays[i].alone => i = 1
  /\ MenuAgrees

\* There is no overlay at the start.
LEMMA InitMenuInv == Init => MenuInv
  BY DEF Init, NavInit, MenuInv, MenuAgrees

\* A new overlay comes behind the others, with something to stand for.
LEMMA NewOverlayKeeps ==
  ASSUME MenuInv, NEW kind \in {"click", "pan"}, NewOverlay(kind),
         opening' # {} \/ touching'
  PROVE  MenuInv'
<1>1. PICK n \in Nat : n = Len(navOverlays)
  BY DEF MenuInv
<1>2. PICK new : new = [id |-> navMade + 1, kind |-> kind, alone |-> navOverlays = << >>]
  OBVIOUS
<1>3. new \in NavOverlay /\ new.id = navMade + 1 /\ (new.alone => n = 0)
  <2>1. new.id = navMade + 1 /\ new.kind = kind /\ new.alone = (navOverlays = << >>)
    BY <1>2
  <2>2. (navOverlays = << >>) \in BOOLEAN
    OBVIOUS
  <2>3. navMade + 1 \in Nat
    BY DEF MenuInv
  <2>4. new \in NavOverlay
    BY <1>2, <2>2, <2>3 DEF NavOverlay
  <2>5. navOverlays = << >> => n = 0
    BY <1>1
  <2>6. new.alone => n = 0
    BY <2>1, <2>5, Zenon
  <2>. QED BY <2>1, <2>4, <2>6
<1>4. navOverlays' = Append(navOverlays, new) /\ navMade' = navMade + 1
  BY <1>2 DEF NewOverlay
<1>5. navOverlays' \in Seq(NavOverlay) /\ Len(navOverlays') = n + 1
      /\ navOverlays'[n + 1] = new /\ \A i \in 1..n : navOverlays'[i] = navOverlays[i]
  BY <1>1, <1>3, <1>4 DEF MenuInv
<1>6. ASSUME NEW i \in 1..(n + 1) PROVE i \in 1..n \/ i = n + 1
  BY <1>6
<1>7. ASSUME NEW i \in 1..n PROVE navOverlays[i].id \in Nat /\ navOverlays[i].id <= navMade
  <2>1. i \in 1..Len(navOverlays) /\ navOverlays[i] \in NavOverlay
    BY <1>1 DEF MenuInv
  <2>. QED BY <2>1 DEF MenuInv, NavOverlay
<1>8. \A i \in 1..(n + 1) : navOverlays'[i].id <= navMade'
  BY <1>3, <1>4, <1>5, <1>6, <1>7 DEF MenuInv
<1>9. \A i, j \in 1..(n + 1) : navOverlays'[i].id = navOverlays'[j].id => i = j
  <2>1. \A i \in 1..n : navOverlays'[i].id # navMade + 1
    BY <1>5, <1>7 DEF MenuInv
  <2>2. \A i, j \in 1..n : navOverlays'[i].id = navOverlays'[j].id => i = j
    BY <1>1, <1>5 DEF MenuInv
  <2>3. navOverlays'[n + 1].id = navMade + 1
    BY <1>3, <1>5
  <2>. QED BY <1>6, <2>1, <2>2, <2>3
<1>10. \A i \in 1..(n + 1) : navOverlays'[i].alone => i = 1
  BY <1>1, <1>3, <1>5, <1>6 DEF MenuInv
<1>11. navMade' \in Nat
  BY <1>4 DEF MenuInv
<1>. QED BY <1>5, <1>8, <1>9, <1>10, <1>11 DEF MenuInv, MenuAgrees

\* Where no overlay comes or goes, it is enough that the first one fades when there is
\* nothing left that it stands for.
LEMMA SameOverlaysKeep ==
  ASSUME MenuInv, UNCHANGED <<navOverlays, navMade>>, fading \subseteq fading',
         \/ FirstOverlay \subseteq fading'
         \/ menuOut \/ touching \/ opening # {} => menuOut' \/ touching' \/ opening' # {}
  PROVE  MenuInv'
<1>1. ASSUME NEW i \in 1..Len(navOverlays), navOverlays[i].alone
      PROVE  menuOut' \/ touching' \/ opening' # {} \/ navOverlays[i].id \in fading'
  <2>1. i = 1 /\ navOverlays # << >> /\ Head(navOverlays) = navOverlays[1]
    BY <1>1 DEF MenuInv
  <2>2. FirstOverlay = {navOverlays[i].id}
    BY <2>1 DEF FirstOverlay
  <2>. QED BY <1>1, <2>2 DEF MenuInv, MenuAgrees
<1>. QED BY <1>1 DEF MenuInv, MenuAgrees

\* Whichever overlay is gone, the others follow in the same order.
LEMMA OverlayRemovedKeeps ==
  ASSUME MenuInv, NEW id, OverlayRemoved(id)
  PROVE  MenuInv'
<1>1. PICK n \in Nat : n = Len(navOverlays)
  BY DEF MenuInv
<1>2. PICK i \in 1..n : navOverlays[i].id = id /\ navOverlays' = RemoveAt(navOverlays, i)
  BY <1>1 DEF OverlayRemoved
<1>3. /\ navOverlays' \in Seq(NavOverlay) /\ Len(navOverlays') = n - 1
      /\ \A k \in 1..(n - 1) : navOverlays'[k] = IF k < i THEN navOverlays[k]
                                                 ELSE navOverlays[k + 1]
  BY <1>1, <1>2, Removed DEF MenuInv
<1>4. UNCHANGED <<menuOut, touching, opening, navMade>> /\ fading' = fading \ {id}
  BY DEF OverlayRemoved
<1>. DEFINE from(k) == IF k < i THEN k ELSE k + 1
<1>5. ASSUME NEW k \in 1..(n - 1)
      PROVE  from(k) \in 1..n /\ from(k) # i /\ navOverlays'[k] = navOverlays[from(k)]
  BY <1>3, <1>5
<1>6. \A k, l \in 1..(n - 1) : from(k) = from(l) => k = l
  BY <1>1
<1>7. \A k \in 1..(n - 1) : from(k) = 1 => k = 1
  BY <1>1
<1>. HIDE DEF from
<1>8. \A k \in 1..(n - 1) : navOverlays'[k].id <= navMade
  BY <1>1, <1>5 DEF MenuInv
<1>9. \A k, l \in 1..(n - 1) : navOverlays'[k].id = navOverlays'[l].id => k = l
  BY <1>1, <1>5, <1>6 DEF MenuInv
<1>10. \A k \in 1..(n - 1) : navOverlays'[k].alone => k = 1
  BY <1>1, <1>5, <1>7 DEF MenuInv
<1>11. \A k \in 1..(n - 1) : navOverlays'[k].id # id
  BY <1>1, <1>2, <1>5 DEF MenuInv
<1>12. \A k \in 1..(n - 1) :
         navOverlays'[k].alone =>
           menuOut \/ touching \/ opening # {} \/ navOverlays'[k].id \in fading'
  BY <1>1, <1>4, <1>5, <1>11 DEF MenuInv, MenuAgrees
<1>13. MenuAgrees'
  BY <1>3, <1>4, <1>12 DEF MenuAgrees
<1>. QED BY <1>3, <1>4, <1>8, <1>9, <1>10, <1>13 DEF MenuInv

\* Clicks on button, overlays and items, drags and the ends of the animations.
LEMMA MenuKeeps ==
  ASSUME MenuInv, NavVisitor \/ NavAnimation \/ UNCHANGED navVars
  PROVE  MenuInv'
<1>1. ASSUME NEW besides, RemoveMenu(besides) PROVE MenuInv'
  BY <1>1, SameOverlaysKeep DEF RemoveMenu
<1>2. CASE ClickButton
  <2>1. CASE NewOverlay("click") /\ opening' = opening \cup {navMade'}
    <3>1. opening' # {}
      BY <2>1
    <3>. QED BY <2>1, <3>1, NewOverlayKeeps
  <2>. QED BY <1>1, <1>2, <2>1 DEF ClickButton
<1>3. CASE ClickOverlay \/ ClickDragTarget \/ ClickItem
  BY <1>1, <1>3 DEF ClickOverlay, ClickedOverlay, ClickDragTarget, ClickItem
<1>4. CASE Pan
  BY <1>4, NewOverlayKeeps, SameOverlaysKeep DEF Pan
<1>5. CASE PanEnd
  <2>1. UNCHANGED <<navOverlays, navMade>> /\ fading \subseteq fading'
        /\ (menuOut' \/ FirstOverlay \subseteq fading')
    BY <1>5 DEF PanEnd
  <2>. QED BY <2>1, SameOverlaysKeep
<1>6. ASSUME NEW id, MenuOpened(id) PROVE MenuInv'
  <2>1. UNCHANGED <<navOverlays, navMade, fading>> /\ menuOut'
    BY <1>6 DEF MenuOpened
  <2>. QED BY <2>1, SameOverlaysKeep
<1>7. CASE UNCHANGED navVars
  BY <1>7 DEF navVars, MenuInv, MenuAgrees
<1>. QED BY <1>2, <1>3, <1>4, <1>5, <1>6, <1>7, OverlayRemovedKeeps DEF NavVisitor, NavAnimation

(***************************************************************************)
(* The scrolling of the page, which dialogs, menu and image all change.    *)
(***************************************************************************)

\* The widgets that do not cover the page leave its scrolling alone.
LEMMA OthersLeaveScrolling ==
  ASSUME \/ AccordionVisitor \/ AccordionAnimation \/ DropdownVisitor \/ DropdownTimers
         \/ HintVisitor \/ HintTimers \/ SliderVisitor \/ SliderTouch
         \/ CarouselVisitor \/ CarouselFrames \/ ChipsVisitor \/ KeyUp
         \/ SelectVisitor \/ ListHidden \/ PickerVisitor \/ Tick
  PROVE  scrolling' = scrolling
<1>1. CASE AccordionVisitor \/ AccordionAnimation
  BY <1>1 DEF AccordionVisitor, AccordionAnimation, ClickHeader, CloseHeader, SlideEnds, pageVars
<1>2. CASE DropdownVisitor \/ DropdownTimers
  BY <1>2 DEF DropdownVisitor, DropdownTimers, ClickOrigin, ClickDocument, EnterOrigin,
              LeaveDropdown, OpenDropdown, CloseDropdown, BindDocument, FadedOut, pageVars
<1>3. CASE HintVisitor \/ HintTimers
  BY <1>3 DEF HintVisitor, HintTimers, EnterTip, LeaveTip, ShowToast, PanToast, ShowTooltip,
              AnimateBack, TipHidden, Count, PanToastEnd, ToastOut, pageVars
<1>4. CASE SliderVisitor \/ SliderTouch
  BY <1>4 DEF SliderVisitor, SliderTouch, AutoScroll, PanSlide, PauseSlider, StartSlider,
              StepSlider, ClickIndicator, PanSlideEnd, PanSlideCancelled, pageVars
<1>5. CASE CarouselVisitor \/ CarouselFrames
  BY <1>5 DEF CarouselVisitor, CarouselFrames, NextItem, Tap, Drag, ResizeCarousel, Redraw, CycleTo,
              Release, AutoScrolls, pageVars
<1>6. CASE ChipsVisitor \/ KeyUp
  BY <1>6 DEF ChipsVisitor, KeyUp, FocusInput, BlurInput, Enter, ClickOption, LeaveToChips,
              DeleteSelected, SelectNeighbour, Type, MoveActive, ClickChip, ClickClose, pageVars
<1>7. CASE SelectVisitor \/ ListHidden
  BY <1>7 DEF SelectVisitor, ListHidden, FocusSelect, BlurSelect, ClickWindow, HoverList,
              KeyCloses, KeyOpens, KeyMoves, KeyEnter, Rebuild, ClickChoice, ClickOptgroup,
              pageVars
<1>8. CASE PickerVisitor \/ Tick
  BY <1>8 DEF PickerVisitor, Tick, OpenPicker, DismissPicker, PickDay, PickHighlighted,
              ClearDate, MoveHighlight, NavigateMonth, SelectMonth, SelectYear, SetDate,
              ChangeRules, pageVars
<1>. QED BY <1>1, <1>2, <1>3, <1>4, <1>5, <1>6, <1>7, <1>8

\* Dialogs lock the page as they open and unlock it as they close.
LEMMA DialogsScroll ==
  ASSUME DialogInv, PageScrollsAgain, UNCHANGED navVars,
         ModalVisitor \/ CloseByEscape \/ ExitModal
  PROVE  PageScrollsAgain'
<1>1. menuOut' = menuOut /\ touching' = touching /\ opening' = opening
  BY DEF navVars
<1>2. ASSUME NEW m \in Dialogs, OpenModal(m) PROVE PageScrollsAgain'
  <2>1. modal'[m].open
    BY <1>2 DEF OpenModal, DialogInv, DialogTypes
  <2>. QED BY <2>1 DEF PageScrollsAgain
<1>3. ASSUME NEW m \in Dialogs, OpenModalAgain(m) PROVE PageScrollsAgain'
  BY <1>3 DEF OpenModalAgain, modalVars, PageScrollsAgain
<1>4. ASSUME NEW ms, CloseModal(ms) PROVE PageScrollsAgain'
  BY <1>4 DEF CloseModal, PageScrollsAgain
<1>5. ASSUME ExitModal PROVE PageScrollsAgain'
  <2>1. \A m \in Dialogs : modal'[m].open = modal[m].open
    BY <1>5 DEF ExitModal, DialogInv, DialogTypes
  <2>. QED BY <1>1, <1>5, <2>1 DEF ExitModal, PageScrollsAgain
<1>. QED BY <1>2, <1>3, <1>4, <1>5
         DEF ModalVisitor, CloseByMethod, CloseByOverlay, CloseByEscape

\* A menu that comes out, or is dragged, is out, touched or on its way; one that is sent
\* back unlocks the page.
LEMMA MenuScrolls ==
  ASSUME PageScrollsAgain, UNCHANGED modalVars, NavVisitor \/ NavAnimation
  PROVE  PageScrollsAgain'
<1>1. modal' = modal
  BY DEF modalVars
<1>2. CASE NavVisitor
  BY <1>1, <1>2 DEF NavVisitor, ClickButton, ClickOverlay, ClickedOverlay, ClickDragTarget,
                    ClickItem, Pan, RemoveMenu, PageScrollsAgain
<1>3. CASE NavAnimation
  BY <1>1, <1>3 DEF NavAnimation, PanEnd, MenuOpened, OverlayRemoved, PageScrollsAgain
<1>. QED BY <1>2, <1>3

\* The image never locks the page.
LEMMA ImageScrolls ==
  ASSUME PageScrollsAgain, UNCHANGED <<modalVars, navVars>>,
         BoxVisitor \/ BoxAnimation \/ scrolling' = scrolling
  PROVE  PageScrollsAgain'
<1>1. ~scrolling' => ~scrolling
  BY DEF BoxVisitor, ClickImage, ClickBoxOverlay, ScrollPage, BoxAnimation, Enlarged, Returned
<1>. QED BY <1>1 DEF modalVars, navVars, PageScrollsAgain

OverlayInv == DialogInv /\ MenuInv /\ ImageInv /\ PageScrollsAgain

\* Nothing covers the page at the start.
LEMMA InitOverlayInv == Init => OverlayInv
  BY InitDialogInv, InitMenuInv, InitImageInv DEF Init, PageInit, OverlayInv, PageScrollsAgain

\* Dialogs, menu and image, one at a time or, by escape, two at once.
LEMMA OverlayStep ==
  ASSUME OverlayInv, OverlayVisitor \/ OverlayAnimation
  PROVE  OverlayInv'
<1>1. CASE (ModalVisitor \/ ExitModal) /\ UNCHANGED <<navVars, boxVars>>
  BY <1>1, DialogsKeep, MenuKeeps, ImageKeeps, DialogsScroll DEF OverlayInv
<1>2. CASE (NavVisitor \/ NavAnimation) /\ UNCHANGED <<modalVars, boxVars>>
  BY <1>2, DialogsKeep, MenuKeeps, ImageKeeps, MenuScrolls DEF OverlayInv
<1>3. CASE (BoxVisitor \/ BoxAnimation) /\ UNCHANGED <<modalVars, navVars>>
  BY <1>3, DialogsKeep, MenuKeeps, ImageKeeps, ImageScrolls DEF OverlayInv
<1>4. CASE Escape
  <2>1. UNCHANGED navVars /\ (BoxEscape \/ UNCHANGED boxVars)
    BY <1>4 DEF Escape
  <2>2. CASE CloseByEscape
    BY <2>1, <2>2, DialogsKeep, MenuKeeps, ImageKeeps, DialogsScroll DEF OverlayInv
  <2>3. CASE UNCHANGED <<scrolling, modalVars>>
    BY <2>1, <2>3, DialogsKeep, MenuKeeps, ImageKeeps, ImageScrolls DEF OverlayInv
  <2>. QED BY <1>4, <2>2, <2>3 DEF Escape
<1>. QED BY <1>1, <1>2, <1>3, <1>4 DEF OverlayVisitor, OverlayAnimation

\* The other widgets leave what covers the page alone.
LEMMA StepOverlayInv == OverlayInv /\ [Next]_vars => OverlayInv'
<1>. SUFFICES ASSUME OverlayInv, [Next]_vars PROVE OverlayInv'
  OBVIOUS
<1>1. CASE OverlayVisitor \/ OverlayAnimation
  BY <1>1, OverlayStep
<1>2. CASE scrolling' = scrolling /\ UNCHANGED overlayVars
  BY <1>2, DialogsKeep, MenuKeeps, ImageKeeps, ImageScrolls DEF overlayVars, OverlayInv
<1>3. CASE UNCHANGED vars
  BY <1>2, <1>3 DEF vars, pageVars
<1>4. CASE Next
  BY <1>1, <1>2, <1>4, OthersLeaveScrolling DEF Next, Only
<1>. QED BY <1>3, <1>4

\* Whatever the visitor opens, closes, drags and clicks, and however the animations
\* interleave with it: no overlay of a dialog stays, nor one of the menu that came to a
\* page without one, image and overlay come and go together, and a page that does not
\* scroll is covered by what will unlock it.
THEOREM NothingIsLeftOverThePage == Spec => []OverlaysAgree
<1>1. OverlayInv => OverlaysAgree
  BY DEF OverlayInv, DialogInv, MenuInv, ImageInv, OverlaysAgree, BoxAgrees
<1>. QED BY <1>1, InitOverlayInv, StepOverlayInv, PTL DEF Spec

-------------------------------------------------------------------------------
(***************************************************************************)
(* The accordion.  What a slide will do is known from the class of its     *)
(* header, and the page is never told that a body is open that is hidden.  *)
(***************************************************************************)
AccordionInv ==
  /\ activeHeaders = {} \/ \E h \in Headers : activeHeaders = {h}
  /\ slide \in [Headers -> {"none", "down", "up", "away"}]
  /\ bodyShown \in [Headers -> BOOLEAN] /\ told \in [Headers -> BOOLEAN]
  /\ \A h \in Headers :
       /\ h \in activeHeaders <=> slide[h] = "down" \/ (slide[h] = "none" /\ bodyShown[h])
       /\ told[h] => bodyShown[h]
       /\ slide[h] = "up" => ~told[h]
       /\ h \in activeHeaders => told[h]
       /\ slide[h] = "none" /\ bodyShown[h] => told[h]
       /\ slide[h] = "down" => bodyShown[h]

\* The header the page came with slides down.
LEMMA InitAccordionInv == Init => AccordionInv
<1>. SUFFICES ASSUME Init PROVE AccordionInv
  OBVIOUS
<1>1. activeHeaders = {} \/ \E h \in Headers : activeHeaders = {h}
  BY DEF Init, AccordionInit
<1>2. slide = [h \in Headers |-> IF h \in activeHeaders THEN "down" ELSE "none"]
      /\ bodyShown = [h \in Headers |-> h \in activeHeaders] /\ told = bodyShown
  BY DEF Init, AccordionInit
<1>3. bodyShown \in [Headers -> BOOLEAN]
  BY <1>2
<1>4. slide \in [Headers -> {"none", "down", "up", "away"}]
  BY <1>2
<1>5. ASSUME NEW h \in Headers
      PROVE  (bodyShown[h] <=> h \in activeHeaders)
             /\ slide[h] = IF h \in activeHeaders THEN "down" ELSE "none"
  BY <1>2
<1>. QED BY <1>1, <1>2, <1>3, <1>4, <1>5 DEF AccordionInv

\* A click turns what is active around, whatever slides at that moment.
LEMMA AccordionStep ==
  ASSUME AccordionInv,
         AccordionVisitor \/ AccordionAnimation \/ UNCHANGED accordionVars
  PROVE  AccordionInv'
<1>1. ASSUME NEW h \in Headers, CollapsibleOpen(h) PROVE AccordionInv'
  <2>1. activeHeaders' = {h} \ activeHeaders
        /\ bodyShown' = [bodyShown EXCEPT ![h] = TRUE]
        /\ slide' = [g \in Headers |->
                       CASE g = h -> IF h \in activeHeaders' THEN "down" ELSE "up"
                         [] g # h /\ bodyShown[g] -> "away"
                         [] OTHER -> "none"]
        /\ told' = [told EXCEPT ![h] = h \in activeHeaders']
    BY <1>1 DEF CollapsibleOpen
  <2>2. activeHeaders' = {} \/ activeHeaders' = {h}
    BY <2>1
  <2>3. slide' \in [Headers -> {"none", "down", "up", "away"}]
    BY <2>1
  <2>4. bodyShown' \in [Headers -> BOOLEAN] /\ told' \in [Headers -> BOOLEAN]
    BY <2>1 DEF AccordionInv
  <2>5. ASSUME NEW g \in Headers
        PROVE  /\ g \in activeHeaders' <=> slide'[g] = "down" \/ (slide'[g] = "none" /\ bodyShown'[g])
               /\ told'[g] => bodyShown'[g]
               /\ slide'[g] = "up" => ~told'[g]
               /\ g \in activeHeaders' => told'[g]
               /\ slide'[g] = "none" /\ bodyShown'[g] => told'[g]
               /\ slide'[g] = "down" => bodyShown'[g]
    <3>1. CASE g = h
      BY <2>1, <2>2, <3>1 DEF AccordionInv
    <3>2. CASE g # h
      <4>1. bodyShown'[g] = bodyShown[g] /\ told'[g] = told[g] /\ g \notin activeHeaders'
            /\ slide'[g] = IF bodyShown[g] THEN "away" ELSE "none"
        BY <2>1, <2>2, <3>2 DEF AccordionInv
      <4>. QED BY <4>1 DEF AccordionInv
    <3>. QED BY <3>1, <3>2
  <2>. QED BY <2>2, <2>3, <2>4, <2>5 DEF AccordionInv
<1>2. ASSUME NEW h \in Headers, SlideEnds(h) PROVE AccordionInv'
  <2>1. slide[h] # "none" /\ activeHeaders' = activeHeaders
        /\ slide' = [slide EXCEPT ![h] = "none"]
        /\ bodyShown' = [bodyShown EXCEPT ![h] = slide[h] = "down"]
        /\ told' = [told EXCEPT ![h] = IF slide[h] = "away" THEN h \in activeHeaders ELSE @]
    BY <1>2 DEF SlideEnds
  <2>2. ASSUME NEW g \in Headers
        PROVE  /\ g \in activeHeaders' <=> slide'[g] = "down" \/ (slide'[g] = "none" /\ bodyShown'[g])
               /\ told'[g] => bodyShown'[g]
               /\ slide'[g] = "up" => ~told'[g]
               /\ g \in activeHeaders' => told'[g]
               /\ slide'[g] = "none" /\ bodyShown'[g] => told'[g]
               /\ slide'[g] = "down" => bodyShown'[g]
    <3>1. CASE g = h
      <4>1. slide'[h] = "none" /\ (bodyShown'[h] <=> slide[h] = "down")
            /\ (told'[h] <=> IF slide[h] = "away" THEN h \in activeHeaders ELSE told[h])
        BY <2>1 DEF AccordionInv
      <4>. QED BY <2>1, <3>1, <4>1 DEF AccordionInv
    <3>2. CASE g # h
      <4>1. slide'[g] = slide[g] /\ bodyShown'[g] = bodyShown[g] /\ told'[g] = told[g]
        BY <2>1, <3>2 DEF AccordionInv
      <4>. QED BY <2>1, <4>1 DEF AccordionInv
    <3>. QED BY <3>1, <3>2
  <2>3. slide' \in [Headers -> {"none", "down", "up", "away"}]
    BY <2>1 DEF AccordionInv
  <2>4. bodyShown' \in [Headers -> BOOLEAN]
    BY <2>1 DEF AccordionInv
  <2>5. slide[h] = "away" => (h \in activeHeaders) = FALSE
    BY DEF AccordionInv
  <2>6. told' \in [Headers -> BOOLEAN]
    <3>1. CASE slide[h] = "away"
      <4>1. told' = [told EXCEPT ![h] = FALSE]
        BY <2>1, <2>5, <3>1
      <4>. QED BY <4>1 DEF AccordionInv
    <3>2. CASE slide[h] # "away"
      <4>1. told' = [told EXCEPT ![h] = told[h]]
        BY <2>1, <3>2
      <4>. QED BY <4>1 DEF AccordionInv
    <3>. QED BY <3>1, <3>2
  <2>. QED BY <2>1, <2>2, <2>3, <2>4, <2>6 DEF AccordionInv
<1>3. CASE UNCHANGED accordionVars
  BY <1>3 DEF accordionVars, AccordionInv
<1>. QED BY <1>1, <1>2, <1>3
         DEF AccordionVisitor, AccordionAnimation, ClickHeader, CloseHeader

\* The strengthening says what the run checks.
LEMMA AccordionInvAgrees == AccordionInv => AccordionAgrees
  BY FS_EmptySet, FS_Singleton DEF AccordionInv, AccordionAgrees

(***************************************************************************)
(* The dropdown.                                                           *)
(***************************************************************************)
DropdownInv ==
  /\ menuActive \in BOOLEAN /\ isFocused \in BOOLEAN
  /\ menuShown \in {"hidden", "shown", "fading"}
  /\ binders \in Nat /\ closers \in Nat
  /\ DropdownCanBeClosed

\* The menu is closed at the start.
LEMMA InitDropdownInv == Init => DropdownInv
<1>. SUFFICES ASSUME Init PROVE DropdownInv
  OBVIOUS
<1>1. ~menuActive /\ ~isFocused /\ menuShown # "shown"
  BY DEF Init, DropdownInit
<1>. QED BY <1>1 DEF Init, DropdownInit, DropdownInv, DropdownCanBeClosed

\* A timer that ends turns a handler to be bound into one that is.
LEMMA DropdownStep ==
  ASSUME DropdownInv, DropdownVisitor \/ DropdownTimers \/ UNCHANGED dropdownVars
  PROVE  DropdownInv'
<1>1. ASSUME NEW byFocus \in BOOLEAN, PlaceDropdown(byFocus) PROVE DropdownInv'
  BY <1>1 DEF PlaceDropdown, DropdownInv, DropdownCanBeClosed
<1>2. CASE HideDropdown
  BY <1>2 DEF HideDropdown, Fade, DropdownInv, DropdownCanBeClosed
<1>3. CASE PlacedAndHidden
  <2>1. ~menuActive' /\ ~isFocused' /\ menuShown' # "shown"
    BY <1>3 DEF PlacedAndHidden
  <2>2. menuActive' \in BOOLEAN /\ isFocused' \in BOOLEAN /\ menuShown' = "fading"
    BY <1>3 DEF PlacedAndHidden
  <2>3. binders' \in Nat /\ closers' \in Nat
    BY <1>3 DEF PlacedAndHidden, DropdownInv
  <2>. QED BY <2>1, <2>2, <2>3 DEF DropdownInv, DropdownCanBeClosed
<1>4. CASE DropdownTimers
  BY <1>4 DEF DropdownTimers, BindDocument, FadedOut, DropdownInv, DropdownCanBeClosed
<1>5. CASE UNCHANGED dropdownVars
  BY <1>5 DEF dropdownVars, DropdownInv, DropdownCanBeClosed
<1>. QED BY <1>1, <1>2, <1>3, <1>4, <1>5
         DEF DropdownVisitor, ClickOrigin, ClickDocument, EnterOrigin, LeaveDropdown,
             OpenDropdown, CloseDropdown

(***************************************************************************)
(* The tooltip: what a visit leaves behind is only what its timer clears.  *)
(***************************************************************************)
TipInv ==
  /\ leavers \in Nat
  /\ waiting => over
  /\ started => over
  /\ TipIsTakenBack

\* No tooltip is there at the start.
LEMMA InitTipInv == Init => TipInv
  BY DEF Init, HintInit, TipInv, TipIsTakenBack

\* While the pointer is away nothing is started, so that the timer which looks for it
\* sends the tooltip back.
LEMMA TipStep ==
  ASSUME TipInv, HintVisitor \/ HintTimers \/ UNCHANGED hintVars
  PROVE  TipInv'
<1>1. CASE UNCHANGED tipVars
  BY <1>1 DEF tipVars, TipInv, TipIsTakenBack
<1>2. CASE EnterTip \/ LeaveTip
  BY <1>2 DEF EnterTip, LeaveTip, TipInv, TipIsTakenBack
<1>3. CASE ShowTooltip \/ AnimateBack \/ TipHidden
  BY <1>3 DEF ShowTooltip, AnimateBack, TipHidden, TipInv, TipIsTakenBack
<1>. QED BY <1>1, <1>2, <1>3 DEF HintVisitor, HintTimers, hintVars, ShowToast, PanToast, Count,
                                 PanToastEnd, ToastOut

(***************************************************************************)
(* The slider: every movement takes one slide away and brings one.         *)
(***************************************************************************)
SliderInv ==
  /\ \E s \in Slides : activeSlides = {s}
  /\ indicators = {} \/ indicators = activeSlides
  /\ intervals = 0 => stopped \/ panned

\* One slide is active at the start.
LEMMA InitSliderInv == Init => SliderInv
<1>. SUFFICES ASSUME Init PROVE SliderInv
  OBVIOUS
<1>1. 0 \in Slides
  BY SlidesAssumption DEF Slides
<1>2. intervals # 0
  BY DEF Init, SliderInit
<1>. QED BY <1>1, <1>2 DEF Init, SliderInit, SliderInv

\* One slide is shown after a movement, wherever it goes.
LEMMA MoveKeepsOne ==
  ASSUME SliderInv, NEW index \in Int, MoveToSlide(index)
  PROVE  /\ \E s \in Slides : activeSlides' = {s}
         /\ indicators' = {} \/ indicators' = activeSlides'
<1>1. PICK s \in Slides : activeSlides = {s}
  BY DEF SliderInv
<1>2. s \in Int
  BY <1>1, SlidesAssumption DEF Slides
<1>3. ActiveIndex = s
  BY <1>1, <1>2 DEF ActiveIndex
<1>. DEFINE to == CASE index >= SlideCount -> 0
                    [] index < 0 -> SlideCount - 1
                    [] OTHER -> index
<1>4. to \in Slides
  BY SlidesAssumption DEF Slides
<1>5. CASE to = s
  BY <1>1, <1>3, <1>5 DEF MoveToSlide, SliderInv
<1>6. CASE to # s
  <2>1. activeSlides' = (activeSlides \ {s}) \cup {to}
        /\ indicators' = (indicators \ {s}) \cup {to}
    BY <1>3, <1>6 DEF MoveToSlide
  <2>. HIDE DEF to
  <2>2. activeSlides' = {to} /\ indicators' = {to}
    BY <1>1, <2>1 DEF SliderInv
  <2>. QED BY <1>4, <2>2
<1>. QED BY <1>5, <1>6

\* The interval only stops for a touch or the method pause.
LEMMA SliderStep ==
  ASSUME SliderInv, SliderVisitor \/ SliderTouch \/ UNCHANGED sliderVars
  PROVE  SliderInv'
<1>1. ActiveIndex \in Int /\ Slides \subseteq Int
  <2>1. PICK s \in Slides : activeSlides = {s}
    BY DEF SliderInv
  <2>2. s \in Int /\ Slides \subseteq Int
    BY <2>1, SlidesAssumption DEF Slides
  <2>. QED BY <2>1, <2>2 DEF ActiveIndex
<1>2. CASE UNCHANGED <<activeSlides, indicators>>
  <2>1. intervals' = 0 => stopped' \/ panned'
    BY DEF SliderInv, SliderVisitor, SliderTouch, sliderVars, AutoScroll, PanSlide, PauseSlider,
           StartSlider, StepSlider, ClickIndicator, PanSlideEnd, PanSlideCancelled, Restart
  <2>. QED BY <1>2, <2>1 DEF SliderInv
<1>3. ASSUME NEW index \in Int, MoveToSlide(index),
             (intervals' = intervals /\ stopped' = stopped /\ panned' = panned) \/ Restart
      PROVE  SliderInv'
  <2>1. intervals' = 0 => stopped' \/ panned'
    BY <1>3 DEF Restart, SliderInv
  <2>. QED BY <1>3, <2>1, MoveKeepsOne DEF SliderInv
<1>4. ActiveIndex + 1 \in Int /\ ActiveIndex - 1 \in Int /\ ActiveIndex + -1 \in Int
  BY <1>1
<1>5. CASE AutoScroll \/ StepSlider \/ \E s \in Slides : ClickIndicator(s)
  BY <1>1, <1>3, <1>4, <1>5 DEF AutoScroll, StepSlider, ClickIndicator
<1>6. CASE PanSlideEnd
  BY <1>2, <1>3, <1>4, <1>6 DEF PanSlideEnd
<1>7. CASE PanSlide \/ PauseSlider \/ StartSlider \/ PanSlideCancelled \/ UNCHANGED sliderVars
  BY <1>2, <1>7 DEF PanSlide, PauseSlider, StartSlider, PanSlideCancelled, sliderVars
<1>. QED BY <1>5, <1>6, <1>7 DEF SliderVisitor, SliderTouch

\* The strengthening says what the run checks.
LEMMA SliderInvAgrees == SliderInv => SliderAgrees
  BY FS_Singleton DEF SliderInv, SliderAgrees

(***************************************************************************)
(* Arithmetic of the carousel: places, items and going around.             *)
(***************************************************************************)

\* A multiple of the distance is the place of an item.
LEMMA PlaceOfItem ==
  ASSUME NEW k \in Int
  PROVE  Round(Dim * k) = k /\ (Dim * k) % Dim = 0 /\ Dim * k \in Int
<1>1. PICK n \in Nat \ {0} : n = 2 * Dim
  BY CarouselAssumption
<1>2. Dim \in 0..(n - 1) /\ Dim \in Nat \ {0}
  BY <1>1, CarouselAssumption
<1>3. 2 * (Dim * k) + Dim = n * k + Dim
  BY <1>1, <1>2
<1>4. Round(Dim * k) = k
  BY <1>1, <1>2, <1>3, DividedInto DEF Round
<1>5. (Dim * k + 0) % Dim = 0
  BY <1>2, DividedInto
<1>. QED BY <1>2, <1>4, <1>5

\* What is rounded is a number.
LEMMA RoundType ==
  ASSUME NEW x \in Int
  PROVE  Round(x) \in Int
<1>1. 2 * x + Dim \in Int /\ 2 * Dim \in Nat \ {0}
  BY CarouselAssumption
<1>. QED BY <1>1, Divided DEF Round

\* Going around changes no item.
LEMMA WrapAround ==
  ASSUME NEW q \in Int, NEW n \in Int
  PROVE  Wrap(ItemCount * q + n) = Wrap(n)
<1>1. PICK count \in Nat \ {0} : count = ItemCount
  BY CarouselAssumption
<1>2. PICK p \in Int, r \in 0..(count - 1) : p = n \div count /\ r = n % count
                                            /\ n = count * p + r
  BY Divided
<1>3. count * q + n = count * (q + p) + r
  BY <1>2
<1>4. PICK k \in Int : k = q + p
  OBVIOUS
<1>5. (count * k + r) % count = r
  BY DividedInto
<1>6. (count * q + n) % count = r
  BY <1>3, <1>4, <1>5
<1>. QED BY <1>1, <1>2, <1>6 DEF Wrap

\* The remainder is the centre but for some times around.
LEMMA RemainderIsAround ==
  ASSUME center \in Int
  PROVE  Remainder \in Int /\ \E q \in Int : center = ItemCount * q + Remainder
<1>1. PICK c \in Int : c = center
  OBVIOUS
<1>2. PICK n \in Nat \ {0} : n = ItemCount
  BY CarouselAssumption
<1>3. CASE c >= 0
  <2>1. Remainder = c % n
    BY <1>1, <1>2, <1>3 DEF Remainder
  <2>2. c = n * (c \div n) + (c % n) /\ c % n \in Int /\ c \div n \in Int
    BY Divided
  <2>3. PICK q \in Int, r \in Int : r = c % n /\ c = n * q + r
    BY <2>2
  <2>. QED BY <1>1, <1>2, <2>1, <2>3
<1>4. CASE ~(c >= 0)
  <2>1. Remainder = -((-c) % n)
    BY <1>1, <1>2, <1>4 DEF Remainder
  <2>2. PICK b \in Int : b = -c
    OBVIOUS
  <2>3. b = n * (b \div n) + (b % n) /\ b % n \in Int /\ b \div n \in Int
    BY Divided
  <2>4. PICK q \in Int, r \in Int : r = b % n /\ b = n * q + r
    BY <2>3
  <2>5. c = n * (-q) + (-r) /\ -q \in Int /\ -r \in Int
    BY <2>2, <2>4
  <2>6. Remainder = -r
    BY <2>1, <2>2, <2>4
  <2>. QED BY <1>1, <1>2, <2>5, <2>6
<1>. QED BY <1>3, <1>4

\* cycleTo goes back to the item, whichever way around, and to the last one for a click
\* that was on no item.
LEMMA CycleArrives ==
  ASSUME center \in Int, NEW n \in Int
  PROVE  Diff(n) \in Int /\ Wrap(center + -Diff(n)) = Wrap(n)
<1>1. PICK q \in Int, r \in Int : r = Remainder /\ center = ItemCount * q + r
  BY RemainderIsAround
<1>2. ItemCount \in Nat \ {0}
  BY CarouselAssumption
<1>3. PICK k \in {-1, 0, 1} : Diff(n) = r - n + ItemCount * k
  <2>1. Diff(n) \in {r - n, r - n + ItemCount, r - n - ItemCount}
    BY <1>1 DEF Diff
  <2>. QED BY <1>1, <1>2, <2>1
<1>4. Diff(n) \in Int
  BY <1>1, <1>2, <1>3
<1>5. center + -Diff(n) = ItemCount * (q - k) + n
  <2>1. ItemCount * (q - k) = ItemCount * q - ItemCount * k
    BY <1>2
  <2>. QED BY <1>1, <1>2, <1>3, <2>1
<1>. QED BY <1>4, <1>5, WrapAround

(***************************************************************************)
(* The carousel: frames bring it to a target that is the place of an item, *)
(* the one that was requested if the request was not missed.               *)
(***************************************************************************)
CarouselTypes ==
  /\ layout \in {"items", "full", "padded"}
  /\ offset \in Int /\ center \in Int /\ target \in Int /\ lag \in Int

Meant(k) == requested \in {Nothing, Wrap(k)} \/ missed # "nothing"

CarouselInv ==
  /\ CarouselTypes
  /\ cycled = Wrap(center)
  /\ ~shifted => center = Round(offset)
  /\ lag = 0 /\ ~pressed => offset = target
  /\ ~shifted => \E k \in Int : target = Dim * k /\ Meant(k)

\* A request is noted as missed if it is not for the item at the target.
LEMMA RequestedIsMeant ==
  ASSUME NEW k \in Int, target' = Dim * k, NEW n, NEW how, how # "nothing", Requested(n, how)
  PROVE  Meant(k)'
<1>1. Round(target') = k
  BY PlaceOfItem
<1>. QED BY <1>1 DEF Requested, Meant, Wrap

\* A request that is for another item than the one in the centre starts the frames.
LEMMA StepStarts ==
  ASSUME CarouselInv, NEW n \in Int, n # 0, Step(n),
         UNCHANGED <<layout, offset, center, pressed, cycled, shifted>>,
         ~shifted => requested' = Wrap(center + n)
  PROVE  CarouselInv'
<1>1. PICK r \in Int : r = Round(offset)
  BY RoundType DEF CarouselInv, CarouselTypes
<1>2. target' = Dim * (r + n) /\ target' \in Int /\ Round(target') = r + n
  BY <1>1, PlaceOfItem DEF Step
<1>3. offset # target'
  BY <1>1, <1>2
<1>4. lag' = target' - offset /\ lag' \in Int /\ lag' # 0
  BY <1>2, <1>3 DEF Step, CarouselInv, CarouselTypes
<1>5. ~shifted => \E k \in Int : target' = Dim * k /\ Meant(k)'
  <2>1. ~shifted => requested' = Wrap(r + n)
    BY <1>1 DEF CarouselInv
  <2>. QED BY <1>1, <1>2, <2>1 DEF Meant, Wrap
<1>. QED BY <1>2, <1>4, <1>5 DEF CarouselInv, CarouselTypes, Wrap, Round

\* onCycleTo is called whenever another item comes to the centre.
LEMMA ScrollTells ==
  ASSUME CarouselInv, NEW x \in Int, Scroll(x)
  PROVE  offset' = x /\ center' = Round(x) /\ center' \in Int /\ cycled' = Wrap(center')
<1>1. offset' = x /\ center' = Round(x) /\ cycled' = IF center' # center THEN Wrap(center') ELSE cycled
  BY DEF Scroll
<1>2. cycled' = Wrap(center')
  BY <1>1 DEF CarouselInv
<1>. QED BY <1>1, <1>2, RoundType

\* A resizing leaves an item in its place but for the padding.
LEMMA ResizedPlace ==
  ASSUME CarouselInv, ~shifted, layout # "padded"
  PROVE  Resized \in Int /\ Round(Resized) = center
<1>1. CASE layout = "items"
  BY <1>1 DEF Resized, CarouselInv, CarouselTypes
<1>2. CASE layout = "full"
  BY <1>2, PlaceOfItem DEF Resized, CarouselInv, CarouselTypes
<1>. QED BY <1>1, <1>2 DEF CarouselInv, CarouselTypes

\* Wherever it is put, that is a number.
LEMMA ResizedType ==
  ASSUME CarouselInv
  PROVE  Resized \in Int
<1>1. Dim \in Int /\ Dim - Padding \in Int /\ center \in Int /\ offset \in Int
  BY CarouselAssumption DEF CarouselInv, CarouselTypes
<1>2. Dim * center \in Int /\ (Dim - Padding) * center \in Int
  BY <1>1
<1>. QED BY <1>1, <1>2 DEF Resized, CarouselInv, CarouselTypes

\* The resized window: the target is where the line is put.
LEMMA ResizeKeeps ==
  ASSUME CarouselInv, ResizeCarousel
  PROVE  CarouselInv'
<1>1. UNCHANGED <<layout, lag, pressed>>
  BY DEF ResizeCarousel
<1>2. CASE layout = "items"
  <2>1. Scroll(offset) /\ UNCHANGED <<target, requested, missed>> /\ (~shifted' => ~shifted)
    <3>1. Scroll(offset) /\ UNCHANGED <<target, requested, missed>>
      BY <1>2 DEF ResizeCarousel
    <3>2. shifted' = (shifted \/ layout = "padded")
      BY Zenon DEF ResizeCarousel
    <3>3. ~shifted' => ~shifted
      BY <3>2, Zenon
    <3>. QED BY <3>1, <3>3
  <2>2. offset' = offset /\ center' = Round(offset) /\ center' \in Int /\ cycled' = Wrap(center')
    BY <2>1, ScrollTells DEF CarouselInv, CarouselTypes
  <2>. QED BY <1>1, <2>1, <2>2 DEF CarouselInv, CarouselTypes, Meant, Wrap, Round
<1>3. CASE layout # "items"
  <2>1. /\ offset' = Resized /\ target' = offset' /\ Requested(requested, "motion")
        /\ UNCHANGED <<center, cycled>>
        /\ shifted' = (shifted \/ layout = "padded")
    BY <1>3 DEF ResizeCarousel
  <2>2. offset' \in Int
    BY <2>1, ResizedType
  <2>3. ~shifted' => center' = Round(offset')
    BY <2>1, ResizedPlace
  <2>4. ASSUME ~shifted' PROVE \E k \in Int : target' = Dim * k /\ Meant(k)'
    <3>1. center \in Int /\ target' = Dim * center
      BY <1>3, <2>1, <2>4 DEF Resized, CarouselInv, CarouselTypes
    <3>. QED BY <2>1, <3>1, RequestedIsMeant
  <2>5. cycled' = Wrap(center')
    BY <2>1 DEF CarouselInv, Wrap
  <2>. QED BY <1>1, <2>1, <2>2, <2>3, <2>4, <2>5 DEF CarouselInv, CarouselTypes, Round
<1>. QED BY <1>2, <1>3

\* The plugin called again: the same, and the target is the nearest place.
LEMMA RedrawKeeps ==
  ASSUME CarouselInv, Redraw
  PROVE  CarouselInv'
<1>1. /\ UNCHANGED <<layout, pressed>> /\ target' = Dim * Round(offset') /\ lag' = target' - offset'
      /\ Requested(requested, "motion") /\ shifted' = (shifted \/ layout = "padded")
  BY DEF Redraw
<1>2. /\ offset' \in Int /\ center' \in Int /\ cycled' = Wrap(center')
      /\ ~shifted' => center' = Round(offset')
  <2>1. CASE layout = "items"
    <3>1. Scroll(offset)
      BY <2>1 DEF Redraw
    <3>2. offset' = offset /\ center' = Round(offset) /\ center' \in Int /\ cycled' = Wrap(center')
      BY <3>1, ScrollTells DEF CarouselInv, CarouselTypes
    <3>. QED BY <3>2 DEF CarouselInv, CarouselTypes
  <2>2. CASE layout # "items"
    <3>1. offset' = Resized /\ UNCHANGED <<center, cycled>>
      BY <2>2 DEF Redraw
    <3>2. cycled' = Wrap(center') /\ center' \in Int
      BY <3>1 DEF CarouselInv, CarouselTypes, Wrap
    <3>. QED BY <1>1, <3>1, <3>2, ResizedType, ResizedPlace
  <2>. QED BY <2>1, <2>2
<1>3. PICK r \in Int : r = Round(offset')
  BY <1>2, RoundType
<1>4. target' = Dim * r /\ target' \in Int
  BY <1>1, <1>3, PlaceOfItem
<1>5. Meant(r)'
  BY <1>1, <1>4, RequestedIsMeant
<1>6. lag' \in Int /\ (lag' = 0 => offset' = target')
  <2>1. PICK x \in Int, y \in Int : x = offset' /\ y = target'
    BY <1>2, <1>4
  <2>2. y - x \in Int /\ (y - x = 0 => x = y)
    OBVIOUS
  <2>. QED BY <1>1, <2>1, <2>2
<1>. QED BY <1>1, <1>2, <1>4, <1>5, <1>6 DEF CarouselInv, CarouselTypes, Round

\* A gesture, a click or a method sets the target, frames and releases bring it on.
LEMMA CarouselStep ==
  ASSUME CarouselInv, CarouselVisitor \/ CarouselFrames \/ UNCHANGED carouselVars
  PROVE  CarouselInv'
<1>1. PICK c \in Int : c = Round(offset)
  BY RoundType DEF CarouselInv, CarouselTypes
<1>2. Dim \in Nat \ {0} /\ ItemCount \in Nat \ {0}
  BY CarouselAssumption
<1>3. CASE UNCHANGED carouselVars
  BY <1>3 DEF carouselVars, CarouselInv, CarouselTypes, Meant, Round, Wrap
<1>4. ASSUME NEW n \in Int, CycleTo(n) PROVE CarouselInv'
  <2>1. PICK d \in Int : d = Diff(n) /\ Wrap(center + -d) = Wrap(n)
    BY CycleArrives DEF CarouselInv, CarouselTypes
  <2>2. UNCHANGED <<layout, offset, center, pressed, cycled, shifted>>
    BY <1>4 DEF CycleTo
  <2>3. CASE d = 0
    <3>1. UNCHANGED <<target, lag>> /\ Requested(Wrap(n), "request")
      BY <1>4, <2>1, <2>3 DEF CycleTo
    <3>2. \A k \in Int : target' = Dim * k => Meant(k)'
      BY <3>1, RequestedIsMeant
    <3>. QED BY <2>2, <3>1, <3>2 DEF CarouselInv, CarouselTypes, Round, Wrap
  <2>4. CASE d # 0
    <3>1. Step(-d) /\ requested' = Wrap(n) /\ -d \in Int /\ -d # 0
      BY <1>4, <2>1, <2>4 DEF CycleTo
    <3>. QED BY <2>1, <2>2, <3>1, StepStarts
  <2>. QED BY <2>3, <2>4
<1>5. ASSUME NextItem PROVE CarouselInv'
  <2>1. PICK n \in {1, -1} : Step(n) /\ requested' = Wrap(Round(offset) + n)
    BY <1>5 DEF NextItem
  <2>2. n \in Int /\ n # 0 /\ UNCHANGED <<layout, offset, center, pressed, cycled, shifted>>
    BY <1>5 DEF NextItem
  <2>. QED BY <2>1, <2>2, StepStarts DEF CarouselInv
<1>6. ASSUME Tap PROVE CarouselInv'
  BY <1>6 DEF Tap, CarouselInv, CarouselTypes, Meant, Round, Wrap
<1>7. ASSUME Drag PROVE CarouselInv'
  <2>1. PICK way \in {1, -1} : Scroll(offset + way * ((Dim + 1) \div 2))
    BY <1>7 DEF Drag
  <2>2. PICK half \in Int : half = (Dim + 1) \div 2
    BY <1>2
  <2>3. offset + way * half \in Int
    BY <2>2 DEF CarouselInv, CarouselTypes
  <2>4. offset' \in Int /\ center' = Round(offset') /\ center' \in Int /\ cycled' = Wrap(center')
    BY <2>1, <2>2, <2>3, ScrollTells
  <2>5. pressed /\ UNCHANGED <<layout, target, lag, pressed, requested, missed, shifted>>
    BY <1>7 DEF Drag
  <2>. QED BY <2>4, <2>5 DEF CarouselInv, CarouselTypes, Meant, Wrap
<1>8. ASSUME Release PROVE CarouselInv'
  <2>1. PICK further \in {-1, 0, 1} :
          LET rounded == Dim * (Round(offset) + further)
          IN  target' = CASE NoWrap /\ rounded >= Dim * (ItemCount - 1) -> Dim * (ItemCount - 1)
                          [] NoWrap /\ rounded < 0 -> 0
                          [] OTHER -> rounded
    BY <1>8 DEF Release
  <2>2. \E k \in Int : target' = Dim * k
    <3>1. target' \in {Dim * (ItemCount - 1), Dim * 0, Dim * (c + further)}
      BY <1>1, <1>2, <2>1
    <3>2. ItemCount - 1 \in Int /\ c + further \in Int
      BY <1>2
    <3>. QED BY <3>1, <3>2
  <2>3. PICK k \in Int : target' = Dim * k
    BY <2>2
  <2>4. target' \in Int
    BY <1>2, <2>3
  <2>5. lag' = target' - offset /\ requested' = Nothing
        /\ UNCHANGED <<layout, offset, center, cycled, shifted>>
    BY <1>8 DEF Release
  <2>6. lag' = 0 => offset' = target'
    <3>1. PICK x \in Int, y \in Int : x = offset /\ y = target'
      BY <2>4 DEF CarouselInv, CarouselTypes
    <3>2. y - x = 0 => x = y
      OBVIOUS
    <3>. QED BY <2>5, <3>1, <3>2
  <2>7. cycled' = Wrap(center') /\ (~shifted' => center' = Round(offset'))
    BY <2>5 DEF CarouselInv, Round, Wrap
  <2>8. CarouselTypes'
    BY <2>4, <2>5 DEF CarouselInv, CarouselTypes
  <2>9. Meant(k)'
    BY <2>5 DEF Meant
  <2>. QED BY <2>3, <2>6, <2>7, <2>8, <2>9 DEF CarouselInv
<1>9. ASSUME AutoScrolls PROVE CarouselInv'
  <2>1. lag # 0 /\ lag' \in Int /\ Scroll(target - lag')
    BY <1>9 DEF AutoScrolls, CarouselInv, CarouselTypes
  <2>2. UNCHANGED <<layout, target, pressed, requested, missed, shifted>>
    BY <1>9 DEF AutoScrolls
  <2>3. offset' = target - lag' /\ offset' \in Int /\ center' = Round(offset')
        /\ center' \in Int /\ cycled' = Wrap(center')
    BY <2>1, ScrollTells DEF CarouselInv, CarouselTypes
  <2>4. lag' = 0 => offset' = target
    BY <2>3 DEF CarouselInv, CarouselTypes
  <2>. QED BY <2>1, <2>2, <2>3, <2>4 DEF CarouselInv, CarouselTypes, Meant, Wrap
<1>10. NoItem \in Int /\ Items \subseteq Int
  BY DEF NoItem, Items
<1>. QED BY <1>3, <1>4, <1>5, <1>6, <1>7, <1>8, <1>9, <1>10, ResizeKeeps, RedrawKeeps
         DEF CarouselVisitor, CarouselFrames

\* The strengthening says what the run checks.
LEMMA CarouselInvAgrees == CarouselInv => CarouselAgrees
<1>. SUFFICES ASSUME CarouselInv, AtRest
              PROVE  /\ offset % Dim = 0
                     /\ requested \in {Nothing, Wrap(Round(offset))} \/ missed # "nothing"
  BY DEF CarouselInv, CarouselAgrees
<1>1. PICK k \in Int : offset = Dim * k /\ Meant(k)
  BY DEF CarouselInv, AtRest
<1>. QED BY <1>1, PlaceOfItem DEF Meant

\* It lies on its first item at the start.
LEMMA InitCarouselInv == Init => CarouselInv
<1>. SUFFICES ASSUME Init PROVE CarouselInv
  OBVIOUS
<1>1. /\ offset = 0 /\ center = 0 /\ target = 0 /\ lag = 0 /\ cycled = 0 /\ requested = Nothing
      /\ layout \in {"items", "full", "padded"}
  BY DEF Init, CarouselInit
<1>2. Dim * 0 = 0 /\ ItemCount \in Nat \ {0} /\ ItemCount * 0 + 0 = 0 /\ 0 \in 0..(ItemCount - 1)
  BY CarouselAssumption
<1>3. Round(0) = 0
  BY <1>2, PlaceOfItem
<1>4. Wrap(0) = 0
  BY <1>2, DividedInto DEF Wrap
<1>5. target = Dim * 0 /\ Meant(0)
  BY <1>1, <1>2 DEF Meant
<1>. QED BY <1>1, <1>3, <1>4, <1>5 DEF CarouselInv, CarouselTypes

-------------------------------------------------------------------------------

ControlInv == AccordionInv /\ DropdownInv /\ TipInv /\ SliderInv /\ CarouselInv

\* At the start every control agrees with itself.
LEMMA InitControlInv == Init => ControlInv
  BY InitAccordionInv, InitDropdownInv, InitTipInv, InitSliderInv, InitCarouselInv DEF ControlInv

\* Each control is changed by its own steps only.
LEMMA StepControlInv == ControlInv /\ [Next]_vars => ControlInv'
<1>. SUFFICES ASSUME ControlInv, [Next]_vars PROVE ControlInv'
  OBVIOUS
<1>1. AccordionVisitor \/ AccordionAnimation \/ UNCHANGED accordionVars
  BY DEF Next, Only, vars
<1>2. DropdownVisitor \/ DropdownTimers \/ UNCHANGED dropdownVars
  BY DEF Next, Only, vars
<1>3. HintVisitor \/ HintTimers \/ UNCHANGED hintVars
  BY DEF Next, Only, vars
<1>4. SliderVisitor \/ SliderTouch \/ UNCHANGED sliderVars
  BY DEF Next, Only, vars
<1>5. CarouselVisitor \/ CarouselFrames \/ UNCHANGED carouselVars
  BY DEF Next, Only, vars
<1>. QED BY <1>1, <1>2, <1>3, <1>4, <1>5, AccordionStep, DropdownStep, TipStep, SliderStep,
            CarouselStep DEF ControlInv

\* What a control shows, what it remembers and what it told the page agree, however
\* clicks, touches, timers, slides and frames interleave: no callback of the accordion
\* is lost, a menu that is shown can be closed, no tooltip is left behind, the slider
\* shows one slide, and the carousel rests on the item it was asked for last.
THEOREM ControlsTellTheTruth == Spec => []ControlsAgree
<1>1. ControlInv => ControlsAgree
  BY AccordionInvAgrees, SliderInvAgrees, CarouselInvAgrees
     DEF ControlInv, ControlsAgree, DropdownInv, TipInv
<1>. QED BY <1>1, InitControlInv, StepControlInv, PTL DEF Spec

-------------------------------------------------------------------------------
(***************************************************************************)
(* Sequences and sets of the inputs.                                       *)
(***************************************************************************)

\* A set of numbers has as many places as members, each with one of them.
LEMMA InOrderHasAll ==
  ASSUME NEW S \in SUBSET Int, IsFiniteSet(S)
  PROVE  /\ InOrder(S) \in Seq(S)
         /\ IsInjective(InOrder(S))
         /\ ToSet(InOrder(S)) = S
<1>. DEFINE Upto(x) == {k \in S : k <= x}
            rank == [x \in S |-> Cardinality(Upto(x))]
<1>1. PICK n \in Nat : n = Cardinality(S)
  BY FS_CardinalityType
<1>2. ASSUME NEW x \in S
      PROVE  IsFiniteSet(Upto(x)) /\ rank[x] \in 1..n
  <2>1. Upto(x) \in SUBSET S /\ x \in Upto(x)
    OBVIOUS
  <2>2. IsFiniteSet(Upto(x)) /\ Cardinality(Upto(x)) <= n
    BY <1>1, <2>1, FS_Subset
  <2>3. Cardinality(Upto(x)) \in Nat /\ Cardinality(Upto(x)) # 0
    BY <2>1, <2>2, FS_CardinalityType, FS_EmptySet
  <2>. QED BY <2>2, <2>3
<1>3. ASSUME NEW x \in S, NEW y \in S, x < y PROVE rank[x] # rank[y]
  <2>1. Upto(x) \in SUBSET Upto(y) /\ Upto(x) # Upto(y)
    <3>1. y \in Upto(y) /\ y \notin Upto(x)
      BY <1>3
    <3>2. \A k \in Int : k <= x => k <= y
      BY <1>3
    <3>3. Upto(x) \subseteq Upto(y)
      BY <3>2
    <3>. QED BY <3>1, <3>3
  <2>2. IsFiniteSet(Upto(y))
    BY <1>2
  <2>3. Cardinality(Upto(x)) # Cardinality(Upto(y))
    <3>. HIDE DEF Upto
    <3>. QED BY <2>1, <2>2, FS_Subset
  <2>. QED BY <2>3
<1>4. ASSUME NEW x \in S, NEW y \in S, rank[x] = rank[y] PROVE x = y
  <2>1. ~(x < y) /\ ~(y < x) /\ x \in Int /\ y \in Int
    BY <1>3, <1>4
  <2>. QED BY <2>1
<1>5. rank \in Injection(S, 1..n)
  <2>1. rank \in [S -> 1..n]
    BY <1>2
  <2>. HIDE DEF rank
  <2>. QED BY <1>4, <2>1 DEF Injection, IsInjective
<1>6. IsFiniteSet(1..n) /\ Cardinality(1..n) = n
  BY FS_Interval
<1>7. rank \in Surjection(S, 1..n)
  <2>. HIDE DEF rank
  <2>. QED BY <1>1, <1>5, <1>6, FS_Injection
<1>8. \A i \in 1..n : \E x \in S : rank[x] = i
  <2>. HIDE DEF rank
  <2>. QED BY <1>7 DEF Surjection
<1>9. ASSUME NEW i \in 1..n
      PROVE  InOrder(S)[i] \in S /\ rank[InOrder(S)[i]] = i
  <2>1. InOrder(S)[i] = CHOOSE x \in S : Cardinality({k \in S : k <= x}) = i
    BY <1>1 DEF InOrder
  <2>2. \E x \in S : Cardinality({k \in S : k <= x}) = i
    BY <1>8
  <2>. QED BY <2>1, <2>2
<1>10. InOrder(S) = [i \in 1..n |-> InOrder(S)[i]]
  BY <1>1 DEF InOrder
<1>. HIDE DEF rank
<1>11. InOrder(S) \in [1..n -> S]
  BY <1>9, <1>10
<1>12. InOrder(S) \in Seq(S)
  BY <1>11
<1>13. IsInjective(InOrder(S))
  BY <1>9, <1>11 DEF IsInjective
<1>14. S \subseteq ToSet(InOrder(S))
  <2>1. ASSUME NEW x \in S PROVE \E i \in 1..n : InOrder(S)[i] = x
    <3>1. rank[x] \in 1..n
      BY <1>2
    <3>2. rank[InOrder(S)[rank[x]]] = rank[x] /\ InOrder(S)[rank[x]] \in S
      BY <1>9, <3>1
    <3>. QED BY <1>4, <3>1, <3>2
  <2>. QED BY <1>11, <2>1 DEF ToSet
<1>. QED BY <1>11, <1>12, <1>13, <1>14 DEF ToSet

\* A set that is finite can be put into a sequence, each member once.
LEMMA SetToSeqHasAll ==
  ASSUME NEW S, IsFiniteSet(S)
  PROVE  SetToSeq(S) \in Seq(S) /\ IsInjective(SetToSeq(S))
<1>1. PICK n \in Nat : n = Cardinality(S)
  BY FS_CardinalityType
<1>2. PICK f : f \in Bijection(1..n, S)
  BY <1>1, FS_CardinalityType DEF ExistsBijection
<1>3. f \in [1..n -> S] /\ IsInjective(f)
  BY <1>2 DEF Bijection, Injection, IsInjective
<1>4. SetToSeq(S) \in [1..n -> S] /\ IsInjective(SetToSeq(S))
  BY <1>1, <1>3 DEF SetToSeq
<1>. QED BY <1>4

\* If all were different before, they are, and only the one removed is missing.
LEMMA RemovedOnce ==
  ASSUME NEW S, NEW s \in Seq(S), NEW i \in 1..Len(s), IsInjective(s)
  PROVE  IsInjective(RemoveAt(s, i)) /\ ToSet(RemoveAt(s, i)) = ToSet(s) \ {s[i]}
<1>1. PICK n \in Nat : n = Len(s)
  OBVIOUS
<1>2. PICK r \in Seq(S) : r = RemoveAt(s, i)
  BY Removed
<1>3. Len(r) = n - 1 /\ \A k \in 1..(n - 1) : r[k] = IF k < i THEN s[k] ELSE s[k + 1]
  BY <1>1, <1>2, Removed
<1>4. \A k, l \in 1..n : s[k] = s[l] => k = l
  BY <1>1 DEF IsInjective
<1>5. IsInjective(r)
  <2>1. ASSUME NEW k \in 1..(n - 1), NEW l \in 1..(n - 1), r[k] = r[l] PROVE k = l
    BY <1>1, <1>3, <1>4, <2>1
  <2>. QED BY <1>3, <2>1 DEF IsInjective
<1>6. ASSUME NEW x \in ToSet(r) PROVE x \in ToSet(s) \ {s[i]}
  <2>1. PICK k \in 1..(n - 1) : x = r[k]
    BY <1>3 DEF ToSet
  <2>2. PICK l \in 1..n : x = s[l] /\ l # i
    BY <1>1, <1>3, <2>1
  <2>. QED BY <1>1, <1>4, <2>2 DEF ToSet
<1>7. ASSUME NEW x \in ToSet(s), x # s[i] PROVE x \in ToSet(r)
  <2>1. PICK l \in 1..n : x = s[l] /\ l # i
    BY <1>1, <1>7 DEF ToSet
  <2>2. PICK k \in 1..(n - 1) : r[k] = s[l]
    <3>1. CASE l < i
      BY <1>1, <1>3, <3>1
    <3>2. CASE l > i
      <4>1. l - 1 \in 1..(n - 1) /\ ~(l - 1 < i) /\ (l - 1) + 1 = l
        BY <1>1, <3>2
      <4>. QED BY <1>3, <4>1
    <3>. QED BY <1>1, <2>1, <3>1, <3>2
  <2>. QED BY <1>3, <2>1, <2>2 DEF ToSet
<1>. QED BY <1>2, <1>5, <1>6, <1>7

\* One more that was not there before.
LEMMA AddedOnce ==
  ASSUME NEW S, NEW s \in Seq(S), NEW x \in S, x \notin ToSet(s), IsInjective(s)
  PROVE  /\ Append(s, x) \in Seq(S) /\ IsInjective(Append(s, x))
         /\ ToSet(Append(s, x)) = ToSet(s) \cup {x}
<1>1. PICK n \in Nat : n = Len(s)
  OBVIOUS
<1>2. PICK r : r = Append(s, x) /\ r \in Seq(S)
  <2>1. Append(s, x) \in Seq(S)
    OBVIOUS
  <2>. QED BY <2>1
<1>3. Len(r) = n + 1 /\ r[n + 1] = x /\ \A k \in 1..n : r[k] = s[k]
  BY <1>1, <1>2
<1>4. \A k \in 1..n : s[k] # x
  BY <1>1 DEF ToSet
<1>5. IsInjective(r)
  <2>1. ASSUME NEW k \in 1..(n + 1), NEW l \in 1..(n + 1), r[k] = r[l] PROVE k = l
    <3>1. \A a, b \in 1..n : s[a] = s[b] => a = b
      BY <1>1 DEF IsInjective
    <3>. QED BY <1>3, <1>4, <2>1, <3>1
  <2>. QED BY <1>3, <2>1 DEF IsInjective
<1>6. ToSet(r) = ToSet(s) \cup {x}
  <2>1. DOMAIN r = 1..(n + 1) /\ DOMAIN s = 1..n
    BY <1>1, <1>3
  <2>2. \A y \in ToSet(r) : y \in ToSet(s) \cup {x}
    BY <1>3, <2>1 DEF ToSet
  <2>3. \A y \in ToSet(s) \cup {x} : y \in ToSet(r)
    BY <1>3, <2>1 DEF ToSet
  <2>. QED BY <2>2, <2>3
<1>. QED BY <1>2, <1>5, <1>6

(***************************************************************************)
(* The chips and their input.                                              *)
(***************************************************************************)
ChipsInv ==
  /\ data \in Seq(Texts) /\ chips = data
  /\ IsInjective(data) /\ Empty \notin ToSet(data)
  /\ selected = {} \/ (~focused /\ \E i \in 1..Len(data) : selected = {i})
  /\ focused \in BOOLEAN /\ text \in Texts
  /\ ~focused => options = << >>
  /\ options = << >> \/ (oldVal \in Texts /\ options = Completions[oldVal])
  /\ activeIndex \in -1..(Len(options) - 1)

\* The chips of the page, each once, in some order.
LEMMA InitChipsInv == Init => ChipsInv
<1>. SUFFICES ASSUME Init PROVE ChipsInv
  OBVIOUS
<1>1. PICK tags \in SUBSET (Texts \ {Empty}) : IsFiniteSet(tags) /\ data = SetToSeq(tags)
  BY DEF Init, ChipsInit
<1>2. data \in Seq(tags) /\ IsInjective(data)
  BY <1>1, SetToSeqHasAll
<1>3. data \in Seq(Texts) /\ Empty \notin ToSet(data)
  BY <1>1, <1>2 DEF ToSet
<1>4. Len(<< >>) = 0
  OBVIOUS
<1>5. selected = {} /\ focused \in BOOLEAN /\ ~focused /\ text \in Texts
  BY ChipsAssumption DEF Init, ChipsInit
<1>6. options = << >> /\ activeIndex = -1 /\ chips = data
  BY DEF Init, ChipsInit
<1>7. activeIndex \in -1..(Len(options) - 1)
  BY <1>4, <1>6
<1>. QED BY <1>2, <1>3, <1>5, <1>6, <1>7 DEF ChipsInv

\* What is searched for is what is offered.
LEMMA SearchOffers ==
  ASSUME ChipsInv, SearchAnew
  PROVE  /\ options' = << >> \/ (oldVal' \in Texts /\ options' = Completions[oldVal'])
         /\ activeIndex' \in -1..(Len(options') - 1)
<1>1. options' = (IF text = Empty THEN << >> ELSE Completions[text]) /\ oldVal' = text
      /\ activeIndex' = -1 /\ text \in Texts
  BY DEF SearchAnew, ChipsInv
<1>2. options' \in Seq(Texts \ {Empty})
  BY <1>1, ChipsAssumption
<1>3. Len(options') \in Nat
  BY <1>2
<1>. QED BY <1>1, <1>3

\* An option, or what was typed, becomes a chip unless there is one.
LEMMA AddChipKeeps ==
  ASSUME ChipsInv, NEW tag \in Texts, AddChip(tag)
  PROVE  /\ data' \in Seq(Texts) /\ chips' = data'
         /\ IsInjective(data') /\ Empty \notin ToSet(data')
         /\ Len(data') \in Nat /\ Len(data) <= Len(data')
<1>1. CASE ~IsValid(tag)
  <2>1. data' = data /\ chips' = chips
    BY <1>1 DEF AddChip
  <2>2. Len(data) \in Nat
    BY DEF ChipsInv
  <2>. QED BY <2>1, <2>2 DEF ChipsInv
<1>2. CASE IsValid(tag)
  <2>1. data' = Append(data, tag) /\ chips' = data'
    BY <1>2 DEF AddChip, ChipsInv
  <2>2. tag \notin ToSet(data) /\ tag # Empty
    BY <1>2 DEF IsValid, Contains, ToSet, ChipsInv
  <2>3. data' \in Seq(Texts) /\ IsInjective(data') /\ ToSet(data') = ToSet(data) \cup {tag}
    BY <2>1, <2>2, AddedOnce DEF ChipsInv
  <2>4. Len(data') = Len(data) + 1 /\ Len(data) \in Nat
    BY <2>1 DEF ChipsInv
  <2>. QED BY <2>1, <2>2, <2>3, <2>4 DEF ChipsInv
<1>. QED BY <1>1, <1>2

\* A chip is taken out of both lists.
LEMMA DeleteChipKeeps ==
  ASSUME ChipsInv, NEW i \in 1..Len(data), DeleteChip(i)
  PROVE  /\ data' \in Seq(Texts) /\ chips' = data'
         /\ IsInjective(data') /\ Empty \notin ToSet(data')
         /\ Len(data') = Len(data) - 1
<1>1. data' = RemoveAt(data, i) /\ chips' = data'
  BY DEF DeleteChip, ChipsInv
<1>2. data' \in Seq(Texts) /\ Len(data') = Len(data) - 1
  BY <1>1, Removed DEF ChipsInv
<1>3. IsInjective(data') /\ ToSet(data') = ToSet(data) \ {data[i]}
  BY <1>1, RemovedOnce DEF ChipsInv
<1>. QED BY <1>1, <1>2, <1>3 DEF ChipsInv

\* The visitor writes, searches, completes, and moves between the chips and the input.
LEMMA ChipsStep ==
  ASSUME ChipsInv, ChipsVisitor \/ KeyUp \/ UNCHANGED chipsVars
  PROVE  ChipsInv'
<1>1. PICK n \in Nat : n = Len(data) /\ n = Len(chips)
  BY DEF ChipsInv
<1>. DEFINE Listed == /\ data' \in Seq(Texts) /\ chips' = data'
                      /\ IsInjective(data') /\ Empty \notin ToSet(data')
            Offered == /\ options' = << >> \/ (oldVal' \in Texts /\ options' = Completions[oldVal'])
                       /\ activeIndex' \in -1..(Len(options') - 1)
            Marked == selected' = {} \/ (~focused' /\ \E i \in 1..Len(data') : selected' = {i})
            Written == focused' \in BOOLEAN /\ text' \in Texts /\ (~focused' => options' = << >>)
<1>2. Listed /\ Offered /\ Marked /\ Written => ChipsInv'
  BY DEF ChipsInv
<1>3. UNCHANGED <<data, chips>> => Listed
  BY DEF ChipsInv
<1>4. RemoveAutocomplete => Offered /\ options' = << >>
  <2>1. Len(<< >>) = 0
    OBVIOUS
  <2>. QED BY <2>1 DEF RemoveAutocomplete
<1>5. SearchAnew => Offered
  BY SearchOffers
<1>6. UNCHANGED <<options, activeIndex, oldVal>> => Offered
  BY DEF ChipsInv
<1>7. UNCHANGED <<data, chips, selected, focused>> => Marked
  BY DEF ChipsInv
<1>8. TakeFocus /\ text' = text => Offered /\ Marked /\ Written
  BY <1>5 DEF TakeFocus, ChipsInv
<1>. HIDE DEF Listed, Offered, Marked, Written
<1>9. ASSUME FocusInput PROVE ChipsInv'
  BY <1>2, <1>3, <1>8, <1>9 DEF FocusInput
<1>10. ASSUME BlurInput PROVE ChipsInv'
  <2>1. focused /\ ~focused' /\ focused' \in BOOLEAN /\ UNCHANGED <<data, chips, selected, text>>
        /\ RemoveAutocomplete
    BY <1>10 DEF BlurInput
  <2>2. Marked
    BY <2>1 DEF ChipsInv, Marked
  <2>3. Written
    BY <1>4, <2>1 DEF ChipsInv, Written
  <2>. QED BY <1>2, <1>3, <1>4, <2>1, <2>2, <2>3
<1>11. ASSUME NEW t \in Texts, Type(t) PROVE ChipsInv'
  <2>1. Written
    BY <1>11 DEF Type, ChipsInv, Written
  <2>. QED BY <1>2, <1>3, <1>6, <1>7, <1>11, <2>1 DEF Type
<1>12. ASSUME KeyUp PROVE ChipsInv'
  <2>1. Written
    BY <1>12 DEF KeyUp, ChipsInv, Written
  <2>. QED BY <1>2, <1>3, <1>5, <1>6, <1>7, <1>12, <2>1 DEF KeyUp, Search
<1>13. ASSUME NEW tag \in Texts, AddChip(tag), UNCHANGED selected, ~focused' \/ focused
       PROVE  Listed /\ Marked
  <2>1. Listed /\ Len(data) <= Len(data') /\ Len(data') \in Nat
    BY <1>13, AddChipKeeps DEF Listed
  <2>2. \A i \in 1..Len(data) : i \in 1..Len(data')
    BY <1>1, <2>1
  <2>. QED BY <1>13, <2>1, <2>2 DEF ChipsInv, Marked
<1>14. ASSUME NEW i \in 1..Len(options), Complete(i), UNCHANGED selected, focused' \in BOOLEAN
       PROVE  ChipsInv'
  <2>1. options # << >>
    BY <1>14
  <2>2. focused /\ oldVal \in Texts /\ options = Completions[oldVal]
    BY <2>1 DEF ChipsInv
  <2>3. options \in Seq(Texts \ {Empty})
    BY <2>2, ChipsAssumption
  <2>4. options[i] \in Texts
    BY <1>14, <2>3
  <2>5. AddChip(options[i]) /\ text' = Empty /\ RemoveAutocomplete
    BY <1>14 DEF Complete
  <2>6. Written
    BY <1>4, <1>14, <2>5, ChipsAssumption DEF Written
  <2>. QED BY <1>2, <1>4, <1>13, <1>14, <2>2, <2>4, <2>5, <2>6
<1>15. ASSUME Enter PROVE ChipsInv'
  <2>1. focused /\ focused' = focused /\ UNCHANGED selected /\ focused' \in BOOLEAN
    BY <1>15 DEF Enter, ChipsInv
  <2>2. CASE activeIndex >= 0 /\ Complete(activeIndex + 1)
    <3>1. activeIndex + 1 \in 1..Len(options)
      BY <2>2 DEF ChipsInv
    <3>. QED BY <1>14, <2>1, <2>2, <3>1
  <2>3. CASE AddChip(text) /\ text' = Empty /\ UNCHANGED <<options, activeIndex, oldVal>>
    <3>1. text \in Texts
      BY DEF ChipsInv
    <3>2. Written
      BY <2>1, <2>3, ChipsAssumption DEF Written
    <3>. QED BY <1>2, <1>6, <1>13, <2>1, <2>3, <3>1, <3>2
  <2>. QED BY <1>15, <2>2, <2>3 DEF Enter
<1>16. ASSUME ClickOption PROVE ChipsInv'
  BY <1>14, <1>16 DEF ClickOption
<1>17. ASSUME NEW by \in {1, -1}, MoveActive(by) PROVE ChipsInv'
  <2>1. Written
    BY <1>17 DEF MoveActive, ChipsInv, Written
  <2>2. Offered
    BY <1>17 DEF MoveActive, ChipsInv, Offered
  <2>. QED BY <1>2, <1>3, <1>7, <1>17, <2>1, <2>2 DEF MoveActive
<1>18. ASSUME LeaveToChips PROVE ChipsInv'
  <2>1. focused /\ focused' = FALSE /\ chips # << >> /\ selected' = selected \cup {n}
        /\ RemoveAutocomplete /\ UNCHANGED <<data, chips, text>>
    BY <1>1, <1>18 DEF LeaveToChips
  <2>2. n \in 1..n
    BY <1>1, <2>1 DEF ChipsInv
  <2>3. selected' = {n}
    BY <2>1 DEF ChipsInv
  <2>4. Marked
    BY <1>1, <2>1, <2>2, <2>3 DEF Marked
  <2>5. Written
    BY <1>4, <2>1 DEF ChipsInv, Written
  <2>. QED BY <1>2, <1>3, <1>4, <2>1, <2>4, <2>5
<1>19. ASSUME NEW i, ClickChip(i) PROVE ChipsInv'
  <2>1. i \in 1..n /\ selected' = {i} \ selected /\ focused' = FALSE
        /\ UNCHANGED <<data, chips, text>>
        /\ IF focused THEN RemoveAutocomplete ELSE UNCHANGED <<options, activeIndex, oldVal>>
    BY <1>1, <1>19 DEF ClickChip
  <2>2. selected' = {} \/ selected' = {i}
    BY <2>1
  <2>3. Marked
    BY <1>1, <2>1, <2>2 DEF Marked
  <2>4. Offered /\ options' = << >>
    BY <1>4, <1>6, <2>1 DEF ChipsInv
  <2>5. Written
    BY <2>1, <2>4 DEF ChipsInv, Written
  <2>. QED BY <1>2, <1>3, <2>1, <2>3, <2>4, <2>5
<1>20. ASSUME NEW i, ClickClose(i) PROVE ChipsInv'
  <2>1. i \in 1..Len(data) /\ DeleteChip(i) /\ TakeFocus /\ text' = text
    BY <1>1, <1>20 DEF ClickClose
  <2>2. Listed
    BY <2>1, DeleteChipKeeps DEF Listed
  <2>. QED BY <1>2, <1>8, <2>1, <2>2
<1>21. ASSUME DeleteSelected PROVE ChipsInv'
  <2>1. PICK i \in selected :
          /\ DeleteChip(i)
          /\ IF n = 1
             THEN TakeFocus
             ELSE /\ selected' = {IF i < n THEN i ELSE i - 1}
                  /\ UNCHANGED <<focused, oldVal, options, activeIndex>>
    BY <1>1, <1>21 DEF DeleteSelected
  <2>2. ~focused /\ text' = text /\ i \in 1..n
    BY <1>1, <1>21 DEF DeleteSelected, ChipsInv
  <2>3. Listed /\ Len(data') = n - 1
    BY <1>1, <2>1, <2>2, DeleteChipKeeps DEF Listed
  <2>4. CASE n = 1
    BY <1>2, <1>8, <2>1, <2>2, <2>3, <2>4
  <2>5. CASE n # 1
    <3>1. (IF i < n THEN i ELSE i - 1) \in 1..(n - 1)
      BY <2>2, <2>5
    <3>2. PICK j \in 1..(n - 1) : selected' = {j}
      BY <2>1, <2>5, <3>1
    <3>3. focused' = focused /\ UNCHANGED <<options, activeIndex, oldVal>>
      BY <2>1, <2>5
    <3>4. Marked
      BY <2>2, <2>3, <3>2, <3>3 DEF Marked
    <3>5. Written
      BY <2>2, <3>3 DEF ChipsInv, Written
    <3>. QED BY <1>2, <1>6, <2>3, <3>3, <3>4, <3>5
  <2>. QED BY <2>4, <2>5
<1>22. ASSUME SelectNeighbour PROVE ChipsInv'
  <2>1. PICK i \in selected :
          \/ /\ i > 1
             /\ selected' = {i - 1}
             /\ UNCHANGED <<focused, oldVal, options, activeIndex>>
          \/ /\ i < n
             /\ selected' = {i + 1}
             /\ UNCHANGED <<focused, oldVal, options, activeIndex>>
          \/ i = n /\ TakeFocus
    BY <1>1, <1>22 DEF SelectNeighbour
  <2>2. ~focused /\ UNCHANGED <<data, chips>> /\ text' = text /\ i \in 1..n
    BY <1>1, <1>22 DEF SelectNeighbour, ChipsInv
  <2>3. ASSUME NEW j \in 1..n, selected' = {j}, UNCHANGED <<focused, oldVal, options, activeIndex>>
        PROVE  ChipsInv'
    <3>1. Marked
      BY <1>1, <2>2, <2>3 DEF Marked
    <3>2. Written
      BY <2>2, <2>3 DEF ChipsInv, Written
    <3>. QED BY <1>2, <1>3, <1>6, <2>2, <2>3, <3>1, <3>2
  <2>4. CASE i > 1 /\ selected' = {i - 1} /\ UNCHANGED <<focused, oldVal, options, activeIndex>>
    <3>1. i - 1 \in 1..n
      BY <2>2, <2>4
    <3>. QED BY <2>3, <2>4, <3>1
  <2>5. CASE i < n /\ selected' = {i + 1} /\ UNCHANGED <<focused, oldVal, options, activeIndex>>
    <3>1. i + 1 \in 1..n
      BY <2>2, <2>5
    <3>. QED BY <2>3, <2>5, <3>1
  <2>6. CASE TakeFocus
    BY <1>2, <1>3, <1>8, <2>2, <2>6
  <2>. QED BY <2>1, <2>4, <2>5, <2>6
<1>23. ASSUME UNCHANGED chipsVars PROVE ChipsInv'
  BY <1>23 DEF chipsVars, ChipsInv
<1>. QED BY <1>9, <1>10, <1>11, <1>12, <1>15, <1>16, <1>17, <1>18, <1>19, <1>20, <1>21, <1>22,
            <1>23 DEF ChipsVisitor

\* The strengthening says what the run checks.
LEMMA ChipsInvAgrees == ChipsInv => ChipsAgree
<1>. SUFFICES ASSUME ChipsInv PROVE ChipsAgree
  OBVIOUS
<1>1. Cardinality(selected) <= IF focused THEN 0 ELSE 1
  <2>1. CASE selected = {}
    BY <2>1, FS_EmptySet
  <2>2. CASE selected # {}
    <3>1. PICK i \in 1..Len(data) : selected = {i}
      BY <2>2 DEF ChipsInv
    <3>2. Cardinality(selected) = 1
      BY <3>1, FS_Singleton
    <3>. QED BY <2>2, <3>2 DEF ChipsInv
  <2>. QED BY <2>1, <2>2
<1>2. ~Contains(chips, Empty)
  BY DEF ChipsInv, Contains, ToSet
<1>3. options # << >> => oldVal # Unset /\ options = Completions[oldVal]
  BY ChipsAssumption DEF ChipsInv
<1>. QED BY <1>1, <1>2, <1>3 DEF ChipsInv, ChipsAgree

(***************************************************************************)
(* The select.                                                             *)
(***************************************************************************)
SelectMarks == [values : Seq(FormOptions), chosen : SUBSET FormOptions,
                lit : SUBSET FormOptions, checked : SUBSET FormOptions]

\* What toggling keeps: the entries that are lit are those in the closure, each once, and
\* all of them are selected.
MarksAgree(r) ==
  r \in SelectMarks /\ IsInjective(r.values) /\ r.lit = ToSet(r.values) /\ r.lit \subseteq r.chosen

SelectInv ==
  /\ multiple \in BOOLEAN /\ misread \in BOOLEAN
  /\ Marks \in SelectMarks
  /\ multiple => MarksAgree(Marks)
  /\ ~misread => SelectionsAreAdded
  /\ ~multiple => \E o \in FormOptions : chosen = {o} /\ lit \subseteq chosen

\* Where an option is said to be, and where it is in the list.
LEMMA PlacesOfOptions ==
  ASSUME NEW o \in FormOptions
  PROVE  IndexIn(o) \in FormOptions /\ EntryOf(o) \in 1..EntryCount
<1>1. o \in Nat /\ o >= 1 /\ o <= OptionCount /\ OptionCount \in Nat
  BY SelectAssumption DEF FormOptions
<1>2. \A k \in 0..OptionCount : IsFiniteSet(1..k) /\ Cardinality(1..k) = k
  BY <1>1, FS_Interval
<1>3. IndexIn(o) \in FormOptions
  <2>. DEFINE Before == {p \in 1..(o - 1) : IF group[o] # 0 THEN group[p] = group[o]
                                            ELSE group[p] = 0 \/ Opens(p)}
  <2>1. Before \subseteq 1..(o - 1) /\ o - 1 \in 0..OptionCount
    BY <1>1
  <2>2. IndexIn(o) = 1 + Cardinality(Before)
    BY DEF IndexIn
  <2>. HIDE DEF Before
  <2>3. IsFiniteSet(1..(o - 1)) /\ Cardinality(1..(o - 1)) = o - 1
    BY <1>2, <2>1
  <2>4. IsFiniteSet(Before) /\ Cardinality(Before) <= Cardinality(1..(o - 1))
    BY <2>1, <2>3, FS_Subset
  <2>5. Cardinality(Before) \in Nat
    BY <2>4, FS_CardinalityType
  <2>. QED BY <1>1, <2>2, <2>3, <2>4, <2>5 DEF FormOptions
<1>4. EntryOf(o) \in 1..EntryCount
  <2>. DEFINE Opened == {p \in 1..o : Opens(p)}
              All == {p \in 1..OptionCount : Opens(p)}
  <2>1. Opened \subseteq All /\ All \subseteq 1..OptionCount /\ IsFiniteSet(1..OptionCount)
    BY <1>1, <1>2
  <2>2. EntryOf(o) = o + Cardinality(Opened) /\ EntryCount = OptionCount + Cardinality(All)
    BY DEF EntryOf, EntryCount
  <2>. HIDE DEF Opened, All
  <2>3. IsFiniteSet(All)
    BY <2>1, FS_Subset
  <2>4. /\ Cardinality(Opened) \in Nat /\ Cardinality(All) \in Nat
        /\ Cardinality(Opened) <= Cardinality(All)
    BY <2>1, <2>3, FS_Subset, FS_CardinalityType
  <2>. QED BY <1>1, <2>2, <2>4
<1>. QED BY <1>3, <1>4

\* Toggling adds what was not there and takes away what was.
LEMMA ToggledKeeps ==
  ASSUME NEW r, MarksAgree(r), NEW i \in FormOptions, NEW t, t = Toggled(r, i)
  PROVE  /\ MarksAgree(t) /\ t.checked = r.checked
         /\ t.lit = SymDiff(r.lit, {i})
         /\ t.chosen = IF i \in r.lit THEN r.chosen \ {i} ELSE r.chosen \cup {i}
<1>1. PICK s \in Seq(FormOptions) : s = r.values /\ IsInjective(s) /\ r.lit = ToSet(s)
  BY DEF MarksAgree, SelectMarks
<1>2. /\ r.chosen \in SUBSET FormOptions /\ r.lit \in SUBSET FormOptions
      /\ r.checked \in SUBSET FormOptions /\ r.lit \subseteq r.chosen
      /\ r = [values |-> s, chosen |-> r.chosen, lit |-> r.lit, checked |-> r.checked]
  BY <1>1 DEF MarksAgree, SelectMarks
<1>3. Contains(s, i) <=> i \in r.lit
  BY <1>1 DEF Contains, ToSet
<1>. DEFINE index == CHOOSE k \in 1..Len(s) : s[k] = i
<1>4. t = [r EXCEPT !.values = IF ~Contains(s, i) THEN Append(s, i) ELSE RemoveAt(s, index),
                    !.chosen = IF ~Contains(s, i) THEN @ \cup {i} ELSE @ \ {i},
                    !.lit = SymDiff(@, {i})]
  BY <1>1 DEF Toggled
<1>5. i \in r.lit => index \in 1..Len(s) /\ s[index] = i
  BY <1>3 DEF Contains
<1>. HIDE DEF index
<1>6. CASE i \notin r.lit
  <2>1. PICK new : new = Append(s, i)
    OBVIOUS
  <2>2. new \in Seq(FormOptions) /\ IsInjective(new) /\ ToSet(new) = r.lit \cup {i}
    BY <1>1, <1>6, <2>1, AddedOnce
  <2>3. t = [values |-> new, chosen |-> r.chosen \cup {i}, lit |-> SymDiff(r.lit, {i}),
             checked |-> r.checked]
    BY <1>2, <1>3, <1>4, <1>6, <2>1
  <2>4. SymDiff(r.lit, {i}) = r.lit \cup {i}
    BY <1>6 DEF SymDiff
  <2>5. /\ t.values = new /\ t.chosen = r.chosen \cup {i} /\ t.lit = SymDiff(r.lit, {i})
        /\ t.checked = r.checked
    BY <2>3
  <2>6. t \in SelectMarks
    <3>1. PICK c \in SUBSET FormOptions : c = r.chosen \cup {i}
      BY <1>2
    <3>2. PICK l \in SUBSET FormOptions : l = SymDiff(r.lit, {i})
      BY <1>2, <2>4
    <3>3. t = [values |-> new, chosen |-> c, lit |-> l, checked |-> r.checked]
      BY <2>3, <3>1, <3>2
    <3>. QED BY <1>2, <2>2, <3>3 DEF SelectMarks
  <2>7. t.lit \subseteq t.chosen
    BY <1>2, <2>4, <2>5
  <2>8. MarksAgree(t)
    BY <2>2, <2>4, <2>5, <2>6, <2>7 DEF MarksAgree
  <2>. QED BY <1>6, <2>5, <2>8
<1>7. CASE i \in r.lit
  <2>1. PICK new : new = RemoveAt(s, index)
    OBVIOUS
  <2>2. new \in Seq(FormOptions) /\ IsInjective(new) /\ ToSet(new) = r.lit \ {i}
    BY <1>1, <1>5, <1>7, <2>1, Removed, RemovedOnce
  <2>3. t = [values |-> new, chosen |-> r.chosen \ {i}, lit |-> SymDiff(r.lit, {i}),
             checked |-> r.checked]
    BY <1>2, <1>3, <1>4, <1>7, <2>1
  <2>4. SymDiff(r.lit, {i}) = r.lit \ {i}
    BY <1>7 DEF SymDiff
  <2>5. /\ t.values = new /\ t.chosen = r.chosen \ {i} /\ t.lit = SymDiff(r.lit, {i})
        /\ t.checked = r.checked
    BY <2>3
  <2>6. t \in SelectMarks
    <3>1. PICK c \in SUBSET FormOptions : c = r.chosen \ {i}
      BY <1>2
    <3>2. PICK l \in SUBSET FormOptions : l = SymDiff(r.lit, {i})
      BY <1>2, <2>4
    <3>3. t = [values |-> new, chosen |-> c, lit |-> l, checked |-> r.checked]
      BY <2>3, <3>1, <3>2
    <3>. QED BY <1>2, <2>2, <3>3 DEF SelectMarks
  <2>7. t.lit \subseteq t.chosen
    BY <1>2, <2>4, <2>5
  <2>8. MarksAgree(t)
    BY <2>2, <2>4, <2>5, <2>6, <2>7 DEF MarksAgree
  <2>. QED BY <1>7, <2>5, <2>8
<1>. QED BY <1>6, <1>7

(***************************************************************************)
(* What material_select builds, option by option.                          *)
(***************************************************************************)
Unbuilt(some) == [values |-> << >>, chosen |-> some, lit |-> {}, checked |-> {}]

IsAdded(some, n) == multiple /\ n \in some \ DisabledOptions

Builds(f, some, k) ==
  f = [n \in 0..k |-> IF n = 0 THEN Unbuilt(some)
                      ELSE IF IsAdded(some, n) THEN Added(f[n - 1], n) ELSE f[n - 1]]

\* The list can be built for as many options as there are.
LEMMA BuildsExist ==
  ASSUME NEW some, NEW n \in Nat
  PROVE  \E f : Builds(f, some, n)
<1>. DEFINE Good == {k \in Nat : \E f : Builds(f, some, k)}
            More(old, i) == IF IsAdded(some, i) THEN Added(old, i) ELSE old
<1>1. 0 \in Good
  <2>1. Builds([i \in 0..0 |-> Unbuilt(some)], some, 0)
    BY DEF Builds
  <2>. QED BY <2>1
<1>2. ASSUME NEW k \in Nat, k >= 0, k \in Good PROVE k + 1 \in Good
  <2>1. PICK f : Builds(f, some, k)
    BY <1>2
  <2>2. PICK g : g = [i \in 0..(k + 1) |-> IF i <= k THEN f[i] ELSE More(f[k], k + 1)]
    OBVIOUS
  <2>3. ASSUME NEW i \in 0..(k + 1)
        PROVE  g[i] = IF i = 0 THEN Unbuilt(some) ELSE More(g[i - 1], i)
    <3>1. CASE i <= k
      <4>1. i \in 0..k
        BY <3>1
      <4>2. f[i] = IF i = 0 THEN Unbuilt(some) ELSE More(f[i - 1], i)
        BY <2>1, <4>1 DEF Builds
      <4>3. i # 0 => i - 1 \in 0..(k + 1) /\ i - 1 <= k
        BY <3>1
      <4>4. g[i] = f[i] /\ (i # 0 => g[i - 1] = f[i - 1])
        BY <2>2, <3>1, <4>3
      <4>. HIDE DEF More
      <4>. QED BY <4>2, <4>4
    <3>2. CASE i = k + 1
      <4>1. k \in 0..(k + 1) /\ k <= k /\ i # 0 /\ i - 1 = k /\ ~(i <= k)
        BY <3>2
      <4>2. g[k] = f[k]
        BY <2>2, <4>1
      <4>. HIDE DEF More
      <4>3. g[i] = More(f[k], k + 1)
        BY <2>2, <4>1
      <4>. QED BY <3>2, <4>1, <4>2, <4>3
    <3>. QED BY <3>1, <3>2
  <2>4. Builds(g, some, k + 1)
    <3>1. g = [i \in 0..(k + 1) |-> g[i]]
      BY <2>2
    <3>. QED BY <2>3, <3>1 DEF Builds
  <2>. QED BY <2>4
<1>. HIDE DEF Good
<1>3. \A k \in Nat : k >= 0 => k \in Good
  BY <1>1, <1>2, NatInductionFrom
<1>4. n \in Good
  BY <1>3
<1>. QED BY <1>4 DEF Good

LEMMA BuildSteps ==
  ASSUME NEW some
  PROVE  \E f : Builds(f, some, OptionCount) /\ Built(some) = f[OptionCount]
<1>. DEFINE built == CHOOSE f : Builds(f, some, OptionCount)
<1>1. Builds(built, some, OptionCount)
  BY SelectAssumption, BuildsExist
<1>2. Built(some) = built[OptionCount]
  BY DEF Built, Builds, Unbuilt, IsAdded
<1>. QED BY <1>1, <1>2

\* What is built so far: where no option is misread those before and no others were added.
BuiltSoFar(r, some, k) ==
  /\ MarksAgree(r)
  /\ ~multiple => r = Unbuilt(some)
  /\ multiple /\ ~Misread(some) =>
       r.chosen = some /\ r.checked = r.lit /\ r.lit = {o \in some \ DisabledOptions : o <= k}

LEMMA AddedKeeps ==
  ASSUME NEW some \in SUBSET FormOptions, NEW k \in Nat, NEW r, BuiltSoFar(r, some, k),
         k + 1 \in some \ DisabledOptions, multiple
  PROVE  BuiltSoFar(Added(r, k + 1), some, k + 1)
<1>1. PICK i \in FormOptions : i = IndexIn(k + 1)
  BY PlacesOfOptions
<1>2. PICK t : t = Toggled(r, i)
  OBVIOUS
<1>3. /\ MarksAgree(t) /\ t.checked = r.checked /\ t.lit = SymDiff(r.lit, {i})
      /\ t.chosen = IF i \in r.lit THEN r.chosen \ {i} ELSE r.chosen \cup {i}
  <2>1. MarksAgree(r)
    BY DEF BuiltSoFar
  <2>. QED BY <1>2, <2>1, ToggledKeeps
<1>4. PICK boxes : boxes = {p \in FormOptions : EntryOf(p) = i}
  OBVIOUS
<1>5. PICK a : a = Added(r, k + 1)
  OBVIOUS
<1>6. a = [t EXCEPT !.checked = @ \cup boxes]
  BY <1>1, <1>2, <1>4, <1>5 DEF Added
<1>7. /\ a \in SelectMarks /\ a.values = t.values /\ a.chosen = t.chosen /\ a.lit = t.lit
      /\ a.checked = r.checked \cup boxes
  BY <1>3, <1>4, <1>6 DEF MarksAgree, SelectMarks
<1>8. MarksAgree(a)
  BY <1>3, <1>7 DEF MarksAgree
<1>9. ASSUME ~Misread(some)
      PROVE  a.chosen = some /\ a.checked = a.lit
             /\ a.lit = {o \in some \ DisabledOptions : o <= k + 1}
  <2>1. r.chosen = some /\ r.checked = r.lit /\ r.lit = {o \in some \ DisabledOptions : o <= k}
    BY <1>9 DEF BuiltSoFar
  <2>2. \A o \in some \ DisabledOptions : IndexIn(o) = o /\ EntryOf(o) = o
    BY <1>9 DEF Misread
  <2>3. i = k + 1 /\ EntryOf(k + 1) = k + 1
    BY <1>1, <2>2
  <2>4. i \notin r.lit
    BY <2>1, <2>3
  <2>5. t.lit = r.lit \cup {k + 1} /\ t.chosen = some
    <3>1. t.lit = r.lit \cup {i}
      BY <1>3, <2>4 DEF SymDiff
    <3>. QED BY <1>3, <2>1, <2>3, <2>4, <3>1
  <2>6. r.lit \cup {k + 1} = {o \in some \ DisabledOptions : o <= k + 1}
    <3>1. \A o \in some : o \in Int
      BY SelectAssumption DEF FormOptions
    <3>. QED BY <2>1, <3>1
  <2>7. boxes = {k + 1}
    <3>1. ASSUME NEW p \in FormOptions, EntryOf(p) = k + 1 PROVE p = k + 1
      <4>1. OptionCount \in Nat /\ p \in Nat /\ k + 1 \in FormOptions
        BY SelectAssumption DEF FormOptions
      <4>. DEFINE Opened(n) == {q \in 1..n : Opens(q)}
      <4>2. \A n \in FormOptions : EntryOf(n) = n + Cardinality(Opened(n))
        BY DEF EntryOf
      <4>3. \A n \in Nat : IsFiniteSet(1..n) /\ Opened(n) \subseteq 1..n
        BY FS_Interval
      <4>4. \A n \in Nat : IsFiniteSet(Opened(n)) /\ Cardinality(Opened(n)) \in Nat
        <5>. HIDE DEF Opened
        <5>. QED BY <4>3, FS_Subset, FS_CardinalityType
      <4>5. p <= k + 1 => Opened(p) \subseteq Opened(k + 1)
        BY <4>1
      <4>. HIDE DEF Opened
      <4>6. Cardinality(Opened(k + 1)) = 0
        BY <2>3, <4>1, <4>2, <4>4
      <4>7. p <= k + 1
        BY <3>1, <4>1, <4>2, <4>4
      <4>8. Cardinality(Opened(p)) = 0
        BY <4>1, <4>4, <4>5, <4>6, <4>7, FS_Subset
      <4>. QED BY <3>1, <4>1, <4>2, <4>8
    <3>. QED BY <1>4, <2>3, <3>1
  <2>. QED BY <1>7, <2>1, <2>5, <2>6, <2>7
<1>. QED BY <1>5, <1>8, <1>9 DEF BuiltSoFar

\* What is built in the end.
LEMMA BuiltKeeps ==
  ASSUME NEW some \in SUBSET FormOptions
  PROVE  /\ MarksAgree(Built(some))
         /\ ~multiple => Built(some) = Unbuilt(some)
         /\ multiple /\ ~Misread(some) =>
              /\ ToSet(Built(some).values) = Built(some).chosen \ DisabledOptions
              /\ Built(some).checked = Built(some).lit
<1>1. PICK m \in Nat : m = OptionCount /\ FormOptions = 1..m
  BY SelectAssumption DEF FormOptions
<1>2. PICK f : Builds(f, some, m) /\ Built(some) = f[m]
  BY <1>1, BuildSteps
<1>. DEFINE Good == {k \in Nat : k <= m => BuiltSoFar(f[k], some, k)}
<1>3. 0 \in Good
  <2>1. PICK r : r = Unbuilt(some)
    OBVIOUS
  <2>2. f[0] = r
    BY <1>2, <2>1 DEF Builds
  <2>3. << >> \in Seq(FormOptions) /\ IsInjective(<< >>) /\ ToSet(<< >>) = {}
    BY DEF IsInjective, ToSet
  <2>4. /\ r \in SelectMarks /\ r.values = << >> /\ r.lit = {} /\ r.checked = {}
        /\ r.chosen = some
    BY <2>1, <2>3 DEF SelectMarks, Unbuilt
  <2>5. MarksAgree(r)
    BY <2>3, <2>4 DEF MarksAgree
  <2>6. {o \in some \ DisabledOptions : o <= 0} = {}
    <3>1. \A o \in some : o \in 1..m
      BY <1>1
    <3>. QED BY <3>1
  <2>7. BuiltSoFar(r, some, 0)
    BY <2>1, <2>4, <2>5, <2>6 DEF BuiltSoFar
  <2>. QED BY <2>2, <2>7
<1>4. ASSUME NEW k \in Nat, k >= 0, k \in Good PROVE k + 1 \in Good
  <2>1. SUFFICES ASSUME k + 1 <= m PROVE BuiltSoFar(f[k + 1], some, k + 1)
    OBVIOUS
  <2>2. k + 1 \in 0..m /\ k + 1 # 0 /\ (k + 1) - 1 = k
    BY <2>1
  <2>3. PICK r : r = f[k] /\ BuiltSoFar(r, some, k)
    BY <1>4, <2>1
  <2>4. f[k + 1] = IF IsAdded(some, k + 1) THEN Added(r, k + 1) ELSE r
    BY <1>2, <2>2, <2>3 DEF Builds
  <2>5. CASE IsAdded(some, k + 1)
    BY <2>3, <2>4, <2>5, AddedKeeps DEF IsAdded
  <2>6. CASE ~IsAdded(some, k + 1)
    <3>1. multiple => k + 1 \notin some \ DisabledOptions
      BY <2>6 DEF IsAdded
    <3>2. multiple => {o \in some \ DisabledOptions : o <= k + 1}
                        = {o \in some \ DisabledOptions : o <= k}
      <4>1. \A o \in some : o \in Int
        BY <1>1
      <4>. QED BY <3>1, <4>1
    <3>. QED BY <2>3, <2>4, <2>6, <3>2 DEF BuiltSoFar
  <2>. QED BY <2>5, <2>6
<1>. HIDE DEF Good
<1>5. \A k \in Nat : k >= 0 => k \in Good
  BY <1>3, <1>4, NatInductionFrom
<1>6. PICK r : r = Built(some) /\ BuiltSoFar(r, some, m)
  BY <1>2, <1>5 DEF Good
<1>7. {o \in some \ DisabledOptions : o <= m} = some \ DisabledOptions
  <2>1. \A o \in some : o \in 1..m
    BY <1>1
  <2>. QED BY <2>1
<1>. QED BY <1>6, <1>7 DEF BuiltSoFar, MarksAgree

\* The invariant holds of what was built.
LEMMA BuiltSelectInv ==
  ASSUME multiple \in BOOLEAN, NEW some \in Selections,
         valuesSelected = Built(some).values, chosen = Built(some).chosen,
         lit = Built(some).lit, checked = Built(some).checked, misread = Misread(some)
  PROVE  SelectInv
<1>1. some \in SUBSET FormOptions /\ (~multiple => \E o \in FormOptions : some = {o})
  BY DEF Selections
<1>2. PICK r : r = Built(some)
  OBVIOUS
<1>3. /\ MarksAgree(r)
      /\ ~multiple => r = Unbuilt(some)
      /\ multiple /\ ~Misread(some) =>
           ToSet(r.values) = r.chosen \ DisabledOptions /\ r.checked = r.lit
  BY <1>1, <1>2, BuiltKeeps
<1>4. Marks = r
  BY <1>2, <1>3 DEF Marks, MarksAgree, SelectMarks
<1>5. misread \in BOOLEAN
  BY Zenon DEF Misread
<1>6. ~misread => SelectionsAreAdded
  BY <1>2, <1>3 DEF SelectionsAreAdded
<1>7. ASSUME ~multiple PROVE \E o \in FormOptions : chosen = {o} /\ lit \subseteq chosen
  BY <1>1, <1>2, <1>3, <1>7 DEF Unbuilt
<1>. QED BY <1>3, <1>4, <1>5, <1>6, <1>7 DEF SelectInv, MarksAgree

\* The list is built for the options the page came with.
LEMMA InitSelectInv == Init => SelectInv
<1>. SUFFICES ASSUME Init PROVE SelectInv
  OBVIOUS
<1>1. multiple \in BOOLEAN
  BY DEF Init, SelectInit
<1>2. PICK some \in Selections :
        /\ valuesSelected = Built(some).values /\ chosen = Built(some).chosen
        /\ lit = Built(some).lit /\ checked = Built(some).checked /\ misread = Misread(some)
  BY DEF Init, SelectInit
<1>. QED BY <1>1, <1>2, BuiltSelectInv

\* A click, or enter, on an option of a multiple select and of a single one: it is toggled
\* in the select, in its closure and in the list alike.
LEMMA ChooseKeeps ==
  ASSUME SelectInv, NEW o, ChooseOption(o), multiple' = multiple, misread' = misread
  PROVE  SelectInv'
<1>1. o \in FormOptions /\ o \notin DisabledOptions
  BY DEF ChooseOption, Enabled
<1>2. PICK r : r = Marks
  OBVIOUS
<1>3. /\ r \in SelectMarks /\ r.values = valuesSelected /\ r.chosen = chosen /\ r.lit = lit
      /\ r.checked = checked
  BY <1>2 DEF Marks, SelectInv
<1>4. CASE multiple
  <2>1. PICK t : t = Toggled(r, o)
    OBVIOUS
  <2>2. /\ valuesSelected' = t.values /\ chosen' = t.chosen /\ lit' = t.lit
        /\ checked' = SymDiff(checked, {o})
    BY <1>2, <1>4, <2>1 DEF ChooseOption
  <2>3. MarksAgree(r)
    BY <1>2, <1>4 DEF SelectInv
  <2>4. /\ MarksAgree(t) /\ t.checked = r.checked /\ t.lit = SymDiff(r.lit, {o})
        /\ t.chosen = IF o \in r.lit THEN r.chosen \ {o} ELSE r.chosen \cup {o}
    BY <1>1, <2>1, <2>3, ToggledKeeps
  <2>5. checked' \in SUBSET FormOptions
    BY <1>1, <1>3, <2>2 DEF SelectMarks, SymDiff
  <2>6. Marks' \in SelectMarks
    BY <2>2, <2>4, <2>5 DEF Marks, MarksAgree, SelectMarks
  <2>7. MarksAgree(Marks)'
    BY <2>2, <2>4, <2>6 DEF Marks, MarksAgree
  <2>8. ASSUME ~misread PROVE SelectionsAreAdded'
    <3>1. ToSet(valuesSelected) = chosen \ DisabledOptions /\ checked = lit
      BY <1>4, <2>8 DEF SelectInv, SelectionsAreAdded
    <3>2. r.lit = r.chosen \ DisabledOptions
      BY <1>3, <2>3, <3>1 DEF MarksAgree
    <3>3. t.lit = t.chosen \ DisabledOptions
      BY <1>1, <2>4, <3>2 DEF SymDiff
    <3>4. checked' = lit' /\ ToSet(valuesSelected') = t.lit
      BY <1>3, <2>2, <2>4, <3>1 DEF MarksAgree
    <3>. QED BY <2>2, <3>3, <3>4 DEF SelectionsAreAdded
  <2>. QED BY <1>4, <2>6, <2>7, <2>8 DEF SelectInv
<1>5. CASE ~multiple
  <2>1. chosen' = {o} /\ lit' = {o} /\ valuesSelected' = valuesSelected /\ checked' = checked
    BY <1>5 DEF ChooseOption
  <2>2. Marks' \in SelectMarks
    BY <1>1, <1>3, <2>1 DEF Marks, SelectMarks
  <2>. QED BY <1>1, <1>5, <2>1, <2>2 DEF SelectInv, SelectionsAreAdded
<1>. QED BY <1>4, <1>5 DEF SelectInv

\* What else is done opens, closes or moves through the list, or builds it anew.
LEMMA SelectStep ==
  ASSUME SelectInv, SelectVisitor \/ ListHidden \/ UNCHANGED selectVars
  PROVE  SelectInv'
<1>1. ASSUME UNCHANGED <<multiple, choiceVars>> PROVE SelectInv'
  BY <1>1 DEF SelectInv, choiceVars, Marks, MarksAgree, SelectionsAreAdded
<1>2. ASSUME NEW o, ClickChoice(o) PROVE SelectInv'
  BY <1>2, ChooseKeeps DEF ClickChoice
<1>3. ASSUME KeyEnter PROVE SelectInv'
  <2>1. CASE \E o \in Enabled : ChooseOption(o)
    BY <1>3, <2>1, ChooseKeeps DEF KeyEnter
  <2>2. CASE UNCHANGED <<valuesSelected, chosen, lit, checked>>
    BY <1>1, <1>3, <2>2 DEF KeyEnter, choiceVars
  <2>. QED BY <1>3, <2>1, <2>2 DEF KeyEnter
<1>4. ASSUME Rebuild PROVE SelectInv'
  <2>1. multiple' = multiple /\ group' = group /\ multiple \in BOOLEAN
    BY <1>4 DEF Rebuild, SelectInv
  <2>2. PICK some \in Selections :
          /\ valuesSelected' = Built(some).values /\ chosen' = Built(some).chosen
          /\ lit' = Built(some).lit /\ checked' = Built(some).checked
          /\ misread' = Misread(some)
    BY <1>4 DEF Rebuild
  <2>3. some \in SUBSET FormOptions /\ (~multiple => \E o \in FormOptions : some = {o})
    BY <2>2 DEF Selections
  <2>4. PICK r : r = Built(some)
    OBVIOUS
  <2>5. /\ MarksAgree(r)
        /\ ~multiple => r = Unbuilt(some)
        /\ multiple /\ ~Misread(some) =>
             ToSet(r.values) = r.chosen \ DisabledOptions /\ r.checked = r.lit
    BY <2>3, <2>4, BuiltKeeps
  <2>6. Marks' = r
    BY <2>2, <2>4, <2>5 DEF Marks, MarksAgree, SelectMarks
  <2>7. misread' \in BOOLEAN
    BY <2>2, Zenon DEF Misread
  <2>8. ~misread' => SelectionsAreAdded'
    BY <2>1, <2>2, <2>4, <2>5 DEF SelectionsAreAdded
  <2>9. ASSUME ~multiple PROVE \E o \in FormOptions : chosen' = {o} /\ lit' \subseteq chosen'
    BY <2>2, <2>3, <2>4, <2>5, <2>9 DEF Unbuilt
  <2>10. Marks' \in SelectMarks /\ MarksAgree(Marks)'
    BY <2>5, <2>6 DEF MarksAgree
  <2>. QED BY <2>1, <2>7, <2>8, <2>9, <2>10 DEF SelectInv
<1>5. ASSUME FocusSelect \/ BlurSelect \/ ClickWindow \/ ClickOptgroup \/ HoverList
             \/ KeyCloses \/ KeyOpens \/ KeyMoves \/ ListHidden
      PROVE  SelectInv'
  BY <1>1, <1>5 DEF FocusSelect, BlurSelect, ClickWindow, ClickOptgroup, HoverList, KeyCloses,
                    KeyOpens, KeyMoves, ListHidden
<1>6. ASSUME UNCHANGED selectVars PROVE SelectInv'
  BY <1>1, <1>6 DEF selectVars
<1>. QED BY <1>2, <1>3, <1>4, <1>5, <1>6 DEF SelectVisitor

\* The invariant says what the run checks.
LEMMA SelectInvAgrees == SelectInv => SelectAgrees
<1>. SUFFICES ASSUME SelectInv PROVE SelectAgrees
  OBVIOUS
<1>1. ASSUME ~multiple PROVE Cardinality(chosen) = 1 /\ lit \subseteq chosen
  <2>1. PICK o \in FormOptions : chosen = {o} /\ lit \subseteq chosen
    BY <1>1 DEF SelectInv
  <2>. QED BY <2>1, FS_Singleton
<1>2. ASSUME multiple
      PROVE  lit = ToSet(valuesSelected) /\ IsInjective(valuesSelected) /\ lit \subseteq chosen
  BY <1>2 DEF SelectInv, MarksAgree, Marks
<1>. QED BY <1>1, <1>2 DEF SelectInv, SelectAgrees

(***************************************************************************)
(* The date picker.                                                        *)
(***************************************************************************)
PickerInv ==
  /\ open \in BOOLEAN /\ inputActive \in BOOLEAN /\ opened \in BOOLEAN
  /\ pageLocked = open
  /\ open => inputActive
  /\ ticks \in Seq(BOOLEAN)
  /\ inputActive = IF ticks = << >> THEN opened ELSE ticks[Len(ticks)]

\* The picker is closed at the start and no timer is set.
LEMMA InitPickerInv == Init => PickerInv
<1>. SUFFICES ASSUME Init PROVE PickerInv
  OBVIOUS
<1>1. open = FALSE /\ inputActive = FALSE /\ opened = FALSE /\ ticks = << >>
      /\ pageLocked = FALSE
  BY DEF Init, PickerInit
<1>2. << >> \in Seq(BOOLEAN)
  OBVIOUS
<1>. QED BY <1>1, <1>2 DEF PickerInv

\* The timer that was set last decides.
LEMMA TimerSet ==
  ASSUME PickerInv, NEW b \in BOOLEAN, inputActive' = b, ticks' = Append(ticks, b),
         opened' = opened, open' \in BOOLEAN, open' => b, pageLocked' = open'
  PROVE  PickerInv'
<1>1. ticks \in Seq(BOOLEAN) /\ opened \in BOOLEAN
  BY DEF PickerInv
<1>2. ticks' \in Seq(BOOLEAN) /\ ticks' # << >> /\ ticks'[Len(ticks')] = b
  BY <1>1
<1>. QED BY <1>1, <1>2 DEF PickerInv

\* The timers end in the order in which they were set.
LEMMA TimerEnds ==
  ASSUME PickerInv, Tick
  PROVE  PickerInv'
<1>1. ticks \in Seq(BOOLEAN) /\ ticks # << >> /\ inputActive = ticks[Len(ticks)]
  BY DEF PickerInv, Tick
<1>2. PICK n \in Nat \ {0} : n = Len(ticks)
  <2>1. Len(ticks) \in Nat \ {0}
    BY <1>1
  <2>. QED BY <2>1
<1>3. ticks' = Tail(ticks) /\ opened' = ticks[1]
  BY DEF Tick
<1>4. ticks' \in Seq(BOOLEAN) /\ Len(ticks') = n - 1 /\ \A k \in 1..(n - 1) : ticks'[k] = ticks[k + 1]
  BY <1>1, <1>2, <1>3
<1>5. opened' \in BOOLEAN
  BY <1>1, <1>2, <1>3
<1>6. UNCHANGED <<open, inputActive, pageLocked>>
  BY DEF Tick
<1>7. CASE n = 1
  <2>1. ticks' = << >>
    BY <1>4, <1>7
  <2>2. inputActive' = opened'
    BY <1>1, <1>2, <1>3, <1>6, <1>7
  <2>. QED BY <1>5, <1>6, <2>1, <2>2 DEF PickerInv
<1>8. CASE n # 1
  <2>1. ticks' # << >> /\ ticks'[Len(ticks')] = ticks[n]
    BY <1>2, <1>4, <1>8
  <2>2. inputActive' = ticks'[Len(ticks')]
    BY <1>1, <1>2, <1>6, <2>1
  <2>. QED BY <1>4, <1>5, <1>6, <2>1, <2>2 DEF PickerInv
<1>. QED BY <1>7, <1>8

\* Opening and closing set a timer each; what is done with dates sets none.
LEMMA PickerStep ==
  ASSUME PickerInv, PickerVisitor \/ Tick \/ UNCHANGED pickerVars
  PROVE  PickerInv'
<1>1. ASSUME UNCHANGED <<open, inputActive, opened, ticks, pageLocked>> PROVE PickerInv'
  BY <1>1 DEF PickerInv
<1>2. ASSUME ClosePicker PROVE PickerInv'
  <2>1. inputActive' = FALSE /\ ticks' = Append(ticks, FALSE) /\ opened' = opened
        /\ open' = FALSE /\ pageLocked' = open'
    BY <1>2 DEF ClosePicker
  <2>. QED BY <2>1, TimerSet
<1>3. ASSUME OpenPicker PROVE PickerInv'
  <2>1. inputActive' = TRUE /\ ticks' = Append(ticks, TRUE) /\ opened' = opened
        /\ open' \in BOOLEAN /\ pageLocked' = open'
    BY <1>3 DEF OpenPicker
  <2>. QED BY <2>1, TimerSet
<1>4. ASSUME DismissPicker \/ PickHighlighted \/ ClearDate PROVE PickerInv'
  BY <1>1, <1>2, <1>4 DEF DismissPicker, PickHighlighted, ClearDate
<1>5. ASSUME \/ PickDay \/ MoveHighlight \/ NavigateMonth \/ SelectMonth \/ SelectYear
             \/ SetDate \/ ChangeRules
      PROVE  PickerInv'
  BY <1>1, <1>5 DEF PickDay, MoveHighlight, NavigateMonth, SelectMonth, SelectYear, SetDate,
                    ChangeRules
<1>6. ASSUME UNCHANGED pickerVars PROVE PickerInv'
  BY <1>1, <1>6 DEF pickerVars
<1>. QED BY <1>3, <1>4, <1>5, <1>6, TimerEnds DEF PickerVisitor

\* The last timer of a sequence is at its length.
LEMMA PickerInvAgrees == PickerInv => PickerAgrees
<1>. SUFFICES ASSUME PickerInv PROVE PickerAgrees
  OBVIOUS
<1>1. (IF ticks = << >> THEN opened ELSE Last(ticks)) <=> inputActive
  BY DEF PickerInv, Last
<1>. QED BY <1>1 DEF PickerInv, PickerAgrees

(***************************************************************************)
(* What the visitor sees of an input is what the page gets from it: the    *)
(* chips, which are kept twice, the select, which is kept four times, and  *)
(* the picker, whose class is set by timers that fire late.                *)
(***************************************************************************)
InputInv == ChipsInv /\ SelectInv /\ PickerInv

\* At the start every input agrees with itself.
LEMMA InitInputInv == Init => InputInv
BY InitChipsInv, InitSelectInv, InitPickerInv DEF InputInv

\* Each input is changed by its own steps only.
LEMMA StepInputInv == InputInv /\ [Next]_vars => InputInv'
<1>. SUFFICES ASSUME InputInv, [Next]_vars PROVE InputInv'
  OBVIOUS
<1>1. ChipsVisitor \/ KeyUp \/ UNCHANGED chipsVars
  BY DEF Next, Only, vars
<1>2. SelectVisitor \/ ListHidden \/ UNCHANGED selectVars
  BY DEF Next, Only, vars
<1>3. PickerVisitor \/ Tick \/ UNCHANGED pickerVars
  BY DEF Next, Only, vars
<1>. QED BY <1>1, <1>2, <1>3, ChipsStep, SelectStep, PickerStep DEF InputInv

\* What the visitor sees of the chips, of the select and of the date picker is what the
\* page gets from them, whatever is typed, toggled or closed before a handler or a timer
\* has run.
THEOREM InputsTellTheTruth == Spec => []InputsAgree
<1>1. InputInv => InputsAgree
  BY ChipsInvAgrees, SelectInvAgrees, PickerInvAgrees DEF InputInv, InputsAgree
<1>. QED BY <1>1, InitInputInv, StepInputInv, PTL DEF Spec

-------------------------------------------------------------------------------

(***************************************************************************)
(* The date picker: dates.  The search of validate, round by round.  Its   *)
(* rounds are counted down from MaxShifts, three times the days there are. *)
(***************************************************************************)
Begin(from, by) == [at |-> from, by |-> by, atMin |-> FALSE, atMax |-> FALSE]

Searches(f, r, from, by, k) ==
  f = [n \in 0..k |-> IF n = 0 THEN Begin(from, by) ELSE Shift(r, from, f[n - 1])]

\* A search can be written down for as many rounds as one likes.
LEMMA SearchesExist ==
  ASSUME NEW r, NEW from, NEW by, NEW n \in Nat
  PROVE  \E f : Searches(f, r, from, by, n)
<1>. DEFINE Good == {k \in Nat : \E f : Searches(f, r, from, by, k)}
<1>1. 0 \in Good
  <2>1. Searches([i \in 0..0 |-> Begin(from, by)], r, from, by, 0)
    BY DEF Searches
  <2>. QED BY <2>1
<1>2. ASSUME NEW k \in Nat, k >= 0, k \in Good PROVE k + 1 \in Good
  <2>1. PICK f : Searches(f, r, from, by, k)
    BY <1>2
  <2>2. PICK g : g = [i \in 0..(k + 1) |-> IF i <= k THEN f[i] ELSE Shift(r, from, f[k])]
    OBVIOUS
  <2>3. ASSUME NEW i \in 0..(k + 1)
        PROVE  g[i] = IF i = 0 THEN Begin(from, by) ELSE Shift(r, from, g[i - 1])
    <3>1. CASE i <= k
      <4>1. i \in 0..k
        BY <3>1
      <4>2. f[i] = IF i = 0 THEN Begin(from, by) ELSE Shift(r, from, f[i - 1])
        BY <2>1, <4>1 DEF Searches
      <4>3. i # 0 => i - 1 \in 0..(k + 1) /\ i - 1 <= k
        BY <3>1
      <4>4. g[i] = f[i] /\ (i # 0 => g[i - 1] = f[i - 1])
        BY <2>2, <3>1, <4>3
      <4>. QED BY <4>2, <4>4
    <3>2. CASE i = k + 1
      <4>1. k \in 0..(k + 1) /\ k <= k /\ i # 0 /\ i - 1 = k /\ ~(i <= k)
        BY <3>2
      <4>2. g[k] = f[k]
        BY <2>2, <4>1
      <4>3. g[i] = Shift(r, from, f[k])
        BY <2>2, <4>1
      <4>. QED BY <3>2, <4>1, <4>2, <4>3
    <3>. QED BY <3>1, <3>2
  <2>4. Searches(g, r, from, by, k + 1)
    <3>1. g = [i \in 0..(k + 1) |-> g[i]]
      BY <2>2
    <3>. QED BY <2>3, <3>1 DEF Searches
  <2>. QED BY <2>4
<1>. HIDE DEF Good
<1>3. \A k \in Nat : k >= 0 => k \in Good
  BY <1>1, <1>2, NatInductionFrom
<1>4. n \in Good
  BY <1>3
<1>. QED BY <1>4 DEF Good

\* How long a year is: the days the page names are its days.
LEMMA DaysAreFew ==
  \E days \in Nat : /\ days = YearDays /\ days >= 1
                    /\ MaxShifts \in Nat /\ MaxShifts >= 3 * days
                    /\ SomeDays = 0..(days - 1)
<1>1. Len(MonthFirsts) \in Nat /\ Len(MonthFirsts) >= 2
  BY CalendarAssumption
<1>2. YearDays \in Nat
  BY <1>1, CalendarAssumption DEF YearDays
<1>3. YearDays >= 1
  BY <1>2, TodayAssumption DEF SomeDays
<1>. QED BY <1>2, <1>3, CalendarAssumption DEF SomeDays

\* The model's search is that one.
LEMMA SearchSteps ==
  ASSUME NEW r, NEW from, NEW by
  PROVE  \E f : Searches(f, r, from, by, MaxShifts) /\ Searched(r, from, by) = f[MaxShifts]
<1>. DEFINE search == CHOOSE f : Searches(f, r, from, by, MaxShifts)
<1>1. MaxShifts \in Nat
  BY DaysAreFew
<1>2. Searches(search, r, from, by, MaxShifts)
  BY <1>1, SearchesExist
<1>3. Searched(r, from, by) = search[MaxShifts]
  BY DEF Searched, Searches, Begin
<1>. QED BY <1>2, <1>3

CalendarRules ==
  [min : SomeDays \cup {NoLimit}, max : SomeDays \cup {NoLimit},
   items : SUBSET [kind : {"date", "weekday"}, at : Int, inverted : BOOLEAN],
   flipped : BOOLEAN]

\* A calendar with both limits: where a search can be shown to end.
Limited(r) == r.min # NoLimit /\ r.max # NoLimit

LimitedRules == {r \in CalendarRules : Limited(r)}

\* A limit that there is, is a day.
LEMMA LimitsAreDays ==
  ASSUME NEW r \in CalendarRules
  PROVE  /\ r.min # NoLimit => r.min \in SomeDays /\ r.min \in Int
         /\ r.max # NoLimit => r.max \in SomeDays /\ r.max \in Int
<1>1. SomeDays \subseteq Int
  BY DaysAreFew
<1>. QED BY <1>1 DEF CalendarRules

\* With both limits they are numbers below the length of the year.
LEMMA LimitsOfDays ==
  ASSUME NEW r \in LimitedRules, NEW days \in Nat, SomeDays \subseteq 0..(days - 1)
  PROVE  /\ r \in CalendarRules /\ r.min # NoLimit /\ r.max # NoLimit
         /\ \E low \in 0..(days - 1), high \in 0..(days - 1) : low = r.min /\ high = r.max
BY LimitsAreDays DEF LimitedRules, Limited

SearchStates == [at : Int, by : Int, atMin : BOOLEAN, atMax : BOOLEAN]

\* Where a round begins: where the last one ended, unless a large step left the month.
LeftMonth(from, s) ==
  (s.by > 1 \/ s.by < -1) /\ MonthInYear(MonthOf(s.at)) # MonthInYear(MonthOf(from))

\* What one round does: at a limit it turns around, between them it goes on.
AtMin(r, s, t, at) ==
  /\ at <= r.min
  /\ t.atMin /\ t.atMax = s.atMax /\ t.by = 1
  /\ ~s.atMax => t.at = IF at = r.min THEN r.min + 1 ELSE r.min

AtMax(r, s, t, at) ==
  /\ at > r.min /\ at >= r.max
  /\ t.atMax /\ t.atMin = s.atMin /\ t.by = -1
  /\ ~s.atMin => t.at = IF at = r.max THEN r.max - 1 ELSE r.max

Between(r, s, t, at, by) ==
  /\ at > r.min /\ at < r.max
  /\ t.atMin = s.atMin /\ t.atMax = s.atMax
  /\ t.by = by /\ t.at = at + by

\* A round of a search that has not ended steps from where it is, or from where it began
\* once it left the month, and turns around at a limit.
LEMMA OneRound ==
  ASSUME NEW r \in LimitedRules, NEW from \in Int, NEW s \in SearchStates
  PROVE  /\ Shift(r, from, s) \in SearchStates
         /\ Ended(r, s) => Shift(r, from, s) = s
         /\ ~Ended(r, s) =>
              \E at \in Int, by \in Int, t \in SearchStates :
                /\ t = Shift(r, from, s)
                /\ IF LeftMonth(from, s) THEN at = from /\ by = Sign(s.by)
                   ELSE at = s.at /\ by = s.by
                /\ AtMin(r, s, t, at) \/ AtMax(r, s, t, at) \/ Between(r, s, t, at, by)
<1>1. PICK at \in Int : at = IF LeftMonth(from, s) THEN from ELSE s.at
  BY DEF SearchStates
<1>2. PICK by \in Int : by = IF LeftMonth(from, s) THEN Sign(s.by) ELSE s.by
  BY DEF SearchStates, Sign
<1>3. PICK low \in Int, high \in Int : low = r.min /\ high = r.max
  <2>1. r \in CalendarRules /\ r.min # NoLimit /\ r.max # NoLimit
    BY DEF LimitedRules, Limited
  <2>. QED BY <2>1, LimitsAreDays
<1>. low # NoLimit /\ high # NoLimit
  BY CalendarAssumption
<1>4. PICK t : t = Turn(r, from, s)
  OBVIOUS
<1>5. CASE at <= low
  <2>1. t = [s EXCEPT !.atMin = TRUE, !.by = 1, !.at = IF at = low THEN at ELSE low - 1]
    BY <1>1, <1>2, <1>3, <1>4, <1>5 DEF Turn, LeftMonth
  <2>2. PICK to \in Int : to = IF at = low THEN at ELSE low - 1
    OBVIOUS
  <2>3. t = [s EXCEPT !.atMin = TRUE, !.by = 1, !.at = to]
    BY <2>1, <2>2
  <2>4. t \in SearchStates /\ t.atMin /\ t.atMax = s.atMax /\ t.by = 1 /\ t.at = to
    <3>1. t = [at |-> to, by |-> 1, atMin |-> TRUE, atMax |-> s.atMax]
      BY <2>3 DEF SearchStates
    <3>2. s.atMin \in BOOLEAN /\ s.atMax \in BOOLEAN
      BY DEF SearchStates
    <3>3. [at |-> to, by |-> 1, atMin |-> TRUE, atMax |-> s.atMax] \in SearchStates
      BY <3>2 DEF SearchStates
    <3>. QED BY <3>1, <3>3
  <2>. QED BY <1>1, <1>2, <1>3, <1>4, <1>5, <2>2, <2>4 DEF Shift, AtMin, SearchStates, Ended
<1>6. CASE at > low /\ at >= high
  <2>1. t = [s EXCEPT !.atMax = TRUE, !.by = -1, !.at = IF at = high THEN at ELSE high + 1]
    BY <1>1, <1>2, <1>3, <1>4, <1>6 DEF Turn, LeftMonth
  <2>2. PICK to \in Int : to = IF at = high THEN at ELSE high + 1
    OBVIOUS
  <2>3. t = [s EXCEPT !.atMax = TRUE, !.by = -1, !.at = to]
    BY <2>1, <2>2
  <2>4. t \in SearchStates /\ t.atMax /\ t.atMin = s.atMin /\ t.by = -1 /\ t.at = to
    <3>1. t = [at |-> to, by |-> -1, atMin |-> s.atMin, atMax |-> TRUE]
      BY <2>3 DEF SearchStates
    <3>2. s.atMin \in BOOLEAN /\ s.atMax \in BOOLEAN
      BY DEF SearchStates
    <3>3. [at |-> to, by |-> -1, atMin |-> s.atMin, atMax |-> TRUE] \in SearchStates
      BY <3>2 DEF SearchStates
    <3>. QED BY <3>1, <3>3
  <2>. QED BY <1>1, <1>2, <1>3, <1>4, <1>6, <2>2, <2>4 DEF Shift, AtMax, SearchStates, Ended
<1>7. CASE at > low /\ at < high
  <2>1. t = [s EXCEPT !.at = at, !.by = by]
    BY <1>1, <1>2, <1>3, <1>4, <1>7 DEF Turn, LeftMonth
  <2>2. t \in SearchStates /\ t.atMax = s.atMax /\ t.atMin = s.atMin /\ t.by = by /\ t.at = at
    BY <2>1 DEF SearchStates
  <2>. QED BY <1>1, <1>2, <1>3, <1>4, <1>7, <2>2 DEF Shift, Between, SearchStates, Ended
<1>. QED BY <1>5, <1>6, <1>7

\* What is left of a search for a day e that is enabled, day by day: once it has turned
\* around at a limit it walks towards e.
Nears(r, e, s, fuel) ==
  \/ ~Disabled(r, s.at)
  \/ /\ s.by = 1 \/ s.by = -1
     /\ ~(s.atMin /\ s.atMax)
     /\ s.atMin => s.by = 1 /\ s.at <= e /\ fuel >= e - s.at
     /\ s.atMax => s.by = -1 /\ s.at >= e /\ fuel >= s.at - e

NearsFromAfar(r, days, s, fuel) ==
  ~s.atMin /\ ~s.atMax /\ Disabled(r, s.at) =>
    /\ fuel >= days
    /\ s.at > r.min /\ s.at < r.max =>
         /\ s.by = 1 => fuel >= (r.max - s.at) + days
         /\ s.by = -1 => fuel >= (s.at - r.min) + days

\* Each round brings a search of single days nearer to the enabled day.
LEMMA NearsMore ==
  ASSUME NEW r \in LimitedRules, NEW from \in Int, NEW s \in SearchStates,
         NEW days \in Nat, days >= 1, SomeDays \subseteq 0..(days - 1),
         NEW e \in r.min..r.max, ~Disabled(r, e), NEW fuel \in Nat, fuel >= 1,
         Nears(r, e, s, fuel), NearsFromAfar(r, days, s, fuel)
  PROVE  /\ Nears(r, e, Shift(r, from, s), fuel - 1)
         /\ NearsFromAfar(r, days, Shift(r, from, s), fuel - 1)
<1>1. CASE ~Disabled(r, s.at)
  <2>1. Shift(r, from, s) = s
    BY <1>1, OneRound DEF Ended
  <2>. QED BY <1>1, <2>1 DEF Nears, NearsFromAfar
<1>2. CASE Disabled(r, s.at)
  <2>1. PICK low \in 0..(days - 1), high \in 0..(days - 1) : low = r.min /\ high = r.max
    BY LimitsOfDays
  <2>2. PICK a \in Int, b \in {1, -1} : a = s.at /\ b = s.by
    BY <1>2 DEF SearchStates, Nears
  <2>3. ~Ended(r, s) /\ ~LeftMonth(from, s) /\ a # e
    BY <1>2, <2>2 DEF Ended, Nears, LeftMonth
  <2>4. PICK t \in SearchStates :
          /\ t = Shift(r, from, s)
          /\ AtMin(r, s, t, a) \/ AtMax(r, s, t, a) \/ Between(r, s, t, a, b)
    BY <2>2, <2>3, OneRound
  <2>5. PICK c \in Int : c = t.at
    BY DEF SearchStates
  <2>6. CASE AtMin(r, s, t, a)
    <3>1. ~s.atMax
      BY <1>2, <2>1, <2>2, <2>3, <2>6 DEF Nears, AtMin
    <3>2. t.atMin /\ ~t.atMax /\ t.by = 1 /\ a <= low /\ c = IF a = low THEN low + 1 ELSE low
      BY <2>1, <2>5, <2>6, <3>1 DEF AtMin
    <3>3. c <= e
      BY <2>1, <2>3, <3>2
    <3>4. fuel - 1 >= e - c
      <4>1. CASE s.atMin
        BY <1>2, <2>1, <2>2, <2>3, <3>2, <4>1 DEF Nears
      <4>2. CASE ~s.atMin
        <5>1. fuel >= days
          BY <1>2, <3>1, <4>2 DEF NearsFromAfar
        <5>. QED BY <2>1, <3>2, <5>1
      <4>. QED BY <4>1, <4>2
    <3>. QED BY <2>4, <2>5, <3>2, <3>3, <3>4 DEF Nears, NearsFromAfar
  <2>7. CASE AtMax(r, s, t, a)
    <3>1. ~s.atMin
      BY <1>2, <2>1, <2>2, <2>3, <2>7 DEF Nears, AtMax
    <3>2. t.atMax /\ ~t.atMin /\ t.by = -1 /\ a >= high /\ c = IF a = high THEN high - 1 ELSE high
      BY <2>1, <2>5, <2>7, <3>1 DEF AtMax
    <3>3. c >= e
      BY <2>1, <2>3, <3>2
    <3>4. fuel - 1 >= c - e
      <4>1. CASE s.atMax
        BY <1>2, <2>1, <2>2, <2>3, <3>2, <4>1 DEF Nears
      <4>2. CASE ~s.atMax
        <5>1. fuel >= days
          BY <1>2, <3>1, <4>2 DEF NearsFromAfar
        <5>. QED BY <2>1, <3>2, <5>1
      <4>. QED BY <4>1, <4>2
    <3>. QED BY <2>4, <2>5, <3>2, <3>3, <3>4 DEF Nears, NearsFromAfar
  <2>8. CASE Between(r, s, t, a, b)
    <3>1. /\ a > low /\ a < high /\ t.by = b /\ c = a + b
          /\ (t.atMin <=> s.atMin) /\ (t.atMax <=> s.atMax)
      BY <2>1, <2>5, <2>8 DEF Between
    <3>2. Nears(r, e, t, fuel - 1)
      <4>1. ~(t.atMin /\ t.atMax)
        BY <1>2, <3>1 DEF Nears
      <4>2. t.atMin => b = 1 /\ c <= e /\ fuel - 1 >= e - c
        BY <1>2, <2>2, <2>3, <3>1 DEF Nears
      <4>3. t.atMax => b = -1 /\ c >= e /\ fuel - 1 >= c - e
        BY <1>2, <2>2, <2>3, <3>1 DEF Nears
      <4>. QED BY <2>5, <3>1, <4>1, <4>2, <4>3 DEF Nears
    <3>3. NearsFromAfar(r, days, t, fuel - 1)
      <4>1. SUFFICES ASSUME ~t.atMin, ~t.atMax
            PROVE  /\ fuel - 1 >= days
                   /\ c > low /\ c < high =>
                        /\ b = 1 => fuel - 1 >= (high - c) + days
                        /\ b = -1 => fuel - 1 >= (c - low) + days
        BY <2>1, <2>5, <3>1 DEF NearsFromAfar
      <4>2. /\ b = 1 => fuel >= (high - a) + days
            /\ b = -1 => fuel >= (a - low) + days
        BY <1>2, <2>1, <2>2, <3>1, <4>1 DEF NearsFromAfar
      <4>. QED BY <2>1, <2>2, <3>1, <4>2
    <3>. QED BY <2>4, <3>2, <3>3
  <2>. QED BY <2>4, <2>6, <2>7, <2>8
<1>. QED BY <1>1, <1>2

\* A search day by day finds an enabled day if there is one within the limits.
LEMMA SearchFinds ==
  ASSUME NEW r \in LimitedRules, NEW from \in Int, NEW by \in {1, -1},
         NEW e \in r.min..r.max, ~Disabled(r, e)
  PROVE  Searched(r, from, by).at \in Int /\ ~Disabled(r, Searched(r, from, by).at)
<1>1. PICK days \in Nat : /\ MaxShifts \in Nat /\ MaxShifts >= 3 * days /\ days >= 1
                          /\ SomeDays \subseteq 0..(days - 1)
  BY DaysAreFew
<1>2. PICK m \in Nat : m = MaxShifts /\ m >= 3 * days
  BY <1>1
<1>3. PICK f : Searches(f, r, from, by, m) /\ Searched(r, from, by) = f[m]
  BY <1>2, SearchSteps
<1>. DEFINE Good == {n \in Nat : n <= m => /\ f[n] \in SearchStates
                                           /\ Nears(r, e, f[n], m - n)
                                           /\ NearsFromAfar(r, days, f[n], m - n)}
<1>4. 0 \in Good
  <2>1. f[0] = Begin(from, by)
    BY <1>2, <1>3 DEF Searches
  <2>2. PICK low \in 0..(days - 1), high \in 0..(days - 1) : low = r.min /\ high = r.max
    BY <1>1, LimitsOfDays
  <2>3. f[0].at = from /\ f[0].by = by /\ ~f[0].atMin /\ ~f[0].atMax
    BY <2>1 DEF Begin
  <2>4. f[0] \in SearchStates
    BY <2>1 DEF Begin, SearchStates
  <2>5. Nears(r, e, f[0], m - 0)
    BY <2>3 DEF Nears
  <2>6. NearsFromAfar(r, days, f[0], m - 0)
    <3>1. m - 0 >= days /\ (from > low /\ from < high =>
                              m - 0 >= (high - from) + days /\ m - 0 >= (from - low) + days)
      BY <1>1, <1>2, <2>2
    <3>. QED BY <2>2, <2>3, <3>1 DEF NearsFromAfar
  <2>. QED BY <2>4, <2>5, <2>6
<1>5. ASSUME NEW n \in Nat, n >= 0, n \in Good PROVE n + 1 \in Good
  <2>1. SUFFICES ASSUME n + 1 <= m
                 PROVE  /\ f[n + 1] \in SearchStates
                        /\ Nears(r, e, f[n + 1], m - (n + 1))
                        /\ NearsFromAfar(r, days, f[n + 1], m - (n + 1))
    OBVIOUS
  <2>2. n + 1 \in 0..m /\ n + 1 # 0 /\ (n + 1) - 1 = n
    BY <2>1
  <2>3. f[n + 1] = Shift(r, from, f[n])
    BY <1>3, <2>2 DEF Searches
  <2>4. PICK fuel \in Nat : fuel = m - n /\ fuel >= 1 /\ fuel - 1 = m - (n + 1)
    BY <2>1
  <2>5. f[n] \in SearchStates /\ Nears(r, e, f[n], fuel) /\ NearsFromAfar(r, days, f[n], fuel)
    BY <1>5, <2>1, <2>4
  <2>6. f[n + 1] \in SearchStates
    BY <2>3, <2>5, OneRound
  <2>. HIDE DEF Good
  <2>7. Nears(r, e, f[n + 1], fuel - 1) /\ NearsFromAfar(r, days, f[n + 1], fuel - 1)
    BY <1>1, <2>3, <2>4, <2>5, NearsMore
  <2>. QED BY <2>4, <2>6, <2>7
<1>. HIDE DEF Good
<1>6. \A n \in Nat : n >= 0 => n \in Good
  BY <1>4, <1>5, NatInductionFrom
<1>7. m \in Good /\ m <= m /\ m - m = 0 /\ m >= 0
  BY <1>6
<1>8. f[m] \in SearchStates /\ Nears(r, e, f[m], 0) /\ NearsFromAfar(r, days, f[m], 0)
  BY <1>7 DEF Good
<1>9. PICK a \in Int : a = f[m].at
  BY <1>8 DEF SearchStates
<1>10. ~Disabled(r, a)
  <2>1. SUFFICES ASSUME Disabled(r, a) PROVE FALSE
    OBVIOUS
  <2>2. f[m].atMin \/ f[m].atMax
    BY <1>1, <1>8, <1>9, <2>1 DEF NearsFromAfar
  <2>3. a = e
    BY <1>8, <1>9, <2>1, <2>2 DEF Nears
  <2>. QED BY <2>1, <2>3
<1>. QED BY <1>3, <1>9, <1>10

\* What is left of a search that finds nothing: after one limit it walks to the other.
\* A large step stays in its month or goes back to where the search began.
Ends(r, from, days, s, fuel) ==
  \/ Ended(r, s)
  \/ /\ s.atMin /\ ~s.atMax /\ s.by = 1 /\ s.at >= r.min
     /\ fuel >= (IF s.at = r.min THEN 2 ELSE 1) /\ fuel >= r.max - s.at + 1
  \/ /\ s.atMax /\ ~s.atMin /\ s.by = -1 /\ s.at <= r.max
     /\ fuel >= 1 /\ fuel >= s.at - r.min + 1
  \/ /\ ~s.atMin /\ ~s.atMax /\ s.by \in {1, -1} /\ fuel >= days + 2
     /\ s.at > r.min /\ s.at < r.max =>
          /\ s.by = 1 => fuel >= (r.max - s.at) + days + 2
          /\ s.by = -1 => fuel >= (s.at - r.min) + days + 2
  \/ /\ ~s.atMin /\ ~s.atMax /\ (s.by > 1 \/ s.by < -1) /\ fuel >= days + 2
     /\ s.at = from \/ (from > r.min /\ from < r.max)
     /\ from > r.min /\ from < r.max => fuel >= 2 * days
     /\ s.at > r.min /\ s.at < r.max =>
          /\ s.by > 1 => fuel >= (r.max - s.at) + 2 * days
          /\ s.by < -1 => fuel >= (s.at - r.min) + 2 * days

\* Each round of any search leaves it one round less to its end.
LEMMA EndsSooner ==
  ASSUME NEW r \in LimitedRules, NEW from \in Int, NEW s \in SearchStates,
         NEW days \in Nat, days >= 1, SomeDays \subseteq 0..(days - 1),
         NEW fuel \in Nat, fuel >= 1, Ends(r, from, days, s, fuel)
  PROVE  Ends(r, from, days, Shift(r, from, s), fuel - 1)
<1>1. CASE Ended(r, s)
  <2>1. Shift(r, from, s) = s
    BY <1>1, OneRound
  <2>. QED BY <1>1, <2>1 DEF Ends
<1>2. CASE ~Ended(r, s)
  <2>1. PICK low \in 0..(days - 1), high \in 0..(days - 1) : low = r.min /\ high = r.max
    BY LimitsOfDays
  <2>2. PICK d \in Int, step \in Int : d = s.at /\ step = s.by
    BY DEF SearchStates
  <2>3. PICK a \in Int, b \in Int, t \in SearchStates :
          /\ t = Shift(r, from, s)
          /\ IF LeftMonth(from, s) THEN a = from /\ b = Sign(step) ELSE a = d /\ b = step
          /\ AtMin(r, s, t, a) \/ AtMax(r, s, t, a) \/ Between(r, s, t, a, b)
    BY <1>2, <2>2, OneRound
  <2>4. PICK c \in Int : c = t.at
    BY DEF SearchStates
  <2>5. ~(s.atMin /\ s.atMax)
    BY <1>2 DEF Ended
  <2>6. CASE AtMin(r, s, t, a)
    <3>1. CASE s.atMax
      BY <2>3, <2>6, <3>1 DEF AtMin, Ends, Ended
    <3>2. CASE ~s.atMax
      <4>1. t.atMin /\ ~t.atMax /\ t.by = 1 /\ a <= low /\ c = IF a = low THEN low + 1 ELSE low
        BY <2>1, <2>4, <2>6, <3>2 DEF AtMin
      <4>2. CASE s.atMin
        <5>1. a = d
          BY <1>2, <2>2, <2>3, <2>5, <4>2 DEF Ends, LeftMonth
        <5>2. d >= low /\ (d = low => fuel >= 2) /\ fuel >= high - d + 1
          BY <1>2, <2>1, <2>2, <2>5, <4>2 DEF Ends
        <5>3. fuel - 1 >= 1 /\ fuel - 1 >= high - c + 1 /\ c > low
          BY <2>1, <4>1, <5>1, <5>2
        <5>. QED BY <2>1, <2>3, <2>4, <4>1, <5>3 DEF Ends
      <4>3. CASE ~s.atMin
        <5>1. fuel >= days + 2
          BY <1>2, <3>2, <4>3 DEF Ends
        <5>2. fuel - 1 >= 2 /\ fuel - 1 >= high - c + 1 /\ c >= low
          BY <2>1, <4>1, <5>1
        <5>. QED BY <2>1, <2>3, <2>4, <4>1, <5>2 DEF Ends
      <4>. QED BY <4>2, <4>3
    <3>. QED BY <3>1, <3>2
  <2>7. CASE AtMax(r, s, t, a)
    <3>1. CASE s.atMin
      BY <2>3, <2>7, <3>1 DEF AtMax, Ends, Ended
    <3>2. CASE ~s.atMin
      <4>1. /\ t.atMax /\ ~t.atMin /\ t.by = -1 /\ a > low /\ a >= high
            /\ c = IF a = high THEN high - 1 ELSE high
        BY <2>1, <2>4, <2>7, <3>2 DEF AtMax
      <4>2. CASE s.atMax
        <5>1. a = d
          BY <1>2, <2>2, <2>3, <2>5, <4>2 DEF Ends, LeftMonth
        <5>2. d <= high /\ fuel >= d - low + 1
          BY <1>2, <2>1, <2>2, <2>5, <4>2 DEF Ends
        <5>3. fuel - 1 >= 1 /\ fuel - 1 >= c - low + 1 /\ c <= high
          BY <2>1, <4>1, <5>1, <5>2
        <5>. QED BY <2>1, <2>3, <2>4, <4>1, <5>3 DEF Ends
      <4>3. CASE ~s.atMax
        <5>1. fuel >= days + 2
          BY <1>2, <3>2, <4>3 DEF Ends
        <5>2. fuel - 1 >= 1 /\ fuel - 1 >= c - low + 1 /\ c <= high
          BY <2>1, <4>1, <5>1
        <5>. QED BY <2>1, <2>3, <2>4, <4>1, <5>2 DEF Ends
      <4>. QED BY <4>2, <4>3
    <3>. QED BY <3>1, <3>2
  <2>8. CASE Between(r, s, t, a, b)
    <3>1. /\ a > low /\ a < high /\ t.by = b /\ c = a + b
          /\ (t.atMin <=> s.atMin) /\ (t.atMax <=> s.atMax)
      BY <2>1, <2>4, <2>8 DEF Between
    <3>2. CASE s.atMin
      <4>1. a = d /\ b = 1 /\ fuel >= high - d + 1
        BY <1>2, <2>1, <2>2, <2>3, <2>5, <3>2 DEF Ends, LeftMonth
      <4>2. c > low /\ fuel - 1 >= 1 /\ fuel - 1 >= high - c + 1
        BY <2>1, <3>1, <4>1
      <4>. QED BY <2>1, <2>3, <2>4, <2>5, <3>1, <3>2, <4>1, <4>2 DEF Ends
    <3>3. CASE s.atMax
      <4>1. a = d /\ b = -1 /\ fuel >= d - low + 1
        BY <1>2, <2>1, <2>2, <2>3, <2>5, <3>3 DEF Ends, LeftMonth
      <4>2. c <= high /\ fuel - 1 >= 1 /\ fuel - 1 >= c - low + 1
        BY <2>1, <3>1, <4>1
      <4>. QED BY <2>1, <2>3, <2>4, <2>5, <3>1, <3>3, <4>1, <4>2 DEF Ends
    <3>4. CASE ~s.atMin /\ ~s.atMax /\ step \in {1, -1}
      <4>1. a = d /\ b = step
        BY <2>2, <2>3, <3>4 DEF LeftMonth
      <4>2. /\ b = 1 => fuel >= (high - a) + days + 2
            /\ b = -1 => fuel >= (a - low) + days + 2
        BY <1>2, <2>1, <2>2, <3>1, <3>4, <4>1 DEF Ends
      <4>3. /\ fuel - 1 >= days + 2
            /\ b = 1 => fuel - 1 >= (high - c) + days + 2
            /\ b = -1 => fuel - 1 >= (c - low) + days + 2
        BY <2>1, <3>1, <3>4, <4>1, <4>2
      <4>. QED BY <2>1, <2>3, <2>4, <3>1, <3>4, <4>1, <4>3 DEF Ends
    <3>5. CASE ~s.atMin /\ ~s.atMax /\ (step > 1 \/ step < -1)
      <4>1. /\ d = from \/ (from > low /\ from < high)
            /\ from > low /\ from < high => fuel >= 2 * days
            /\ d > low /\ d < high =>
                 /\ step > 1 => fuel >= (high - d) + 2 * days
                 /\ step < -1 => fuel >= (d - low) + 2 * days
        BY <1>2, <2>1, <2>2, <3>5 DEF Ends
      <4>2. CASE LeftMonth(from, s)
        <5>1. a = from /\ b \in {1, -1}
          BY <2>3, <3>5, <4>2 DEF Sign
        <5>2. /\ fuel - 1 >= days + 2
              /\ c > low /\ c < high =>
                   /\ b = 1 => fuel - 1 >= (high - c) + days + 2
                   /\ b = -1 => fuel - 1 >= (c - low) + days + 2
          BY <2>1, <3>1, <4>1, <5>1
        <5>. QED BY <2>1, <2>3, <2>4, <3>1, <3>5, <5>1, <5>2 DEF Ends
      <4>3. CASE ~LeftMonth(from, s)
        <5>1. a = d /\ b = step
          BY <2>3, <4>3
        <5>2. from > low /\ from < high
          BY <3>1, <4>1, <5>1
        <5>3. /\ fuel - 1 >= days + 2 /\ fuel - 1 >= 2 * days
              /\ c > low /\ c < high =>
                   /\ step > 1 => fuel - 1 >= (high - c) + 2 * days
                   /\ step < -1 => fuel - 1 >= (c - low) + 2 * days
          BY <2>1, <3>1, <3>5, <4>1, <5>1
        <5>. QED BY <2>1, <2>3, <2>4, <3>1, <3>5, <5>1, <5>2, <5>3 DEF Ends
      <4>. QED BY <4>2, <4>3
    <3>6. step \in {1, -1} \/ step > 1 \/ step < -1 \/ s.atMin \/ s.atMax
      BY <1>2, <2>2 DEF Ends
    <3>. QED BY <3>2, <3>3, <3>4, <3>5, <3>6
  <2>. QED BY <2>3, <2>6, <2>7, <2>8
<1>. QED BY <1>1, <1>2

\* Every search ends, whatever is disabled, with small steps or large ones.
LEMMA AllSearchesEnd ==
  ASSUME NEW r \in LimitedRules, NEW from \in Int, NEW by \in Int, by # 0
  PROVE  SearchEnds(r, from, by) /\ Searched(r, from, by).at \in Int
<1>1. PICK days \in Nat : /\ MaxShifts \in Nat /\ MaxShifts >= 3 * days /\ days >= 1
                          /\ SomeDays \subseteq 0..(days - 1)
  BY DaysAreFew
<1>2. PICK m \in Nat : m = MaxShifts /\ m >= 3 * days
  BY <1>1
<1>3. PICK f : Searches(f, r, from, by, m) /\ Searched(r, from, by) = f[m]
  BY <1>2, SearchSteps
<1>. DEFINE Good == {n \in Nat : n <= m => f[n] \in SearchStates /\ Ends(r, from, days, f[n], m - n)}
<1>4. 0 \in Good
  <2>1. f[0] = Begin(from, by)
    BY <1>2, <1>3 DEF Searches
  <2>2. PICK low \in 0..(days - 1), high \in 0..(days - 1) : low = r.min /\ high = r.max
    BY <1>1, LimitsOfDays
  <2>3. f[0].at = from /\ f[0].by = by /\ ~f[0].atMin /\ ~f[0].atMax
    BY <2>1 DEF Begin
  <2>4. f[0] \in SearchStates
    BY <2>1 DEF Begin, SearchStates
  <2>5. /\ m - 0 >= days + 2
        /\ from > low /\ from < high =>
             /\ m - 0 >= 2 * days
             /\ m - 0 >= (high - from) + days + 2 /\ m - 0 >= (from - low) + days + 2
             /\ m - 0 >= (high - from) + 2 * days /\ m - 0 >= (from - low) + 2 * days
    BY <1>1, <1>2, <2>2
  <2>6. Ends(r, from, days, f[0], m - 0)
    <3>1. CASE by \in {1, -1}
      BY <2>2, <2>3, <2>5, <3>1 DEF Ends
    <3>2. CASE by > 1 \/ by < -1
      BY <2>2, <2>3, <2>5, <3>2 DEF Ends
    <3>. QED BY <3>1, <3>2
  <2>. QED BY <2>4, <2>6
<1>5. ASSUME NEW n \in Nat, n >= 0, n \in Good PROVE n + 1 \in Good
  <2>1. SUFFICES ASSUME n + 1 <= m
                 PROVE  f[n + 1] \in SearchStates /\ Ends(r, from, days, f[n + 1], m - (n + 1))
    OBVIOUS
  <2>2. n + 1 \in 0..m /\ n + 1 # 0 /\ (n + 1) - 1 = n
    BY <2>1
  <2>3. f[n + 1] = Shift(r, from, f[n])
    BY <1>3, <2>2 DEF Searches
  <2>4. PICK fuel \in Nat : fuel = m - n /\ fuel >= 1 /\ fuel - 1 = m - (n + 1)
    BY <2>1
  <2>5. f[n] \in SearchStates /\ Ends(r, from, days, f[n], fuel)
    BY <1>5, <2>1, <2>4
  <2>6. f[n + 1] \in SearchStates
    BY <2>3, <2>5, OneRound
  <2>. HIDE DEF Good
  <2>7. Ends(r, from, days, f[n + 1], fuel - 1)
    BY <1>1, <2>3, <2>4, <2>5, EndsSooner
  <2>. QED BY <2>4, <2>6, <2>7
<1>. HIDE DEF Good
<1>6. \A n \in Nat : n >= 0 => n \in Good
  BY <1>4, <1>5, NatInductionFrom
<1>7. m \in Good /\ m <= m /\ m - m = 0 /\ m >= 0
  BY <1>6
<1>8. f[m] \in SearchStates /\ Ends(r, from, days, f[m], 0)
  BY <1>7 DEF Good
<1>9. Ended(r, f[m])
  BY <1>1, <1>8 DEF Ends
<1>. QED BY <1>3, <1>8, <1>9 DEF SearchEnds, SearchStates

\* A search has met only limits that there are.
Searching(r, s) ==
  /\ s \in SearchStates
  /\ s.atMin => r.min # NoLimit
  /\ s.atMax => r.max # NoLimit

\* So it is after another round.
LEMMA RoundOfAny ==
  ASSUME NEW r \in CalendarRules, NEW from \in Int, NEW s, Searching(r, s)
  PROVE  Searching(r, Shift(r, from, s))
<1>1. s \in SearchStates
  BY DEF Searching
<1>2. PICK at \in Int : at = IF LeftMonth(from, s) THEN from ELSE s.at
  BY <1>1 DEF SearchStates
<1>3. PICK by \in Int : by = IF LeftMonth(from, s) THEN Sign(s.by) ELSE s.by
  BY <1>1 DEF SearchStates, Sign
<1>4. PICK t : t = Turn(r, from, s)
  OBVIOUS
<1>5. Searching(r, t)
  <2>1. PICK a \in BOOLEAN, b \in BOOLEAN : a = s.atMin /\ b = s.atMax
    BY <1>1 DEF SearchStates
  <2>2. (a => r.min # NoLimit) /\ (b => r.max # NoLimit)
    BY <2>1 DEF Searching
  <2>3. CASE r.min # NoLimit /\ at <= r.min
    <3>1. PICK to \in Int : to = IF at = r.min THEN at ELSE r.min - 1
      BY <2>3, LimitsAreDays
    <3>2. t = [s EXCEPT !.atMin = TRUE, !.by = 1, !.at = to]
      BY <1>2, <1>4, <2>3, <3>1 DEF Turn, LeftMonth
    <3>3. t = [at |-> to, by |-> 1, atMin |-> TRUE, atMax |-> s.atMax]
      BY <1>1, <3>2 DEF SearchStates
    <3>4. [at |-> to, by |-> 1, atMin |-> TRUE, atMax |-> b] \in SearchStates
      BY DEF SearchStates
    <3>5. t \in SearchStates /\ t.atMax = s.atMax
      BY <2>1, <3>3, <3>4
    <3>. QED BY <2>1, <2>2, <2>3, <3>5 DEF Searching
  <2>4. CASE ~(r.min # NoLimit /\ at <= r.min) /\ r.max # NoLimit /\ at >= r.max
    <3>1. PICK to \in Int : to = IF at = r.max THEN at ELSE r.max + 1
      BY <2>4, LimitsAreDays
    <3>2. t = [s EXCEPT !.atMax = TRUE, !.by = -1, !.at = to]
      BY <1>2, <1>4, <2>4, <3>1 DEF Turn, LeftMonth
    <3>3. t = [at |-> to, by |-> -1, atMin |-> s.atMin, atMax |-> TRUE]
      BY <1>1, <3>2 DEF SearchStates
    <3>4. [at |-> to, by |-> -1, atMin |-> a, atMax |-> TRUE] \in SearchStates
      BY DEF SearchStates
    <3>5. t \in SearchStates /\ t.atMin = s.atMin
      BY <2>1, <3>3, <3>4
    <3>. QED BY <2>1, <2>2, <2>4, <3>5 DEF Searching
  <2>5. CASE ~(r.min # NoLimit /\ at <= r.min) /\ ~(r.max # NoLimit /\ at >= r.max)
    <3>1. t = [s EXCEPT !.at = at, !.by = by]
      BY <1>2, <1>3, <1>4, <2>5 DEF Turn, LeftMonth
    <3>2. t \in SearchStates /\ t.atMin = s.atMin /\ t.atMax = s.atMax
      BY <1>1, <3>1 DEF SearchStates
    <3>. QED BY <2>1, <2>2, <3>2 DEF Searching
  <2>. QED BY <2>3, <2>4, <2>5
<1>6. Searching(r, [t EXCEPT !.at = @ + t.by])
  <2>1. PICK c \in Int, d \in Int, a \in BOOLEAN, b \in BOOLEAN :
          c = t.at /\ d = t.by /\ a = t.atMin /\ b = t.atMax
    BY <1>5 DEF Searching, SearchStates
  <2>2. t = [at |-> c, by |-> d, atMin |-> a, atMax |-> b]
    BY <1>5, <2>1 DEF Searching, SearchStates
  <2>3. [t EXCEPT !.at = @ + t.by] = [at |-> c + d, by |-> d, atMin |-> a, atMax |-> b]
    BY <2>1, <2>2
  <2>4. (a => r.min # NoLimit) /\ (b => r.max # NoLimit)
    BY <1>5, <2>1 DEF Searching
  <2>. QED BY <2>3, <2>4 DEF Searching, SearchStates
<1>7. Shift(r, from, s) \in {s, t, [t EXCEPT !.at = @ + t.by]}
  BY <1>4 DEF Shift
<1>. QED BY <1>5, <1>6, <1>7

\* So is what any search comes to, whether it has ended or not.
LEMMA SearchesAreSuch ==
  ASSUME NEW r \in CalendarRules, NEW from \in Int, NEW by \in Int
  PROVE  Searching(r, Searched(r, from, by))
<1>1. PICK m \in Nat : m = MaxShifts
  BY DaysAreFew
<1>2. PICK f : Searches(f, r, from, by, m) /\ Searched(r, from, by) = f[m]
  BY <1>1, SearchSteps
<1>. DEFINE Good == {n \in Nat : n <= m => Searching(r, f[n])}
<1>3. 0 \in Good
  <2>1. f[0] = Begin(from, by)
    BY <1>1, <1>2 DEF Searches
  <2>2. Begin(from, by) \in SearchStates /\ ~Begin(from, by).atMin /\ ~Begin(from, by).atMax
    BY DEF Begin, SearchStates
  <2>3. Searching(r, f[0])
    BY <2>1, <2>2 DEF Searching
  <2>. QED BY <2>3
<1>4. ASSUME NEW n \in Nat, n >= 0, n \in Good PROVE n + 1 \in Good
  <2>1. SUFFICES ASSUME n + 1 <= m PROVE Searching(r, f[n + 1])
    OBVIOUS
  <2>2. n + 1 \in 0..m /\ n + 1 # 0 /\ (n + 1) - 1 = n /\ n <= m
    BY <2>1
  <2>3. f[n + 1] = Shift(r, from, f[n])
    BY <1>2, <2>2 DEF Searches
  <2>4. Searching(r, f[n])
    BY <1>4, <2>2
  <2>. QED BY <2>3, <2>4, RoundOfAny
<1>. HIDE DEF Good
<1>5. \A n \in Nat : n >= 0 => n \in Good
  BY <1>3, <1>4, NatInductionFrom
<1>6. m \in Good /\ m <= m /\ m >= 0
  BY <1>5
<1>7. Searching(r, f[m])
  BY <1>6 DEF Good
<1>. QED BY <1>2, <1>7

\* Both ways in which validate may look for a day.
LEMMA EitherWay ==
  ASSUME NEW r, NEW d, NEW by \in Int, by # 0
  PROVE  Towards(r, d, by) \in Int /\ Towards(r, d, by) # 0 /\ Towards(r, d, by) \in {by, -by}
BY DEF Towards

\* With both limits validate ends, whatever is disabled.
LEMMA LimitedValidateEnds ==
  ASSUME NEW r \in LimitedRules, NEW d \in Int, NEW by \in Int, by # 0, NEW nav
  PROVE  ValidateEnds(r, d, by, nav)
<1>1. PICK to \in Int : to = Towards(r, d, by) /\ to # 0
  BY EitherWay
<1>2. SearchEnds(r, d, to)
  BY <1>1, AllSearchesEnd
<1>. QED BY <1>1, <1>2 DEF ValidateEnds

\* A day that is not enabled is shifted to one that is, if there is one within the limits
\* and the search for it ends: a flipped calendar knows it by its weekdays and the dates
\* before and after.
LEMMA ValidateFinds ==
  ASSUME NEW r \in CalendarRules, NEW d \in Int, NEW e \in Int,
         ~BelowMin(r, e), ~AboveMax(r, e), ~Disabled(r, e), ValidateEnds(r, d, 1, FALSE)
  PROVE  ~Disabled(r, Validate(r, d, 1, FALSE))
<1>1. CASE ~Disabled(r, d)
  BY <1>1 DEF Validate, IsShifted
<1>2. CASE Disabled(r, d)
  <2>1. r.flipped => Weekdays(r) \/ DatesBefore(r, d) \/ DatesAfter(r, d)
    <3>1. SUFFICES ASSUME r.flipped PROVE Weekdays(r) \/ DatesBefore(r, d) \/ DatesAfter(r, d)
      OBVIOUS
    <3>2. PICK i \in r.items : IF i.kind = "date" THEN i.at = e ELSE SameWeekday(i.at, e)
      BY <3>1 DEF Disabled, Matching
    <3>3. i.kind \in {"date", "weekday"} /\ i.at \in Int
      BY DEF CalendarRules
    <3>4. e # d
      BY <1>2
    <3>. QED BY <3>2, <3>3, <3>4 DEF Weekdays, DatesBefore, DatesAfter
  <2>2. IsShifted(r, d, FALSE)
    BY <1>2, <2>1, Zenon DEF IsShifted
  <2>3. PICK to \in {1, -1} : to = Towards(r, d, 1)
    BY DEF Towards
  <2>4. Validate(r, d, 1, FALSE) = Searched(r, d, to).at
    BY <2>2, <2>3 DEF Validate
  <2>5. CASE Limited(r)
    <3>1. r \in LimitedRules
      BY <2>5 DEF LimitedRules
    <3>2. e \in r.min..r.max
      BY <2>5, LimitsAreDays DEF Limited, BelowMin, AboveMax
    <3>. QED BY <2>4, <3>1, <3>2, SearchFinds
  <2>6. CASE ~Limited(r)
    <3>1. PICK s : s = Searched(r, d, to)
      OBVIOUS
    <3>2. to \in Int
      OBVIOUS
    <3>3. Searching(r, s)
      BY <3>1, <3>2, SearchesAreSuch
    <3>4. Ended(r, s)
      BY <2>2, <2>3, <3>1 DEF ValidateEnds, SearchEnds
    <3>5. ~(s.atMin /\ s.atMax)
      BY <2>6, <3>3 DEF Searching, Limited
    <3>6. ~Disabled(r, s.at)
      BY <3>4, <3>5 DEF Ended
    <3>. QED BY <2>4, <3>1, <3>6
  <2>. QED BY <2>5, <2>6
<1>. QED BY <1>1, <1>2

\* What is set is a day.
LEMMA ValidateType ==
  ASSUME NEW r \in CalendarRules, NEW d \in Int, NEW by \in Int, by # 0, NEW nav
  PROVE  Validate(r, d, by, nav) \in Int
<1>1. PICK to \in Int : to = Towards(r, d, by)
  BY EitherWay
<1>2. Searched(r, d, to).at \in Int
  BY SearchesAreSuch DEF Searching, SearchStates
<1>. QED BY <1>1, <1>2 DEF Validate

\* So it is if the next enabled day is looked for.
LEMMA ShiftedType ==
  ASSUME NEW r \in CalendarRules, NEW d \in Int
  PROVE  /\ Validate(r, d, 1, FALSE) \in Int
         /\ r \in LimitedRules => ValidateEnds(r, d, 1, FALSE)
<1>1. 1 \in Int /\ 1 # 0
  OBVIOUS
<1>2. Validate(r, d, 1, FALSE) \in Int
  BY <1>1, ValidateType, Zenon
<1>3. r \in LimitedRules => ValidateEnds(r, d, 1, FALSE)
  BY <1>1, LimitedValidateEnds, Zenon
<1>. QED BY <1>2, <1>3

\* A year has some months.
LEMMA YearHasMonths == YearMonths \in Nat /\ YearMonths >= 1 /\ YearMonths + 1 = Len(MonthFirsts)
BY CalendarAssumption DEF YearMonths

\* The months are counted, from year to year.
LEMMA MonthOfType ==
  ASSUME NEW d \in Int
  PROVE  MonthOf(d) \in Int
<1>1. PICK k \in Nat : k = YearMonths /\ k >= 1
  BY YearHasMonths
<1>2. PICK days \in Nat : days = YearDays /\ days >= 1
  BY DaysAreFew
<1>3. PICK begun : begun = {m \in 1..k : MonthFirsts[m] <= d % YearDays}
  OBVIOUS
<1>4. IsFiniteSet(1..k)
  BY FS_Interval
<1>5. IsFiniteSet(begun)
  BY <1>3, <1>4, FS_Subset
<1>6. PICK n \in Nat : n = Cardinality(begun)
  BY <1>5, FS_CardinalityType
<1>7. MonthOf(d) = k * (d \div days) + n - 1
  BY <1>1, <1>2, <1>3, <1>6 DEF MonthOf
<1>8. d \div days \in Int
  BY <1>2
<1>9. k * (d \div days) \in Int
  BY <1>8
<1>. QED BY <1>7, <1>9

\* A month begins and ends with a day, and moving to it gives one.
LEMMA NavigateType ==
  ASSUME NEW d \in Int, NEW m \in Int
  PROVE  MonthFirst(m) \in Int /\ LastDay(m) \in Int /\ Navigate(d, m) \in Int
<1>1. ASSUME NEW n \in Int PROVE MonthFirst(n) \in Int
  <2>1. PICK k \in Nat : k = YearMonths /\ k >= 1 /\ k + 1 = Len(MonthFirsts)
    BY YearHasMonths
  <2>2. PICK days \in Nat : days = YearDays
    BY DaysAreFew
  <2>3. n % k \in 0..(k - 1) /\ n \div k \in Int
    BY <2>1
  <2>4. (n % k) + 1 \in 1..Len(MonthFirsts)
    BY <2>1, <2>3
  <2>5. PICK first \in Nat : first = MonthFirsts[(n % k) + 1]
    BY <2>4, CalendarAssumption
  <2>6. MonthFirst(n) = days * (n \div k) + first
    BY <2>1, <2>2, <2>5 DEF MonthFirst, YearOf, MonthInYear
  <2>7. days * (n \div k) \in Int
    BY <2>3
  <2>. QED BY <2>6, <2>7
<1>2. ASSUME NEW n \in Int PROVE LastDay(n) \in Int
  <2>1. n + 1 \in Int
    OBVIOUS
  <2>2. MonthFirst(n + 1) \in Int
    BY <1>1, <2>1
  <2>. QED BY <2>2 DEF LastDay
<1>3. MonthFirst(MonthOf(d)) \in Int
  BY <1>1, MonthOfType
<1>4. MonthFirst(m) \in Int /\ LastDay(m) \in Int
  BY <1>1, <1>2
<1>. QED BY <1>3, <1>4 DEF Navigate

CalendarItems == [select : Int \cup {NoDate}, highlight : Int, view : Int, endless : BOOLEAN]

\* The date that is selected is enabled, if one is.
SelectFits(r, i) ==
  ~i.endless =>
    \A d \in NearbyDays :
      ~BelowMin(r, d) /\ ~AboveMax(r, d) /\ ~Disabled(r, d)
        => (i.select # NoDate => ~Disabled(r, i.select))

\* No search goes on for ever between two limits.
EndlessFits(r, i) == i.endless => ~Limited(r)

DateInv ==
  rules \in CalendarRules /\ item \in CalendarItems /\ SelectFits(rules, item)
    /\ EndlessFits(rules, item)

\* What is highlighted leaves the selection alone,
LEMMA ItemHighlit ==
  ASSUME NEW old \in CalendarItems, NEW to \in Int, NEW month \in Int
  PROVE  /\ [old EXCEPT !.highlight = to, !.view = month] \in CalendarItems
         /\ [old EXCEPT !.highlight = to, !.view = month].select = old.select
         /\ [old EXCEPT !.highlight = to, !.view = month].endless = old.endless
BY DEF CalendarItems

\* and so does a search that does not end.
LEMMA ItemEndless ==
  ASSUME NEW old \in CalendarItems
  PROVE  /\ [old EXCEPT !.endless = TRUE] \in CalendarItems
         /\ [old EXCEPT !.endless = TRUE].select = old.select
         /\ [old EXCEPT !.endless = TRUE].endless
<1>1. PICK yes \in BOOLEAN : yes = TRUE
  OBVIOUS
<1>2. /\ [old EXCEPT !.endless = yes] \in CalendarItems
      /\ [old EXCEPT !.endless = yes].select = old.select
      /\ [old EXCEPT !.endless = yes].endless = yes
  BY DEF CalendarItems
<1>3. [old EXCEPT !.endless = TRUE] = [old EXCEPT !.endless = yes]
  BY <1>1
<1>4. [old EXCEPT !.endless = yes].endless
  BY <1>1, <1>2
<1>. QED BY <1>2, <1>3, <1>4

\* The selection is left alone, and with both limits the search has ended.
Rehighlit(r, old, new) ==
  /\ new \in CalendarItems
  /\ new.select = old.select
  /\ new.endless => old.endless \/ ~Limited(r)

\* That is what setting the highlight does.
LEMMA HighlightSet ==
  ASSUME NEW r \in CalendarRules, NEW old \in CalendarItems, NEW d \in Int,
         NEW by \in Int, by # 0, NEW nav
  PROVE  Rehighlit(r, old, SetHighlight(r, old, d, by, nav))
<1>1. PICK to \in Int : to = Validate(r, d, by, nav)
  BY ValidateType
<1>2. PICK day \in Int : day = Validate(r, to, by, nav)
  BY ValidateType
<1>3. PICK month \in Int : month = MonthOf(day)
  BY MonthOfType
<1>4. CASE ValidateEnds(r, d, by, nav)
  <2>1. SetHighlight(r, old, d, by, nav)
          = [old EXCEPT !.highlight = Validate(r, d, by, nav),
                        !.view = MonthOf(Validate(r, Validate(r, d, by, nav), by, nav))]
    BY <1>4 DEF SetHighlight
  <2>2. SetHighlight(r, old, d, by, nav) = [old EXCEPT !.highlight = to, !.view = month]
    BY <1>1, <1>2, <1>3, <2>1
  <2>3. /\ [old EXCEPT !.highlight = to, !.view = month] \in CalendarItems
        /\ [old EXCEPT !.highlight = to, !.view = month].select = old.select
        /\ [old EXCEPT !.highlight = to, !.view = month].endless = old.endless
    BY ItemHighlit
  <2>. QED BY <2>2, <2>3 DEF Rehighlit
<1>5. CASE ~ValidateEnds(r, d, by, nav)
  <2>1. SetHighlight(r, old, d, by, nav) = [old EXCEPT !.endless = TRUE]
    BY <1>5 DEF SetHighlight
  <2>2. ~Limited(r)
    BY <1>5, LimitedValidateEnds DEF LimitedRules
  <2>. QED BY <2>1, <2>2, ItemEndless DEF Rehighlit
<1>. QED BY <1>4, <1>5

\* So it does when the next enabled day is looked for.
LEMMA HighlightShifted ==
  ASSUME NEW r \in CalendarRules, NEW old \in CalendarItems, NEW d \in Int
  PROVE  Rehighlit(r, old, SetHighlight(r, old, d, 1, FALSE))
<1>1. 1 \in Int /\ 1 # 0
  OBVIOUS
<1>. QED BY <1>1, HighlightSet, Zenon

\* A selection is shifted to an enabled day, and the highlight follows it.
LEMMA SelectSet ==
  ASSUME NEW r \in CalendarRules, NEW old \in CalendarItems, NEW d \in Int, ~old.endless
  PROVE  /\ SetSelect(r, old, d) \in CalendarItems
         /\ SelectFits(r, SetSelect(r, old, d))
         /\ EndlessFits(r, SetSelect(r, old, d))
<1>1. PICK to \in Int : to = Validate(r, d, 1, FALSE)
  BY ShiftedType
<1>2. PICK changed \in CalendarItems : /\ changed = [old EXCEPT !.select = to]
                                       /\ changed.select = to /\ changed.endless = old.endless
  <2>1. [old EXCEPT !.select = to] \in CalendarItems
    BY DEF CalendarItems
  <2>2. [old EXCEPT !.select = to].select = to /\ [old EXCEPT !.select = to].endless = old.endless
    BY DEF CalendarItems
  <2>. QED BY <2>1, <2>2
<1>3. CASE ValidateEnds(r, d, 1, FALSE)
  <2>1. SetSelect(r, old, d) = SetHighlight(r, changed, to, 1, FALSE)
    BY <1>1, <1>2, <1>3 DEF SetSelect
  <2>2. Rehighlit(r, changed, SetSelect(r, old, d))
    BY <2>1, HighlightShifted, Zenon
  <2>3. ASSUME NEW e \in NearbyDays, ~BelowMin(r, e), ~AboveMax(r, e), ~Disabled(r, e)
        PROVE  ~Disabled(r, to)
    <3>1. e \in Int
      BY DEF NearbyDays
    <3>. QED BY <1>1, <1>3, <2>3, <3>1, ValidateFinds
  <2>. QED BY <1>2, <2>2, <2>3 DEF SelectFits, EndlessFits, Rehighlit
<1>4. CASE ~ValidateEnds(r, d, 1, FALSE)
  <2>1. SetSelect(r, old, d) = [old EXCEPT !.endless = TRUE]
    BY <1>4 DEF SetSelect
  <2>2. r \notin LimitedRules
    BY <1>4, ShiftedType
  <2>3. SetSelect(r, old, d) \in CalendarItems /\ SetSelect(r, old, d).endless
    BY <2>1, ItemEndless
  <2>. QED BY <2>2, <2>3 DEF SelectFits, EndlessFits, LimitedRules
<1>. QED BY <1>3, <1>4

\* When the rules change the selection is set anew if it does not fit them.
LEMMA RulesSet ==
  ASSUME NEW r \in CalendarRules, item \in CalendarItems, ~item.endless, SetRules(r)
  PROVE  DateInv'
<1>1. PICK kept : kept = IF item.select # NoDate /\ Disabled(r, item.select)
                         THEN SetSelect(r, item, item.select) ELSE item
  OBVIOUS
<1>2. kept \in CalendarItems /\ SelectFits(r, kept) /\ EndlessFits(r, kept)
  <2>1. CASE item.select # NoDate /\ Disabled(r, item.select)
    <3>1. item.select \in Int
      BY <2>1 DEF CalendarItems
    <3>. QED BY <1>1, <2>1, <3>1, SelectSet
  <2>2. CASE ~(item.select # NoDate /\ Disabled(r, item.select))
    BY <1>1, <2>2 DEF SelectFits, EndlessFits
  <2>. QED BY <2>1, <2>2
<1>3. rules' = r /\ item' = HighlightAnew(r, kept)
  BY <1>1 DEF SetRules
<1>4. CASE ~kept.endless /\ Disabled(r, kept.highlight)
  <2>1. item' = SetHighlight(r, kept, kept.highlight, 1, FALSE)
    BY <1>3, <1>4 DEF HighlightAnew
  <2>2. kept.highlight \in Int
    BY <1>2 DEF CalendarItems
  <2>3. item' \in CalendarItems /\ item'.select = kept.select /\ (item'.endless => ~Limited(r))
    <3>1. Rehighlit(r, kept, item')
      BY <1>2, <2>1, <2>2, HighlightShifted, Zenon
    <3>. QED BY <1>4, <3>1 DEF Rehighlit
  <2>. QED BY <1>2, <1>3, <1>4, <2>3 DEF DateInv, SelectFits, EndlessFits
<1>5. CASE ~(~kept.endless /\ Disabled(r, kept.highlight))
  <2>1. item' = kept
    BY <1>3, <1>5 DEF HighlightAnew
  <2>. QED BY <1>2, <1>3, <2>1 DEF DateInv
<1>. QED BY <1>4, <1>5

\* The limits and what is disabled stay such.
LEMMA ItemsStayRules ==
  ASSUME NEW r \in CalendarRules, NEW d \in SomeDays, NEW v \in 1..Week,
         NEW limit \in SomeDays \cup {NoLimit}
  PROVE  /\ [r EXCEPT !.min = limit] \in CalendarRules
         /\ [r EXCEPT !.max = limit] \in CalendarRules
         /\ [r EXCEPT !.items = Deactivated(r, DateItem(d, FALSE))] \in CalendarRules
         /\ [r EXCEPT !.items = Deactivated(r, WeekdayItem(v))] \in CalendarRules
         /\ \A items \in Activated(r, d) : [r EXCEPT !.items = items] \in CalendarRules
<1>. DEFINE I == [kind : {"date", "weekday"}, at : Int, inverted : BOOLEAN]
<1>1. d \in Int /\ v \in Int
  BY DaysAreFew, CalendarAssumption
<1>2. DateItem(d, FALSE) \in I /\ DateItem(d, TRUE) \in I /\ WeekdayItem(v) \in I
  BY <1>1 DEF DateItem, WeekdayItem
<1>3. r.items \subseteq I
  BY DEF CalendarRules
<1>4. ASSUME NEW more \in SUBSET I PROVE [r EXCEPT !.items = more] \in CalendarRules
  BY DEF CalendarRules
<1>5. Deactivated(r, DateItem(d, FALSE)) \subseteq I /\ Deactivated(r, WeekdayItem(v)) \subseteq I
  BY <1>2, <1>3 DEF Deactivated
<1>6. ASSUME NEW items \in Activated(r, d) PROVE items \subseteq I
  <2>. DEFINE exact == {i \in r.items : i.kind = "date" /\ i.at = d}
              met == {i \in r.items : i.kind = "weekday" /\ Overlaps(i.at, d)}
  <2>1. CASE exact # {} /\ met = {}
    <3>1. Activated(r, d) = {r.items \ exact}
      BY <2>1 DEF Activated
    <3>. QED BY <1>3, <3>1
  <2>2. CASE exact = {} /\ met # {}
    <3>1. Activated(r, d) = {r.items \cup {DateItem(d, TRUE)}}
      BY <2>2 DEF Activated
    <3>. QED BY <1>2, <1>3, <3>1
  <2>3. CASE exact # {} /\ met # {}
    <3>1. Activated(r, d) = {r.items \ (exact \cup met), (r.items \ exact) \cup {DateItem(d, TRUE)}}
      BY <2>3 DEF Activated
    <3>. QED BY <1>2, <1>3, <3>1
  <2>4. CASE exact = {} /\ met = {}
    <3>1. Activated(r, d) = {r.items}
      BY <2>4 DEF Activated
    <3>. QED BY <1>3, <3>1
  <2>. QED BY <2>1, <2>2, <2>3, <2>4
<1>7. [r EXCEPT !.min = limit] \in CalendarRules /\ [r EXCEPT !.max = limit] \in CalendarRules
  BY DEF CalendarRules
<1>. HIDE DEF I
<1>. QED BY <1>4, <1>5, <1>6, <1>7

\* Whatever the page makes of the rules of a calendar, they are rules of a calendar.
LEMMA RulesStayRules ==
  ASSUME NEW r \in CalendarRules
  PROVE  RulesAfter(r) \subseteq CalendarRules
<1>. SUFFICES ASSUME NEW q \in RulesAfter(r) PROVE q \in CalendarRules
  OBVIOUS
<1>1. 1 \in 1..Week /\ Today \in SomeDays /\ NoLimit \in SomeDays \cup {NoLimit}
  BY CalendarAssumption, TodayAssumption
<1>2. CASE \E limit \in SomeDays \cup {NoLimit} :
             q = [r EXCEPT !.min = limit] \/ q = [r EXCEPT !.max = limit]
  BY <1>1, <1>2, ItemsStayRules
<1>3. CASE \E d \in SomeDays : q = [r EXCEPT !.items = Deactivated(r, DateItem(d, FALSE))]
  BY <1>1, <1>3, ItemsStayRules
<1>4. CASE \E v \in 1..Week : q = [r EXCEPT !.items = Deactivated(r, WeekdayItem(v))]
  BY <1>1, <1>4, ItemsStayRules
<1>5. CASE \E d \in SomeDays : \E items \in Activated(r, d) : q = [r EXCEPT !.items = items]
  BY <1>1, <1>5, ItemsStayRules
<1>6. CASE q = [r EXCEPT !.flipped = ~@]
  <2>1. [r EXCEPT !.flipped = ~@] \in CalendarRules
    BY DEF CalendarRules
  <2>. QED BY <1>6, <2>1
<1>7. CASE \E all \in BOOLEAN : q = [r EXCEPT !.items = {}, !.flipped = all]
  <2>1. \A all \in BOOLEAN : [r EXCEPT !.items = {}, !.flipped = all] \in CalendarRules
    BY DEF CalendarRules
  <2>. QED BY <1>7, <2>1
<1>8. \/ q \in {[r EXCEPT !.min = limit] : limit \in SomeDays \cup {NoLimit}}
      \/ q \in {[r EXCEPT !.max = limit] : limit \in SomeDays \cup {NoLimit}}
      \/ q \in {[r EXCEPT !.items = Deactivated(r, new)] :
                new \in {DateItem(d, FALSE) : d \in SomeDays} \cup {WeekdayItem(v) : v \in 1..Week}}
      \/ q \in {[r EXCEPT !.items = items] : items \in UNION {Activated(r, d) : d \in SomeDays}}
      \/ q \in {[r EXCEPT !.flipped = ~@]}
      \/ q \in {[r EXCEPT !.items = {}, !.flipped = all] : all \in BOOLEAN}
  BY DEF RulesAfter
<1>9. CASE q \in {[r EXCEPT !.items = Deactivated(r, new)] :
                 new \in {DateItem(d, FALSE) : d \in SomeDays} \cup {WeekdayItem(v) : v \in 1..Week}}
  <2>1. PICK new \in {DateItem(d, FALSE) : d \in SomeDays} \cup {WeekdayItem(v) : v \in 1..Week} :
          q = [r EXCEPT !.items = Deactivated(r, new)]
    BY <1>9
  <2>. QED BY <1>3, <1>4, <2>1
<1>10. CASE q \in {[r EXCEPT !.items = items] : items \in UNION {Activated(r, d) : d \in SomeDays}}
  <2>1. PICK items \in UNION {Activated(r, d) : d \in SomeDays} : q = [r EXCEPT !.items = items]
    BY <1>10
  <2>. QED BY <1>5, <2>1
<1>. QED BY <1>2, <1>6, <1>7, <1>8, <1>9, <1>10

\* At the start no date is selected.
LEMMA InitDateInv == Init => DateInv
<1>. SUFFICES ASSUME Init PROVE DateInv
  OBVIOUS
<1>1. PICK days \in Nat : days = YearDays /\ days >= 1 /\ SomeDays = 0..(days - 1)
  BY DaysAreFew
<1>2. PICK limits \in {Unlimited, OfOneYear}, some \in {{}, {WeekdayItem(1)}}, all \in BOOLEAN :
        rules = [limits EXCEPT !.items = some, !.flipped = all]
  BY DEF Init, PickerInit
<1>. DEFINE I == [kind : {"date", "weekday"}, at : Int, inverted : BOOLEAN]
<1>3. some \in SUBSET I
  <2>1. WeekdayItem(1) \in I
    BY DEF WeekdayItem
  <2>. QED BY <2>1
<1>4. \E low \in SomeDays \cup {NoLimit}, high \in SomeDays \cup {NoLimit} :
        limits = [min |-> low, max |-> high, items |-> {}, flipped |-> FALSE]
  <2>1. CASE limits = Unlimited
    BY <2>1 DEF Unlimited
  <2>2. CASE limits = OfOneYear
    <3>1. limits = [min |-> 0, max |-> YearDays - 1, items |-> {}, flipped |-> FALSE]
      BY <2>2 DEF OfOneYear, Unlimited
    <3>2. 0 \in SomeDays /\ YearDays - 1 \in SomeDays
      BY <1>1
    <3>. QED BY <3>1, <3>2
  <2>. QED BY <2>1, <2>2
<1>5. rules \in CalendarRules
  <2>1. PICK low \in SomeDays \cup {NoLimit}, high \in SomeDays \cup {NoLimit} :
          rules = [min |-> low, max |-> high, items |-> some, flipped |-> all]
    <3>1. PICK low \in SomeDays \cup {NoLimit}, high \in SomeDays \cup {NoLimit} :
            limits = [min |-> low, max |-> high, items |-> {}, flipped |-> FALSE]
      BY <1>4
    <3>2. rules = [[min |-> low, max |-> high, items |-> {}, flipped |-> FALSE]
                     EXCEPT !.items = some, !.flipped = all]
      BY <1>2, <3>1
    <3>. QED BY <3>2
  <2>2. PICK items \in SUBSET I : items = some
    BY <1>3
  <2>3. [min |-> low, max |-> high, items |-> items, flipped |-> all] \in CalendarRules
    BY DEF CalendarRules
  <2>. QED BY <2>1, <2>2, <2>3
<1>6. Today \in Int
  BY <1>1, TodayAssumption
<1>7. PICK no \in BOOLEAN : no = FALSE
  OBVIOUS
<1>8. PICK old \in CalendarItems :
        /\ old = [select |-> NoDate, highlight |-> Today, view |-> MonthOf(Today), endless |-> no]
        /\ old.select = NoDate /\ ~old.endless
  <2>1. PICK month \in Int : month = MonthOf(Today)
    BY <1>6, MonthOfType
  <2>2. [select |-> NoDate, highlight |-> Today, view |-> month, endless |-> no] \in CalendarItems
    BY <1>6 DEF CalendarItems
  <2>. QED BY <1>7, <2>1, <2>2
<1>9. item = SetHighlight(rules, old, Today, 1, FALSE)
  <2>1. old = [select |-> NoDate, highlight |-> Today, view |-> MonthOf(Today), endless |-> FALSE]
    BY <1>7, <1>8
  <2>2. item = SetHighlight(rules, [select |-> NoDate, highlight |-> Today,
                                   view |-> MonthOf(Today), endless |-> FALSE],
                            Today, 1, FALSE)
    BY Zenon DEF Init, PickerInit
  <2>. QED BY <2>1, <2>2, Zenon
<1>10. item \in CalendarItems /\ item.select = NoDate /\ (item.endless => ~Limited(rules))
  <2>1. Rehighlit(rules, old, item)
    BY <1>5, <1>6, <1>9, HighlightShifted, Zenon
  <2>. QED BY <1>8, <2>1 DEF Rehighlit
<1>. QED BY <1>5, <1>10 DEF DateInv, SelectFits, EndlessFits

\* The select of the years names years.
LEMMA YearsType ==
  ASSUME rules \in CalendarRules, item.view \in Int, NEW y \in YearsShown
  PROVE  y \in Int
<1>1. ASSUME NEW m \in Int PROVE YearOf(m) \in Int
  BY YearHasMonths DEF YearOf
<1>2. YearOf(item.view) \in Int /\ YearsAround \in Int
  BY <1>1, TodayAssumption
<1>3. /\ rules.min # NoLimit => YearOf(MonthOf(rules.min)) \in Int
      /\ rules.max # NoLimit => YearOf(MonthOf(rules.max)) \in Int
  BY <1>1, LimitsAreDays, MonthOfType
<1>4. \E low \in Int, high \in Int : YearsShown = low..high
  BY <1>2, <1>3 DEF YearsShown
<1>. QED BY <1>4

\* Days are picked, highlighted and cleared, and the rules change: a date is selected by
\* SetSelect only, and looked at again whenever the rules change.
LEMMA DateStep ==
  ASSUME DateInv, PickerVisitor \/ Tick \/ UNCHANGED pickerVars
  PROVE  DateInv'
<1>1. /\ rules \in CalendarRules /\ item \in CalendarItems
      /\ item.highlight \in Int /\ item.view \in Int
  BY DEF DateInv, CalendarItems
<1>2. CASE UNCHANGED <<rules, item>>
  BY <1>2 DEF DateInv
<1>3. CASE Tick \/ UNCHANGED pickerVars
  BY <1>2, <1>3 DEF Tick, pickerVars
<1>4. CASE PickerVisitor
  <2>1. ~item.endless
    BY <1>4 DEF PickerVisitor
  <2>2. ASSUME NEW d \in Int, rules' = rules, item' = SetSelect(rules, item, d) PROVE DateInv'
    BY <1>1, <2>1, <2>2, SelectSet DEF DateInv
  <2>3. ASSUME NEW d \in Int, NEW by \in Int, by # 0, NEW nav,
               rules' = rules, item' = SetHighlight(rules, item, d, by, nav)
        PROVE  DateInv'
    <3>1. item' \in CalendarItems /\ item'.select = item.select /\ (item'.endless => ~Limited(rules))
      BY <1>1, <2>1, <2>3, HighlightSet DEF Rehighlit
    <3>. QED BY <1>1, <2>1, <2>3, <3>1 DEF DateInv, SelectFits, EndlessFits
  <2>4. CASE PickDay \/ SetDate
    <3>1. PICK days \in Nat : SomeDays = 0..(days - 1)
      BY DaysAreFew
    <3>2. Today \in Int /\ SomeDays \subseteq Int
      BY <3>1, TodayAssumption
    <3>3. MonthFirst(item.view - 1) \in Int /\ LastDay(item.view + 1) \in Int
      <4>1. item.view - 1 \in Int /\ item.view + 1 \in Int
        BY <1>1
      <4>. QED BY <1>1, <4>1, NavigateType
    <3>4. PICK d \in Int : rules' = rules /\ item' = SetSelect(rules, item, d)
      BY <2>4, <3>2, <3>3 DEF PickDay, SetDate
    <3>. QED BY <2>2, <3>4
  <2>5. CASE PickHighlighted
    BY <1>1, <2>2, <2>5 DEF PickHighlighted
  <2>6. CASE ClearDate
    <3>1. rules' = rules /\ item' = [item EXCEPT !.select = NoDate]
      BY <2>6 DEF ClearDate
    <3>2. item' \in CalendarItems /\ item'.select = NoDate /\ item'.endless = item.endless
      BY <1>1, <3>1 DEF CalendarItems
    <3>. QED BY <1>1, <2>1, <3>1, <3>2 DEF DateInv, SelectFits, EndlessFits
  <2>7. CASE MoveHighlight
    <3>1. PICK by \in {1, -1, Week, -Week} :
            rules' = rules /\ item' = SetHighlight(rules, item, item.highlight + by, by, FALSE)
      BY <2>7 DEF MoveHighlight
    <3>2. by \in Int /\ by # 0
      BY CalendarAssumption
    <3>3. item.highlight + by \in Int
      BY <1>1, <3>2
    <3>. QED BY <2>3, <3>1, <3>2, <3>3
  <2>8. CASE NavigateMonth \/ SelectMonth \/ SelectYear
    <3>1. PICK m \in Int, nav \in BOOLEAN :
            rules' = rules /\ item' = SetHighlight(rules, item, Navigate(item.highlight, m), 1, nav)
      <4>1. PICK k \in Nat : k = YearMonths /\ k >= 1
        BY YearHasMonths
      <4>2. PICK year \in Int, n \in Int : year = YearOf(item.view) /\ n = MonthInYear(item.view)
        BY <1>1, <4>1 DEF YearOf, MonthInYear
      <4>3. PICK yes \in BOOLEAN, no \in BOOLEAN : yes = TRUE /\ no = FALSE
        OBVIOUS
      <4>4. CASE NavigateMonth
        <5>1. MonthOf(item.highlight) \in Int
          BY <1>1, MonthOfType
        <5>2. PICK from \in Int, nav \in {1, -1} :
                /\ rules' = rules
                /\ item' = SetHighlight(rules, item, Navigate(item.highlight, from + nav), 1, TRUE)
          BY <1>1, <4>4, <5>1 DEF NavigateMonth
        <5>3. from + nav \in Int
          OBVIOUS
        <5>. QED BY <4>3, <5>2, <5>3
      <4>5. CASE SelectMonth
        <5>1. PICK i \in 0..(k - 1) :
                /\ rules' = rules
                /\ item' = SetHighlight(rules, item, Navigate(item.highlight, k * year + i), 1, FALSE)
          BY <4>1, <4>2, <4>5 DEF SelectMonth
        <5>2. k * year + i \in Int
          OBVIOUS
        <5>. QED BY <4>3, <5>1, <5>2
      <4>6. CASE SelectYear
        <5>1. PICK y \in YearsShown :
                /\ rules' = rules
                /\ item' = SetHighlight(rules, item, Navigate(item.highlight, k * y + n), 1, FALSE)
          BY <4>1, <4>2, <4>6 DEF SelectYear
        <5>2. y \in Int
          BY <1>1, YearsType
        <5>3. k * y + n \in Int
          BY <5>2
        <5>. QED BY <4>3, <5>1, <5>3
      <4>. QED BY <2>8, <4>4, <4>5, <4>6
    <3>2. Navigate(item.highlight, m) \in Int
      BY <1>1, NavigateType
    <3>3. 1 \in Int /\ 1 # 0
      OBVIOUS
    <3>. QED BY <2>3, <3>1, <3>2, <3>3, Zenon
  <2>9. CASE ChangeRules
    <3>1. PICK r \in CalendarRules : SetRules(r)
      BY <1>1, <2>9, RulesStayRules DEF ChangeRules
    <3>. QED BY <1>1, <2>1, <3>1, RulesSet
  <2>10. CASE OpenPicker \/ DismissPicker
    BY <1>2, <2>10 DEF OpenPicker, DismissPicker
  <2>. QED BY <1>4, <2>4, <2>5, <2>6, <2>7, <2>8, <2>9, <2>10 DEF PickerVisitor
<1>. QED BY <1>3, <1>4

\* Only the date picker changes its dates.
LEMMA StepDateInv == DateInv /\ [Next]_vars => DateInv'
<1>. SUFFICES ASSUME DateInv, [Next]_vars PROVE DateInv'
  OBVIOUS
<1>1. PickerVisitor \/ Tick \/ UNCHANGED pickerVars
  BY DEF Next, Only, vars
<1>. QED BY <1>1, DateStep

\* Whatever is disabled, limited, enabled again or flipped, and wherever the highlight has
\* gone meanwhile: the date that is selected is one the calendar allows as long as it
\* allows one near, and the search that sees to it ends, with steps of a day or of a week,
\* unless the calendar has no first or no last day.
THEOREM DatesCanBeSelected == Spec => []DateIsSelectable
<1>1. ASSUME DateInv PROVE DateIsSelectable
  BY <1>1 DEF DateInv, SelectFits, EndlessFits, Limited, DateIsSelectable, SearchesEnd
<1>. QED BY <1>1, InitDateInv, StepDateInv, PTL DEF Spec
-------------------------------------------------------------------------------
(***************************************************************************)
(* What kind of values there are.  What is counted is bounded by what the  *)
(* visitor has done so far; of the dialogs this needs to know that every   *)
(* handler of escape is that of one open dialog, so that escape begins as  *)
(* many animations as it takes handlers away.                              *)
(***************************************************************************)
Heights == -MaxEvents..MaxEvents

ModalTypes ==
  /\ lastID \in 0..events /\ stack \in Int /\ stack <= lastID
  /\ modal \in [Dialogs -> [open : BOOLEAN, shown : BOOLEAN, overlay : 0..lastID, z : Heights]]
  /\ overlays \subseteq [id : 1..lastID, of : Dialogs, z : Heights]
  /\ exits \in Seq([of : Dialogs, overlay : 0..lastID])

\* Open dialogs lie on overlays of their own, and escape knows all of these.
OpenOnTheirOwn ==
  /\ \A m, n \in Dialogs : modal[m].open /\ modal[m].overlay = modal[n].overlay => m = n
  /\ \A m \in Dialogs : modal[m].open => modal[m].overlay # NoOverlay
  /\ dismissers \subseteq 1..lastID
  /\ \A id \in 1..lastID :
       id \in dismissers <=> \E m \in Dialogs : modal[m].open /\ modal[m].overlay = id

ModalTypeInv ==
  ModalTypes /\ OpenOnTheirOwn /\ Len(exits) - stack + Cardinality(dismissers) <= events

NavOverlayOf(made) == [id : 1..made, kind : {"click", "pan"}, alone : BOOLEAN]

NavTypeInv ==
  /\ menuOut \in BOOLEAN /\ touching \in BOOLEAN
  /\ navMade \in 0..events
  /\ navOverlays \in Seq(NavOverlayOf(navMade))
  /\ opening \subseteq 1..navMade
  /\ \A id \in fading : \E i \in 1..Len(navOverlays) : navOverlays[i].id = id

BoxTypeInv == doneAnimating \in BOOLEAN /\ ancestorsChanged \in BOOLEAN /\ scrolling \in BOOLEAN

DropdownTypeInv ==
  hovered \in BOOLEAN /\ hoverOpen \in BOOLEAN /\ binders + closers <= events

TipTypeInv ==
  /\ over \in BOOLEAN /\ waiting \in BOOLEAN /\ started \in BOOLEAN
  /\ tip \in {"hidden", "shown", "fading"}
  /\ leavers <= events

\* A toast is taken out once for its time, and once for every touch.
ToastRecords == [place : {"none", "shown", "gone"}, timeLeft : 0..MaxTicks, counting : BOOLEAN,
                 panning : BOOLEAN, touched : BOOLEAN, exits : Nat]

Bit(yes) == IF yes THEN 1 ELSE 0

ToastFits(r, done) ==
  /\ r.counting => r.timeLeft > 0
  /\ r.place = "none" => ~r.counting /\ r.timeLeft > 0
  /\ r.exits + Bit(r.counting) + Bit(r.touched) <= done

ToastTypeInv ==
  toast \in [Toasts -> ToastRecords] /\ \A t \in Toasts : ToastFits(toast[t], events)

SliderTypeInv ==
  /\ intervals \in 0..1
  /\ swipe \in {"none", "left", "right", "both"}
  /\ panned \in BOOLEAN /\ stopped \in BOOLEAN

CarouselTypeInv ==
  /\ pressed \in BOOLEAN /\ shifted \in BOOLEAN /\ requested \in Items \cup {Nothing}
  /\ missed \in {"nothing", "request", "motion"}

SelectTypeInv ==
  /\ group \in [FormOptions -> Nat]
  /\ highlighted \in 0..EntryCount
  /\ listOpen \in {"hidden", "shown", "fading"}
  /\ optionsHover \in BOOLEAN

UseInv == events \in 0..MaxEvents /\ used \in Parts

ChipsTypeInv == oldVal \in Texts \cup {Unset}

TypeInv ==
  /\ UseInv /\ ModalTypeInv /\ NavTypeInv /\ BoxTypeInv
  /\ DropdownTypeInv /\ TipTypeInv /\ ToastTypeInv
  /\ SliderTypeInv /\ CarouselTypeInv /\ ChipsTypeInv /\ SelectTypeInv

\* The visitor does MaxEvents things at most, and what else happens is none.
LEMMA EventsGrow ==
  ASSUME events \in 0..MaxEvents, [Next]_vars
  PROVE  events' \in events..MaxEvents
<1>. DEFINE Counted == Event \/ UNCHANGED events
<1>1. Counted => events' \in events..MaxEvents
  BY EventsAssumption DEF Event
<1>2. ASSUME ModalVisitor \/ ExitModal PROVE Counted
  BY <1>2 DEF ModalVisitor, OpenModal, OpenModalAgain, CloseByMethod, CloseByOverlay, ExitModal
<1>3. ASSUME NavVisitor \/ NavAnimation PROVE Counted
  BY <1>3 DEF NavVisitor, ClickButton, ClickOverlay, ClickDragTarget, ClickItem, Pan,
              NavAnimation, PanEnd, MenuOpened, OverlayRemoved
<1>4. ASSUME BoxVisitor \/ BoxAnimation \/ Escape PROVE Counted
  BY <1>4 DEF BoxVisitor, ClickImage, ClickBoxOverlay, ScrollPage, BoxAnimation, Enlarged,
              Returned, Escape
<1>5. ASSUME AccordionVisitor \/ AccordionAnimation PROVE Counted
  BY <1>5 DEF AccordionVisitor, AccordionAnimation, ClickHeader, CloseHeader, SlideEnds, pageVars
<1>6. ASSUME DropdownVisitor \/ DropdownTimers PROVE Counted
  BY <1>6 DEF DropdownVisitor, DropdownTimers, ClickOrigin, ClickDocument, EnterOrigin,
              LeaveDropdown, OpenDropdown, CloseDropdown, BindDocument, FadedOut, pageVars
<1>7. ASSUME HintVisitor \/ HintTimers PROVE Counted
  BY <1>7 DEF HintVisitor, HintTimers, EnterTip, LeaveTip, ShowToast, PanToast, ShowTooltip,
              AnimateBack, TipHidden, Count, PanToastEnd, ToastOut, pageVars
<1>8. ASSUME SliderVisitor \/ SliderTouch PROVE Counted
  BY <1>8 DEF SliderVisitor, SliderTouch, AutoScroll, PanSlide, PauseSlider, StartSlider,
              StepSlider, ClickIndicator, PanSlideEnd, PanSlideCancelled, pageVars
<1>9. ASSUME CarouselVisitor \/ CarouselFrames PROVE Counted
  BY <1>9 DEF CarouselVisitor, CarouselFrames, NextItem, Tap, Drag, ResizeCarousel, Redraw, CycleTo,
              Release, AutoScrolls, pageVars
<1>10. ASSUME ChipsVisitor \/ KeyUp PROVE Counted
  BY <1>10 DEF ChipsVisitor, KeyUp, FocusInput, BlurInput, Enter, ClickOption, LeaveToChips,
               DeleteSelected, SelectNeighbour, Type, MoveActive, ClickChip, ClickClose, pageVars
<1>11. ASSUME SelectVisitor \/ ListHidden PROVE Counted
  BY <1>11 DEF SelectVisitor, ListHidden, FocusSelect, BlurSelect, ClickWindow, HoverList,
               KeyCloses, KeyOpens, KeyMoves, KeyEnter, Rebuild, ClickChoice, ClickOptgroup,
              pageVars
<1>12. ASSUME PickerVisitor \/ Tick PROVE Counted
  BY <1>12 DEF PickerVisitor, Tick, OpenPicker, DismissPicker, PickDay, PickHighlighted,
               ClearDate, MoveHighlight, NavigateMonth, SelectMonth, SelectYear, SetDate,
              ChangeRules, pageVars
<1>13. ASSUME UNCHANGED vars PROVE Counted
  BY <1>13 DEF vars, pageVars
<1>. HIDE DEF Counted
<1>. QED BY <1>1, <1>2, <1>3, <1>4, <1>5, <1>6, <1>7, <1>8, <1>9, <1>10, <1>11, <1>12, <1>13
         DEF Next, Only, OverlayVisitor, OverlayAnimation

(***************************************************************************)
(* The dialogs.                                                            *)
(***************************************************************************)
DialogOf(last) == [open : BOOLEAN, shown : BOOLEAN, overlay : 0..last, z : Heights]
OverlayOf(last) == [id : 1..last, of : Dialogs, z : Heights]
ExitOf(last) == [of : Dialogs, overlay : 0..last]

\* The handlers of escape can be counted.
LEMMA DismissersAreFew ==
  ASSUME ModalTypeInv, events \in 0..MaxEvents
  PROVE  /\ IsFiniteSet(dismissers) /\ Cardinality(dismissers) \in Nat
         /\ Len(exits) \in Nat /\ lastID \in Nat
         /\ stack \in Heights
<1>1. lastID \in Nat /\ stack <= lastID /\ lastID <= MaxEvents /\ stack \in Int
  BY EventsAssumption DEF ModalTypeInv, ModalTypes
<1>2. IsFiniteSet(1..lastID) /\ dismissers \in SUBSET (1..lastID)
  BY <1>1, FS_Interval DEF ModalTypeInv, OpenOnTheirOwn
<1>3. IsFiniteSet(dismissers)
  BY <1>2, FS_Subset
<1>4. PICK n \in Nat : n = Cardinality(dismissers)
  BY <1>3, FS_CardinalityType
<1>5. PICK k \in Nat : k = Len(exits)
  BY DEF ModalTypeInv, ModalTypes
<1>6. k - stack + n <= events
  BY <1>4, <1>5 DEF ModalTypeInv
<1>7. stack \in Heights
  BY <1>1, <1>6, EventsAssumption DEF Heights
<1>. QED BY <1>1, <1>3, <1>4, <1>5, <1>7

\* A number more for the overlays.
LEMMA MoreOverlays ==
  ASSUME NEW last \in Nat, NEW more \in Nat, last <= more
  PROVE  /\ DialogOf(last) \subseteq DialogOf(more)
         /\ OverlayOf(last) \subseteq OverlayOf(more)
         /\ ExitOf(last) \subseteq ExitOf(more)
<1>1. 0..last \subseteq 0..more /\ 1..last \subseteq 1..more
  OBVIOUS
<1>. QED BY <1>1 DEF DialogOf, OverlayOf, ExitOf

\* A dialog that opens takes the next number, and one handler of escape.
LEMMA OpenModalTypes ==
  ASSUME ModalTypeInv, events \in 0..MaxEvents, NEW m \in Dialogs, OpenModal(m)
  PROVE  ModalTypeInv'
<1>1. /\ modal' = [modal EXCEPT ![m] = [open |-> TRUE, shown |-> TRUE, overlay |-> lastID',
                                        z |-> stack']]
      /\ overlays' = overlays \cup {[id |-> lastID', of |-> m, z |-> stack']}
      /\ lastID' = lastID + 1 /\ stack' = stack + 1 /\ exits' = exits /\ ~modal[m].open
      /\ dismissers' = dismissers \cup {lastID'}
      /\ events < MaxEvents /\ events' = events + 1
  BY DEF OpenModal, Event
<1>2. PICK last \in Nat, up \in Heights : last = lastID /\ up = stack
  BY DismissersAreFew
<1>3. up \in Int /\ up <= last /\ last <= events
  BY <1>2 DEF ModalTypeInv, ModalTypes
<1>4. lastID' = last + 1 /\ last + 1 \in 0..events' /\ stack' = up + 1 /\ up + 1 \in Heights
      /\ stack' \in Int /\ stack' <= lastID'
  BY <1>1, <1>2, <1>3, EventsAssumption DEF Heights
<1>5. DialogOf(last) \subseteq DialogOf(last + 1) /\ OverlayOf(last) \subseteq OverlayOf(last + 1)
      /\ ExitOf(last) \subseteq ExitOf(last + 1)
  BY MoreOverlays
<1>6. modal \in [Dialogs -> DialogOf(last)] /\ overlays \subseteq OverlayOf(last)
      /\ exits \in Seq(ExitOf(last))
  BY <1>2 DEF ModalTypeInv, ModalTypes, DialogOf, OverlayOf, ExitOf
<1>7. PICK new : new = [open |-> TRUE, shown |-> TRUE, overlay |-> last + 1, z |-> up + 1]
  OBVIOUS
<1>8. new \in DialogOf(last + 1) /\ new.open /\ new.overlay = last + 1
  BY <1>4, <1>7 DEF DialogOf
<1>9. modal' = [modal EXCEPT ![m] = new]
  BY <1>1, <1>4, <1>7
<1>10. modal' \in [Dialogs -> DialogOf(last + 1)]
  BY <1>5, <1>6, <1>8, <1>9
<1>11. overlays' \subseteq OverlayOf(last + 1)
  <2>1. [id |-> last + 1, of |-> m, z |-> up + 1] \in OverlayOf(last + 1)
    BY <1>4 DEF OverlayOf
  <2>. QED BY <1>1, <1>4, <1>5, <1>6, <2>1
<1>12. exits' \in Seq(ExitOf(last + 1))
  <2>1. ASSUME NEW A, NEW B, A \subseteq B, NEW s \in Seq(A) PROVE s \in Seq(B)
    BY <2>1
  <2>. QED BY <1>1, <1>5, <1>6, <2>1
<1>13. ModalTypes'
  BY <1>4, <1>10, <1>11, <1>12 DEF ModalTypes, DialogOf, OverlayOf, ExitOf, Heights
<1>14. modal'[m] = new /\ \A d \in Dialogs : d # m => modal'[d] = modal[d]
  BY <1>6, <1>9
<1>15. \A d \in Dialogs : modal[d].overlay \in 0..last
  BY <1>6 DEF DialogOf
<1>16. last + 1 \notin 0..last /\ last + 1 # NoOverlay
  BY DEF NoOverlay
<1>17. \A d, e \in Dialogs : modal'[d].open /\ modal'[d].overlay = modal'[e].overlay => d = e
  BY <1>8, <1>14, <1>15, <1>16 DEF ModalTypeInv, OpenOnTheirOwn
<1>18. \A d \in Dialogs : modal'[d].open => modal'[d].overlay # NoOverlay
  BY <1>8, <1>14, <1>16 DEF ModalTypeInv, OpenOnTheirOwn
<1>19. dismissers \subseteq 1..last
  BY <1>2 DEF ModalTypeInv, OpenOnTheirOwn
<1>20. dismissers' \subseteq 1..(last + 1)
  <2>1. 1..last \subseteq 1..(last + 1) /\ last + 1 \in 1..(last + 1)
    OBVIOUS
  <2>2. dismissers' = dismissers \cup {last + 1}
    BY <1>1, <1>4
  <2>. QED BY <1>19, <2>1, <2>2
<1>21. ASSUME NEW id \in 1..(last + 1)
       PROVE  id \in dismissers' <=> \E d \in Dialogs : modal'[d].open /\ modal'[d].overlay = id
  <2>1. CASE id = last + 1
    BY <1>1, <1>4, <1>8, <1>14, <2>1
  <2>2. CASE id # last + 1
    <3>1. id \in 1..last
      BY <2>2
    <3>2. id \in dismissers <=> \E d \in Dialogs : modal[d].open /\ modal[d].overlay = id
      BY <1>2, <3>1 DEF ModalTypeInv, OpenOnTheirOwn
    <3>3. id \in dismissers' <=> id \in dismissers
      BY <1>1, <1>4, <2>2
    <3>. QED BY <1>1, <1>8, <1>14, <2>2, <3>2, <3>3
  <2>. QED BY <2>1, <2>2
<1>22. OpenOnTheirOwn'
  BY <1>4, <1>17, <1>18, <1>20, <1>21 DEF OpenOnTheirOwn, NoOverlay
<1>23. Cardinality(dismissers') = Cardinality(dismissers) + 1
  <2>1. last + 1 \notin dismissers /\ IsFiniteSet(dismissers)
    BY <1>16, <1>19, DismissersAreFew
  <2>. QED BY <1>1, <1>4, <2>1, FS_AddElement
<1>24. Len(exits') - stack' + Cardinality(dismissers') <= events'
  <2>1. PICK n \in Nat, k \in Nat : n = Cardinality(dismissers) /\ k = Len(exits)
    BY DismissersAreFew
  <2>2. k - up + n <= events
    BY <1>2, <2>1 DEF ModalTypeInv
  <2>3. k - (up + 1) + (n + 1) <= events + 1
    BY <1>3, <2>2
  <2>. QED BY <1>1, <1>4, <1>23, <2>1, <2>3
<1>. QED BY <1>13, <1>22, <1>24 DEF ModalTypeInv

\* Dialogs that are closed take their handlers of escape with them; no more handlers are
\* left than there were, less as many as are known to go.
LEMMA CloseModalTypes ==
  ASSUME ModalTypeInv, events \in 0..MaxEvents, NEW ms \in Seq(Dialogs), CloseModal(ms),
         events' = events + 1,
         Len(ms) <= 1 \/ (Len(ms) = Cardinality(dismissers) /\ dismissers' = {})
  PROVE  ModalTypeInv'
<1>1. /\ modal' = [m \in Dialogs |-> [modal[m] EXCEPT !.open = @ /\ ~Contains(ms, m)]]
      /\ dismissers' = dismissers \ {modal[m].overlay : m \in ToSet(ms)}
      /\ exits' = exits \o [i \in 1..Len(ms) |-> [of |-> ms[i], overlay |-> modal[ms[i]].overlay]]
      /\ stack' = stack /\ lastID' = lastID /\ overlays' = overlays
  BY DEF CloseModal
<1>2. PICK last \in Nat : last = lastID
  BY DismissersAreFew
<1>3. modal \in [Dialogs -> DialogOf(last)] /\ overlays \subseteq OverlayOf(last)
      /\ exits \in Seq(ExitOf(last))
  BY <1>2 DEF ModalTypeInv, ModalTypes, DialogOf, OverlayOf, ExitOf
<1>4. ASSUME NEW m \in Dialogs
      PROVE  /\ modal'[m] \in DialogOf(last)
             /\ modal'[m].overlay = modal[m].overlay
             /\ modal'[m].open <=> modal[m].open /\ m \notin ToSet(ms)
  <2>1. modal[m] \in DialogOf(last)
    BY <1>3
  <2>2. modal'[m] = [modal[m] EXCEPT !.open = @ /\ ~Contains(ms, m)]
    BY <1>1
  <2>3. Contains(ms, m) <=> m \in ToSet(ms)
    BY DEF Contains, ToSet
  <2>4. PICK left \in BOOLEAN : left = (modal[m].open /\ ~Contains(ms, m))
    OBVIOUS
  <2>5. modal'[m] = [open |-> left, shown |-> modal[m].shown, overlay |-> modal[m].overlay,
                     z |-> modal[m].z]
    BY <2>1, <2>2, <2>4 DEF DialogOf
  <2>6. modal[m].shown \in BOOLEAN /\ modal[m].overlay \in 0..last /\ modal[m].z \in Heights
    BY <2>1 DEF DialogOf
  <2>7. modal'[m] \in DialogOf(last) /\ modal'[m].overlay = modal[m].overlay
    BY <2>5, <2>6 DEF DialogOf
  <2>8. modal'[m].open = left
    BY <2>5
  <2>. QED BY <2>3, <2>4, <2>7, <2>8
<1>5. modal' \in [Dialogs -> DialogOf(last)]
  <2>1. modal' = [m \in Dialogs |-> modal'[m]]
    BY <1>1
  <2>. QED BY <1>4, <2>1
<1>6. PICK new : new = [i \in 1..Len(ms) |-> [of |-> ms[i], overlay |-> modal[ms[i]].overlay]]
  OBVIOUS
<1>7. new \in Seq(ExitOf(last)) /\ Len(new) = Len(ms)
  <2>1. ASSUME NEW i \in 1..Len(ms)
        PROVE  [of |-> ms[i], overlay |-> modal[ms[i]].overlay] \in ExitOf(last)
    BY <1>3 DEF DialogOf, ExitOf
  <2>2. PICK n \in Nat : n = Len(ms)
    OBVIOUS
  <2>3. new \in [1..n -> ExitOf(last)]
    BY <1>6, <2>1, <2>2
  <2>. QED BY <2>2, <2>3
<1>8. exits' \in Seq(ExitOf(last)) /\ Len(exits') = Len(exits) + Len(ms)
  BY <1>1, <1>3, <1>6, <1>7
<1>9. ModalTypes'
  <2>1. lastID' \in 0..events' /\ stack' \in Int /\ stack' <= lastID'
    BY <1>1 DEF ModalTypeInv, ModalTypes
  <2>. QED BY <1>1, <1>2, <1>3, <1>5, <1>8, <2>1
           DEF ModalTypes, DialogOf, OverlayOf, ExitOf, Heights
<1>10. ASSUME NEW d \in Dialogs, NEW e \in Dialogs, modal[d].open,
              modal[d].overlay = modal[e].overlay
       PROVE  d = e
  BY <1>10 DEF ModalTypeInv, OpenOnTheirOwn
<1>11. ASSUME NEW id \in 1..last
       PROVE  id \in dismissers' <=> \E d \in Dialogs : modal'[d].open /\ modal'[d].overlay = id
  <2>1. id \in dismissers <=> \E d \in Dialogs : modal[d].open /\ modal[d].overlay = id
    BY <1>2 DEF ModalTypeInv, OpenOnTheirOwn
  <2>2. ToSet(ms) \subseteq Dialogs
    BY DEF ToSet
  <2>3. id \in dismissers' <=> id \in dismissers /\ ~\E m \in ToSet(ms) : modal[m].overlay = id
    BY <1>1
  <2>4. ASSUME NEW d \in Dialogs, modal'[d].open, modal'[d].overlay = id
        PROVE  id \in dismissers'
    <3>1. modal[d].open /\ modal[d].overlay = id /\ d \notin ToSet(ms)
      BY <1>4, <2>4
    <3>2. \A m \in ToSet(ms) : modal[m].overlay # id
      BY <1>10, <2>2, <3>1
    <3>. QED BY <2>1, <2>3, <3>1, <3>2
  <2>5. ASSUME id \in dismissers'
        PROVE  \E d \in Dialogs : modal'[d].open /\ modal'[d].overlay = id
    <3>1. PICK d \in Dialogs : modal[d].open /\ modal[d].overlay = id
      BY <2>1, <2>3, <2>5
    <3>2. d \notin ToSet(ms)
      BY <2>3, <2>5, <3>1
    <3>. QED BY <1>4, <3>1, <3>2
  <2>. QED BY <2>4, <2>5
<1>12. OpenOnTheirOwn'
  <2>1. \A d, e \in Dialogs : modal'[d].open /\ modal'[d].overlay = modal'[e].overlay => d = e
    BY <1>4, <1>10
  <2>2. \A d \in Dialogs : modal'[d].open => modal'[d].overlay # NoOverlay
    BY <1>4 DEF ModalTypeInv, OpenOnTheirOwn
  <2>3. dismissers' \subseteq 1..last
    BY <1>1, <1>2 DEF ModalTypeInv, OpenOnTheirOwn
  <2>. QED BY <1>1, <1>2, <1>11, <2>1, <2>2, <2>3 DEF OpenOnTheirOwn, NoOverlay
<1>13. PICK n \in Nat, k \in Nat, up \in Int, l \in Nat :
         n = Cardinality(dismissers) /\ k = Len(exits) /\ up = stack /\ l = Len(ms)
  BY DismissersAreFew DEF Heights
<1>14. k - up + n <= events /\ events \in Nat
  BY <1>13 DEF ModalTypeInv
<1>15. PICK r \in Nat : r = Cardinality(dismissers') /\ ((l <= 1 /\ r <= n) \/ (l = n /\ r = 0))
  <2>1. IsFiniteSet(dismissers) /\ dismissers' \in SUBSET dismissers
    BY <1>1, DismissersAreFew
  <2>2. IsFiniteSet(dismissers') /\ Cardinality(dismissers') <= Cardinality(dismissers)
    BY <2>1, FS_Subset
  <2>3. Cardinality(dismissers') \in Nat
    BY <2>2, FS_CardinalityType
  <2>4. dismissers' = {} => Cardinality(dismissers') = 0
    BY FS_EmptySet
  <2>. QED BY <1>13, <2>2, <2>3, <2>4
<1>16. k + l - up + r <= events + 1
  BY <1>14, <1>15
<1>17. Len(exits') = k + l /\ stack' = up /\ Cardinality(dismissers') = r
  BY <1>1, <1>8, <1>13, <1>15
<1>18. k + l - up + r <= events'
  BY <1>16
<1>. QED BY <1>9, <1>12, <1>17, <1>18 DEF ModalTypeInv

\* The handlers of escape close the dialogs they belong to, which takes them all away.
LEMMA EscapeTakesAll ==
  ASSUME ModalTypeInv, events \in 0..MaxEvents, CloseModal(Dismissed)
  PROVE  /\ Dismissed \in Seq(Dialogs)
         /\ Len(Dismissed) = Cardinality(dismissers)
         /\ dismissers' = {}
<1>1. PICK n \in Nat : n = Cardinality(dismissers)
  BY DismissersAreFew
<1>2. dismissers \in SUBSET Int /\ IsFiniteSet(dismissers) /\ dismissers \subseteq 1..lastID
  BY DismissersAreFew DEF ModalTypeInv, OpenOnTheirOwn
<1>3. InOrder(dismissers) \in Seq(dismissers) /\ ToSet(InOrder(dismissers)) = dismissers
      /\ Len(InOrder(dismissers)) = n
  <2>1. Len(InOrder(dismissers)) = n
    BY <1>1 DEF InOrder
  <2>. QED BY <1>2, <2>1, InOrderHasAll
<1>. DEFINE of(id) == CHOOSE m \in Dialogs : modal[m].overlay = id
<1>4. Dismissed = [i \in 1..n |-> of(InOrder(dismissers)[i])]
  BY <1>1 DEF Dismissed
<1>5. ASSUME NEW id \in dismissers
      PROVE  of(id) \in Dialogs /\ modal[of(id)].overlay = id
  <2>1. \E m \in Dialogs : modal[m].overlay = id
    BY <1>2 DEF ModalTypeInv, OpenOnTheirOwn
  <2>. QED BY <2>1
<1>. HIDE DEF of
<1>6. Dismissed \in [1..n -> Dialogs]
  BY <1>3, <1>4, <1>5
<1>7. Dismissed \in Seq(Dialogs) /\ Len(Dismissed) = n
  BY <1>6
<1>8. ASSUME NEW id \in dismissers PROVE \E m \in ToSet(Dismissed) : modal[m].overlay = id
  <2>1. PICK i \in 1..n : InOrder(dismissers)[i] = id
    BY <1>3 DEF ToSet
  <2>2. Dismissed[i] = of(id) /\ Dismissed[i] \in ToSet(Dismissed)
    BY <1>4, <1>7, <2>1 DEF ToSet
  <2>. QED BY <1>5, <2>2
<1>9. dismissers' = dismissers \ {modal[m].overlay : m \in ToSet(Dismissed)}
  BY DEF CloseModal
<1>10. dismissers' = {}
  BY <1>8, <1>9
<1>. QED BY <1>1, <1>7, <1>10

\* An animation that ends takes one from the stack and one from those under way.
LEMMA ExitModalTypes ==
  ASSUME ModalTypeInv, events \in 0..MaxEvents, ExitModal
  PROVE  ModalTypeInv'
<1>1. /\ exits # << >>
      /\ modal' = [modal EXCEPT ![Head(exits).of].shown = FALSE]
      /\ overlays' = {o \in overlays : o.id # Head(exits).overlay}
      /\ stack' = stack - 1 /\ exits' = Tail(exits)
      /\ events' = events /\ lastID' = lastID /\ dismissers' = dismissers
  BY DEF ExitModal
<1>2. PICK last \in Nat : last = lastID
  BY DismissersAreFew
<1>3. modal \in [Dialogs -> DialogOf(last)] /\ overlays \subseteq OverlayOf(last)
      /\ exits \in Seq(ExitOf(last))
  BY <1>2 DEF ModalTypeInv, ModalTypes, DialogOf, OverlayOf, ExitOf
<1>4. Head(exits) \in ExitOf(last) /\ exits' \in Seq(ExitOf(last)) /\ Len(exits') = Len(exits) - 1
  BY <1>1, <1>3
<1>5. PICK d \in Dialogs : d = Head(exits).of
  BY <1>4 DEF ExitOf
<1>6. ASSUME NEW m \in Dialogs
      PROVE  /\ modal'[m] \in DialogOf(last)
             /\ modal'[m].overlay = modal[m].overlay
             /\ modal'[m].open = modal[m].open
  <2>1. modal[m] \in DialogOf(last)
    BY <1>3
  <2>2. modal' = [modal EXCEPT ![d].shown = FALSE]
    BY <1>1, <1>5
  <2>3. CASE m = d
    <3>1. modal'[m] = [modal[m] EXCEPT !.shown = FALSE]
      BY <1>3, <2>2, <2>3
    <3>2. modal'[m] = [open |-> modal[m].open, shown |-> FALSE, overlay |-> modal[m].overlay,
                       z |-> modal[m].z]
      BY <2>1, <3>1 DEF DialogOf
    <3>. QED BY <2>1, <3>2 DEF DialogOf
  <2>4. CASE m # d
    BY <1>3, <2>1, <2>2, <2>4
  <2>. QED BY <2>3, <2>4
<1>7. modal' \in [Dialogs -> DialogOf(last)]
  <2>1. modal' = [m \in Dialogs |-> modal'[m]]
    BY <1>1, <1>3
  <2>. QED BY <1>6, <2>1
<1>8. ModalTypes'
  <2>1. lastID' \in 0..events' /\ stack' \in Int /\ stack' <= lastID'
    BY <1>1 DEF ModalTypeInv, ModalTypes
  <2>2. overlays' \subseteq OverlayOf(last)
    BY <1>1, <1>3
  <2>. QED BY <1>1, <1>2, <1>4, <1>7, <2>1, <2>2
           DEF ModalTypes, DialogOf, OverlayOf, ExitOf, Heights
<1>9. OpenOnTheirOwn'
  BY <1>1, <1>6 DEF ModalTypeInv, OpenOnTheirOwn
<1>10. Len(exits') - stack' + Cardinality(dismissers') <= events'
  <2>1. PICK n \in Nat, k \in Nat, up \in Int :
          n = Cardinality(dismissers) /\ k = Len(exits) /\ up = stack
    BY DismissersAreFew DEF Heights
  <2>2. k - up + n <= events
    BY <2>1 DEF ModalTypeInv
  <2>3. (k - 1) - (up - 1) + n <= events
    BY <2>2
  <2>. QED BY <1>1, <1>4, <2>1, <2>3
<1>. QED BY <1>8, <1>9, <1>10 DEF ModalTypeInv

\* What other widgets do leaves the dialogs alone, and is counted at most.
LEMMA ModalsLeftAlone ==
  ASSUME ModalTypeInv, events \in 0..MaxEvents, events' \in events..MaxEvents, UNCHANGED modalVars
  PROVE  ModalTypeInv'
<1>1. PICK n \in Nat, k \in Nat, up \in Int :
        n = Cardinality(dismissers) /\ k = Len(exits) /\ up = stack
  BY DismissersAreFew DEF Heights
<1>2. k - up + n <= events'
  BY <1>1, EventsAssumption DEF ModalTypeInv
<1>3. lastID \in 0..events'
  BY EventsAssumption DEF ModalTypeInv, ModalTypes
<1>4. /\ stack' = stack /\ lastID' = lastID /\ modal' = modal /\ overlays' = overlays
      /\ dismissers' = dismissers /\ exits' = exits
  BY DEF modalVars
<1>. QED BY <1>1, <1>2, <1>3, <1>4 DEF ModalTypeInv, ModalTypes, OpenOnTheirOwn, Heights

\* The visitor, escape and the animations.
LEMMA ModalTypesStep ==
  ASSUME ModalTypeInv, events \in 0..MaxEvents, events' \in events..MaxEvents,
         ModalVisitor \/ (Event /\ CloseByEscape) \/ ExitModal \/ UNCHANGED modalVars
  PROVE  ModalTypeInv'
<1>1. ASSUME NEW m \in Dialogs, OpenModalAgain(m) PROVE ModalTypeInv'
  BY <1>1, ModalsLeftAlone DEF OpenModalAgain
<1>2. ASSUME NEW m \in Dialogs, Event, CloseModal(<<m>>) PROVE ModalTypeInv'
  <2>1. <<m>> \in Seq(Dialogs) /\ Len(<<m>>) <= 1
    OBVIOUS
  <2>. QED BY <1>2, <2>1, CloseModalTypes DEF Event
<1>3. ASSUME CloseByOverlay PROVE ModalTypeInv'
  <2>1. PICK o \in overlays : CloseModal(<<o.of>>)
    BY <1>3 DEF CloseByOverlay
  <2>2. o.of \in Dialogs
    BY DEF ModalTypeInv, ModalTypes
  <2>. QED BY <1>2, <1>3, <2>1, <2>2 DEF CloseByOverlay
<1>4. ASSUME Event, CloseByEscape PROVE ModalTypeInv'
  BY <1>4, EscapeTakesAll, CloseModalTypes DEF CloseByEscape, Event
<1>. QED BY <1>1, <1>2, <1>3, <1>4, OpenModalTypes, ExitModalTypes, ModalsLeftAlone
         DEF ModalVisitor, CloseByMethod

\* What the invariant says of the dialogs is their type.
LEMMA ModalTypeInvOK ==
  ASSUME ModalTypeInv, events \in 0..MaxEvents
  PROVE  ModalTypeOK
<1>1. lastID \in 0..MaxEvents
  BY EventsAssumption DEF ModalTypeInv, ModalTypes
<1>2. dismissers = {modal[m].overlay : m \in {n \in Dialogs : modal[n].open}}
  <2>1. ASSUME NEW m \in Dialogs, modal[m].open PROVE modal[m].overlay \in dismissers
    <3>1. modal[m].overlay \in 0..lastID /\ modal[m].overlay # 0
      BY <2>1 DEF ModalTypeInv, ModalTypes, OpenOnTheirOwn, NoOverlay
    <3>2. modal[m].overlay \in 1..lastID
      BY <1>1, <3>1
    <3>. QED BY <2>1, <3>2 DEF ModalTypeInv, OpenOnTheirOwn
  <2>2. ASSUME NEW id \in dismissers PROVE \E m \in Dialogs : modal[m].open /\ modal[m].overlay = id
    BY DEF ModalTypeInv, OpenOnTheirOwn
  <2>. QED BY <2>1, <2>2
<1>. QED BY <1>1, <1>2, DismissersAreFew DEF ModalTypeInv, ModalTypes, ModalTypeOK, Heights

(***************************************************************************)
(* The menu and the image.                                                 *)
(***************************************************************************)
\* Every overlay that fades is still in the document when it is removed.
LEMMA NavTypesStep ==
  ASSUME NavTypeInv, events \in 0..MaxEvents, events' \in events..MaxEvents,
         NavVisitor \/ NavAnimation \/ UNCHANGED navVars
  PROVE  NavTypeInv'
<1>1. PICK made \in Nat : made = navMade
  BY DEF NavTypeInv
<1>2. navOverlays \in Seq(NavOverlayOf(made)) /\ opening \subseteq 1..made /\ made <= events
  BY <1>1 DEF NavTypeInv, NavOverlayOf
<1>3. PICK n \in Nat : n = Len(navOverlays)
  BY <1>2
<1>. DEFINE There(id) == \E i \in 1..n : navOverlays[i].id = id
<1>4. \A id \in fading : There(id)
  BY <1>3 DEF NavTypeInv
<1>5. \A id \in FirstOverlay : There(id)
  BY <1>2, <1>3 DEF FirstOverlay
<1>6. ASSUME UNCHANGED <<navOverlays, navMade>>, menuOut' \in BOOLEAN, touching' \in BOOLEAN,
             opening' \subseteq opening, \A id \in fading' : There(id)
      PROVE  NavTypeInv'
  BY <1>1, <1>2, <1>3, <1>6 DEF NavTypeInv, NavOverlayOf
<1>7. ASSUME NEW besides, RemoveMenu(besides), \A id \in besides : There(id) PROVE NavTypeInv'
  <2>1. \A id \in fading' : There(id)
    BY <1>4, <1>5, <1>7 DEF RemoveMenu
  <2>. QED BY <1>6, <1>7, <2>1 DEF RemoveMenu, NavTypeInv
<1>8. ASSUME NEW kind \in {"click", "pan"}, NewOverlay(kind), events' = events + 1,
             menuOut' \in BOOLEAN, touching' \in BOOLEAN, fading' = fading,
             opening' \subseteq opening \cup {navMade'}
      PROVE  NavTypeInv'
  <2>1. PICK alone \in BOOLEAN : /\ navMade' = made + 1
                                 /\ navOverlays' = Append(navOverlays, [id |-> made + 1, kind |-> kind,
                                                                       alone |-> alone])
    <3>1. (navOverlays = << >>) \in BOOLEAN
      OBVIOUS
    <3>. QED BY <1>1, <1>8, <3>1 DEF NewOverlay
  <2>2. NavOverlayOf(made) \subseteq NavOverlayOf(made + 1)
        /\ [id |-> made + 1, kind |-> kind, alone |-> alone] \in NavOverlayOf(made + 1)
    BY DEF NavOverlayOf
  <2>3. ASSUME NEW A, NEW B, A \subseteq B, NEW s \in Seq(A), NEW b \in B
        PROVE  /\ Append(s, b) \in Seq(B)
               /\ Len(Append(s, b)) = Len(s) + 1
               /\ \A i \in 1..Len(s) : Append(s, b)[i] = s[i]
    BY <2>3
  <2>. HIDE DEF There
  <2>4. PICK new : new = [id |-> made + 1, kind |-> kind, alone |-> alone]
    OBVIOUS
  <2>5. navOverlays' = Append(navOverlays, new) /\ new \in NavOverlayOf(made + 1)
    BY <2>1, <2>2, <2>4
  <2>6. navOverlays' \in Seq(NavOverlayOf(made + 1)) /\ Len(navOverlays') = n + 1
        /\ \A i \in 1..n : navOverlays'[i] = navOverlays[i]
    BY <1>2, <1>3, <2>2, <2>3, <2>5
  <2>7. \A id \in fading' : \E i \in 1..Len(navOverlays') : navOverlays'[i].id = id
    <3>1. \A i \in 1..n : i \in 1..(n + 1)
      OBVIOUS
    <3>. QED BY <1>4, <1>8, <2>6, <3>1 DEF There
  <2>8. navMade' \in 0..events' /\ opening' \subseteq 1..navMade'
    <3>1. 1..made \subseteq 1..(made + 1) /\ made + 1 \in 1..(made + 1) /\ made + 1 \in 0..events'
      BY <1>2, <1>8
    <3>. QED BY <1>2, <1>8, <2>1, <3>1
  <2>. QED BY <1>8, <2>1, <2>6, <2>7, <2>8 DEF NavTypeInv, NavOverlayOf
<1>9. CASE ClickButton
  BY <1>7, <1>8, <1>9 DEF ClickButton, Event, NavTypeInv
<1>10. ASSUME NEW o, ClickedOverlay(o), There(o.id) PROVE NavTypeInv'
  BY <1>7, <1>10 DEF ClickedOverlay
<1>11. CASE ClickOverlay
  <2>1. navOverlays # << >> /\ n \in 1..n /\ 1 \in 1..n
        /\ Last(navOverlays) = navOverlays[n] /\ Head(navOverlays) = navOverlays[1]
    BY <1>2, <1>3, <1>11 DEF ClickOverlay, Last
  <2>2. There(Last(navOverlays).id) /\ There(Head(navOverlays).id)
    BY <2>1
  <2>. HIDE DEF There
  <2>. QED BY <1>10, <1>11, <2>2 DEF ClickOverlay
<1>12. CASE ClickDragTarget \/ ClickItem
  BY <1>7, <1>12 DEF ClickDragTarget, ClickItem
<1>13. CASE Pan
  <2>1. touching' \in BOOLEAN /\ menuOut' \in BOOLEAN /\ opening' = opening /\ fading' = fading
        /\ events' = events + 1
    BY <1>13 DEF Pan, Event
  <2>2. NewOverlay("pan") \/ UNCHANGED <<navOverlays, navMade>>
    BY <1>13 DEF Pan
  <2>3. "pan" \in {"click", "pan"}
    OBVIOUS
  <2>. HIDE DEF There
  <2>. QED BY <1>4, <1>6, <1>8, <2>1, <2>2, <2>3
<1>14. CASE PanEnd
  <2>1. UNCHANGED <<navOverlays, navMade, opening>> /\ menuOut' \in BOOLEAN /\ touching' \in BOOLEAN
    BY <1>14 DEF PanEnd, NavTypeInv
  <2>2. \A id \in fading' : There(id)
    BY <1>4, <1>5, <1>14 DEF PanEnd
  <2>. HIDE DEF There
  <2>. QED BY <1>6, <2>1, <2>2
<1>15. ASSUME NEW id, MenuOpened(id) PROVE NavTypeInv'
  <2>1. UNCHANGED <<navOverlays, navMade, fading>> /\ menuOut' \in BOOLEAN /\ touching' \in BOOLEAN
        /\ opening' \subseteq opening
    BY <1>15 DEF MenuOpened, NavTypeInv
  <2>. HIDE DEF There
  <2>. QED BY <1>4, <1>6, <2>1
<1>16. ASSUME NEW id, OverlayRemoved(id) PROVE NavTypeInv'
  <2>1. PICK i \in 1..n : navOverlays[i].id = id /\ navOverlays' = RemoveAt(navOverlays, i)
    BY <1>3, <1>16 DEF OverlayRemoved
  <2>2. /\ navOverlays' \in Seq(NavOverlayOf(made)) /\ Len(navOverlays') = n - 1
        /\ \A k \in 1..(n - 1) : navOverlays'[k] = IF k < i THEN navOverlays[k]
                                                   ELSE navOverlays[k + 1]
    BY <1>2, <1>3, <2>1, Removed
  <2>3. ASSUME NEW other \in fading'
        PROVE  \E k \in 1..(n - 1) : navOverlays'[k].id = other
    <3>1. other \in fading /\ other # id
      BY <1>16, <2>3 DEF OverlayRemoved
    <3>2. PICK j \in 1..n : navOverlays[j].id = other
      BY <1>4, <3>1
    <3>3. j # i
      BY <2>1, <3>1, <3>2
    <3>4. CASE j < i
      <4>1. j \in 1..(n - 1)
        BY <3>4
      <4>. QED BY <2>2, <3>2, <3>4, <4>1
    <3>5. CASE j > i
      <4>1. j - 1 \in 1..(n - 1) /\ ~(j - 1 < i) /\ (j - 1) + 1 = j
        BY <3>5
      <4>. QED BY <2>2, <3>2, <4>1
    <3>. QED BY <3>3, <3>4, <3>5
  <2>4. UNCHANGED <<menuOut, touching, navMade, opening>>
    BY <1>16 DEF OverlayRemoved
  <2>5. navMade' \in 0..events'
    BY <1>1, <1>2, <2>4
  <2>. QED BY <1>1, <2>2, <2>3, <2>4, <2>5 DEF NavTypeInv, NavOverlayOf
<1>17. CASE UNCHANGED navVars
  <2>1. UNCHANGED <<menuOut, navOverlays, navMade, opening, fading, touching>>
    BY <1>17 DEF navVars
  <2>2. menuOut' \in BOOLEAN /\ touching' \in BOOLEAN
    BY <2>1 DEF NavTypeInv
  <2>. HIDE DEF There
  <2>. QED BY <1>4, <1>6, <2>1, <2>2
<1>. QED BY <1>9, <1>11, <1>12, <1>13, <1>14, <1>15, <1>16, <1>17 DEF NavVisitor, NavAnimation

\* The page scrolls or it does not.
LEMMA BoxTypesStep ==
  ASSUME BoxTypeInv, OverlayVisitor \/ OverlayAnimation
  PROVE  BoxTypeInv'
<1>1. doneAnimating' \in BOOLEAN /\ ancestorsChanged' \in BOOLEAN
  BY DEF BoxTypeInv, OverlayVisitor, OverlayAnimation, BoxVisitor, ClickImage, ClickBoxOverlay,
         ScrollPage, BoxAnimation, Enlarged, Returned, Escape, BoxEscape, ReturnToOriginal, boxVars
<1>2. ASSUME ModalVisitor \/ ExitModal \/ CloseByEscape PROVE scrolling' \in BOOLEAN
  BY <1>2 DEF BoxTypeInv, ModalVisitor, OpenModal, OpenModalAgain, CloseByMethod, CloseByOverlay,
              CloseByEscape, CloseModal, ExitModal
<1>3. ASSUME NavVisitor \/ NavAnimation PROVE scrolling' \in BOOLEAN
  BY <1>3 DEF BoxTypeInv, NavVisitor, ClickButton, ClickOverlay, ClickedOverlay, ClickDragTarget,
              ClickItem, Pan, RemoveMenu, NavAnimation, PanEnd, MenuOpened, OverlayRemoved
<1>4. ASSUME BoxVisitor \/ BoxAnimation PROVE scrolling' \in BOOLEAN
  BY <1>4 DEF BoxTypeInv, BoxVisitor, ClickImage, ClickBoxOverlay, ScrollPage, BoxAnimation,
              Enlarged, Returned
<1>5. ASSUME Escape PROVE scrolling' \in BOOLEAN
  BY <1>2, <1>5 DEF Escape, BoxTypeInv
<1>6. scrolling' \in BOOLEAN
  BY <1>2, <1>3, <1>4, <1>5 DEF OverlayVisitor, OverlayAnimation
<1>. QED BY <1>1, <1>6 DEF BoxTypeInv

(***************************************************************************)
(* The controls.                                                           *)
(***************************************************************************)

\* A timer becomes a handler; each of them was begun by an opening.
LEMMA DropdownTypesStep ==
  ASSUME DropdownInv, DropdownTypeInv, events \in 0..MaxEvents, events' \in events..MaxEvents,
         DropdownVisitor \/ DropdownTimers \/ UNCHANGED dropdownVars
  PROVE  DropdownTypeInv'
<1>1. binders \in Nat /\ closers \in Nat /\ binders + closers <= events
  BY DEF DropdownInv, DropdownTypeInv
<1>2. hovered' \in BOOLEAN /\ hoverOpen' \in BOOLEAN
  BY DEF DropdownTypeInv, DropdownVisitor, DropdownTimers, dropdownVars, ClickOrigin,
         ClickDocument, EnterOrigin, LeaveDropdown, OpenDropdown, CloseDropdown, BindDocument,
         FadedOut
<1>3. ASSUME NEW byFocus, PlaceDropdown(byFocus), Event PROVE binders' + closers' <= events'
  BY <1>1, <1>3 DEF PlaceDropdown, Event
<1>4. ASSUME HideDropdown PROVE binders' + closers' <= events'
  BY <1>1, <1>4 DEF HideDropdown
<1>5. ASSUME PlacedAndHidden, Event PROVE binders' + closers' <= events'
  BY <1>1, <1>5 DEF PlacedAndHidden, Event
<1>6. ASSUME DropdownTimers \/ UNCHANGED dropdownVars PROVE binders' + closers' <= events'
  BY <1>1, <1>6 DEF DropdownTimers, BindDocument, FadedOut, dropdownVars
<1>7. binders' + closers' <= events'
  BY <1>3, <1>4, <1>5, <1>6 DEF DropdownVisitor, ClickOrigin, ClickDocument, EnterOrigin,
     LeaveDropdown, OpenDropdown, CloseDropdown
<1>. QED BY <1>2, <1>7 DEF DropdownTypeInv

\* Each leaving sets one timer.
LEMMA TipTypesStep ==
  ASSUME TipInv, TipTypeInv, events \in 0..MaxEvents, events' \in events..MaxEvents,
         HintVisitor \/ HintTimers \/ UNCHANGED hintVars
  PROVE  TipTypeInv'
<1>1. leavers \in Nat /\ leavers <= events
  BY DEF TipInv, TipTypeInv
<1>2. CASE UNCHANGED tipVars
  BY <1>1, <1>2 DEF tipVars, TipTypeInv
<1>3. CASE EnterTip \/ LeaveTip
  <2>1. leavers' <= events'
    BY <1>1, <1>3 DEF EnterTip, LeaveTip, Event
  <2>2. over' \in BOOLEAN /\ waiting' \in BOOLEAN /\ started' \in BOOLEAN
        /\ tip' \in {"hidden", "shown", "fading"}
    BY <1>3, Zenon DEF EnterTip, LeaveTip, TipTypeInv
  <2>. QED BY <2>1, <2>2 DEF TipTypeInv
<1>4. CASE ShowTooltip \/ AnimateBack \/ TipHidden
  <2>1. leavers' <= events'
    BY <1>1, <1>4 DEF ShowTooltip, AnimateBack, TipHidden
  <2>2. over' \in BOOLEAN /\ waiting' \in BOOLEAN /\ started' \in BOOLEAN
        /\ tip' \in {"hidden", "shown", "fading"}
    BY <1>4, Zenon DEF ShowTooltip, AnimateBack, TipHidden, TipTypeInv
  <2>. QED BY <2>1, <2>2 DEF TipTypeInv
<1>. QED BY <1>2, <1>3, <1>4 DEF HintVisitor, HintTimers, hintVars, ShowToast, PanToast, Count,
                                 PanToastEnd, ToastOut

\* The slider's flags.
LEMMA SliderTypesStep ==
  ASSUME SliderTypeInv, SliderVisitor \/ SliderTouch \/ UNCHANGED sliderVars
  PROVE  SliderTypeInv'
<1>1. Restart => intervals' \in 0..1 /\ stopped' \in BOOLEAN
  <2>1. 1 \in 0..1
    OBVIOUS
  <2>. QED BY <2>1, Zenon DEF Restart
<1>2. CASE AutoScroll \/ StepSlider \/ UNCHANGED sliderVars
  BY <1>2 DEF AutoScroll, StepSlider, sliderVars, SliderTypeInv
<1>3. ASSUME NEW s, ClickIndicator(s) PROVE SliderTypeInv'
  BY <1>1, <1>3 DEF ClickIndicator, SliderTypeInv
<1>4. CASE PanSlide
  <2>1. swipe' \in {"none", "left", "right", "both"}
    BY <1>4 DEF PanSlide, SliderTypeInv
  <2>. QED BY <1>4, <2>1 DEF PanSlide, SliderTypeInv
<1>5. CASE PauseSlider \/ StartSlider
  <2>1. 0 \in 0..1
    OBVIOUS
  <2>. QED BY <1>1, <1>5, <2>1, Zenon DEF PauseSlider, StartSlider, SliderTypeInv
<1>6. CASE PanSlideEnd
  BY <1>1, <1>6, Zenon DEF PanSlideEnd, SliderTypeInv
<1>7. CASE PanSlideCancelled
  BY <1>7, Zenon DEF PanSlideCancelled, SliderTypeInv
<1>. QED BY <1>2, <1>3, <1>4, <1>5, <1>6, <1>7 DEF SliderVisitor, SliderTouch

\* Whatever number is wrapped around, an item comes out.
LEMMA WrapType ==
  ASSUME NEW c \in Int
  PROVE  Wrap(c) \in Items
<1>1. PICK n \in Nat \ {0} : n = ItemCount
  BY CarouselAssumption
<1>2. c % n \in 0..(n - 1)
  BY <1>1
<1>. QED BY <1>1, <1>2 DEF Wrap, Items

\* What is requested of the carousel is one of its items.
LEMMA CarouselTypesStep ==
  ASSUME CarouselInv, CarouselTypeInv, CarouselVisitor \/ CarouselFrames \/ UNCHANGED carouselVars
  PROVE  CarouselTypeInv'
<1>1. PICK c \in Int : c = Round(offset)
  BY RoundType DEF CarouselInv, CarouselTypes
<1>2. \A n \in {1, -1} : Wrap(c + n) \in Items
  BY WrapType
<1>3. shifted' \in BOOLEAN
  <2>1. ResizeCarousel \/ Redraw \/ shifted' = shifted
    BY DEF CarouselVisitor, CarouselFrames, NextItem, Tap, Drag, CycleTo, Release, AutoScrolls,
           carouselVars
  <2>2. (shifted \/ layout = "padded") \in BOOLEAN
    OBVIOUS
  <2>. QED BY <2>1, <2>2 DEF ResizeCarousel, Redraw, CarouselTypeInv
<1>4. ASSUME NEW n \in Items \cup {Nothing}, NEW how \in {"request", "motion"}, Requested(n, how)
      PROVE  requested' \in Items \cup {Nothing} /\ missed' \in {"nothing", "request", "motion"}
  BY <1>4 DEF Requested
<1>5. CASE NextItem
  BY <1>1, <1>2, <1>3, <1>5 DEF NextItem, CarouselTypeInv
<1>6. ASSUME NEW n \in Items \cup {NoItem}, CycleTo(n) PROVE CarouselTypeInv'
  <2>1. n \in Int
    BY DEF Items, NoItem
  <2>2. Wrap(n) \in Items
    BY <2>1, WrapType
  <2>. QED BY <1>3, <1>4, <1>6, <2>2 DEF CycleTo, CarouselTypeInv
<1>7. CASE ResizeCarousel \/ Redraw
  BY <1>3, <1>4, <1>7 DEF ResizeCarousel, Redraw, CarouselTypeInv
<1>8. CASE Tap \/ Drag \/ CarouselFrames \/ UNCHANGED carouselVars
  BY <1>3, <1>8 DEF Tap, Drag, CarouselFrames, Release, AutoScrolls, carouselVars, CarouselTypeInv
<1>. QED BY <1>5, <1>6, <1>7, <1>8 DEF CarouselVisitor

\* The other toasts stay as they are.
LEMMA OneToastChanges ==
  ASSUME ToastTypeInv, events \in 0..MaxEvents, events' \in events..MaxEvents,
         NEW t \in Toasts, NEW new \in ToastRecords, ToastFits(new, events'),
         toast' = [d \in Toasts |-> toast'[d]], toast'[t] = new,
         \A d \in Toasts : d # t => toast'[d] = toast[d]
  PROVE  ToastTypeInv'
<1>1. ASSUME NEW d \in Toasts PROVE toast'[d] \in ToastRecords /\ ToastFits(toast'[d], events')
  <2>1. CASE d = t
    BY <2>1
  <2>2. CASE d # t
    <3>1. toast'[d] = toast[d] /\ toast[d] \in ToastRecords /\ ToastFits(toast[d], events)
      BY <2>2 DEF ToastTypeInv
    <3>2. PICK r \in ToastRecords : r = toast[d]
      BY <3>1
    <3>3. r.exits \in Nat /\ Bit(r.counting) \in Nat /\ Bit(r.touched) \in Nat
      BY DEF ToastRecords, Bit
    <3>4. r.exits + Bit(r.counting) + Bit(r.touched) <= events'
      BY <3>1, <3>2, <3>3 DEF ToastFits
    <3>. QED BY <3>1, <3>2, <3>4 DEF ToastFits
  <2>. QED BY <2>1, <2>2
<1>2. toast' \in [Toasts -> ToastRecords]
  BY <1>1
<1>. QED BY <1>1, <1>2 DEF ToastTypeInv, ToastRecords, ToastFits, Bit

\* A toast is shown, touched, let go, counted down and taken out.
LEMMA ToastTypesStep ==
  ASSUME ToastTypeInv, events \in 0..MaxEvents, events' \in events..MaxEvents,
         HintVisitor \/ HintTimers \/ UNCHANGED hintVars
  PROVE  ToastTypeInv'
<1>1. CASE toast' = toast
  <2>1. CASE Toasts = {}
    BY <1>1, <2>1 DEF ToastTypeInv, ToastRecords
  <2>2. CASE Toasts # {}
    <3>1. PICK t \in Toasts : TRUE
      BY <2>2
    <3>2. PICK r \in ToastRecords : r = toast[t]
      BY DEF ToastTypeInv
    <3>3. r.exits \in Nat /\ Bit(r.counting) \in Nat /\ Bit(r.touched) \in Nat
      BY DEF ToastRecords, Bit
    <3>4. ToastFits(r, events')
      BY <3>2, <3>3 DEF ToastTypeInv, ToastFits
    <3>5. toast' = [d \in Toasts |-> toast'[d]]
      BY <1>1 DEF ToastTypeInv
    <3>. QED BY <1>1, <3>2, <3>4, <3>5, OneToastChanges
  <2>. QED BY <2>1, <2>2
<1>. SUFFICES ASSUME NEW t \in Toasts,
                     ShowToast(t) \/ PanToast(t) \/ Count(t) \/ PanToastEnd(t) \/ ToastOut(t)
              PROVE  ToastTypeInv'
  BY <1>1 DEF HintVisitor, HintTimers, hintVars, EnterTip, LeaveTip, ShowTooltip, AnimateBack,
              TipHidden
<1>2. PICK r \in ToastRecords : r = toast[t]
  BY DEF ToastTypeInv
<1>3. PICK place \in {"none", "shown", "gone"}, time \in 0..MaxTicks :
        place = r.place /\ time = r.timeLeft
  BY DEF ToastRecords
<1>4. PICK counts \in BOOLEAN, pans \in BOOLEAN : counts = r.counting /\ pans = r.panning
  BY DEF ToastRecords
<1>5. PICK held \in BOOLEAN, outs \in Nat : held = r.touched /\ outs = r.exits
  BY DEF ToastRecords
<1>6. r = [place |-> place, timeLeft |-> time, counting |-> counts, panning |-> pans,
           touched |-> held, exits |-> outs]
  BY <1>3, <1>4, <1>5 DEF ToastRecords
<1>7. toast[t] = [place |-> place, timeLeft |-> time, counting |-> counts, panning |-> pans,
                  touched |-> held, exits |-> outs]
  BY <1>2, <1>6
<1>8. (counts => time > 0) /\ (place = "none" => ~counts /\ time > 0)
      /\ outs + Bit(counts) + Bit(held) <= events
  <2>1. ToastFits(toast[t], events)
    BY DEF ToastTypeInv
  <2>. QED BY <1>7, <2>1 DEF ToastFits
<1>9. Bit(counts) \in Nat /\ Bit(held) \in Nat /\ MaxTicks \in Nat /\ events \in Nat
  BY TicksAssumption, EventsAssumption DEF Bit
<1>10. ASSUME NEW place2 \in {"none", "shown", "gone"}, NEW time2 \in 0..MaxTicks,
             NEW counts2 \in BOOLEAN, NEW pans2 \in BOOLEAN, NEW held2 \in BOOLEAN,
             NEW outs2 \in Nat,
             counts2 => time2 > 0, place2 = "none" => ~counts2 /\ time2 > 0,
             outs2 + Bit(counts2) + Bit(held2) <= events',
             toast' = [d \in Toasts |-> toast'[d]], \A d \in Toasts : d # t => toast'[d] = toast[d],
             toast'[t] = [place |-> place2, timeLeft |-> time2, counting |-> counts2,
                          panning |-> pans2, touched |-> held2, exits |-> outs2]
      PROVE  ToastTypeInv'
  <2>1. toast'[t] \in ToastRecords /\ ToastFits(toast'[t], events')
    BY <1>10 DEF ToastRecords, ToastFits
  <2>. QED BY <1>10, <2>1, OneToastChanges
<1>11. DOMAIN toast = Toasts
  BY DEF ToastTypeInv
<1>12. CASE ShowToast(t)
  <2>1. /\ toast' = [toast EXCEPT ![t].place = "shown", ![t].counting = TRUE]
        /\ events' = events + 1
    BY <1>12 DEF ShowToast, Event
  <2>2. toast'[t] = [place |-> "shown", timeLeft |-> time, counting |-> TRUE, panning |-> pans,
                     touched |-> held, exits |-> outs]
    <3>1. toast'[t] = [r EXCEPT !.place = "shown", !.counting = TRUE]
      BY <1>2, <1>11, <2>1 DEF ToastTypeInv
    <3>. QED BY <1>6, <3>1
  <2>3. PICK yes \in BOOLEAN : yes = TRUE
    OBVIOUS
  <2>4. toast'[t] = [place |-> "shown", timeLeft |-> time, counting |-> yes, panning |-> pans,
                     touched |-> held, exits |-> outs]
    BY <2>2, <2>3
  <2>5. place = "none"
    BY <1>7, <1>12 DEF ShowToast
  <2>6. outs + Bit(yes) + Bit(held) <= events'
    BY <1>8, <1>9, <2>1, <2>3 DEF Bit
  <2>7. toast' = [d \in Toasts |-> toast'[d]] /\ \A d \in Toasts : d # t => toast'[d] = toast[d]
    BY <1>11, <2>1 DEF ToastTypeInv
  <2>. QED BY <1>8, <1>10, <2>4, <2>5, <2>6, <2>7
<1>13. CASE PanToast(t)
  <2>1. /\ toast' = [toast EXCEPT ![t].panning = TRUE, ![t].touched = TRUE]
        /\ events' = events + 1
    BY <1>13 DEF PanToast, Event
  <2>2. toast'[t] = [place |-> place, timeLeft |-> time, counting |-> counts, panning |-> TRUE,
                     touched |-> TRUE, exits |-> outs]
    <3>1. toast'[t] = [r EXCEPT !.panning = TRUE, !.touched = TRUE]
      BY <1>2, <1>11, <2>1 DEF ToastTypeInv
    <3>. QED BY <1>6, <3>1
  <2>3. PICK yes \in BOOLEAN : yes = TRUE
    OBVIOUS
  <2>4. toast'[t] = [place |-> place, timeLeft |-> time, counting |-> counts, panning |-> yes,
                     touched |-> yes, exits |-> outs]
    BY <2>2, <2>3
  <2>5. outs + Bit(counts) + Bit(yes) <= events'
    BY <1>8, <1>9, <2>1, <2>3 DEF Bit
  <2>6. toast' = [d \in Toasts |-> toast'[d]] /\ \A d \in Toasts : d # t => toast'[d] = toast[d]
    BY <1>11, <2>1 DEF ToastTypeInv
  <2>. QED BY <1>8, <1>10, <2>4, <2>5, <2>6
<1>14. CASE Count(t)
  <2>1. PICK left \in Int : left = IF pans THEN time ELSE time - 1
    OBVIOUS
  <2>2. PICK still \in BOOLEAN : still = (place = "shown" /\ left > 0)
    OBVIOUS
  <2>3. PICK more \in Nat : more = IF left <= 0 THEN outs + 1 ELSE outs
    OBVIOUS
  <2>4. counts
    BY <1>7, <1>14 DEF Count
  <2>5. toast' = [toast EXCEPT ![t].timeLeft = left, ![t].counting = @ /\ place = "shown" /\ left > 0,
                               ![t].exits = IF left <= 0 THEN @ + 1 ELSE @]
    <3>1. toast[t].panning = pans /\ toast[t].timeLeft = time /\ toast[t].place = place
      BY <1>7
    <3>2. left = IF toast[t].panning THEN toast[t].timeLeft ELSE toast[t].timeLeft - 1
      BY <2>1, <3>1
    <3>. QED BY <1>14, <3>1, <3>2 DEF Count
  <2>6. toast'[t] = [place |-> place, timeLeft |-> left, counting |-> still, panning |-> pans,
                     touched |-> held, exits |-> more]
    <3>1. r.counting = TRUE /\ r.exits = outs
      BY <1>4, <1>5, <2>4
    <3>2. toast'[t] = [r EXCEPT !.timeLeft = left, !.counting = r.counting /\ place = "shown" /\ left > 0,
                                !.exits = IF left <= 0 THEN r.exits + 1 ELSE r.exits]
      BY <1>2, <1>11, <2>5 DEF ToastTypeInv, ToastRecords
    <3>3. (r.counting /\ place = "shown" /\ left > 0) = still
      BY <2>2, <3>1
    <3>4. (IF left <= 0 THEN r.exits + 1 ELSE r.exits) = more
      BY <2>3, <3>1
    <3>5. toast'[t] = [r EXCEPT !.timeLeft = left, !.counting = still, !.exits = more]
      BY <3>2, <3>3, <3>4
    <3>. QED BY <1>6, <3>5
  <2>7. left \in 0..MaxTicks /\ (still => left > 0)
    BY <1>8, <1>9, <2>1, <2>2, <2>4
  <2>8. more + Bit(still) + Bit(held) <= events'
    <3>1. Bit(counts) = 1 /\ Bit(still) \in Nat /\ Bit(still) <= 1
      BY <2>4 DEF Bit
    <3>2. left <= 0 => Bit(still) = 0 /\ more = outs + 1
      <4>1. left <= 0 => ~(left > 0)
        OBVIOUS
      <4>2. left <= 0 => ~still
        BY <2>2, <4>1
      <4>. QED BY <2>3, <4>2 DEF Bit
    <3>3. left > 0 => more = outs
      BY <2>3
    <3>. QED BY <1>8, <1>9, <3>1, <3>2, <3>3
  <2>9. toast' = [d \in Toasts |-> toast'[d]] /\ \A d \in Toasts : d # t => toast'[d] = toast[d]
    BY <1>11, <2>5 DEF ToastTypeInv
  <2>. QED BY <1>8, <1>10, <2>4, <2>6, <2>7, <2>8, <2>9
<1>15. CASE PanToastEnd(t)
  <2>1. held
    BY <1>7, <1>15 DEF PanToastEnd
  <2>2. PICK no \in BOOLEAN : no = FALSE
    OBVIOUS
  <2>3. Bit(held) = 1 /\ Bit(no) = 0
    BY <2>1, <2>2 DEF Bit
  <2>4. CASE toast' = [toast EXCEPT ![t].touched = FALSE, ![t].exits = @ + 1]
    <3>1. toast'[t] = [place |-> place, timeLeft |-> time, counting |-> counts, panning |-> pans,
                       touched |-> FALSE, exits |-> outs + 1]
      <4>1. toast'[t] = [r EXCEPT !.touched = FALSE, !.exits = @ + 1]
        BY <1>2, <1>11, <2>4 DEF ToastTypeInv
      <4>. QED BY <1>6, <4>1
    <3>2. toast'[t] = [place |-> place, timeLeft |-> time, counting |-> counts, panning |-> pans,
                       touched |-> no, exits |-> outs + 1]
      BY <2>2, <3>1
    <3>3. (outs + 1) + Bit(counts) + Bit(no) <= events'
      BY <1>8, <1>9, <2>3
    <3>4. toast' = [d \in Toasts |-> toast'[d]] /\ \A d \in Toasts : d # t => toast'[d] = toast[d]
      BY <1>11, <2>4 DEF ToastTypeInv
    <3>5. outs + 1 \in Nat
      OBVIOUS
    <3>. QED BY <1>8, <1>10, <3>2, <3>3, <3>4, <3>5
  <2>5. CASE toast' = [toast EXCEPT ![t].touched = FALSE, ![t].panning = FALSE]
    <3>1. toast'[t] = [place |-> place, timeLeft |-> time, counting |-> counts, panning |-> FALSE,
                       touched |-> FALSE, exits |-> outs]
      <4>1. toast'[t] = [r EXCEPT !.touched = FALSE, !.panning = FALSE]
        BY <1>2, <1>11, <2>5 DEF ToastTypeInv
      <4>. QED BY <1>6, <4>1
    <3>2. toast'[t] = [place |-> place, timeLeft |-> time, counting |-> counts, panning |-> no,
                       touched |-> no, exits |-> outs]
      BY <2>2, <3>1
    <3>3. outs + Bit(counts) + Bit(no) <= events'
      BY <1>8, <1>9, <2>3
    <3>4. toast' = [d \in Toasts |-> toast'[d]] /\ \A d \in Toasts : d # t => toast'[d] = toast[d]
      BY <1>11, <2>5 DEF ToastTypeInv
    <3>. QED BY <1>8, <1>10, <3>2, <3>3, <3>4
  <2>. QED BY <1>15, <2>4, <2>5 DEF PanToastEnd
<1>16. CASE ToastOut(t)
  <2>1. toast' = [toast EXCEPT ![t].exits = @ - 1, ![t].place = "gone"]
    BY <1>16 DEF ToastOut
  <2>2. outs > 0
    BY <1>7, <1>16 DEF ToastOut
  <2>3. toast'[t] = [place |-> "gone", timeLeft |-> time, counting |-> counts, panning |-> pans,
                     touched |-> held, exits |-> outs - 1]
    <3>1. toast'[t] = [r EXCEPT !.exits = @ - 1, !.place = "gone"]
      BY <1>2, <1>11, <2>1 DEF ToastTypeInv
    <3>. QED BY <1>6, <3>1
  <2>4. outs - 1 \in Nat /\ (outs - 1) + Bit(counts) + Bit(held) <= events'
    BY <1>8, <1>9, <2>2
  <2>5. toast' = [d \in Toasts |-> toast'[d]] /\ \A d \in Toasts : d # t => toast'[d] = toast[d]
    BY <1>11, <2>1 DEF ToastTypeInv
  <2>6. PICK gone \in {"none", "shown", "gone"} : gone = "gone" /\ gone # "none"
    OBVIOUS
  <2>. QED BY <1>8, <1>10, <2>3, <2>4, <2>5, <2>6
<1>. QED BY <1>12, <1>13, <1>14, <1>15, <1>16

(***************************************************************************)
(* The inputs.                                                             *)
(***************************************************************************)

\* What was searched for last is a text, or nothing.
LEMMA ChipsTypesStep ==
  ASSUME ChipsInv, ChipsTypeInv, ChipsVisitor \/ KeyUp \/ UNCHANGED chipsVars
  PROVE  ChipsTypeInv'
<1>1. RemoveAutocomplete \/ SearchAnew \/ TakeFocus \/ oldVal' = oldVal => ChipsTypeInv'
  BY DEF RemoveAutocomplete, SearchAnew, TakeFocus, ChipsTypeInv, ChipsInv
<1>. QED BY <1>1 DEF ChipsVisitor, KeyUp, Search, FocusInput, BlurInput, Enter, ClickOption,
     Complete, LeaveToChips, DeleteSelected, SelectNeighbour, Type, MoveActive, ClickChip,
     ClickClose, chipsVars

\* What is highlighted is an entry of the list.
LEMMA SelectTypesStep ==
  ASSUME SelectInv, SelectTypeInv, SelectVisitor \/ ListHidden \/ UNCHANGED selectVars
  PROVE  SelectTypeInv'
<1>1. group' = group
  BY DEF SelectVisitor, ListHidden, selectVars, FocusSelect, BlurSelect, ClickWindow,
     ClickOptgroup, HoverList, KeyCloses, KeyOpens, KeyMoves, KeyEnter, Rebuild, ClickChoice
<1>2. EntryCount' = EntryCount
  BY <1>1 DEF EntryCount, EntryOf, Opens
<1>3. 0 \in 0..EntryCount /\ \A o \in FormOptions : EntryOf(o) \in 0..EntryCount
  <2>1. OptionCount \in FormOptions
    BY SelectAssumption DEF FormOptions
  <2>2. EntryCount \in 1..EntryCount /\ \A o \in FormOptions : EntryOf(o) \in 1..EntryCount
    BY <2>1, PlacesOfOptions DEF EntryCount
  <2>. QED BY <2>2
<1>4. \A e \in 1..EntryCount : e \in 0..EntryCount
  OBVIOUS
<1>. DEFINE Rest == optionsHover' \in BOOLEAN /\ listOpen' \in {"hidden", "shown", "fading"}
<1>5. SUFFICES Rest /\ highlighted' \in 0..EntryCount
  BY <1>1, <1>2 DEF SelectTypeInv
<1>6. CloseList \/ listOpen' = listOpen => listOpen' \in {"hidden", "shown", "fading"}
  BY DEF CloseList, SelectTypeInv
<1>7. ASSUME NEW o, ChooseOption(o) PROVE highlighted' \in 0..EntryCount
  BY <1>3, <1>7 DEF ChooseOption, Enabled
<1>8. ASSUME NEW o, ClickChoice(o) PROVE Rest /\ highlighted' \in 0..EntryCount
  BY <1>6, <1>7, <1>8 DEF ClickChoice, SelectTypeInv
<1>9. CASE KeyEnter
  <2>1. highlighted' \in 0..EntryCount
    BY <1>7, <1>9 DEF KeyEnter, SelectTypeInv
  <2>. QED BY <1>6, <1>9, <2>1 DEF KeyEnter, SelectTypeInv
<1>10. CASE Rebuild
  BY <1>3, <1>10 DEF Rebuild
<1>11. CASE FocusSelect
  <2>1. chosen \in SUBSET FormOptions /\ valuesSelected \in Seq(FormOptions)
    BY DEF SelectInv, Marks, SelectMarks
  <2>2. valuesSelected # << >> => Head(valuesSelected) \in FormOptions
    BY <2>1
  <2>3. highlighted \in 0..EntryCount
    BY DEF SelectTypeInv
  <2>4. highlighted' \in 0..EntryCount
    BY <1>3, <1>11, <2>1, <2>2, <2>3 DEF FocusSelect
  <2>. QED BY <1>11, <2>4 DEF FocusSelect, SelectTypeInv
<1>12. CASE BlurSelect \/ ClickWindow \/ ClickOptgroup \/ HoverList \/ KeyCloses \/ KeyOpens
            \/ ListHidden \/ UNCHANGED selectVars
  BY <1>3, <1>6, <1>12 DEF BlurSelect, ClickWindow, ClickOptgroup, HoverList, KeyCloses, KeyOpens,
     ListHidden, selectVars, SelectTypeInv
<1>13. CASE KeyMoves
  <2>1. highlighted' \in 1..EntryCount
    BY <1>13 DEF KeyMoves
  <2>. QED BY <1>4, <1>13, <2>1 DEF KeyMoves, SelectTypeInv
<1>. QED BY <1>8, <1>9, <1>10, <1>11, <1>12, <1>13 DEF SelectVisitor

-------------------------------------------------------------------------------

\* Nothing has been counted at the start.
LEMMA InitTypeInv == Init => TypeInv
<1>. SUFFICES ASSUME Init PROVE TypeInv
  OBVIOUS
<1>1. events = 0 /\ scrolling = TRUE /\ used \in Parts /\ 0 \in 0..MaxEvents
  BY EventsAssumption DEF Init, PageInit
<1>2. ModalTypeInv
  <2>1. /\ stack = 0 /\ lastID = 0 /\ overlays = {} /\ dismissers = {} /\ exits = << >>
        /\ modal = [m \in Dialogs |->
                      [open |-> FALSE, shown |-> FALSE, overlay |-> NoOverlay, z |-> 0]]
    BY DEF Init, ModalInit
  <2>2. Cardinality(dismissers) = 0 /\ Len(exits) = 0
    BY <2>1, FS_EmptySet
  <2>3. 0 \in Heights /\ NoOverlay \in 0..0
    BY EventsAssumption DEF Heights, NoOverlay
  <2>4. ModalTypes
    BY <1>1, <2>1, <2>3 DEF ModalTypes
  <2>5. \A m \in Dialogs : ~modal[m].open
    BY <2>1
  <2>6. OpenOnTheirOwn
    BY <2>1, <2>5 DEF OpenOnTheirOwn
  <2>7. 0 - 0 + 0 <= 0
    OBVIOUS
  <2>. QED BY <1>1, <2>1, <2>2, <2>4, <2>6, <2>7 DEF ModalTypeInv
<1>3. NavTypeInv
  <2>1. menuOut \in BOOLEAN /\ touching \in BOOLEAN
    BY Zenon DEF Init, NavInit
  <2>2. navMade = 0 /\ navOverlays = << >> /\ opening = {} /\ fading = {}
    BY DEF Init, NavInit
  <2>. QED BY <1>1, <2>1, <2>2 DEF NavTypeInv
<1>4. BoxTypeInv
  BY <1>1, Zenon DEF Init, BoxInit, BoxTypeInv
<1>5. DropdownTypeInv
  <2>1. hovered \in BOOLEAN /\ hoverOpen \in BOOLEAN
    BY Zenon DEF Init, DropdownInit
  <2>2. binders + closers <= events
    BY <1>1 DEF Init, DropdownInit
  <2>. QED BY <2>1, <2>2 DEF DropdownTypeInv
<1>6. TipTypeInv
  <2>1. over \in BOOLEAN /\ waiting \in BOOLEAN /\ started \in BOOLEAN
        /\ tip \in {"hidden", "shown", "fading"}
    BY Zenon DEF Init, HintInit
  <2>2. leavers <= events
    BY <1>1 DEF Init, HintInit
  <2>. QED BY <2>1, <2>2 DEF TipTypeInv
<1>7. ToastTypeInv
  <2>1. MaxTicks \in 0..MaxTicks /\ MaxTicks > 0 /\ Bit(FALSE) = 0
    BY TicksAssumption DEF Bit
  <2>2. Unused \in ToastRecords
    BY <2>1 DEF Unused, ToastRecords
  <2>3. ToastFits(Unused, 0)
    <3>1. /\ ~Unused.counting /\ ~Unused.touched /\ Unused.exits = 0
          /\ Unused.timeLeft = MaxTicks /\ Unused.place = "none"
      BY DEF Unused
    <3>2. Bit(Unused.counting) = 0 /\ Bit(Unused.touched) = 0
      BY <3>1 DEF Bit
    <3>. QED BY <2>1, <3>1, <3>2 DEF ToastFits
  <2>4. toast = [t \in Toasts |-> Unused]
    BY DEF Init, HintInit
  <2>. QED BY <1>1, <2>2, <2>3, <2>4 DEF ToastTypeInv
<1>8. SliderTypeInv
  <2>1. 1 \in 0..1
    OBVIOUS
  <2>. QED BY <2>1, Zenon DEF Init, SliderInit, SliderTypeInv
<1>9. CarouselTypeInv
  BY Zenon DEF Init, CarouselInit, CarouselTypeInv
<1>10. ChipsTypeInv
  BY DEF Init, ChipsInit, ChipsTypeInv
<1>11. SelectTypeInv
  <2>1. group \in [FormOptions -> Nat]
    BY SelectAssumption DEF Init, SelectInit
  <2>2. highlighted = 0 /\ listOpen = "hidden" /\ optionsHover \in BOOLEAN
    BY Zenon DEF Init, SelectInit
  <2>3. EntryCount \in 1..EntryCount
    <3>1. OptionCount \in FormOptions
      BY SelectAssumption DEF FormOptions
    <3>. QED BY <3>1, PlacesOfOptions DEF EntryCount
  <2>. QED BY <2>1, <2>2, <2>3 DEF SelectTypeInv
<1>. QED BY <1>1, <1>2, <1>3, <1>4, <1>5, <1>6, <1>7, <1>8, <1>9, <1>10, <1>11
         DEF TypeInv, UseInv

\* Each part keeps its types, whichever of them the visitor uses.
LEMMA StepTypeInv == ControlInv /\ InputInv /\ TypeInv /\ [Next]_vars => TypeInv'
<1>. SUFFICES ASSUME ControlInv, InputInv, TypeInv, [Next]_vars PROVE TypeInv'
  OBVIOUS
<1>1. events \in 0..MaxEvents /\ used \in Parts
  BY DEF TypeInv, UseInv
<1>2. events' \in events..MaxEvents
  BY <1>1, EventsGrow
<1>3. UseInv'
  <2>1. used' = used
    BY DEF Next, Only, vars
  <2>2. events' \in 0..MaxEvents
    BY <1>1, <1>2, EventsAssumption
  <2>. QED BY <1>1, <2>1, <2>2 DEF UseInv
<1>4. \/ OverlayVisitor \/ OverlayAnimation
      \/ scrolling' = scrolling /\ UNCHANGED overlayVars
  <2>1. CASE UNCHANGED vars
    BY <2>1 DEF vars, pageVars
  <2>2. CASE Next
    BY <2>2, OthersLeaveScrolling DEF Next, Only
  <2>. QED BY <2>1, <2>2
<1>5. \/ ModalVisitor \/ (Event /\ CloseByEscape) \/ ExitModal
      \/ UNCHANGED modalVars
  BY <1>4 DEF OverlayVisitor, OverlayAnimation, Escape, overlayVars
<1>6. NavVisitor \/ NavAnimation \/ UNCHANGED navVars
  BY <1>4 DEF OverlayVisitor, OverlayAnimation, Escape, overlayVars
<1>7. ModalTypeInv' /\ NavTypeInv'
  BY <1>1, <1>2, <1>5, <1>6, ModalTypesStep, NavTypesStep DEF TypeInv
<1>8. BoxTypeInv'
  <2>1. CASE OverlayVisitor \/ OverlayAnimation
    BY <2>1, BoxTypesStep DEF TypeInv
  <2>2. CASE scrolling' = scrolling /\ UNCHANGED overlayVars
    BY <2>2 DEF overlayVars, boxVars, BoxTypeInv, TypeInv
  <2>. QED BY <1>4, <2>1, <2>2
<1>9. DropdownVisitor \/ DropdownTimers \/ UNCHANGED dropdownVars
  BY DEF Next, Only, vars
<1>10. HintVisitor \/ HintTimers \/ UNCHANGED hintVars
  BY DEF Next, Only, vars
<1>11. SliderVisitor \/ SliderTouch \/ UNCHANGED sliderVars
  BY DEF Next, Only, vars
<1>12. CarouselVisitor \/ CarouselFrames \/ UNCHANGED carouselVars
  BY DEF Next, Only, vars
<1>13. ChipsVisitor \/ KeyUp \/ UNCHANGED chipsVars
  BY DEF Next, Only, vars
<1>14. SelectVisitor \/ ListHidden \/ UNCHANGED selectVars
  BY DEF Next, Only, vars
<1>15. DropdownTypeInv' /\ TipTypeInv' /\ ToastTypeInv'
  BY <1>1, <1>2, <1>9, <1>10, DropdownTypesStep, TipTypesStep, ToastTypesStep
     DEF TypeInv, ControlInv
<1>16. SliderTypeInv' /\ CarouselTypeInv'
  BY <1>11, <1>12, SliderTypesStep, CarouselTypesStep DEF TypeInv, ControlInv
<1>17. ChipsTypeInv' /\ SelectTypeInv'
  BY <1>13, <1>14, ChipsTypesStep, SelectTypesStep DEF TypeInv, InputInv
<1>. QED BY <1>3, <1>7, <1>8, <1>15, <1>16, <1>17 DEF TypeInv

\* The types of what is counted are those of the invariants.
LEMMA CountedTypes ==
  ASSUME TypeInv, ControlInv
  PROVE  NavTypeOK /\ DropdownTypeOK /\ HintTypeOK
<1>1. events \in 0..MaxEvents /\ MaxEvents \in Nat
  BY EventsAssumption DEF TypeInv, UseInv
<1>2. NavTypeOK
  <2>1. navMade \in 0..MaxEvents
    BY <1>1 DEF TypeInv, NavTypeInv
  <2>2. ASSUME NEW id \in fading PROVE id \in {navOverlays[i].id : i \in 1..Len(navOverlays)}
    BY <2>2 DEF TypeInv, NavTypeInv
  <2>. QED BY <2>1, <2>2 DEF TypeInv, NavTypeInv, NavTypeOK, NavOverlayOf
<1>3. DropdownTypeOK
  <2>1. binders \in Nat /\ closers \in Nat /\ binders + closers <= events
    BY DEF TypeInv, DropdownTypeInv, ControlInv, DropdownInv
  <2>2. binders \in 0..MaxEvents /\ closers \in 0..MaxEvents
    BY <1>1, <2>1
  <2>. QED BY <2>2 DEF TypeInv, DropdownTypeInv, ControlInv, DropdownInv, DropdownTypeOK
<1>4. HintTypeOK
  <2>1. leavers \in Nat /\ leavers <= events
    BY DEF TypeInv, TipTypeInv, ControlInv, TipInv
  <2>2. leavers \in 0..MaxEvents
    BY <1>1, <2>1
  <2>3. ASSUME NEW t \in Toasts
        PROVE  toast[t] \in [place : {"none", "shown", "gone"}, timeLeft : 0..MaxTicks,
                             counting : BOOLEAN, panning : BOOLEAN, touched : BOOLEAN,
                             exits : 0..MaxEvents]
    <3>1. PICK r \in ToastRecords : r = toast[t] /\ ToastFits(r, events)
      BY DEF TypeInv, ToastTypeInv
    <3>2. r.exits \in Nat /\ Bit(r.counting) \in Nat /\ Bit(r.touched) \in Nat
      BY DEF ToastRecords, Bit
    <3>3. r.exits + Bit(r.counting) + Bit(r.touched) <= events
      BY <3>1 DEF ToastFits
    <3>4. r.exits \in 0..MaxEvents
      BY <1>1, <3>2, <3>3
    <3>. QED BY <3>1, <3>4 DEF ToastRecords
  <2>4. toast = [t \in Toasts |-> toast[t]]
    BY DEF TypeInv, ToastTypeInv
  <2>. QED BY <2>2, <2>3, <2>4 DEF TypeInv, TipTypeInv, HintTypeOK
<1>. QED BY <1>2, <1>3, <1>4

\* So are those of the other controls.
LEMMA ControlTypes ==
  ASSUME TypeInv, ControlInv
  PROVE  AccordionTypeOK /\ SliderTypeOK /\ CarouselTypeOK
<1>1. AccordionTypeOK
  BY DEF ControlInv, AccordionInv, AccordionTypeOK
<1>2. SliderTypeOK
  BY DEF TypeInv, SliderTypeInv, ControlInv, SliderInv, SliderTypeOK
<1>3. CarouselTypeOK
  <2>1. cycled \in Items
    BY WrapType DEF ControlInv, CarouselInv, CarouselTypes
  <2>. QED BY <2>1 DEF TypeInv, CarouselTypeInv, ControlInv, CarouselInv, CarouselTypes, CarouselTypeOK
<1>. QED BY <1>1, <1>2, <1>3

\* And those of the inputs.
LEMMA InputTypes ==
  ASSUME TypeInv, InputInv, DateInv
  PROVE  ChipsTypeOK /\ SelectTypeOK /\ PickerTypeOK
<1>1. ChipsTypeOK
  <2>1. options \in Seq(Texts)
    <3>1. ASSUME NEW s \in Seq(Texts \ {Empty}) PROVE s \in Seq(Texts)
      OBVIOUS
    <3>2. << >> \in Seq(Texts)
      OBVIOUS
    <3>. QED BY <3>1, <3>2, ChipsAssumption DEF InputInv, ChipsInv
  <2>2. selected \subseteq 1..Len(chips) /\ chips = data
    BY DEF InputInv, ChipsInv
  <2>. QED BY <2>1, <2>2 DEF InputInv, ChipsInv, TypeInv, ChipsTypeInv, ChipsTypeOK
<1>2. SelectTypeOK
  <2>1. /\ multiple \in BOOLEAN /\ misread \in BOOLEAN
        /\ valuesSelected \in Seq(FormOptions) /\ chosen \in SUBSET FormOptions
        /\ lit \in SUBSET FormOptions /\ checked \in SUBSET FormOptions
    BY DEF InputInv, SelectInv, Marks, SelectMarks
  <2>. QED BY <2>1 DEF TypeInv, SelectTypeInv, SelectTypeOK
<1>3. PickerTypeOK
  <2>1. open \in BOOLEAN /\ inputActive \in BOOLEAN /\ opened \in BOOLEAN
        /\ ticks \in Seq(BOOLEAN) /\ pageLocked \in BOOLEAN
    BY DEF InputInv, PickerInv
  <2>. QED BY <2>1 DEF DateInv, CalendarRules, CalendarItems, PickerTypeOK
<1>. QED BY <1>1, <1>2, <1>3

\* Every variable of the widgets has the values its module says: what is counted stays
\* within what the visitor did, though dialogs are closed many times over, each overlay
\* that fades is in the document, and escape knows exactly the dialogs that are open.
THEOREM WidgetTypes == Spec => []TypeOK
<1>. DEFINE AllInv == OverlayInv /\ ControlInv /\ InputInv /\ DateInv /\ TypeInv
<1>1. Init => AllInv
  BY InitOverlayInv, InitControlInv, InitInputInv, InitDateInv, InitTypeInv
<1>2. AllInv /\ [Next]_vars => AllInv'
  BY StepOverlayInv, StepControlInv, StepInputInv, StepDateInv, StepTypeInv
<1>3. AllInv => TypeOK
  <2>. SUFFICES ASSUME AllInv PROVE TypeOK
    OBVIOUS
  <2>1. PageTypeOK /\ used \in Parts /\ events \in 0..MaxEvents
    BY DEF TypeInv, UseInv, BoxTypeInv, PageTypeOK
  <2>2. ModalTypeOK
    BY <2>1, ModalTypeInvOK DEF TypeInv
  <2>3. BoxTypeOK
    BY DEF TypeInv, BoxTypeInv, OverlayInv, ImageInv, BoxTypeOK
  <2>. QED BY <2>1, <2>2, <2>3, CountedTypes, ControlTypes, InputTypes DEF TypeOK
<1>. HIDE DEF AllInv
<1>. QED BY <1>1, <1>2, <1>3, PTL DEF Spec
===============================================================================
