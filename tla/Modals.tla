-------------------------------- MODULE Modals --------------------------------
(***************************************************************************)
(* The modal dialogs of materialize.js ($.fn.modal).  Each open one lies   *)
(* on an overlay of its own; a counter of all of them gives the height of  *)
(* the next.  Closing is an animation: its end hides the dialog, removes   *)
(* the overlay it began with and counts down, whatever has happened since. *)
(***************************************************************************)
EXTENDS PageEvents

CONSTANT Dialogs

VARIABLES
  stack,       \* _stack
  lastID,      \* _lastID
  modal,       \* each dialog's class open, display, overlay-id and z-index
  overlays,    \* the overlays in the document
  dismissers,  \* the overlays whose keyup handler is bound
  exits        \* the closing animations under way, oldest first

modalVars == <<stack, lastID, modal, overlays, dismissers, exits>>

NoOverlay == 0

ModalInit ==
  /\ stack = 0 /\ lastID = 0
  /\ modal = [m \in Dialogs |-> [open |-> FALSE, shown |-> FALSE, overlay |-> NoOverlay, z |-> 0]]
  /\ overlays = {} /\ dismissers = {}
  /\ exits = << >>

\* openModal does nothing more to a dialog that is open.
OpenModalAgain(m) ==
  /\ Event
  /\ modal[m].open
  /\ scrolling' = FALSE
  /\ UNCHANGED modalVars

OpenModal(m) ==
  /\ Event
  /\ ~modal[m].open
  /\ scrolling' = FALSE
  /\ lastID' = lastID + 1
  /\ stack' = stack + 1
  /\ overlays' = overlays \cup {[id |-> lastID', of |-> m, z |-> stack']}
  /\ modal' = [modal EXCEPT ![m] = [open |-> TRUE, shown |-> TRUE, overlay |-> lastID', z |-> stack']]
  /\ dismissers' = dismissers \cup {lastID'}
  /\ UNCHANGED exits

\* closeModal for each of a sequence of dialogs.
CloseNoRemove(ms) ==
  /\ scrolling' = TRUE
  /\ modal' = [m \in Dialogs |-> [modal[m] EXCEPT !.open = @ /\ ~Contains(ms, m)]]
  /\ dismissers' = dismissers \ {modal[m].overlay : m \in ToSet(ms)}
  /\ exits' = exits \o [i \in 1..Len(ms) |-> [of |-> ms[i], overlay |-> NoOverlay]]
  /\ UNCHANGED <<stack, lastID, overlays>>

CloseModal(ms) ==
  /\ scrolling' = TRUE
  /\ modal' = [m \in Dialogs |-> [modal[m] EXCEPT !.open = @ /\ ~Contains(ms, m)]]
  /\ dismissers' = dismissers \ {modal[m].overlay : m \in ToSet(ms)}
  /\ exits' = exits \o [i \in 1..Len(ms) |-> [of |-> ms[i], overlay |-> modal[ms[i]].overlay]]
  /\ UNCHANGED <<stack, lastID, overlays>>

\* The method close, and the buttons inside a dialog: also of one that is closed.
CloseByMethod(m) == Event /\ CloseModal(<<m>>)

\* A click beside the dialogs meets the highest overlay, of two of one height the
\* one that came into the document last; one that fades still takes clicks.
TopOverlay(o) ==
  \A p \in overlays : p.z < o.z \/ (p.z = o.z /\ p.id <= o.id)

CloseByOverlay ==
  /\ Event
  /\ \E o \in overlays : TopOverlay(o) /\ CloseModal(<<o.of>>)

\* The dialogs escape closes, in the order their handlers were bound.
Dismissed ==
  LET of(id) == CHOOSE m \in Dialogs : modal[m].overlay = id
  IN  [i \in 1..Cardinality(dismissers) |-> of(InOrder(dismissers)[i])]

CloseByEscape == dismissers # {} /\ CloseModal(Dismissed)

ModalVisitor ==
  \/ \E m \in Dialogs : OpenModal(m) \/ OpenModalAgain(m) \/ CloseByMethod(m)
  \/ CloseByOverlay

\* complete of the oldest closing animation.
ExitModal ==
  /\ exits # << >>
  /\ LET exit == Head(exits) IN
       /\ modal' = [modal EXCEPT ![exit.of].shown = FALSE]
       /\ overlays' = {o \in overlays : o.id # exit.overlay}
  /\ stack' = stack - 1
  /\ exits' = Tail(exits)
  /\ UNCHANGED <<scrolling, events, lastID, dismissers>>

-------------------------------------------------------------------------------

ModalTypeOK ==
  /\ stack \in -MaxEvents..MaxEvents /\ lastID \in 0..MaxEvents
  /\ modal \in [Dialogs -> [open : BOOLEAN, shown : BOOLEAN, overlay : 0..lastID,
                            z : -MaxEvents..MaxEvents]]
  /\ overlays \subseteq [id : 1..lastID, of : Dialogs, z : -MaxEvents..MaxEvents]
  /\ dismissers = {modal[m].overlay : m \in {n \in Dialogs : modal[n].open}}
  /\ exits \in Seq([of : Dialogs, overlay : 0..lastID])

\* Every overlay lies under the dialog that is open on it or is on its way out:
\* none is left to cover the page, even if dialogs are closed twice, or opened
\* again while they close.
NoModalOverlayIsLeft ==
  \A o \in overlays :
    \/ modal[o.of].open /\ modal[o.of].overlay = o.id
    \/ \E i \in 1..Len(exits) : exits[i].overlay = o.id
===============================================================================
