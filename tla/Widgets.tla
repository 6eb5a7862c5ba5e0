-------------------------------- MODULE Widgets --------------------------------
(***************************************************************************)
(* The widgets of materialize.js, the library the web client's page loads, *)
(* side by side on one page.  Those that cover the page (dialogs, menu and *)
(* enlarged image) share the style of its body and the key escape, and are *)
(* used together; every other one keeps its state to itself, so that a     *)
(* visitor who uses one of them shows all that it does.                    *)
(***************************************************************************)
EXTENDS
  Modals, SideNav, Materialbox,
  Collapsible, Dropdown, Hints, Slider, Carousel, Chips, FormSelect, DatePicker

VARIABLE used  \* what the visitor uses

Parts == {"overlays", "accordion", "dropdown", "hints", "slider", "carousel", "chips", "select",
          "picker"}

overlayVars == <<modalVars, navVars, boxVars>>

vars == <<pageVars, overlayVars, accordionVars, dropdownVars, hintVars, sliderVars,
          carouselVars, chipsVars, selectVars, pickerVars, used>>

Init ==
  /\ used \in Parts
  /\ PageInit
  /\ ModalInit /\ NavInit /\ BoxInit /\ HintInit
  /\ AccordionInit /\ (used # "accordion" => activeHeaders = {})
  /\ DropdownInit /\ (used # "dropdown" => ~hovered)
  /\ SliderInit /\ (used # "slider" => indicators = {0})
  /\ CarouselInit /\ (used # "carousel" => layout = "items")
  /\ ChipsInit /\ (used # "chips" => data = << >>)
  /\ SelectInit /\ (used # "select" => ~multiple /\ chosen = {1} /\ group = Optgroup)
  /\ PickerInit /\ (used # "picker" => rules = Unlimited)

\* The state of all the other parts stays as it is.
Only(part) ==
  /\ used = part
  /\ UNCHANGED used
  /\ part # "overlays" => UNCHANGED overlayVars
  /\ part # "accordion" => UNCHANGED accordionVars
  /\ part # "dropdown" => UNCHANGED dropdownVars
  /\ part # "hints" => UNCHANGED hintVars
  /\ part # "slider" => UNCHANGED sliderVars
  /\ part # "carousel" => UNCHANGED carouselVars
  /\ part # "chips" => UNCHANGED chipsVars
  /\ part # "select" => UNCHANGED selectVars
  /\ part # "picker" => UNCHANGED pickerVars

-------------------------------------------------------------------------------

\* Escape reaches the handlers of the dialogs and of the image.
Escape ==
  /\ Event
  /\ \/ CloseByEscape /\ ~(doneAnimating /\ overlayActive) /\ UNCHANGED boxVars
     \/ dismissers = {} /\ BoxEscape /\ UNCHANGED <<scrolling, modalVars>>
     \/ CloseByEscape /\ BoxEscape
  /\ UNCHANGED navVars

OverlayVisitor ==
  \/ ModalVisitor /\ UNCHANGED <<navVars, boxVars>>
  \/ NavVisitor /\ UNCHANGED <<modalVars, boxVars>>
  \/ BoxVisitor /\ UNCHANGED <<modalVars, navVars>>
  \/ Escape

OverlayAnimation ==
  \/ ExitModal /\ UNCHANGED <<navVars, boxVars>>
  \/ NavAnimation /\ UNCHANGED <<modalVars, boxVars>>
  \/ BoxAnimation /\ UNCHANGED <<modalVars, navVars>>

Next ==
  \/ Only("overlays") /\ (OverlayVisitor \/ OverlayAnimation)
  \/ Only("accordion") /\ (AccordionVisitor \/ AccordionAnimation)
  \/ Only("dropdown") /\ (DropdownVisitor \/ DropdownTimers)
  \/ Only("hints") /\ (HintVisitor \/ HintTimers)
  \/ Only("slider") /\ (SliderVisitor \/ SliderTouch)
  \/ Only("carousel") /\ (CarouselVisitor \/ CarouselFrames)
  \/ Only("chips") /\ (ChipsVisitor \/ KeyUp)
  \/ Only("select") /\ (SelectVisitor \/ ListHidden)
  \/ Only("picker") /\ (PickerVisitor \/ Tick)

\* Every animation ends, every timer fires, and whoever touches lets go; nobody has to
\* do anything more.
Fairness ==
  /\ WF_vars(Only("overlays") /\ ExitModal /\ UNCHANGED <<navVars, boxVars>>)
  /\ WF_vars(Only("overlays") /\ NavAnimation /\ UNCHANGED <<modalVars, boxVars>>)
  /\ WF_vars(Only("overlays") /\ BoxAnimation /\ UNCHANGED <<modalVars, navVars>>)
  /\ WF_vars(Only("accordion") /\ AccordionAnimation)
  /\ WF_vars(Only("dropdown") /\ BindDocument)
  /\ WF_vars(Only("dropdown") /\ FadedOut)
  /\ WF_vars(Only("hints") /\ (ShowTooltip \/ AnimateBack \/ TipHidden))
  /\ \A t \in Toasts :
       /\ WF_vars(Only("hints") /\ Count(t))
       /\ WF_vars(Only("hints") /\ PanToastEnd(t))
       /\ WF_vars(Only("hints") /\ ToastOut(t))
  /\ WF_vars(Only("carousel") /\ Release)
  /\ WF_vars(Only("carousel") /\ AutoScrolls)

Spec == Init /\ [][Next]_vars /\ Fairness

-------------------------------------------------------------------------------

TypeOK ==
  /\ PageTypeOK /\ used \in Parts
  /\ ModalTypeOK /\ NavTypeOK /\ BoxTypeOK
  /\ AccordionTypeOK /\ DropdownTypeOK /\ HintTypeOK /\ SliderTypeOK /\ CarouselTypeOK
  /\ ChipsTypeOK /\ SelectTypeOK /\ PickerTypeOK

\* The body is locked only while something lies over the page that will unlock it: an
\* open dialog, a menu that is out or on its way, or a touch.
PageScrollsAgain ==
  ~scrolling => menuOut \/ touching \/ opening # {} \/ \E m \in Dialogs : modal[m].open

\* What lies over the page belongs to something that is open or on its way: every overlay
\* of a dialog, that of the image, and those of the menu but for the ones that were put
\* beside another ($.fn.modal, materialbox and sideNav); and so does a locked page.
OverlaysAgree == NoModalOverlayIsLeft /\ MenuAgrees /\ BoxAgrees /\ PageScrollsAgain

\* What a widget shows, what it remembers and what it told the page agree.
ControlsAgree ==
  AccordionAgrees /\ DropdownCanBeClosed /\ TipIsTakenBack /\ SliderAgrees /\ CarouselAgrees

\* What the visitor sees of an input is what the page gets from it.  (That the date is
\* one that may be selected is DateIsSelectable.)
InputsAgree == ChipsAgree /\ SelectAgrees /\ PickerAgrees

\* What comes up goes away again when the visitor leaves it alone: the overlays of
\* closed dialogs, the image that returns, tooltips, toasts, menus that fade, and a
\* carousel that was set in motion comes to rest.
EverythingPasses ==
  /\ \A m \in Dialogs : ~modal[m].open ~> ~modal[m].shown \/ modal[m].open
  /\ animation # "none" ~> animation = "none"
  /\ ~over ~> tip = "hidden" \/ over
  /\ \A t \in Toasts : toast[t].place = "shown" ~> toast[t].place = "gone"
  /\ menuShown = "fading" ~> menuShown # "fading"
  /\ lag # 0 ~> lag = 0
===============================================================================
