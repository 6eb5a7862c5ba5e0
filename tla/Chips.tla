--------------------------------- MODULE Chips ---------------------------------
(***************************************************************************)
(* The chips of materialize.js ($.fn.material_chip) with their input and   *)
(* its autocomplete ($.fn.autocomplete).  The chips are kept twice, as the *)
(* data of the page and as elements, which are matched by position; one    *)
(* keydown of enter passes the handler of the autocomplete and then the    *)
(* one that adds chips; what is completed is what the last keyup saw.      *)
(***************************************************************************)
EXTENDS PageEvents, FiniteSets

CONSTANTS
  Texts,       \* what may stand in the input
  Completions  \* for every text, the keys of data that hold it and more, in order

Empty == ""
Unset == "undefined"  \* no text

ASSUME ChipsAssumption ==
  /\ Empty \in Texts /\ Unset \notin Texts
  /\ Completions \in [Texts -> Seq(Texts \ {Empty})]

VARIABLES
  data,        \* $chips.data('chips')
  chips,       \* the elements of class chip
  selected,    \* the positions of those with the class selected
  focused,     \* whether the input has the focus
  text,        \* its value
  oldVal,      \* oldVal
  options,     \* the elements under autocomplete-content
  activeIndex  \* activeIndex

chipsVars == <<data, chips, selected, focused, text, oldVal, options, activeIndex>>

ChipsInit ==
  /\ data \in {SetToSeq(tags) : tags \in {some \in SUBSET (Texts \ {Empty}) : IsFiniteSet(some)}}
  /\ chips = data
  /\ selected = {} /\ focused = FALSE
  /\ text = Empty /\ oldVal = Unset
  /\ options = << >> /\ activeIndex = -1

\* removeAutocomplete
RemoveAutocomplete == options' = << >> /\ activeIndex' = -1 /\ oldVal' = Unset

\* addChip, if isValid.
IsValid(tag) == tag # Empty /\ ~Contains(data, tag)

AddAnyChip(tag) ==
  /\ data' = IF tag # Empty THEN Append(data, tag) ELSE data
  /\ chips' = IF tag # Empty THEN Append(chips, tag) ELSE chips

AddChip(tag) ==
  /\ data' = IF IsValid(tag) THEN Append(data, tag) ELSE data
  /\ chips' = IF IsValid(tag) THEN Append(chips, tag) ELSE chips

DeleteChip(i) == data' = RemoveAt(data, i) /\ chips' = RemoveAt(chips, i)

\* The handler of focus and keyup: unless the value is the one it saw last.
SearchAnew ==
  /\ options' = IF text = Empty THEN << >> ELSE Completions[text]
  /\ activeIndex' = -1
  /\ oldVal' = text

Search == IF oldVal = text THEN UNCHANGED <<options, activeIndex, oldVal>> ELSE SearchAnew

\* The input that gets the focus has none, or lost it to the same click.
TakeFocus == focused' = TRUE /\ selected' = {} /\ SearchAnew

FocusInput ==
  /\ Event
  /\ ~focused
  /\ TakeFocus
  /\ UNCHANGED <<scrolling, data, chips, text>>

BlurInput ==
  /\ Event
  /\ focused
  /\ focused' = FALSE
  /\ RemoveAutocomplete
  /\ UNCHANGED <<scrolling, data, chips, selected, text>>

\* A key changes the value; its keyup comes later, perhaps after the next keydown.
Type(t) ==
  /\ Event
  /\ focused
  /\ text' = t
  /\ UNCHANGED <<scrolling, data, chips, selected, focused, oldVal, options, activeIndex>>

KeyUp ==
  /\ focused
  /\ Search
  /\ UNCHANGED <<pageVars, data, chips, selected, focused, text>>

\* onAutocomplete, of enter on the active option or of a mousedown on one.
Complete(i) ==
  /\ AddChip(options[i])
  /\ text' = Empty
  /\ RemoveAutocomplete

\* The second handler of enter finds an empty value after a completion, and leaves the
\* key to the autocomplete as long as that has options.
Enter ==
  /\ Event
  /\ focused
  /\ \/ activeIndex >= 0 /\ Complete(activeIndex + 1)
     \/ /\ activeIndex < 0 /\ options = << >>
        /\ AddChip(text)
        /\ text' = Empty
        /\ UNCHANGED <<options, activeIndex, oldVal>>
  /\ UNCHANGED <<scrolling, selected, focused>>

\* The mouse takes the focus from the input, a touch does not.
ClickOption ==
  /\ Event
  /\ \E i \in 1..Len(options) : Complete(i)
  /\ focused' \in BOOLEAN
  /\ UNCHANGED <<scrolling, selected>>

\* The arrows up and down.
MoveActive(by) ==
  /\ Event
  /\ focused
  /\ activeIndex + by \in 0..(Len(options) - 1)
  /\ activeIndex' = activeIndex + by
  /\ UNCHANGED <<scrolling, data, chips, selected, focused, text, oldVal, options>>

\* Backspace, or left, in an empty input.
LeaveToChips ==
  /\ Event
  /\ focused /\ text = Empty /\ chips # << >>
  /\ selected' = selected \cup {Len(chips)}
  /\ focused' = FALSE
  /\ RemoveAutocomplete
  /\ UNCHANGED <<scrolling, data, chips, text>>

\* A click on a chip takes the focus from the input.
ClickChip(i) ==
  /\ Event
  /\ i \in 1..Len(chips)
  /\ selected' = {i} \ selected
  /\ focused' = FALSE
  /\ IF focused THEN RemoveAutocomplete ELSE UNCHANGED <<options, activeIndex, oldVal>>
  /\ UNCHANGED <<scrolling, data, chips, text>>

\* A click on its icon.
ClickClose(i) ==
  /\ Event
  /\ i \in 1..Len(chips)
  /\ DeleteChip(i)
  /\ TakeFocus
  /\ UNCHANGED <<scrolling, text>>

\* Backspace on the selected chip selects its neighbour.
DeleteSelected ==
  /\ Event
  /\ ~focused
  /\ \E i \in selected :
       /\ DeleteChip(i)
       /\ IF Len(chips) = 1
          THEN TakeFocus
          ELSE /\ selected' = {IF i < Len(chips) THEN i ELSE i - 1}
               /\ UNCHANGED <<focused, oldVal, options, activeIndex>>
  /\ UNCHANGED <<scrolling, text>>

\* The arrows left and right: right of the last chip is the input.
SelectNeighbour ==
  /\ Event
  /\ ~focused
  /\ \E i \in selected :
       \/ /\ i > 1
          /\ selected' = {i - 1}
          /\ UNCHANGED <<focused, oldVal, options, activeIndex>>
       \/ /\ i < Len(chips)
          /\ selected' = {i + 1}
          /\ UNCHANGED <<focused, oldVal, options, activeIndex>>
       \/ i = Len(chips) /\ TakeFocus
  /\ UNCHANGED <<scrolling, data, chips, text>>

ChipsVisitor ==
  \/ FocusInput \/ BlurInput \/ Enter \/ ClickOption \/ LeaveToChips
  \/ DeleteSelected \/ SelectNeighbour
  \/ \E t \in Texts : Type(t)
  \/ \E by \in {1, -1} : MoveActive(by)
  \/ \E i \in 1..(MaxEvents + 1) : ClickChip(i) \/ ClickClose(i)

-------------------------------------------------------------------------------

ChipsTypeOK ==
  /\ data \in Seq(Texts) /\ chips \in Seq(Texts)
  /\ selected \subseteq 1..Len(chips)
  /\ focused \in BOOLEAN
  /\ text \in Texts /\ oldVal \in Texts \cup {Unset}
  /\ options \in Seq(Texts)
  /\ activeIndex \in -1..(Len(options) - 1)

\* The chips are the data, each of them once and none of them empty, one of them at
\* most is selected, none while the visitor writes, and what the list offers
\* completes what was searched for.
ChipsAgree ==
  /\ chips = data
  /\ IsInjective(chips) /\ ~Contains(chips, Empty)
  /\ Cardinality(selected) <= (IF focused THEN 0 ELSE 1)
  /\ options # << >> => oldVal # Unset /\ options = Completions[oldVal]
===============================================================================
