------------------------------ MODULE FormSelect ------------------------------
(***************************************************************************)
(* The select of materialize.js ($.fn.material_select): an input and a     *)
(* list stand in for the select of the form, which stays hidden behind     *)
(* them.  What is chosen is kept in the select, as the order of the        *)
(* choices in a closure, and as classes and check boxes in the list; all   *)
(* of them are changed by toggling.  Options may be put into optgroups,    *)
(* each of which has an entry of its own in the list, its header.  The     *)
(* list is a dropdown, opened by focus and still visible while it fades.   *)
(***************************************************************************)
EXTENDS PageEvents, FiniteSets

CONSTANTS
  OptionCount,
  DisabledOptions,
  Optgroup  \* the optgroup of each option, or 0

FormOptions == 1..OptionCount

\* An optgroup holds options that follow one another.
ASSUME SelectAssumption ==
  /\ OptionCount \in Nat \ {0} /\ DisabledOptions \subseteq FormOptions
  /\ Optgroup \in [FormOptions -> Nat]
  /\ \A o, p, q \in FormOptions :
       /\ o < p /\ p < q
       /\ Optgroup[o] = Optgroup[q] /\ Optgroup[o] # 0
       => Optgroup[p] = Optgroup[o]

VARIABLES
  multiple,        \* multiple
  group,           \* the optgroups of this select: those of Optgroup, or none
  valuesSelected,  \* valuesSelected
  chosen,          \* the options that are selected
  lit,             \* the li with the class active
  checked,         \* those whose check box is checked
  highlighted,     \* the place of the li with the class selected, or 0
  listOpen,        \* "hidden", "shown" or "fading"
  optionsHover,    \* optionsHover
  misread          \* history: an option that was selected when the list was built was
                   \* looked for where it is not

choiceVars == <<valuesSelected, chosen, lit, checked, misread>>

selectVars == <<multiple, group, choiceVars, highlighted, listOpen, optionsHover>>

Enabled == FormOptions \ DisabledOptions

\* The first option of an optgroup; its header is the entry before it.
Opens(o) == group[o] # 0 /\ (o > 1 => group[o - 1] # group[o])

\* The places of the options and of the headers in the list.
EntryOf(o) == o + Cardinality({p \in 1..o : Opens(p)})

GroupHeaders == {EntryOf(o) - 1 : o \in {p \in FormOptions : Opens(p)}}

EntryCount == EntryOf(OptionCount)

\* $(this).index(): the place of an option among its siblings, which are the options of
\* its optgroup, or the options and optgroups of the select.
IndexIn(o) ==
  1 + Cardinality({p \in 1..(o - 1) :
                     IF group[o] # 0 THEN group[p] = group[o]
                     ELSE group[p] = 0 \/ Opens(p)})

\* What is known of the choice: in the closure, the select and the list.
Marks == [values |-> valuesSelected, chosen |-> chosen, lit |-> lit, checked |-> checked]

\* toggleEntryFromArray, on the closure, the select and the entries that are no headers.
ToggledPushes(r, i) ==
  [r EXCEPT !.values = Append(@, i), !.chosen = SymDiff(@, {i}), !.lit = SymDiff(@, {i})]

Toggled(r, i) ==
  LET notAdded == ~Contains(r.values, i)
      index == CHOOSE k \in 1..Len(r.values) : r.values[k] = i
  IN  [r EXCEPT !.values = IF notAdded THEN Append(@, i) ELSE RemoveAt(@, index),
                !.chosen = IF notAdded THEN @ \cup {i} ELSE @ \ {i},
                !.lit = SymDiff(@, {i})]

\* material_select adds an option that is selected: the index among its siblings is
\* taken for the one among all options, and for that among all entries of the list.
Added(r, o) ==
  [Toggled(r, IndexIn(o)) EXCEPT
     !.checked = @ \cup {p \in FormOptions : EntryOf(p) = IndexIn(o)}]

\* What it makes of the options that are selected then, one after the other.
Built(some) ==
  LET built[n \in 0..OptionCount] ==
        IF n = 0 THEN [values |-> << >>, chosen |-> some, lit |-> {}, checked |-> {}]
        ELSE IF multiple /\ n \in some \ DisabledOptions THEN Added(built[n - 1], n)
        ELSE built[n - 1]
  IN  built[OptionCount]

Misread(some) ==
  multiple /\ \E o \in some \ DisabledOptions : IndexIn(o) # o \/ EntryOf(o) # o

Selections == IF multiple THEN SUBSET FormOptions ELSE {{o} : o \in FormOptions}

SelectInit ==
  /\ multiple \in BOOLEAN
  /\ group \in {Optgroup, [o \in FormOptions |-> 0]}
  /\ \E some \in Selections :
       LET new == Built(some)
       IN  /\ valuesSelected = new.values /\ chosen = new.chosen
           /\ lit = new.lit /\ checked = new.checked
           /\ misread = Misread(some)
  /\ highlighted = 0 /\ listOpen = "hidden" /\ optionsHover = FALSE

CloseList == listOpen' = IF listOpen = "shown" THEN "fading" ELSE listOpen

\* A click on an option that is not disabled.
ChooseOption(o) ==
  /\ o \in Enabled
  /\ \/ /\ multiple
        /\ LET now == Toggled(Marks, o)
           IN  valuesSelected' = now.values /\ chosen' = now.chosen /\ lit' = now.lit
        /\ checked' = SymDiff(checked, {o})
     \/ ~multiple /\ chosen' = {o} /\ lit' = {o} /\ UNCHANGED <<valuesSelected, checked>>
  /\ highlighted' = EntryOf(o)

\* Of a single select the click takes the focus from the input.
ClickChoice(o) ==
  /\ Event
  /\ listOpen = "shown"
  /\ ChooseOption(o)
  /\ IF multiple THEN UNCHANGED listOpen ELSE CloseList
  /\ UNCHANGED <<scrolling, multiple, group, misread, optionsHover>>

\* The focus opens the list unless it is visible, at the entry with the text of the input:
\* that of the first choice, and as long as there is none the text of some option, or of
\* no entry.
FocusSelect ==
  /\ Event
  /\ listOpen = "hidden"
  /\ listOpen' = "shown"
  /\ highlighted' \in IF ~multiple THEN {EntryOf(o) : o \in chosen}
                      ELSE IF valuesSelected # << >> THEN {EntryOf(Head(valuesSelected))}
                      ELSE {highlighted} \cup {EntryOf(o) : o \in FormOptions}
  /\ UNCHANGED <<scrolling, multiple, group, choiceVars, optionsHover>>

BlurSelect ==
  /\ Event
  /\ IF multiple THEN UNCHANGED listOpen ELSE CloseList
  /\ highlighted' = 0
  /\ UNCHANGED <<scrolling, multiple, group, choiceVars, optionsHover>>

\* A click on the window closes the list of a multiple select, unless the pointer is
\* over it.
ClickWindow ==
  /\ Event
  /\ multiple /\ ~optionsHover
  /\ CloseList
  /\ UNCHANGED <<scrolling, multiple, group, choiceVars, highlighted,
                 optionsHover>>

\* So does one on the header of an optgroup, which stops no click on its way to the
\* document; the input loses the focus.
ClickOptgroup ==
  /\ Event
  /\ listOpen = "shown" /\ GroupHeaders # {}
  /\ CloseList
  /\ highlighted' = 0
  /\ UNCHANGED <<scrolling, multiple, group, choiceVars, optionsHover>>

HoverList ==
  /\ Event
  /\ listOpen # "hidden" \/ optionsHover
  /\ optionsHover' = ~optionsHover
  /\ UNCHANGED <<scrolling, multiple, group, choiceVars, highlighted,
                 listOpen>>

\* onKeyDown: tab and escape close, the arrow down opens.
KeyCloses ==
  /\ Event
  /\ CloseList
  /\ UNCHANGED <<scrolling, multiple, group, choiceVars, highlighted,
                 optionsHover>>

KeyOpens ==
  /\ Event
  /\ listOpen = "hidden"
  /\ listOpen' = "shown"
  /\ UNCHANGED <<scrolling, multiple, group, choiceVars, highlighted,
                 optionsHover>>

\* The arrows do not get past an option that is disabled; letters may highlight any
\* entry, also of a closed list.
KeyMoves ==
  LET entries == (1..EntryCount) \ {EntryOf(o) : o \in DisabledOptions}
  IN  /\ Event
      /\ \/ /\ listOpen # "hidden" /\ highlighted = 0
            /\ \E e \in entries : (\A f \in entries : e <= f) /\ highlighted' = e
         \/ /\ highlighted # 0
            /\ \E to \in entries :
                 /\ to = highlighted - 1 \/ (to = highlighted + 1 /\ listOpen # "hidden")
                 /\ highlighted' = to
         \/ highlighted' \in 1..EntryCount
      /\ UNCHANGED <<scrolling, multiple, group, choiceVars, listOpen,
                     optionsHover>>

\* Enter clicks on the highlighted entry, while the list is visible.
KeyEnter ==
  /\ Event
  /\ listOpen # "hidden"
  /\ \/ /\ \E o \in Enabled : highlighted = EntryOf(o) /\ ChooseOption(o)
        /\ IF multiple THEN UNCHANGED listOpen ELSE CloseList
     \/ /\ highlighted \in GroupHeaders
        /\ CloseList
        /\ UNCHANGED <<valuesSelected, chosen, lit, checked, highlighted>>
  /\ UNCHANGED <<scrolling, multiple, group, misread, optionsHover>>

\* The page selects options itself and calls material_select again.
Rebuild ==
  /\ Event
  /\ \E some \in Selections :
       LET new == Built(some)
       IN  /\ valuesSelected' = new.values /\ chosen' = new.chosen
           /\ lit' = new.lit /\ checked' = new.checked
           /\ misread' = Misread(some)
  /\ highlighted' = 0 /\ listOpen' = "hidden" /\ optionsHover' = FALSE
  /\ UNCHANGED <<scrolling, multiple, group>>

ListHidden ==
  /\ listOpen = "fading"
  /\ listOpen' = "hidden"
  /\ UNCHANGED <<pageVars, multiple, group, choiceVars, highlighted,
                 optionsHover>>

SelectVisitor ==
  \/ FocusSelect \/ BlurSelect \/ ClickWindow \/ ClickOptgroup \/ HoverList
  \/ KeyCloses \/ KeyOpens \/ KeyMoves \/ KeyEnter \/ Rebuild
  \/ \E o \in FormOptions : ClickChoice(o)

-------------------------------------------------------------------------------

SelectTypeOK ==
  /\ multiple \in BOOLEAN /\ group \in [FormOptions -> Nat]
  /\ valuesSelected \in Seq(FormOptions)
  /\ chosen \subseteq FormOptions /\ lit \subseteq FormOptions /\ checked \subseteq FormOptions
  /\ highlighted \in 0..EntryCount
  /\ listOpen \in {"hidden", "shown", "fading"}
  /\ optionsHover \in BOOLEAN /\ misread \in BOOLEAN

\* Every option that is selected is added, unless it is disabled, and so is no other: it
\* is in the closure, and its check box is checked if its entry is lit.
SelectionsAreAdded ==
  multiple => ToSet(valuesSelected) = chosen \ DisabledOptions /\ checked = lit

\* What the form will send is what the list shows: of a multiple select the entries that
\* are lit are those in the closure, each once, all of them are selected, and what is
\* selected besides is disabled and what is checked is lit; a single select has one
\* option and lights no other.  Only where an option in an optgroup, or after one, was
\* selected before the list was built, more may be selected and other boxes checked than
\* are lit.
SelectAgrees ==
  /\ multiple => /\ lit = ToSet(valuesSelected) /\ IsInjective(valuesSelected)
                 /\ lit \subseteq chosen
  /\ ~misread => SelectionsAreAdded
  /\ ~multiple => Cardinality(chosen) = 1 /\ lit \subseteq chosen
===============================================================================
