------------------------------ MODULE DatePicker ------------------------------
(***************************************************************************)
(* The date picker of materialize.js: the picker that opens and closes     *)
(* (PickerConstructor) and the calendar in it (DatePicker).  A date that   *)
(* is set is shifted to one that is enabled, and what follows from it is   *)
(* set in a cascade: of the selected date the highlighted one, of that the *)
(* month in view.  A search for an enabled date that does not end is one   *)
(* in a handler: nothing happens on the page any more.  The class of the   *)
(* open picker is set by timers.                                           *)
(***************************************************************************)
EXTENDS PageEvents, Calendar

CONSTANTS
  Today,
  NoDate,      \* null: no date
  YearsAround  \* numberYears: the years to select before and after the one in view

ASSUME NoDateAssumption == NoDate \notin Int

\* The days the page names, and Today, are those of one year.
SomeDays == 0..(YearDays - 1)

ASSUME TodayAssumption == Today \in SomeDays /\ YearsAround \in Nat

VARIABLES
  open,        \* STATE.open
  inputActive, \* whether the input has the class active
  opened,      \* whether the root has the class opened
  ticks,       \* the timers that will set that class, or take it away
  pageLocked,  \* whether the overflow of html is hidden
  rules,       \* min, max, disable and enable of the calendar's item
  item         \* select, highlight and view; history: whether a search is endless

pickerVars == <<open, inputActive, opened, ticks, pageLocked, rules, item>>

\* calendar.set, of a highlight and of a selection.
SetHighlight(r, old, d, interval, nav) ==
  LET to == Validate(r, d, interval, nav)
  IN  IF ValidateEnds(r, d, interval, nav)
      THEN [old EXCEPT !.highlight = to, !.view = MonthOf(Validate(r, to, interval, nav))]
      ELSE [old EXCEPT !.endless = TRUE]

SetSelect(r, old, d) ==
  LET to == Validate(r, d, 1, FALSE)
  IN  IF ValidateEnds(r, d, 1, FALSE)
      THEN SetHighlight(r, [old EXCEPT !.select = to], to, 1, FALSE)
      ELSE [old EXCEPT !.endless = TRUE]

\* calendar.set, of a limit or of what is disabled: the dates are set anew if they are
\* disabled now.
HighlightAnew(r, old) ==
  IF ~old.endless /\ Disabled(r, old.highlight)
  THEN SetHighlight(r, old, old.highlight, 1, FALSE) ELSE old

KeepSelect(r) == rules' = r /\ item' = HighlightAnew(r, item)

SetRules(r) ==
  LET selected == IF item.select # NoDate /\ Disabled(r, item.select)
                  THEN SetSelect(r, item, item.select) ELSE item
  IN  rules' = r /\ item' = HighlightAnew(r, selected)

Unlimited == [min |-> NoLimit, max |-> NoLimit, items |-> {}, flipped |-> FALSE]

OfOneYear == [Unlimited EXCEPT !.min = 0, !.max = YearDays - 1]

PickerInit ==
  /\ open = FALSE /\ inputActive = FALSE /\ opened = FALSE
  /\ ticks = << >> /\ pageLocked = FALSE
  /\ \E r \in {Unlimited, OfOneYear}, some \in {{}, {WeekdayItem(1)}}, all \in BOOLEAN :
       rules = [r EXCEPT !.items = some, !.flipped = all]
  /\ item = SetHighlight(rules, [select |-> NoDate, highlight |-> Today,
                                 view |-> MonthOf(Today), endless |-> FALSE],
                         Today, 1, FALSE)

-------------------------------------------------------------------------------

\* open, which gives the root the focus, or not.
OpenPicker ==
  /\ Event
  /\ ~open
  /\ inputActive' = TRUE
  /\ ticks' = Append(ticks, TRUE)
  /\ \E focus \in BOOLEAN : open' = focus /\ pageLocked' = focus
  /\ UNCHANGED <<scrolling, opened, rules, item>>

\* close
ClosePicker ==
  /\ inputActive' = FALSE
  /\ ticks' = Append(ticks, FALSE)
  /\ open' = FALSE /\ pageLocked' = FALSE
  /\ UNCHANGED opened

\* By escape, a click elsewhere, the button of the picker or the method.
DismissPicker == Event /\ ClosePicker /\ UNCHANGED <<scrolling, rules, item>>

Tick ==
  /\ ~item.endless
  /\ ticks # << >>
  /\ opened' = Head(ticks)
  /\ ticks' = Tail(ticks)
  /\ UNCHANGED <<pageVars, open, inputActive, pageLocked, rules, item>>

ShownDisabled(d) == Disabled(rules, d) \/ BelowMin(rules, d) \/ AboveMax(rules, d)

\* A click on a day of the month in view, or near it, or on the button of today.
PickDay ==
  /\ Event
  /\ opened
  /\ \E d \in {Today} \cup MonthFirst(item.view - 1)..LastDay(item.view + 1) :
       /\ \/ MonthOf(d) \in (item.view - 1)..(item.view + 1) /\ ~ShownDisabled(d)
          \/ d = Today /\ open /\ ~Disabled(rules, d)
       /\ item' = SetSelect(rules, item, d)
  /\ UNCHANGED <<scrolling, open, inputActive, opened, ticks, pageLocked, rules>>

\* Enter selects what is highlighted and closes the picker.
PickHighlighted ==
  /\ Event
  /\ open
  /\ MonthOf(item.highlight) = item.view => ~ShownDisabled(item.highlight)
  /\ item' = SetSelect(rules, item, item.highlight)
  /\ IF item'.endless THEN UNCHANGED <<open, inputActive, opened, ticks, pageLocked>>
     ELSE ClosePicker
  /\ UNCHANGED <<scrolling, rules>>

\* The button clear, backspace and delete.
ClearDate ==
  /\ Event
  /\ item' = [item EXCEPT !.select = NoDate]
  /\ ClosePicker
  /\ UNCHANGED <<scrolling, rules>>

\* The arrow keys: a day or a week.
MoveHighlight ==
  /\ Event
  /\ open
  /\ \E by \in {1, -1, Week, -Week} :
       item' = SetHighlight(rules, item, item.highlight + by, by, FALSE)
  /\ UNCHANGED <<scrolling, open, inputActive, opened, ticks, pageLocked, rules>>

\* The buttons of the months: the month after, or before, the one in view.  They compare
\* its year with that of the limit, and its number in the year with that of the limit's.
LastInView(v) ==
  /\ rules.max # NoLimit
  /\ YearOf(v) >= YearOf(MonthOf(rules.max))
  /\ MonthInYear(v) >= MonthInYear(MonthOf(rules.max))

FirstInView(v) ==
  /\ rules.min # NoLimit
  /\ YearOf(v) <= YearOf(MonthOf(rules.min))
  /\ MonthInYear(v) <= MonthInYear(MonthOf(rules.min))

NavigateMonth ==
  LET own == MonthOf(item.highlight)
      from == IF MonthInYear(own) # MonthInYear(item.view) THEN item.view ELSE own
  IN  /\ Event
      /\ opened
      /\ \E nav \in {1, -1} :
           /\ ~IF nav = 1 THEN LastInView(item.view) ELSE FirstInView(item.view)
           /\ item' = SetHighlight(rules, item, Navigate(item.highlight, from + nav), 1, TRUE)
      /\ UNCHANGED <<scrolling, open, inputActive, opened, ticks, pageLocked, rules>>

\* The select of the months, of the year in view.
SelectMonth ==
  /\ Event
  /\ open
  /\ \E n \in (0..(YearMonths - 1)) \ {MonthInYear(item.view)} :
       LET month == YearMonths * YearOf(item.view) + n
       IN  /\ rules.min # NoLimit /\ YearOf(month) = YearOf(MonthOf(rules.min))
                => month >= MonthOf(rules.min)
           /\ rules.max # NoLimit /\ YearOf(month) = YearOf(MonthOf(rules.max))
                => month <= MonthOf(rules.max)
           /\ item' = SetHighlight(rules, item, Navigate(item.highlight, month), 1, FALSE)
  /\ UNCHANGED <<scrolling, open, inputActive, opened, ticks, pageLocked, rules>>

\* The select of the years: as many before the year in view as after it, but that a limit
\* leaves out on one side are added on the other, as far as the other limit allows.
YearsShown ==
  LET year == YearOf(item.view)
      missing == IF rules.min = NoLimit THEN 0
                 ELSE YearOf(MonthOf(rules.min)) - (year - YearsAround)
      lowest == year - YearsAround + (IF missing > 0 THEN missing ELSE 0)
      highest == year + YearsAround + (IF missing > 0 THEN missing ELSE 0)
      needed == IF rules.max = NoLimit THEN 0 ELSE highest - YearOf(MonthOf(rules.max))
      available == IF rules.min = NoLimit THEN needed ELSE lowest - YearOf(MonthOf(rules.min))
  IN  IF needed > 0
      THEN (lowest - (IF available > needed THEN needed ELSE available))..(highest - needed)
      ELSE lowest..highest

SelectYear ==
  /\ Event
  /\ open
  /\ \E year \in YearsShown \ {YearOf(item.view)} :
       LET month == YearMonths * year + MonthInYear(item.view)
       IN  item' = SetHighlight(rules, item, Navigate(item.highlight, month), 1, FALSE)
  /\ UNCHANGED <<scrolling, open, inputActive, opened, ticks, pageLocked, rules>>

\* The page sets a date, a limit, or what is disabled.
SetDate ==
  /\ Event
  /\ \E d \in SomeDays : item' = SetSelect(rules, item, d)
  /\ UNCHANGED <<scrolling, open, inputActive, opened, ticks, pageLocked, rules>>

\* What the page can make of the rules: another limit, a date or weekday disabled, a date
\* enabled, all of it flipped or begun anew.
RulesAfter(r) ==
  {[r EXCEPT !.min = limit] : limit \in SomeDays \cup {NoLimit}}
    \cup {[r EXCEPT !.max = limit] : limit \in SomeDays \cup {NoLimit}}
    \cup {[r EXCEPT !.items = Deactivated(r, new)] :
            new \in {DateItem(d, FALSE) : d \in SomeDays} \cup {WeekdayItem(v) : v \in 1..Week}}
    \cup {[r EXCEPT !.items = items] : items \in UNION {Activated(r, d) : d \in SomeDays}}
    \cup {[r EXCEPT !.flipped = ~@]}
    \cup {[r EXCEPT !.items = {}, !.flipped = all] : all \in BOOLEAN}

ChangeRules ==
  /\ Event
  /\ \E r \in RulesAfter(rules) : SetRules(r)
  /\ UNCHANGED <<scrolling, open, inputActive, opened, ticks, pageLocked>>

PickerVisitor ==
  /\ ~item.endless
  /\ \/ OpenPicker \/ DismissPicker \/ PickDay \/ PickHighlighted \/ ClearDate
     \/ MoveHighlight \/ NavigateMonth \/ SelectMonth \/ SelectYear \/ SetDate \/ ChangeRules

-------------------------------------------------------------------------------

PickerTypeOK ==
  /\ open \in BOOLEAN /\ inputActive \in BOOLEAN /\ opened \in BOOLEAN
  /\ ticks \in Seq(BOOLEAN) /\ pageLocked \in BOOLEAN
  /\ rules \in [min : SomeDays \cup {NoLimit}, max : SomeDays \cup {NoLimit},
                items : SUBSET [kind : {"date", "weekday"}, at : Int, inverted : BOOLEAN],
                flipped : BOOLEAN]
  /\ item \in [select : Int \cup {NoDate}, highlight : Int, view : Int, endless : BOOLEAN]

\* If any day within the limits is enabled, one of these is: what is disabled or enabled
\* by its date is a day the page names, and a week has all weekdays.
NearbyDays == (-Week)..(YearDays - 1 + Week)

SearchesEnd == ~item.endless

\* As long as a day within the limits is enabled the selected date is, whatever was
\* disabled, limited or flipped after it was chosen.  The search that sees to it ends,
\* unless there is no first or no last day that it could meet.
DateIsSelectable ==
  /\ SearchesEnd \/ rules.min = NoLimit \/ rules.max = NoLimit
  /\ /\ SearchesEnd
     /\ item.select # NoDate
     /\ \E d \in NearbyDays : ~BelowMin(rules, d) /\ ~AboveMax(rules, d) /\ ~Disabled(rules, d)
     => ~Disabled(rules, item.select)

\* The page is locked while the picker is open, and once the timers have ended the
\* picker is shown if its input is active.
PickerAgrees ==
  /\ pageLocked <=> open
  /\ open => inputActive
  /\ (IF ticks = << >> THEN opened ELSE Last(ticks)) <=> inputActive
===============================================================================
