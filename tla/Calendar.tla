------------------------------- MODULE Calendar -------------------------------
(***************************************************************************)
(* The dates of the date picker of materialize.js: which are disabled, and *)
(* to which one a date is shifted that is (DatePicker.prototype).  A date  *)
(* is a number, and so is a month; a year's months begin at MonthFirsts,   *)
(* all years are alike, and a week has Week days, so that a small calendar *)
(* has the edges of the real one, and no end either.                       *)
(***************************************************************************)
EXTENDS Integers, Sequences, FiniteSets

CONSTANTS
  MonthFirsts,    \* the first day of each month of a year, and of the year after it
  Week,           \* DAYS_IN_WEEK
  MondayFirst,    \* settings.firstDay
  NoLimit,        \* -Infinity of a min, Infinity of a max
  MaxShifts       \* bound: a search that goes on for more rounds goes on for ever

YearDays == MonthFirsts[Len(MonthFirsts)]

YearMonths == Len(MonthFirsts) - 1

ASSUME CalendarAssumption ==
  /\ MonthFirsts \in Seq(Nat) /\ Len(MonthFirsts) >= 2 /\ MonthFirsts[1] = 0
  /\ \A i \in 1..(Len(MonthFirsts) - 1) : MonthFirsts[i] < MonthFirsts[i + 1]
  /\ Week \in Nat \ {0} /\ MondayFirst \in BOOLEAN
  /\ NoLimit \notin Int
  /\ MaxShifts \in Nat /\ MaxShifts >= 3 * YearDays

MonthOf(d) ==
  YearMonths * (d \div YearDays)
    + Cardinality({m \in 1..YearMonths : MonthFirsts[m] <= d % YearDays}) - 1

YearOf(m) == m \div YearMonths

MonthInYear(m) == m % YearMonths

MonthFirst(m) == YearDays * YearOf(m) + MonthFirsts[MonthInYear(m) + 1]

LastDay(m) == MonthFirst(m + 1) - 1

\* navigate: the date moves into a month, towards its end if that is too short.
Navigate(d, m) ==
  LET date == MonthFirst(m) + (d - MonthFirst(MonthOf(d)))
  IN  IF date > LastDay(m) THEN LastDay(m) ELSE date

(***************************************************************************)
(* rules: the limits min and max, the items of disable, which are dates or *)
(* weekdays and may be inverted, and flipped for enable = -1.              *)
(***************************************************************************)
SameWeekday(v, d) == d % Week = (IF MondayFirst THEN v ELSE v - 1) % Week

DateItem(d, inverted) == [kind |-> "date", at |-> d, inverted |-> inverted]

WeekdayItem(v) == [kind |-> "weekday", at |-> v, inverted |-> FALSE]

Matching(rules, d) ==
  {i \in rules.items : IF i.kind = "date" THEN i.at = d ELSE SameWeekday(i.at, d)}

BelowMin(rules, d) == rules.min # NoLimit /\ d < rules.min

AboveMax(rules, d) == rules.max # NoLimit /\ d > rules.max

\* disabled: a flipped calendar does not look at its limits.
Disabled(rules, d) ==
  LET match == Matching(rules, d) # {} /\ \A i \in Matching(rules, d) : ~i.inverted
  IN  IF rules.flipped THEN ~match ELSE match \/ BelowMin(rules, d) \/ AboveMax(rules, d)

\* deactivate, of a date or weekday: one that is there already is not added, an
\* inverted date neither.
Deactivated(rules, item) ==
  IF \E i \in rules.items : i.kind = item.kind /\ i.at = item.at
  THEN rules.items
  ELSE rules.items \cup {item}

\* isDateOverlap of a weekday and a date: not quite as disabled compares them.
Overlaps(v, d) == (v % Week) + (IF MondayFirst THEN 1 ELSE 0) = (d % Week) + 1

\* activate, of a date: what equals it is removed, if the first of the items it meets
\* does; where it meets a weekday it is added as an exception.
Activated(rules, d) ==
  LET exact == {i \in rules.items : i.kind = "date" /\ i.at = d}
      met == {i \in rules.items : i.kind = "weekday" /\ Overlaps(i.at, d)}
  IN  CASE exact # {} /\ met = {} -> {rules.items \ exact}
        [] exact = {} /\ met # {} -> {rules.items \cup {DateItem(d, TRUE)}}
        [] exact # {} /\ met # {} ->
             {rules.items \ (exact \cup met), (rules.items \ exact) \cup {DateItem(d, TRUE)}}
        [] OTHER -> {rules.items}

-------------------------------------------------------------------------------

Sign(n) == IF n > 0 THEN 1 ELSE -1

\* What the loop of validate does before it takes a step: a large interval that has
\* left the month begins anew with a small one, a limit turns the direction around.
TurnNever(rules, from, s) == s

Turn(rules, from, s) ==
  LET left == /\ s.by > 1 \/ s.by < -1
              /\ MonthInYear(MonthOf(s.at)) # MonthInYear(MonthOf(from))
      at == IF left THEN from ELSE s.at
      by == IF left THEN Sign(s.by) ELSE s.by
      low == rules.min # NoLimit /\ at <= rules.min
      high == rules.max # NoLimit /\ at >= rules.max
  IN  CASE low ->
             [s EXCEPT !.atMin = TRUE, !.by = 1,
                       !.at = IF at = rules.min THEN at ELSE rules.min - 1]
        [] ~low /\ high ->
             [s EXCEPT !.atMax = TRUE, !.by = -1,
                       !.at = IF at = rules.max THEN at ELSE rules.max + 1]
        [] OTHER -> [s EXCEPT !.at = at, !.by = by]

\* The loop ends at an enabled date, or when both limits were met.
Ended(rules, s) == ~Disabled(rules, s.at) \/ (s.atMin /\ s.atMax)

\* One round of it: where the second limit is met it is left at once.
Shift(rules, from, s) ==
  LET t == Turn(rules, from, s)
  IN  IF Ended(rules, s) THEN s
      ELSE IF t.atMin /\ t.atMax THEN t ELSE [t EXCEPT !.at = @ + t.by]

Searched(rules, from, interval) ==
  LET search[n \in 0..MaxShifts] ==
        IF n = 0 THEN [at |-> from, by |-> interval, atMin |-> FALSE, atMax |-> FALSE]
        ELSE Shift(rules, from, search[n - 1])
  IN  search[MaxShifts]

SearchEnds(rules, from, interval) == Ended(rules, Searched(rules, from, interval))

\* validate does not shift a date when months are navigated, nor in a flipped calendar
\* in which no weekday and no other date is enabled.
Weekdays(rules) == \E i \in rules.items : i.kind = "weekday"

DatesBefore(rules, d) == \E i \in rules.items : i.kind = "date" /\ i.at < d

DatesAfter(rules, d) == \E i \in rules.items : i.kind = "date" /\ i.at > d

IsShifted(rules, d, nav) ==
  /\ ~nav /\ Disabled(rules, d)
  /\ rules.flipped => Weekdays(rules) \/ DatesBefore(rules, d) \/ DatesAfter(rules, d)

Towards(rules, d, interval) ==
  IF /\ rules.flipped /\ ~Weekdays(rules)
     /\ (~DatesAfter(rules, d) /\ interval > 0) \/ (~DatesBefore(rules, d) /\ interval < 0)
  THEN -interval ELSE interval

\* validate, and whether it ends.
ValidateBelow(rules, d, interval, nav) == IF AboveMax(rules, d) THEN rules.max ELSE d

Validate(rules, d, interval, nav) ==
  IF IsShifted(rules, d, nav) THEN Searched(rules, d, Towards(rules, d, interval)).at ELSE d

ValidateEnds(rules, d, interval, nav) ==
  IsShifted(rules, d, nav) => SearchEnds(rules, d, Towards(rules, d, interval))
===============================================================================
