SPECIFICATION Spec
CONSTANTS
  MaxEvents = 4
  Dialogs = {d1, d2}
  Headers = {h1, h2}
  Toasts = {t1}
  MaxTicks = 2
  SlideCount = 3
  ItemCount = 3
  Dim = 3
  Padding = 1
  NoWrap = FALSE
  Texts <- MCTexts
  Completions <- MCCompletions
  OptionCount = 3
  DisabledOptions = {2}
  Optgroup <- MCOptgroup
  MonthFirsts <- MCMonthFirsts
  Week = 3
  MondayFirst = FALSE
  Today = 2
  NoDate = NoDate
  NoLimit = NoLimit
  MaxShifts = 24
  YearsAround = 1
INVARIANTS TypeOK OverlaysAgree ControlsAgree InputsAgree DateIsSelectable
PROPERTIES EverythingPasses
CHECK_DEADLOCK FALSE
